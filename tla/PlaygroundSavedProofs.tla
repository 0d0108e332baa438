----------------------- MODULE PlaygroundSavedProofs ------------------------
(***************************************************************************)
(* What the playground leaves on the server, when requests arrive and in   *)
(* order: the last save of a turn replaces its checkpoint, a conversation  *)
(* that was deleted does not come back, and a thread is saved under one    *)
(* name.                                                                   *)
(***************************************************************************)
EXTENDS PlaygroundProofs

-----------------------------------------------------------------------------
(* Threads *)

\* Only an answer is marked as being written.
TameMsg(m) == m.role = "user" => m.pending = FALSE

TameSeq(s) == \E S : s \in Seq(S) /\ \A m \in S : TameMsg(m)

\* A thread that can be saved for good: it does not end with a checkpoint.
Settled(s) == TameSeq(s) /\ ~LastPending(s)

\* The messages the page makes are tame.
LEMMA MadeTame ==
    /\ \A k, h : /\ TameMsg(Typed(k, h)) /\ Typed(k, h).pending = FALSE
                 /\ TameMsg(Hidden(h)) /\ Hidden(h).pending = FALSE /\ TameMsg(Note(h))
    /\ \A k, h, l, p : TameMsg(Msg("assistant", k, h, l, p)) /\ Msg("assistant", k, h, l, p).pending = p
  BY DEF TameMsg, Typed, Hidden, Note, Msg

\* An empty thread
LEMMA EmptyTame == Settled(<<>>)
<1> DEFINE e == <<>>
<1>1. e \in Seq({}) /\ ~(e # <<>>)
  OBVIOUS
<1> HIDE DEF e
<1>2. TameSeq(e) /\ ~LastPending(e)
  BY <1>1 DEF TameSeq, LastPending
<1> QED
  BY <1>2 DEF Settled, e

\* A message is added; if it is not being written the thread is settled.
LEMMA AppendTame ==
    ASSUME NEW s, TameSeq(s), NEW m, TameMsg(m)
    PROVE  TameSeq(Append(s, m)) /\ (m.pending = FALSE => Settled(Append(s, m)))
<1>1. PICK S : s \in Seq(S) /\ \A x \in S : TameMsg(x)
  BY DEF TameSeq
<1> DEFINE T == S \cup {m}
           a == Append(s, m)
<1>2. s \in Seq(T) /\ m \in T /\ \A x \in T : TameMsg(x)
  BY <1>1
<1> HIDE DEF T
<1>3. a \in Seq(T) /\ a # <<>> /\ a[Len(a)] = m
  BY <1>2
<1> HIDE DEF a
<1>4. TameSeq(a) /\ (m.pending = FALSE => Settled(a))
  BY <1>2, <1>3 DEF TameSeq, Settled, LastPending, LastOf
<1> QED
  BY <1>4 DEF a

\* The beginning of a thread
LEMMA CutTame ==
    ASSUME NEW s, TameSeq(s), NEW i \in DOMAIN s
    PROVE  TameSeq(SubSeq(s, 1, i - 1))
<1>1. PICK S : s \in Seq(S) /\ \A x \in S : TameMsg(x)
  BY DEF TameSeq
<1>2. SubSeq(s, 1, i - 1) \in Seq(S)
  BY <1>1
<1> QED
  BY <1>1, <1>2 DEF TameSeq

\* All but the last message of a thread
LEMMA FrontTame ==
    ASSUME NEW s, TameSeq(s), s # <<>>
    PROVE  TameSeq(Front(s))
<1>1. PICK S : s \in Seq(S) /\ \A x \in S : TameMsg(x)
  BY DEF TameSeq
<1>2. SubSeq(s, 1, Len(s) - 1) \in Seq(S)
  BY <1>1
<1> QED
  BY <1>1, <1>2 DEF TameSeq, Front

\* A thread that ends with the user is settled.
LEMMA UserLast ==
    ASSUME NEW s, TameSeq(s), s # <<>>, LastOf(s).role = "user"
    PROVE  Settled(s)
<1>1. PICK S : s \in Seq(S) /\ \A x \in S : TameMsg(x)
  BY DEF TameSeq
<1>2. s[Len(s)] \in S
  BY <1>1
<1> QED
  BY <1>1, <1>2 DEF Settled, LastPending, LastOf, TameMsg

\* The last message is replaced.
LEMMA ReplaceTame ==
    ASSUME NEW s, TameSeq(s), NEW m, TameMsg(m)
    PROVE  TameSeq(ReplaceLast(s, m))
<1>1. PICK S : s \in Seq(S) /\ \A x \in S : TameMsg(x)
  BY DEF TameSeq
<1> DEFINE T == S \cup {m}
           r == [s EXCEPT ![Len(s)] = m]
<1>2. s \in Seq(T) /\ m \in T /\ \A x \in T : TameMsg(x)
  BY <1>1
<1> HIDE DEF T
<1>3. s # <<>> => r \in Seq(T)
  <2>1. Len(s) \in Nat /\ s \in [1 .. Len(s) -> T]
    BY <1>2
  <2>2. r \in [1 .. Len(s) -> T]
    BY <1>2, <2>1
  <2> QED
    BY <2>1, <2>2
<1> HIDE DEF r
<1>4. s # <<>> => TameSeq(r)
  BY <1>2, <1>3 DEF TameSeq
<1> QED
  BY <1>4 DEF ReplaceLast, r

\* The messages that waited go out together.
LEMMA QueueTame ==
    ASSUME NEW s, TameSeq(s), NEW q, IsSeq(q), NEW h
    PROVE  LET z == s \o [j \in DOMAIN q |-> Typed(q[j], h)]
           IN  TameSeq(z) /\ (q # <<>> => Settled(z))
<1>1. PICK S : s \in Seq(S) /\ \A x \in S : TameMsg(x)
  BY DEF TameSeq
<1>2. PICK Q : q \in Seq(Q)
  BY DEF IsSeq
<1> DEFINE U == {Typed(x, h) : x \in Q}
           T == S \cup U
           t == [j \in DOMAIN q |-> Typed(q[j], h)]
           z == s \o t
<1>3. \A x \in T : TameMsg(x)
  BY <1>1, MadeTame
<1>4. t \in Seq(U) /\ Len(t) = Len(q) /\ \A j \in 1 .. Len(t) : t[j].pending = FALSE
  BY <1>2, MadeTame
<1>5. s \in Seq(T) /\ t \in Seq(T)
  BY <1>1, <1>4
<1>6. q # <<>> => Len(q) \in Nat /\ Len(q) > 0
  BY <1>2
<1> HIDE DEF T, U, t
<1>7. z \in Seq(T) /\ Len(z) = Len(s) + Len(t) /\ Len(s) \in Nat /\ Len(t) \in Nat
      /\ \A j \in 1 .. Len(t) : z[Len(s) + j] = t[j]
  BY <1>5
<1>8. q # <<>> => z # <<>> /\ z[Len(z)].pending = FALSE
  BY <1>4, <1>6, <1>7
<1> HIDE DEF z
<1>9. TameSeq(z) /\ (q # <<>> => Settled(z))
  BY <1>3, <1>7, <1>8 DEF TameSeq, Settled, LastPending, LastOf
<1> QED
  BY <1>9 DEF z, t

\* The queue stays a sequence.
LEMMA QueueSeq ==
    ASSUME NEW q, IsSeq(q)
    PROVE  /\ IsSeq(<<>>) /\ \A x : IsSeq(Append(q, x))
           /\ \A i \in DOMAIN q : /\ IsSeq(RemoveAt(q, i)) /\ IsSeq(<<q[i]>> \o RemoveAt(q, i))
                                  /\ <<q[i]>> \o RemoveAt(q, i) # <<>>
<1>1. IsSeq(<<>>)
  <2>1. <<>> \in Seq({})
    OBVIOUS
  <2> QED
    BY <2>1 DEF IsSeq
<1>2. \A x : IsSeq(Append(q, x))
  BY AppendIs
<1>3. ASSUME NEW i \in DOMAIN q
      PROVE  /\ IsSeq(RemoveAt(q, i)) /\ IsSeq(<<q[i]>> \o RemoveAt(q, i))
             /\ <<q[i]>> \o RemoveAt(q, i) # <<>>
  <2> DEFINE r == RemoveAt(q, i)
             h == <<q[i]>>
  <2>1. IsSeq(r)
    BY RemoveIs
  <2>2. PICK S : r \in Seq(S)
    BY <2>1 DEF IsSeq
  <2> DEFINE T == S \cup {q[i]}
  <2> HIDE DEF r
  <2>3. r \in Seq(T) /\ h \in Seq(T) /\ Len(h) = 1
    BY <2>2
  <2> HIDE DEF T, r, h
  <2>4. h \o r \in Seq(T) /\ Len(h \o r) = Len(h) + Len(r) /\ Len(r) \in Nat
    <3>1. h \in Seq(T) /\ r \in Seq(T)
      BY <2>3
    <3> QED
      BY ONLY <3>1
  <2>5. h \o r # <<>>
    BY <2>3, <2>4
  <2>6. IsSeq(h \o r)
    BY <2>4 DEF IsSeq
  <2> QED
    BY <2>1, <2>5, <2>6 DEF r, h
<1> QED
  BY <1>1, <1>2, <1>3

-----------------------------------------------------------------------------
(* What a page shows *)

\* Two pages that differ only in their stream, their timers and their promises
Shows(new, r) ==
    /\ r.messages = new.messages /\ r.currentId = new.currentId /\ r.queued = new.queued
    /\ r.list = new.list /\ r.tabs = new.tabs /\ r.tab = new.tab

\* No timer of the page is started.
Untimed(rec, r) == (r.armed => rec.armed) /\ (r.follow # 0 => rec.follow # 0)

\* The effects after a render change nothing of what is shown.
LEMMA EffectsShow ==
    ASSUME NEW old, NEW new, PageOK(new), NEW conv
    PROVE  /\ Shows(new, Adopted(old, new, conv))
           /\ Shows(new, Polling(Adopted(old, new, conv), conv))
<1> DEFINE z == [new EXCEPT !.follow = 0]
           w == [z EXCEPT !.abort = live, !.streaming = TRUE, !.follow = live]
           a == Adopted(old, new, conv)
<1>1. a = new \/ a = z \/ a = w
  BY DEF Adopted, Adopting
<1>2. DOMAIN new = PageFields
  BY DEF PageOK
<1>3. Shows(new, new) /\ Shows(new, z) /\ DOMAIN z = PageFields
  BY <1>2 DEF Shows, PageFields
<1> HIDE DEF z
<1>4. Shows(new, w) /\ DOMAIN w = PageFields
  BY <1>3 DEF Shows, PageFields
<1> HIDE DEF w
<1>5. Shows(new, a) /\ DOMAIN a = PageFields
  BY <1>1, <1>2, <1>3, <1>4
<1> HIDE DEF a
<1> DEFINE x == [a EXCEPT !.polls = MaxPolls, !.armed = FALSE]
           y == [a EXCEPT !.armed = FALSE]
           v == [a EXCEPT !.polls = @ - 1, !.armed = TRUE]
<1>6. Polling(a, conv) = x \/ Polling(a, conv) = y \/ Polling(a, conv) = v
  BY DEF Polling
<1>7. Shows(new, x) /\ Shows(new, y) /\ Shows(new, v)
  BY <1>5 DEF Shows, PageFields
<1> HIDE DEF x, y, v
<1>8. Shows(new, Polling(a, conv))
  BY <1>6, <1>7
<1> QED
  BY <1>5, <1>8 DEF a

\* A page is painted: on screen it shows the update, elsewhere nothing is left but its queue.
LEMMA PaintedShows ==
    ASSUME NEW p, NEW new, PageOK(new), NEW conv
    PROVE  /\ p = mount => Shows(new, Painted(p, new, conv))
           /\ p # mount => Painted(p, new, conv)
                             = Left(pg[p].currentId, new.queued, new.resumes, new.answerNow)
<1>1. p = mount => \/ Painted(p, new, conv) = Adopted(pg[p], new, conv)
                   \/ Painted(p, new, conv) = Polling(Adopted(pg[p], new, conv), conv)
  BY DEF Painted, Mounted, Rendered
<1>2. p # mount => Painted(p, new, conv) = Left(pg[p].currentId, new.queued, new.resumes, new.answerNow)
  BY DEF Painted, Mounted, Left
<1> QED
  BY <1>1, <1>2, EffectsShow

\* What is left of a page shows nothing.
LEMMA LeftShows ==
    ASSUME NEW c, NEW q, NEW k, NEW a
    PROVE  LET r == Left(c, q, k, a)
           IN  /\ r.messages = <<>> /\ r.currentId = c /\ r.queued = q /\ r.tab = 1
               /\ r.list = [d \in ConvId |-> NoEntry]
               /\ r.tabs = [i \in Tabs |-> IF i = 1 THEN EmptyTab ELSE NoTab]
<1> DEFINE L == [d \in ConvId |-> NoEntry]
           T == [i \in Tabs |-> IF i = 1 THEN EmptyTab ELSE NoTab]
           b == [FreshPage EXCEPT !.list = L, !.loaded = TRUE]
           r == [b EXCEPT !.currentId = c, !.queued = q, !.resumes = k, !.answerNow = a]
<1>1. /\ DOMAIN FreshPage = PageFields /\ FreshPage.messages = <<>> /\ FreshPage.tab = 1
      /\ FreshPage.tabs = T
  BY DEF FreshPage, PageFields
<1>2. b = Blank /\ r = Left(c, q, k, a)
  BY DEF Blank, Left
<1> HIDE DEF L, T
<1>3. DOMAIN b = PageFields /\ b.messages = <<>> /\ b.tab = 1 /\ b.tabs = T /\ b.list = L
  BY <1>1 DEF PageFields
<1> HIDE DEF b
<1>4. r.messages = <<>> /\ r.currentId = c /\ r.queued = q /\ r.tab = 1 /\ r.list = L /\ r.tabs = T
  BY <1>3 DEF PageFields
<1> QED
  BY <1>2, <1>4 DEF L, T

\* A tab is frozen, filled or emptied.
LEMMA TabShows ==
    ASSUME NEW rec, PageOK(rec), NEW i \in Tabs, NEW s
    PROVE  LET r == [rec EXCEPT !.tabs[i] = s]
           IN  /\ r.messages = rec.messages /\ r.currentId = rec.currentId /\ r.queued = rec.queued
               /\ r.list = rec.list /\ r.tab = rec.tab /\ Untimed(rec, r)
               /\ \A j \in Tabs : r.tabs[j] = IF j = i THEN s ELSE rec.tabs[j]
<1> DEFINE tb == [rec.tabs EXCEPT ![i] = s]
           r == [rec EXCEPT !.tabs = tb]
<1>1. \A j \in Tabs : tb[j] = IF j = i THEN s ELSE rec.tabs[j]
  BY DEF PageOK
<1>2. r = [rec EXCEPT !.tabs[i] = s]
  BY DEF PageOK, PageFields
<1> HIDE DEF tb
<1>3. /\ r.messages = rec.messages /\ r.currentId = rec.currentId /\ r.queued = rec.queued
      /\ r.list = rec.list /\ r.tab = rec.tab /\ r.tabs = tb /\ Untimed(rec, r)
  BY DEF PageOK, PageFields, Untimed
<1> HIDE DEF r
<1> QED
  BY <1>1, <1>2, <1>3

\* The thread of a tab comes on screen.
LEMMA RestoredShows ==
    ASSUME NEW rec, PageOK(rec), NEW i
    PROVE  LET r == Restored(rec, i)
           IN  /\ r.messages = rec.tabs[i].messages /\ r.currentId = rec.tabs[i].currentId
               /\ r.queued = <<>> /\ r.list = rec.list /\ r.tabs = rec.tabs /\ r.tab = i
               /\ Untimed(rec, r)
<1> DEFINE m == rec.tabs[i].messages
           c == rec.tabs[i].currentId
           h == rec.tabs[i].th
           r == [rec EXCEPT !.messages = m, !.currentId = c, !.th = h, !.editing = 0, !.queued = <<>>, !.tab = i]
<1>1. r = Restored(rec, i)
  BY DEF Restored
<1> HIDE DEF m, c, h
<1>2. /\ r.messages = m /\ r.currentId = c /\ r.queued = <<>>
      /\ r.list = rec.list /\ r.tabs = rec.tabs /\ r.tab = i /\ Untimed(rec, r)
  BY DEF PageOK, PageFields, Untimed
<1> HIDE DEF r
<1> QED
  BY <1>1, <1>2 DEF m, c

\* The active tab is renamed: its thread is as it was.
LEMMA RenamedTab ==
    ASSUME NEW rec, PageOK(rec), NEW i \in Tabs, NEW c
    PROVE  LET tb == [rec.tabs EXCEPT ![i].currentId = c]
           IN  /\ DOMAIN tb = Tabs
               /\ \A j \in Tabs : /\ tb[j].messages = rec.tabs[j].messages /\ tb[j].open = rec.tabs[j].open
                                  /\ tb[j].currentId = IF j = i THEN c ELSE rec.tabs[j].currentId
  BY DEF PageOK, TabOK

\* A conversation comes on screen.
LEMMA AppliedShows ==
    ASSUME NEW rec, PageOK(rec), NEW c, NEW msgs
    PROVE  LET r == Applied(rec, c, msgs)
           IN  /\ r.messages = msgs /\ r.currentId = c /\ r.queued = <<>> /\ r.list = rec.list
               /\ r.tab = rec.tab /\ Untimed(rec, r)
               /\ \A j \in Tabs : r.tabs[j].messages = rec.tabs[j].messages /\ r.tabs[j].open = rec.tabs[j].open
<1> DEFINE m == FromSaved(msgs)
           h == IF msgs = <<>> THEN rec.th ELSE msgs[1].th
           tb == [rec.tabs EXCEPT ![rec.tab].currentId = c]
           r == [rec EXCEPT !.messages = m, !.currentId = c, !.editing = 0, !.queued = <<>>,
                            !.th = h, !.tabs = tb]
<1>1. \A j \in Tabs : tb[j].messages = rec.tabs[j].messages /\ tb[j].open = rec.tabs[j].open
  BY DEF PageOK, TabOK
<1>2. r = Applied(rec, c, msgs)
  BY DEF Applied, PageOK, PageFields
<1>3. m = msgs
  BY DEF FromSaved
<1> HIDE DEF m, h, tb
<1>4. /\ r.messages = m /\ r.currentId = c /\ r.queued = <<>> /\ r.list = rec.list
      /\ r.tab = rec.tab /\ r.tabs = tb /\ Untimed(rec, r)
  BY DEF PageOK, PageFields, Untimed
<1> HIDE DEF r
<1> QED
  BY <1>1, <1>2, <1>3, <1>4

\* A conversation is put in the list, or taken out.
LEMMA ListShows ==
    ASSUME NEW rec, PageOK(rec), DOMAIN rec.list = ConvId, NEW c, NEW e
    PROVE  LET r == [rec EXCEPT !.list[c] = e]
           IN  /\ r.messages = rec.messages /\ r.currentId = rec.currentId /\ r.queued = rec.queued
               /\ r.tabs = rec.tabs /\ r.tab = rec.tab /\ DOMAIN r.list = ConvId /\ Untimed(rec, r)
               /\ \A d \in ConvId : r.list[d] = IF d = c THEN e ELSE rec.list[d]
<1> DEFINE l == [rec.list EXCEPT ![c] = e]
           r == [rec EXCEPT !.list = l]
<1>1. DOMAIN l = ConvId /\ \A d \in ConvId : l[d] = IF d = c THEN e ELSE rec.list[d]
  OBVIOUS
<1>2. r = [rec EXCEPT !.list[c] = e]
  BY DEF PageOK, PageFields
<1> HIDE DEF l
<1>3. /\ r.messages = rec.messages /\ r.currentId = rec.currentId /\ r.queued = rec.queued
      /\ r.tabs = rec.tabs /\ r.tab = rec.tab /\ r.list = l /\ Untimed(rec, r)
  BY DEF PageOK, PageFields, Untimed
<1> HIDE DEF r
<1> QED
  BY <1>1, <1>2, <1>3

\* runStream once the answer is there: the list has the conversation with its answer,
\* and the screen too if it still shows the thread.
Ended(n, r) ==
    LET old == pg[turns[n].page]
        c == ConvOf(n)
    IN  /\ r.tab = old.tab /\ r.queued = old.queued /\ DOMAIN r.list = ConvId /\ Untimed(old, r)
        /\ \A d \in ConvId : r.list[d] = IF d = c THEN [in |-> TRUE, msgs |-> Final(n), omitted |-> FALSE]
                                         ELSE old.list[d]
        /\ \/ SameThread(n) /\ r.messages = Final(n) /\ r.currentId = c
           \/ ~SameThread(n) /\ r.messages = old.messages /\ r.currentId = old.currentId
        /\ \A j \in Tabs : r.tabs[j].messages = old.tabs[j].messages /\ r.tabs[j].open = old.tabs[j].open

\* The page at the end of a turn
LEMMA EndedShows ==
    ASSUME Shapes, NEW n \in Running, DOMAIN pg[turns[n].page].list = ConvId
    PROVE  PageOK(EndedPage(n)) /\ Ended(n, EndedPage(n))
<1> DEFINE old == pg[turns[n].page]
           c == ConvOf(n)
           f == Final(n)
           tab == turns[n].tab
           entry == [in |-> TRUE, msgs |-> f, omitted |-> FALSE]
           rec == [old EXCEPT !.list[c] = entry]
           off == [rec EXCEPT !.streaming = FALSE, !.abort = 0]
           d == IF rec.tabs[tab].open THEN c ELSE off.tabs[tab].currentId
           tb == [off.tabs EXCEPT ![tab].currentId = d]
           on == [off EXCEPT !.messages = f, !.currentId = c, !.tabs[tab].currentId = d]
           on2 == [off EXCEPT !.messages = f, !.currentId = c, !.tabs = tb]
<1>1. PageOK(old) /\ tab \in Tabs /\ c \in Named /\ 0 \in 0 .. MaxTurns
  BY RunningIs, PlaygroundAssumption DEF Shapes
<1>2. EndedPage(n) = (IF SameThread(n) THEN on ELSE off)
  BY DEF EndedPage, Listed
<1>3. PageOK(EndedPage(n))
  BY EndedIs DEF Rests
<1> HIDE DEF old, c, f, tab, entry
<1>4. PageOK(rec)
  BY <1>1 DEF PageOK, PageFields
<1>5. /\ rec.messages = old.messages /\ rec.currentId = old.currentId /\ rec.queued = old.queued
      /\ rec.tabs = old.tabs /\ rec.tab = old.tab /\ DOMAIN rec.list = ConvId /\ Untimed(old, rec)
      /\ \A e \in ConvId : rec.list[e] = IF e = c THEN entry ELSE old.list[e]
  BY <1>1, ListShows DEF old
<1> HIDE DEF rec
<1>6. /\ PageOK(off) /\ off.messages = rec.messages /\ off.currentId = rec.currentId
      /\ off.queued = rec.queued /\ off.tabs = rec.tabs /\ off.tab = rec.tab /\ off.list = rec.list
      /\ off.armed = rec.armed /\ off.follow = rec.follow
  BY <1>1, <1>4 DEF PageOK, PageFields
<1> HIDE DEF off
<1>7. \A j \in Tabs : tb[j].messages = off.tabs[j].messages /\ tb[j].open = off.tabs[j].open
  BY <1>1, <1>6, RenamedTab
<1>8. on = on2
  BY <1>6 DEF PageOK, PageFields
<1> HIDE DEF d, tb
<1>9. /\ on2.messages = f /\ on2.currentId = c /\ on2.queued = off.queued /\ on2.tabs = tb
      /\ on2.tab = off.tab /\ on2.list = off.list
      /\ on2.armed = off.armed /\ on2.follow = off.follow
  BY <1>6 DEF PageOK, PageFields
<1> HIDE DEF on, on2
<1>10. CASE SameThread(n)
  <2>1. EndedPage(n) = on2
    BY <1>2, <1>8, <1>10
  <2>2. /\ EndedPage(n).messages = f /\ EndedPage(n).currentId = c
        /\ EndedPage(n).tabs = tb /\ off.tabs = old.tabs
    BY <1>5, <1>6, <1>9, <2>1
  <2>3. /\ EndedPage(n).queued = old.queued /\ EndedPage(n).tab = old.tab
        /\ EndedPage(n).list = rec.list /\ Untimed(old, EndedPage(n))
    BY <1>5, <1>6, <1>9, <2>1 DEF Untimed
  <2> QED
    BY <1>3, <1>5, <1>7, <1>10, <2>2, <2>3 DEF Ended, old, c, f, entry
<1>11. CASE ~SameThread(n)
  <2>1. EndedPage(n) = off
    BY <1>2, <1>11
  <2>2. /\ EndedPage(n).messages = old.messages /\ EndedPage(n).currentId = old.currentId
        /\ EndedPage(n).tabs = old.tabs
    BY <1>5, <1>6, <2>1
  <2>3. /\ EndedPage(n).queued = old.queued /\ EndedPage(n).tab = old.tab
        /\ EndedPage(n).list = rec.list /\ Untimed(old, EndedPage(n))
    BY <1>5, <1>6, <2>1 DEF Untimed
  <2> QED
    BY <1>3, <1>5, <1>11, <2>2, <2>3 DEF Ended, old, c, f, entry
<1> QED
  BY <1>10, <1>11

\* The page after the turn, and the thread of its continuation
LEMMA FollowShows ==
    ASSUME Shapes, NEW n \in Running, NEW how
    PROVE  LET f == Follow(n, how)
               rec == EndedPage(n)
           IN  /\ f.rec.messages = rec.messages /\ f.rec.currentId = rec.currentId
               /\ f.rec.list = rec.list /\ f.rec.tabs = rec.tabs /\ f.rec.tab = rec.tab
               /\ f.rec.queued = rec.queued \/ f.rec.queued = <<>>
               /\ Untimed(rec, f.rec)
               /\ f.ask.cid = turns[n].cid /\ f.ask.th = turns[n].th
               /\ \/ f.ask.base = turns[n].base
                  \/ f.ask.base = Append(Final(n), Hidden(turns[n].th))
                  \/ /\ f.go => rec.queued # <<>>
                     /\ f.ask.base = Final(n) \o [j \in DOMAIN rec.queued |-> Typed(rec.queued[j], turns[n].th)]
<1> DEFINE rec == EndedPage(n)
           t == turns[n]
           more == [rec EXCEPT !.resumes = @ + 1]
           last == [rec EXCEPT !.resumes = 0, !.queued = <<>>]
           quick == [rec EXCEPT !.answerNow = FALSE]
           msgs == [j \in DOMAIN rec.queued |-> Typed(rec.queued[j], t.th)]
           f == Follow(n, how)
<1>1. DOMAIN rec = PageFields
  BY EndedIs DEF Rests, PageOK
<1>2. f.rec = quick \/ f.rec = rec \/ f.rec = more \/ f.rec = last
  BY DEF Follow
<1>3. \E b, v, e, a : f.ask = AskAgain(n, b, v, e, a) /\
         \/ b = t.base
         \/ b = Append(Final(n), Hidden(t.th))
         \/ (f.go => rec.queued # <<>>) /\ b = Final(n) \o msgs
  BY DEF Follow
<1>4. /\ f.ask.cid = t.cid /\ f.ask.th = t.th
      /\ \/ f.ask.base = t.base
         \/ f.ask.base = Append(Final(n), Hidden(t.th))
         \/ (f.go => rec.queued # <<>>) /\ f.ask.base = Final(n) \o msgs
  BY <1>3 DEF AskAgain
<1> HIDE DEF rec, f
<1>5. \A z \in {quick, rec, more, last} :
         /\ z.messages = rec.messages /\ z.currentId = rec.currentId
         /\ z.list = rec.list /\ z.tabs = rec.tabs /\ z.tab = rec.tab
         /\ z.queued = rec.queued \/ z.queued = <<>>
         /\ Untimed(rec, z)
  BY <1>1 DEF PageFields, Untimed
<1> HIDE DEF quick, more, last
<1> QED
  BY <1>2, <1>4, <1>5 DEF f, rec

-----------------------------------------------------------------------------
(* The invariant *)

\* A page whose threads, kept or shown, are tame
Tidy(r) ==
    /\ TameSeq(r.messages) /\ IsSeq(r.queued)
    /\ DOMAIN r.list = ConvId /\ \A c \in ConvId : TameSeq(r.list[c].msgs)
    /\ \A i \in Tabs : TameSeq(r.tabs[i].messages)

\* The timers of a page are about a conversation.
Aimed(r) == r.armed \/ r.follow # 0 => r.currentId # 0

\* Threads are tame wherever they are, and a turn was not asked on a checkpoint.
Threads ==
    /\ \A p \in Pages : Tidy(pg[p])
    /\ \A c \in ConvId : TameSeq(server[c])
    /\ \A i \in DOMAIN net : net[i].id \in ConvId /\ TameSeq(net[i].msgs)
    /\ \A n \in Running : Settled(turns[n].base)
    /\ titling = {} /\ \A r \in reads : r.id \in ConvId
    /\ OnPage => Aimed(P)

\* An answer to this conversation is being written.
Written(c) == \E n \in Running : turns[n].liveId = c

\* A checkpoint, sent or saved, is followed by another request of its conversation or
\* its answer is still being written.
Marked ==
    /\ \A i \in DOMAIN net : LastPending(net[i].msgs) =>
          (\E j \in DOMAIN net : j > i /\ net[j].id = net[i].id) \/ Written(net[i].id)
    /\ \A c \in ConvId : LastPending(server[c]) => (\E j \in DOMAIN net : net[j].id = c) \/ Written(c)

-----------------------------------------------------------------------------
(* Threads stay tame *)

\* An entry and a snapshot without messages
LEMMA NothingTame ==
    /\ TameSeq(<<>>) /\ TameSeq(NoEntry.msgs) /\ TameSeq(EmptyTab.messages) /\ TameSeq(NoTab.messages)
<1>1. NoEntry.msgs = <<>> /\ EmptyTab.messages = <<>> /\ NoTab.messages = <<>>
  BY DEF NoEntry, EmptyTab, NoTab, Snapshot
<1> QED
  BY <1>1, EmptyTame DEF Settled

\* What the effects make of a tidy page, and what is left of it
LEMMA TidyPaints ==
    ASSUME NEW p, NEW new, PageOK(new), Tidy(new), NEW conv
    PROVE  /\ Tidy(Painted(p, new, conv))
           /\ Tidy(Polling(Adopted(P, new, conv), conv))
<1>1. \A r : Shows(new, r) => Tidy(r)
  BY DEF Shows, Tidy
<1>2. Tidy(Polling(Adopted(P, new, conv), conv))
  BY <1>1, EffectsShow
<1>3. CASE p = mount
  BY <1>1, <1>2, <1>3, PaintedShows
<1>4. CASE p # mount
  <2> DEFINE r == Left(pg[p].currentId, new.queued, new.resumes, new.answerNow)
  <2>1. /\ r.messages = <<>> /\ r.queued = new.queued
        /\ r.list = [d \in ConvId |-> NoEntry]
        /\ r.tabs = [i \in Tabs |-> IF i = 1 THEN EmptyTab ELSE NoTab]
    BY LeftShows
  <2>2. Painted(p, new, conv) = r
    BY <1>4, PaintedShows
  <2> HIDE DEF r
  <2>3. IsSeq(r.queued) /\ TameSeq(r.messages)
    BY <2>1, NothingTame DEF Tidy
  <2>4. DOMAIN r.list = ConvId /\ \A c \in ConvId : TameSeq(r.list[c].msgs)
    BY <2>1, NothingTame
  <2>5. \A i \in Tabs : TameSeq(r.tabs[i].messages)
    BY <2>1, NothingTame
  <2>6. Tidy(r)
    BY <2>3, <2>4, <2>5 DEF Tidy
  <2> QED
    BY <1>2, <2>2, <2>6
<1> QED
  BY <1>3, <1>4

\* A page that was just mounted
LEMMA FreshTidy == Tidy(FreshPage)
<1> DEFINE l == [c \in ConvId |->
                 IF "omits" \in mode /\ server[c] # <<>>
                 THEN [in |-> TRUE, msgs |-> <<>>, omitted |-> TRUE] ELSE NoEntry]
<1>1. /\ FreshPage.messages = <<>> /\ FreshPage.queued = <<>> /\ FreshPage.list = l
      /\ FreshPage.tabs = [i \in Tabs |-> IF i = 1 THEN EmptyTab ELSE NoTab]
  BY DEF FreshPage
<1>2. \A c \in ConvId : l[c].msgs = <<>>
  BY DEF NoEntry
<1>3. DOMAIN l = ConvId
  OBVIOUS
<1> HIDE DEF l
<1>4. TameSeq(FreshPage.messages) /\ IsSeq(FreshPage.queued)
  BY <1>1, NothingTame DEF TameSeq, IsSeq
<1>5. DOMAIN FreshPage.list = ConvId /\ \A c \in ConvId : TameSeq(FreshPage.list[c].msgs)
  BY <1>1, <1>2, <1>3, NothingTame
<1>6. \A i \in Tabs : TameSeq(FreshPage.tabs[i].messages)
  BY <1>1, NothingTame
<1> QED
  BY <1>4, <1>5, <1>6 DEF Tidy

\* The requests
LEMMA RequestIs ==
    \A id, m, w : /\ SaveRequest(id, m, w).id = id /\ SaveRequest(id, m, w).msgs = m
                  /\ SaveRequest(id, m, w).op = "save"
                  /\ DeleteRequest(id).id = id /\ DeleteRequest(id).msgs = <<>>
                  /\ DeleteRequest(id).op = "delete"
  BY DEF SaveRequest, DeleteRequest, Saved

\* A request that leaves is the last one.
LEMMA LastRequest ==
    ASSUME NEW s, IsSeq(s), NEW x
    PROVE  /\ DOMAIN s = 1 .. Len(s) /\ Len(s) \in Nat
           /\ DOMAIN Append(s, x) = 1 .. (Len(s) + 1)
           /\ \A i \in 1 .. (Len(s) + 1) : Append(s, x)[i] = IF i = Len(s) + 1 THEN x ELSE s[i]
<1>1. PICK S : s \in Seq(S)
  BY DEF IsSeq
<1> QED
  BY <1>1

\* A step that changes one page
LEMMA ThreadsStep ==
    ASSUME Threads, Shapes, NEW p \in Pages, NEW r, Tidy(r),
           pg' = [pg EXCEPT ![p] = r] \/ (pg' = pg /\ r = pg[p]),
           server' = server, titling' = titling, IsSeq(net),
           net' = net \/ \E x : x.id \in ConvId /\ TameSeq(x.msgs) /\ net' = Append(net, x),
           \A n \in Running' : Settled(turns'[n].base),
           mount' = mount, p = mount => Aimed(r), \A q \in reads' : q.id \in ConvId
    PROVE  Threads'
<1>1. \A q \in Pages : Tidy(pg'[q])
  BY DEF Threads, Shapes
<1>2. (\A q \in Pages : Tidy(pg[q]))'
  BY <1>1 DEF Tidy, Pages, Tabs, ConvId, Old
<1>3. \A i \in DOMAIN net' : net'[i].id \in ConvId /\ TameSeq(net'[i].msgs)
  <2>1. CASE net' = net
    BY <2>1 DEF Threads
  <2>2. CASE \E x : x.id \in ConvId /\ TameSeq(x.msgs) /\ net' = Append(net, x)
    <3>1. PICK x : x.id \in ConvId /\ TameSeq(x.msgs) /\ net' = Append(net, x)
      BY <2>2
    <3>2. \A i \in DOMAIN net' : (i \in DOMAIN net /\ net'[i] = net[i]) \/ net'[i] = x
      BY <3>1, LastRequest
    <3> QED
      BY <3>1, <3>2 DEF Threads
  <2> QED
    BY <2>1, <2>2
<1>4. (\A c \in ConvId : TameSeq(server[c]))' /\ titling' = {}
  BY DEF Threads, ConvId, Old
<1>5. (\A i \in DOMAIN net : net[i].id \in ConvId /\ TameSeq(net[i].msgs))'
  BY <1>3 DEF ConvId, Old
<1>6. (\A q \in reads : q.id \in ConvId)'
  BY DEF ConvId, Old
<1>7. (OnPage => Aimed(P))'
  <2>1. CASE p = mount
    BY <2>1 DEF P, Shapes
  <2>2. CASE p # mount /\ OnPage
    <3>1. mount \in Pages
      BY <2>2, OnScreen
    <3>2. P' = P
      BY <2>2, <3>1 DEF P, Shapes
    <3> QED
      BY <2>2, <3>2 DEF Threads, Aimed
  <2> QED
    BY <2>1, <2>2 DEF OnPage
<1> QED
  BY <1>2, <1>4, <1>5, <1>6, <1>7 DEF Threads

\* The effects start a timer only for a conversation.
LEMMA AimedPaints ==
    ASSUME NEW new, PageOK(new), PageOK(P), Aimed(P), Untimed(P, new), NEW conv
    PROVE  /\ Aimed(Painted(mount, new, conv))
           /\ Aimed(Polling(Adopted(P, new, conv), conv))
<1> DEFINE z == [new EXCEPT !.follow = 0]
           w == [z EXCEPT !.abort = live, !.streaming = TRUE, !.follow = live]
           a == Adopted(P, new, conv)
<1>1. DOMAIN new = PageFields
  BY DEF PageOK
<1>2. \/ a = new /\ new.currentId = P.currentId
      \/ a = Adopting(z, conv)
  BY DEF Adopted
<1>3. DOMAIN z = PageFields /\ z.follow = 0 /\ z.currentId = new.currentId /\ z.armed = new.armed
  BY <1>1 DEF PageFields
<1> HIDE DEF z
<1>4. DOMAIN w = PageFields /\ w.currentId = z.currentId /\ w.armed = z.armed
  BY <1>3 DEF PageFields
<1>5. Adopting(z, conv) = z \/ (Adopting(z, conv) = w /\ z.currentId # 0)
  BY DEF Adopting
<1> HIDE DEF w
<1>6. /\ DOMAIN a = PageFields /\ a.currentId = new.currentId /\ (a.follow # 0 => a.currentId # 0)
      /\ a.armed = new.armed
  BY <1>1, <1>2, <1>3, <1>4, <1>5 DEF Aimed, Untimed
<1> HIDE DEF a
<1> DEFINE x == [a EXCEPT !.polls = MaxPolls, !.armed = FALSE]
           y == [a EXCEPT !.armed = FALSE]
           v == [a EXCEPT !.polls = @ - 1, !.armed = TRUE]
<1>7. \/ Polling(a, conv) = x \/ Polling(a, conv) = y \/ (Polling(a, conv) = v /\ a.currentId # 0)
  BY DEF Polling
<1>8. /\ x.armed = FALSE /\ x.follow = a.follow /\ x.currentId = a.currentId
      /\ y.armed = FALSE /\ y.follow = a.follow /\ y.currentId = a.currentId
      /\ v.follow = a.follow /\ v.currentId = a.currentId
  BY <1>6 DEF PageFields
<1> HIDE DEF x, y, v
<1>9. Aimed(Polling(a, conv))
  BY <1>6, <1>7, <1>8 DEF Aimed
<1>10. \/ Painted(mount, new, conv) = Polling(a, conv)
       \/ Painted(mount, new, conv) = a /\ new.currentId = P.currentId
  BY DEF Painted, Mounted, Rendered, P, a
<1>11. new.currentId = P.currentId => Aimed(a)
  BY <1>6 DEF Aimed, Untimed
<1> QED
  BY <1>9, <1>10, <1>11 DEF a

\* A page in which one field changed
LEMMA FieldTidy ==
    ASSUME NEW rec, PageOK(rec), Tidy(rec), NEW r, PageOK(r),
           Shows(rec, r) \/ (r.messages = rec.messages /\ IsSeq(r.queued) /\ r.list = rec.list /\ r.tabs = rec.tabs)
           \/ (TameSeq(r.messages) /\ r.queued = rec.queued /\ r.list = rec.list /\ r.tabs = rec.tabs)
    PROVE  Tidy(r)
  BY DEF Tidy, Shows

\* The page on screen is painted, and stays tidy.
Tidies ==
    OnPage /\ \E new : PageOK(new) /\ Tidy(new) /\ Untimed(P, new) /\ (Paint(new) \/ Repaint(new))

\* The page on screen
LEMMA TidyP ==
    ASSUME Core, Threads, OnPage
    PROVE  Calm(P) /\ PageOK(P) /\ Tidy(P) /\ mount \in Pages /\ Shapes
  BY OnScreen, CalmP DEF Core, Threads, P

\* switchTab, newTab, closeTab
LEMMA TidyTabs ==
    ASSUME Core, Threads, NEW i \in Tabs, switchTab(i) \/ newTab(i) \/ closeTab(i)
    PROVE  Tidies
<1>1. OnPage
  BY DEF switchTab, newTab, closeTab
<1>2. Calm(P) /\ PageOK(P) /\ Tidy(P) /\ P.tab \in Tabs
  BY <1>1, TidyP DEF PageOK
<1>3. TabOK(EmptyTab) /\ TabOK(NoTab)
  BY DEF TabOK, EmptyTab, NoTab, Snapshot, Named
<1>4. ASSUME NEW rec, Calm(rec), Tidy(rec), Untimed(P, rec),
             NEW j \in Tabs, NEW s, TabOK(s), TameSeq(s.messages)
      PROVE  LET r == [rec EXCEPT !.tabs[j] = s] IN Calm(r) /\ Tidy(r) /\ Untimed(P, r)
  <2> DEFINE r == [rec EXCEPT !.tabs[j] = s]
  <2>1. Calm(r)
    BY <1>4, TabSet
  <2>2. PageOK(rec)
    BY <1>4 DEF Calm
  <2>3. /\ r.messages = rec.messages /\ r.queued = rec.queued /\ r.list = rec.list /\ Untimed(rec, r)
        /\ \A k \in Tabs : r.tabs[k] = IF k = j THEN s ELSE rec.tabs[k]
    BY <2>2, TabShows
  <2> HIDE DEF r
  <2>4. Tidy(r) /\ Untimed(P, r)
    BY <1>4, <2>3 DEF Tidy, Untimed
  <2> QED
    BY <2>1, <2>4 DEF r
<1>5. ASSUME NEW rec, Calm(rec), Tidy(rec), Untimed(P, rec), NEW j \in Tabs, Paint(Restored(rec, j))
      PROVE  Tidies
  <2> DEFINE r == Restored(rec, j)
  <2>1. PageOK(r) /\ PageOK(rec)
    BY <1>5, RestoredIs DEF Calm
  <2>2. /\ r.messages = rec.tabs[j].messages /\ r.queued = <<>> /\ r.list = rec.list /\ r.tabs = rec.tabs
        /\ Untimed(rec, r)
    BY <2>1, RestoredShows
  <2>3. Paint(r)
    BY <1>5
  <2> HIDE DEF r
  <2>4. IsSeq(r.queued)
    BY <2>2, NothingTame DEF TameSeq, IsSeq
  <2>5. Tidy(r) /\ Untimed(P, r)
    BY <1>5, <2>2, <2>4 DEF Tidy, Untimed
  <2> QED
    BY <1>1, <2>1, <2>3, <2>5 DEF Tidies
<1>6. Calm(Frozen(P)) /\ Tidy(Frozen(P)) /\ Untimed(P, Frozen(P))
  <2> DEFINE s == Snapshot(TRUE, P.messages, P.currentId, P.th)
  <2>1. TabOK(s) /\ s.messages = P.messages
    BY <1>2 DEF PageOK, TabOK, Snapshot
  <2> HIDE DEF s
  <2>2. TameSeq(s.messages)
    BY <1>2, <2>1 DEF Tidy
  <2>3. /\ Calm([P EXCEPT !.tabs[P.tab] = s]) /\ Tidy([P EXCEPT !.tabs[P.tab] = s])
        /\ Untimed(P, [P EXCEPT !.tabs[P.tab] = s])
    BY <1>2, <1>4, <2>1, <2>2 DEF Untimed
  <2> QED
    BY <2>3 DEF Frozen, s
<1>7. CASE switchTab(i)
  BY <1>5, <1>6, <1>7 DEF switchTab
<1>8. CASE newTab(i)
  <2> DEFINE z == [Frozen(P) EXCEPT !.tabs[i] = EmptyTab]
  <2>1. Calm(z) /\ Tidy(z) /\ Untimed(P, z)
    BY <1>3, <1>4, <1>6, NothingTame
  <2>2. Paint(Restored(z, i))
    BY <1>8 DEF newTab
  <2> HIDE DEF z
  <2> QED
    BY <1>5, <2>1, <2>2
<1>9. CASE closeTab(i)
  <2> DEFINE left == [P EXCEPT !.tabs[i] = NoTab]
             empty == [left EXCEPT !.tabs[i] = EmptyTab]
  <2>1. Calm(left) /\ Tidy(left) /\ Untimed(P, left)
    BY <1>2, <1>3, <1>4, NothingTame DEF Untimed
  <2>2. \/ Paint(left) \/ Paint(Restored(empty, i))
        \/ \E j \in Tabs : Paint(Restored(left, j))
    BY <1>9 DEF closeTab
  <2> HIDE DEF left
  <2>3. Calm(empty) /\ Tidy(empty) /\ Untimed(P, empty)
    BY <1>3, <1>4, <2>1, NothingTame
  <2> HIDE DEF empty
  <2>4. Paint(left) => Tidies
    BY <1>1, <2>1 DEF Tidies, Calm
  <2> QED
    BY <1>5, <2>1, <2>2, <2>3, <2>4
<1> QED
  BY <1>7, <1>8, <1>9

\* The history: selectConversation, deleteConversation, ?conv=, what the server sends
LEMMA TidyHistory ==
    ASSUME Core, Threads, \A q \in reads : q.page # 0,
           \/ \E c \in ConvId : selectConversation(c) \/ deleteConversation(c) \/ OpenFromUrl(c)
           \/ \E q \in reads : ReadArrives(q)
           \/ ListArrives \/ ModelsArrive
    PROVE  Tidies \/ pg' = pg
<1> SUFFICES ASSUME pg' # pg
             PROVE  Tidies
  OBVIOUS
<1>1. OnPage
  BY DEF selectConversation, deleteConversation, OpenFromUrl, ReadArrives, ListArrives, ModelsArrive,
         MayBrowse, OnPage
<1>2. Calm(P) /\ PageOK(P) /\ Tidy(P) /\ P.tab \in Tabs /\ IsSeq(<<>>)
  BY <1>1, TidyP, NothingTame DEF PageOK, TameSeq, IsSeq
<1>3. ASSUME NEW rec, Calm(rec), Tidy(rec), Untimed(P, rec), NEW c \in ConvId, NEW m, TameSeq(m),
             Repaint(Applied(rec, c, m))
      PROVE  Tidies
  <2> DEFINE r == Applied(rec, c, m)
  <2>1. PageOK(r) /\ PageOK(rec)
    BY <1>3, AppliedIs DEF Calm, Named
  <2>2. /\ r.messages = m /\ r.queued = <<>> /\ r.list = rec.list /\ Untimed(rec, r)
        /\ \A j \in Tabs : r.tabs[j].messages = rec.tabs[j].messages
    BY <2>1, AppliedShows
  <2>3. Repaint(r)
    BY <1>3
  <2> HIDE DEF r
  <2>4. Tidy(r) /\ Untimed(P, r)
    BY <1>2, <1>3, <2>2 DEF Tidy, Untimed
  <2> QED
    BY <1>1, <2>1, <2>3, <2>4 DEF Tidies
<1>4. ASSUME NEW c \in ConvId, selectConversation(c)
      PROVE  Tidies
  <2>1. Repaint(Applied(P, c, P.list[c].msgs))
    BY <1>4 DEF selectConversation
  <2>2. TameSeq(P.list[c].msgs)
    BY <1>2 DEF Tidy
  <2> QED
    BY <1>2, <1>3, <2>1, <2>2 DEF Untimed
<1>5. ASSUME NEW c \in ConvId, deleteConversation(c)
      PROVE  Tidies
  <2> DEFINE d == IF P.currentId = c THEN 0 ELSE P.currentId
             e == NoEntry
             l == [P.list EXCEPT ![c] = e]
             new == [P EXCEPT !.list[c] = e, !.currentId = d]
             new2 == [P EXCEPT !.list = l, !.currentId = d]
  <2>1. Paint(new)
    BY <1>5 DEF deleteConversation
  <2>2. d \in Named
    BY <1>2 DEF PageOK, Named
  <2>3. DOMAIN l = ConvId /\ \A b \in ConvId : TameSeq(l[b].msgs)
    BY <1>2, NothingTame DEF Tidy
  <2>4. new = new2
    BY <1>2 DEF PageOK, PageFields
  <2> HIDE DEF d, e, l
  <2>5. /\ PageOK(new2) /\ new2.messages = P.messages /\ new2.queued = P.queued /\ new2.list = l
        /\ new2.tabs = P.tabs /\ Untimed(P, new2)
    BY <1>2, <2>2 DEF PageOK, PageFields, Untimed
  <2> HIDE DEF new, new2
  <2>6. Tidy(new2)
    BY <1>2, <2>3, <2>5 DEF Tidy
  <2> QED
    BY <1>1, <2>1, <2>4, <2>5, <2>6 DEF Tidies
<1>6. ASSUME NEW c \in ConvId, OpenFromUrl(c)
      PROVE  Tidies
  <2> DEFINE m == FromSaved(P.list[c].msgs)
             h == IF P.list[c].msgs = <<>> THEN P.th ELSE P.list[c].msgs[1].th
             tb == [P.tabs EXCEPT ![P.tab].currentId = c]
             new == [P EXCEPT !.fromUrl = TRUE, !.messages = m, !.currentId = c, !.th = h, !.tabs = tb]
  <2>1. Paint([P EXCEPT !.fromUrl = TRUE, !.messages = FromSaved(P.list[c].msgs), !.currentId = c,
                       !.th = IF P.list[c].msgs = <<>> THEN @ ELSE P.list[c].msgs[1].th,
                       !.tabs[P.tab].currentId = c])
    BY <1>6 DEF OpenFromUrl
  <2>2. Paint(new)
    BY <1>2, <2>1 DEF PageOK, PageFields
  <2>3. /\ DOMAIN tb = Tabs /\ \A j \in Tabs : TabOK(tb[j]) /\ tb[j].messages = P.tabs[j].messages
    BY <1>2 DEF PageOK, TabOK, Named
  <2>4. TameSeq(m)
    BY <1>2 DEF Tidy, FromSaved
  <2> HIDE DEF m, h, tb
  <2>5. /\ PageOK(new) /\ new.messages = m /\ new.queued = P.queued /\ new.list = P.list
        /\ new.tabs = tb /\ Untimed(P, new)
    BY <1>2, <2>3 DEF PageOK, PageFields, Untimed, Named
  <2> HIDE DEF new
  <2>6. Tidy(new)
    BY <1>2, <2>3, <2>4, <2>5 DEF Tidy
  <2> QED
    BY <1>1, <2>2, <2>5, <2>6 DEF Tidies
<1>7. ASSUME NEW q \in reads, ReadArrives(q)
      PROVE  Tidies
  <2> DEFINE msgs == server[q.id]
             l == Listed(P, q.id, msgs)
             b == [P EXCEPT !.messages = FromSaved(msgs)]
             b2 == [P EXCEPT !.messages = msgs]
  <2>1. Repaint(Applied(l, q.id, msgs)) \/ Repaint(b)
    BY <1>7 DEF ReadArrives
  <2>2. q.id \in ConvId
    BY DEF Threads
  <2>3. TameSeq(msgs) /\ b = b2
    BY <2>2 DEF Threads, FromSaved
  <2> HIDE DEF msgs, b
  <2>4. CASE Repaint(Applied(l, q.id, msgs))
    <3> DEFINE e == [in |-> TRUE, msgs |-> msgs, omitted |-> FALSE]
    <3>1. l = [P EXCEPT !.list[q.id] = e] /\ e.msgs = msgs
      BY DEF Listed
    <3>2. Calm(l)
      BY <1>2, ListedIs
    <3> HIDE DEF e, l
    <3>3. /\ l.messages = P.messages /\ l.queued = P.queued /\ l.tabs = P.tabs /\ Untimed(P, l)
          /\ DOMAIN l.list = ConvId /\ \A d \in ConvId : l.list[d] = IF d = q.id THEN e ELSE P.list[d]
      <4> DEFINE z == [P EXCEPT !.list[q.id] = e]
      <4>1. DOMAIN P.list = ConvId
        BY <1>2 DEF Tidy
      <4>2. /\ z.messages = P.messages /\ z.queued = P.queued /\ z.tabs = P.tabs /\ Untimed(P, z)
            /\ DOMAIN z.list = ConvId /\ \A d \in ConvId : z.list[d] = IF d = q.id THEN e ELSE P.list[d]
        BY <1>2, <4>1, ListShows
      <4>3. l = z
        BY <3>1
      <4> HIDE DEF z
      <4> QED
        BY <4>2, <4>3
    <3>4. Tidy(l)
      BY <1>2, <2>3, <3>1, <3>3 DEF Tidy
    <3> QED
      BY <1>3, <2>2, <2>3, <2>4, <3>2, <3>3, <3>4
  <2>5. CASE Repaint(b)
    <3>1. /\ PageOK(b2) /\ b2.messages = msgs /\ b2.queued = P.queued /\ b2.list = P.list
          /\ b2.tabs = P.tabs /\ Untimed(P, b2)
      BY <1>2 DEF PageOK, PageFields, Untimed
    <3> HIDE DEF b2
    <3>2. Tidy(b2)
      BY <1>2, <2>3, <3>1 DEF Tidy
    <3> QED
      BY <1>1, <2>3, <2>5, <3>1, <3>2 DEF Tidies
  <2> QED
    BY <2>1, <2>4, <2>5
<1>8. CASE ListArrives
  <2>1. PICK fails, omit : Paint([P EXCEPT !.loaded = TRUE,
                  !.list = [c \in ConvId |->
                     IF fails \/ server[c] = <<>> THEN NoEntry
                     ELSE [in |-> TRUE, msgs |-> IF omit THEN <<>> ELSE server[c], omitted |-> omit]]])
    BY <1>8 DEF ListArrives
  <2> DEFINE l == [c \in ConvId |->
                     IF fails \/ server[c] = <<>> THEN NoEntry
                     ELSE [in |-> TRUE, msgs |-> IF omit THEN <<>> ELSE server[c], omitted |-> omit]]
             new == [P EXCEPT !.loaded = TRUE, !.list = l]
  <2>2. Paint(new)
    BY <2>1
  <2>3. DOMAIN l = ConvId
    OBVIOUS
  <2>4. \A c \in ConvId : TameSeq(l[c].msgs)
    <3> TAKE c \in ConvId
    <3> DEFINE m == IF omit THEN <<>> ELSE server[c]
               e == [in |-> TRUE, msgs |-> m, omitted |-> omit]
    <3>1. m = <<>> \/ m = server[c]
      OBVIOUS
    <3>2. l[c] = IF fails \/ server[c] = <<>> THEN NoEntry ELSE e
      OBVIOUS
    <3> HIDE DEF m, l
    <3>3. e.msgs = m /\ NoEntry.msgs = <<>>
      BY DEF NoEntry
    <3> HIDE DEF e
    <3>4. l[c].msgs = <<>> \/ l[c].msgs = server[c]
      BY <3>1, <3>2, <3>3
    <3> QED
      BY <3>4, NothingTame DEF Threads
  <2> HIDE DEF l
  <2>5. /\ PageOK(new) /\ new.messages = P.messages /\ new.queued = P.queued /\ new.list = l
        /\ new.tabs = P.tabs /\ Untimed(P, new)
    BY <1>2 DEF PageOK, PageFields, Untimed
  <2> HIDE DEF new
  <2>6. Tidy(new)
    BY <1>2, <2>3, <2>4, <2>5 DEF Tidy
  <2> QED
    BY <1>1, <2>2, <2>5, <2>6 DEF Tidies
<1>9. CASE ModelsArrive
  <2> DEFINE new == [P EXCEPT !.model = TRUE]
  <2>1. Paint(new)
    BY <1>9 DEF ModelsArrive
  <2>2. PageOK(new) /\ Shows(P, new) /\ Untimed(P, new)
    BY <1>2 DEF PageOK, PageFields, Untimed, Shows
  <2> HIDE DEF new
  <2> QED
    BY <1>1, <1>2, <2>1, <2>2, FieldTidy DEF Tidies
<1> QED
  BY <1>4, <1>5, <1>6, <1>7, <1>8, <1>9

\* The page on screen is painted and the turns keep their threads.
LEMMA TidyStep ==
    ASSUME Core, Threads, Tidies, IsSeq(net), UNCHANGED <<server, titling, mount>>,
           net' = net \/ \E x : x.id \in ConvId /\ TameSeq(x.msgs) /\ net' = Append(net, x),
           \A n \in Running' : Settled(turns'[n].base), \A q \in reads' : q.id \in ConvId
    PROVE  Threads'
<1>1. PICK new : PageOK(new) /\ Tidy(new) /\ Untimed(P, new) /\ (Paint(new) \/ Repaint(new))
  BY DEF Tidies
<1>2. PageOK(P) /\ mount \in Pages /\ Shapes /\ Aimed(P)
  BY TidyP DEF Tidies, Threads
<1>3. PICK r : Tidy(r) /\ Aimed(r) /\ pg' = [pg EXCEPT ![mount] = r]
  BY <1>1, <1>2, TidyPaints, AimedPaints DEF Paint, Repaint
<1> QED
  BY <1>2, <1>3, ThreadsStep

\* The turns that run are the same, on the same threads and for the same conversations.
SameTurns ==
    \A n \in 1 .. MaxTurns : /\ turns'[n].st = turns[n].st /\ turns'[n].base = turns[n].base
                             /\ turns'[n].liveId = turns[n].liveId /\ turns'[n].cid = turns[n].cid

\* A fragment, the Stop button
LEMMA StreamSame ==
    ASSUME Shapes,
           \/ turns' = turns
           \/ \E n \in Running : \/ turns' = [turns EXCEPT ![n].aborted = TRUE]
                                 \/ turns' = [turns EXCEPT ![n].got = @ + 1]
    PROVE  SameTurns
<1>1. CASE turns' = turns
  BY <1>1 DEF SameTurns
<1>2. ASSUME NEW n \in Running, \/ turns' = [turns EXCEPT ![n].aborted = TRUE]
                                \/ turns' = [turns EXCEPT ![n].got = @ + 1]
      PROVE  SameTurns
  <2>1. DOMAIN turns = 1 .. MaxTurns /\ n \in 1 .. MaxTurns /\ DOMAIN turns[n] = TurnFields
    BY RunningIs DEF Shapes, TurnOK
  <2> DEFINE a == [turns[n] EXCEPT !.aborted = TRUE]
             b == [turns[n] EXCEPT !.got = @ + 1]
  <2>2. PICK t : turns' = [turns EXCEPT ![n] = t] /\ (t = a \/ t = b)
    BY <1>2, <2>1
  <2>3. /\ a.st = turns[n].st /\ a.base = turns[n].base /\ a.liveId = turns[n].liveId /\ a.cid = turns[n].cid
        /\ b.st = turns[n].st /\ b.base = turns[n].base /\ b.liveId = turns[n].liveId /\ b.cid = turns[n].cid
    BY <2>1 DEF TurnFields
  <2> HIDE DEF a, b
  <2>4. turns'[n] = t /\ \A m \in 1 .. MaxTurns : m # n => turns'[m] = turns[m]
    BY <2>1, <2>2
  <2> QED
    BY <2>2, <2>3, <2>4 DEF SameTurns
<1> QED
  BY <1>1, <1>2

\* The same turns have the same threads.
LEMMA SameSettled ==
    ASSUME Threads, SameTurns
    PROVE  Running' = Running /\ \A n \in Running' : Settled(turns'[n].base)
  BY DEF Threads, SameTurns, Running

\* A handler of a page that writes nothing calls runStream, on a thread that is settled.
Asks ==
    /\ OnPage /\ UNCHANGED <<server, net, reads, titling, mount>>
    /\ \E rec, base, voice :
         /\ PageOK(rec) /\ Tidy(rec) /\ Untimed(P, rec) /\ Settled(base) /\ Shows([P EXCEPT !.queued = rec.queued], rec)
         /\ runStream(rec, Ask(rec, base, voice))

\* The queue, the quick answer, the message that is edited
LEMMA TidyQueue ==
    ASSUME Core, Threads,
           \/ SendQueued \/ answerNow
           \/ \E i \in 1 .. (2 * MaxTurns + 2) : editMessage(i)
           \/ \E i \in 1 .. MaxTyped : discardQueued(i) \/ sendQueuedNow(i)
    PROVE  (Tidies /\ SameTurns /\ UNCHANGED <<server, net, reads, titling, mount>>) \/ Asks
<1>1. OnPage /\ UNCHANGED <<server, net, reads, titling, mount>>
  BY DEF SendQueued, answerNow, editMessage, discardQueued, sendQueuedNow, OnlyTurn
<1>2. PageOK(P) /\ Tidy(P) /\ Shapes
  BY <1>1, TidyP
<1>3. IsSeq(P.queued) /\ TameSeq(P.messages)
  BY <1>2 DEF Tidy
<1>4. ASSUME NEW new, Paint(new), PageOK(new), Untimed(P, new), IsSeq(new.queued),
             new.messages = P.messages, new.list = P.list, new.tabs = P.tabs,
             \/ turns' = turns
             \/ \E n \in Running : turns' = [turns EXCEPT ![n].aborted = TRUE]
      PROVE  Tidies /\ SameTurns
  <2>1. Tidy(new)
    BY <1>2, <1>4 DEF Tidy
  <2>2. SameTurns
    BY <1>2, <1>4, StreamSame
  <2> QED
    BY <1>1, <1>4, <2>1, <2>2 DEF Tidies
<1>5. CASE SendQueued
  <2> DEFINE q == Append(P.queued, typed')
             new == [P EXCEPT !.queued = q]
  <2>1. Paint(new) /\ turns' = turns
    BY <1>5 DEF SendQueued
  <2>2. IsSeq(q)
    BY <1>3, AppendIs
  <2> HIDE DEF q
  <2>3. /\ PageOK(new) /\ new.queued = q /\ new.messages = P.messages /\ new.list = P.list
        /\ new.tabs = P.tabs /\ Untimed(P, new)
    BY <1>2 DEF PageOK, PageFields, Untimed
  <2> HIDE DEF new
  <2> QED
    BY <1>1, <1>4, <2>1, <2>2, <2>3
<1>6. CASE answerNow
  <2> DEFINE new == [P EXCEPT !.answerNow = TRUE]
  <2>1. Paint(new) /\ P.abort \in Running /\ turns' = [turns EXCEPT ![P.abort].aborted = TRUE]
    BY <1>6 DEF answerNow
  <2>2. /\ PageOK(new) /\ new.queued = P.queued /\ new.messages = P.messages /\ new.list = P.list
        /\ new.tabs = P.tabs /\ Untimed(P, new)
    BY <1>2 DEF PageOK, PageFields, Untimed
  <2> HIDE DEF new
  <2> QED
    BY <1>1, <1>3, <1>4, <2>1, <2>2
<1>7. ASSUME NEW i, editMessage(i)
      PROVE  Tidies /\ SameTurns
  <2> DEFINE new == [P EXCEPT !.editing = i]
  <2>1. Paint(new) /\ turns' = turns
    BY <1>7 DEF editMessage
  <2>2. /\ PageOK(new) /\ new.queued = P.queued /\ new.messages = P.messages /\ new.list = P.list
        /\ new.tabs = P.tabs /\ Untimed(P, new)
    BY <1>2 DEF PageOK, PageFields, Untimed
  <2> HIDE DEF new
  <2> QED
    BY <1>3, <1>4, <2>1, <2>2
<1>8. ASSUME NEW i, discardQueued(i)
      PROVE  Tidies /\ SameTurns
  <2> DEFINE q == RemoveAt(P.queued, i)
             new == [P EXCEPT !.queued = q]
  <2>1. Paint(new) /\ turns' = turns /\ i \in DOMAIN P.queued
    BY <1>8 DEF discardQueued
  <2>2. IsSeq(q)
    BY <1>3, <2>1, QueueSeq
  <2> HIDE DEF q
  <2>3. /\ PageOK(new) /\ new.queued = q /\ new.messages = P.messages /\ new.list = P.list
        /\ new.tabs = P.tabs /\ Untimed(P, new)
    BY <1>2 DEF PageOK, PageFields, Untimed
  <2> HIDE DEF new
  <2> QED
    BY <1>4, <2>1, <2>2, <2>3
<1>9. ASSUME NEW i, sendQueuedNow(i)
      PROVE  (Tidies /\ SameTurns) \/ Asks
  <2> DEFINE q == <<P.queued[i]>> \o RemoveAt(P.queued, i)
             e == <<>>
             msgs == P.messages \o [j \in DOMAIN q |-> Typed(q[j], P.th)]
             new == [P EXCEPT !.queued = q]
             rec == [P EXCEPT !.queued = e]
  <2>1. i \in DOMAIN P.queued
    BY <1>9 DEF sendQueuedNow
  <2>2. \/ /\ Paint(new)
           /\ turns' = IF P.abort \in Running THEN [turns EXCEPT ![P.abort].aborted = TRUE] ELSE turns
        \/ runStream(rec, Ask(rec, msgs, FALSE))
    BY <1>9 DEF sendQueuedNow
  <2>3. IsSeq(q) /\ q # <<>> /\ IsSeq(e)
    BY <1>3, <2>1, QueueSeq
  <2> HIDE DEF q, e
  <2>4. Settled(msgs)
    BY <1>3, <2>3, QueueTame
  <2> HIDE DEF msgs
  <2>5. /\ PageOK(new) /\ new.queued = q /\ new.messages = P.messages /\ new.list = P.list
        /\ new.tabs = P.tabs /\ Untimed(P, new)
    BY <1>2 DEF PageOK, PageFields, Untimed
  <2>6. /\ PageOK(rec) /\ rec.queued = e /\ rec.messages = P.messages /\ rec.list = P.list
        /\ rec.tabs = P.tabs /\ Untimed(P, rec) /\ Shows([P EXCEPT !.queued = rec.queued], rec)
    BY <1>2 DEF PageOK, PageFields, Untimed, Shows
  <2> HIDE DEF new, rec
  <2>7. Tidy(rec)
    BY <1>2, <2>3, <2>6 DEF Tidy
  <2>8. CASE runStream(rec, Ask(rec, msgs, FALSE))
    BY <1>1, <2>4, <2>6, <2>7, <2>8 DEF Asks
  <2>9. CASE /\ Paint(new)
             /\ turns' = IF P.abort \in Running THEN [turns EXCEPT ![P.abort].aborted = TRUE] ELSE turns
    BY <1>4, <2>3, <2>5, <2>9
  <2> QED
    BY <2>2, <2>8, <2>9
<1> QED
  BY <1>1, <1>5, <1>6, <1>7, <1>8, <1>9

\* The handlers that ask: send, sendVoice, the hidden requests, regenerate
LEMMA TidyAsks ==
    ASSUME Core, Threads, Send \/ sendVoice \/ AskHidden \/ regenerate
    PROVE  Asks
<1>1. OnPage /\ UNCHANGED <<server, net, reads, titling, mount>>
  BY DEF Send, sendVoice, AskHidden, regenerate, CanAsk, OnlyTurn
<1>2. PageOK(P) /\ Tidy(P)
  BY <1>1, TidyP
<1>3. TameSeq(P.messages)
  BY <1>2 DEF Tidy
<1> DEFINE h == IF P.th = 0 THEN MaxTurns + typed' ELSE P.th
           a == [P EXCEPT !.th = h]
           b == [a EXCEPT !.editing = 0]
           kept == IF P.editing \in DOMAIN P.messages THEN SubSeq(P.messages, 1, P.editing - 1) ELSE P.messages
<1>4. WithThread(P, typed') = a
  BY DEF WithThread
<1> HIDE DEF h
<1>5. PageOK(a) /\ Shows(P, a) /\ Untimed(P, a)
  BY <1>2 DEF PageOK, PageFields, Shows, Untimed
<1> HIDE DEF a
<1>6. PageOK(b) /\ Shows(P, b) /\ Untimed(P, b)
  BY <1>5 DEF PageOK, PageFields, Shows, Untimed
<1> HIDE DEF b
<1>7. TameSeq(kept)
  BY <1>3, CutTame
<1> HIDE DEF kept
<1>8. \A k, t, m : TameSeq(m) => Settled(Append(m, Typed(k, t))) /\ Settled(Append(m, Hidden(t)))
  BY MadeTame, AppendTame
<1>9. ASSUME NEW rec, rec = P \/ rec = a \/ rec = b, NEW base, Settled(base), NEW voice,
             runStream(rec, Ask(rec, base, voice))
      PROVE  Asks
  <2>1. PageOK(rec) /\ Shows(P, rec) /\ Untimed(P, rec)
    BY <1>2, <1>5, <1>6, <1>9 DEF Shows, Untimed
  <2>2. Tidy(rec)
    BY <1>2, <2>1, FieldTidy
  <2>3. Shows([P EXCEPT !.queued = rec.queued], rec)
    BY <1>2, <2>1 DEF Shows, PageOK, PageFields
  <2> QED
    BY <1>1, <1>9, <2>1, <2>2, <2>3 DEF Asks
<1>10. CASE Send
  <2>1. runStream(b, Ask(b, Append(kept, Typed(typed', b.th)), FALSE))
    BY <1>4, <1>10 DEF Send, b, kept
  <2> QED
    BY <1>7, <1>8, <1>9, <2>1
<1>11. CASE sendVoice
  <2>1. runStream(a, Ask(a, Append(P.messages, Typed(typed', a.th)), TRUE))
    BY <1>4, <1>11 DEF sendVoice
  <2> QED
    BY <1>3, <1>8, <1>9, <2>1
<1>12. CASE AskHidden
  <2>1. runStream(P, Ask(P, Append(P.messages, Hidden(P.th)), FALSE))
    BY <1>12 DEF AskHidden
  <2> QED
    BY <1>3, <1>8, <1>9, <2>1
<1>13. CASE regenerate
  <2> DEFINE base == IF LastOf(P.messages).role = "assistant" THEN Front(P.messages) ELSE P.messages
  <2>1. P.messages # <<>> /\ base # <<>> /\ LastOf(base).role = "user" /\ runStream(P, Ask(P, base, FALSE))
    BY <1>13 DEF regenerate
  <2>2. TameSeq(base)
    BY <1>3, <2>1, FrontTame
  <2> HIDE DEF base
  <2>3. Settled(base)
    BY <2>1, <2>2, UserLast
  <2> QED
    BY <1>9, <2>1, <2>3
<1> QED
  BY <1>10, <1>11, <1>12, <1>13

\* The turns that run go on, for the same conversations.
Onward == \A n \in Running : n \in Running' /\ turns'[n].liveId = turns[n].liveId

\* A generation as runStream makes it
LEMMA TurnOfIs ==
    ASSUME NEW ask
    PROVE  LET t == TurnOf(ask)
           IN  /\ t.st = "run" /\ t.base = ask.base /\ t.cid = ask.cid /\ t.liveId = ask.cid
               /\ t.page = ask.page
<1> DEFINE p == ask.page
           b == ask.tab
           c == ask.cid
           m == ask.base
           h == ask.th
           v == ask.voice
           y == ask.retried
           u == ask.auto
           t == [NoTurn EXCEPT !.st = "run", !.page = p, !.tab = b, !.cid = c,
                   !.base = m, !.th = h, !.liveId = c, !.voice = v, !.retried = y, !.auto = u]
<1>1. TurnOf(ask) = t
  BY DEF TurnOf
<1> HIDE DEF p, b, c, m, h, v, y, u
<1>2. t.st = "run" /\ t.base = m /\ t.cid = c /\ t.liveId = c /\ t.page = p
  BY DEF NoTurn
<1> HIDE DEF t
<1> QED
  BY <1>1, <1>2 DEF m, c, p

\* runStream leaves the threads tame, and the other turns alone.
LEMMA AskThreads ==
    ASSUME Core, Shapes', Threads, IsSeq(net), Asks
    PROVE  Threads' /\ Onward
<1>1. OnPage /\ UNCHANGED <<server, net, reads, titling, mount>>
  BY DEF Asks
<1>2. PICK rec, base, voice :
         /\ PageOK(rec) /\ Tidy(rec) /\ Untimed(P, rec) /\ Settled(base)
         /\ runStream(rec, Ask(rec, base, voice))
  BY DEF Asks
<1> DEFINE ask == Ask(rec, base, voice)
<1>3. ask.base = base /\ ask.page = mount
  BY DEF Ask
<1>4. PageOK(P) /\ mount \in Pages /\ Shapes /\ Aimed(P) /\ \A q \in reads : q.id \in ConvId
  BY <1>1, TidyP DEF Threads
<1>5. DOMAIN rec = PageFields /\ TameSeq(base)
  BY <1>2 DEF PageOK, Settled
<1> HIDE DEF ask
<1>6. CASE ~rec.model /\ Paint([rec EXCEPT !.messages = Append(ask.base, Note(ask.th))])
           /\ UNCHANGED <<nturn, turns, live>>
  <2> DEFINE m == Append(ask.base, Note(ask.th))
             new == [rec EXCEPT !.messages = m]
  <2>1. TameSeq(m)
    BY <1>3, <1>5, MadeTame, AppendTame
  <2> HIDE DEF m
  <2>2. /\ PageOK(new) /\ new.messages = m /\ new.queued = rec.queued /\ new.list = rec.list
        /\ new.tabs = rec.tabs /\ Untimed(P, new)
    BY <1>2, <1>5 DEF PageOK, PageFields, Untimed
  <2>3. Paint(new)
    BY <1>6 DEF m
  <2> HIDE DEF new
  <2>4. Tidy(new)
    BY <1>2, <2>1, <2>2 DEF Tidy
  <2>5. Tidies
    BY <1>1, <2>2, <2>3, <2>4 DEF Tidies
  <2>6. SameTurns
    BY <1>6 DEF SameTurns
  <2>7. Running' = Running /\ \A n \in Running' : Settled(turns'[n].base)
    BY <2>6, SameSettled
  <2>8. Threads'
    BY <1>1, <1>4, <2>5, <2>7, TidyStep
  <2> QED
    BY <1>6, <2>7, <2>8 DEF Onward
<1>7. CASE StartTurn(rec, ask)
  <2> DEFINE k == nturn + 1
             m == Append(ask.base, Msg("assistant", k, ask.th, 0, FALSE))
             new == [rec EXCEPT !.streaming = TRUE, !.abort = k, !.messages = m]
             r == Painted(mount, new, ask.cid)
  <2>1. turns' = [turns EXCEPT ![k] = TurnOf(ask)] /\ pg' = [pg EXCEPT ![mount] = r] /\ nturn' = k
    BY <1>3, <1>7 DEF StartTurn
  <2>2. TameSeq(m)
    BY <1>3, <1>5, MadeTame, AppendTame
  <2>3. k \notin Running
    BY <1>4 DEF Core, Unborn, Running, Shapes
  <2>4. Onward /\ \A n \in Running' : n = k \/ (n \in Running /\ turns'[n] = turns[n])
    BY <1>4, <2>1, <2>3 DEF Onward, Running, Shapes
  <2>5. k \in Running' => turns'[k] = TurnOf(ask)
    BY <1>4, <2>1 DEF Running, Shapes
  <2>6. \A n \in Running' : Settled(turns'[n].base)
    BY <1>2, <1>3, <2>4, <2>5, TurnOfIs DEF Threads
  <2> HIDE DEF m, k
  <2>7. /\ DOMAIN new = PageFields /\ new.messages = m /\ new.queued = rec.queued /\ new.list = rec.list
        /\ new.tabs = rec.tabs /\ Untimed(P, new)
    BY <1>2, <1>5 DEF PageFields, Untimed
  <2>8. PageOK(new)
    <3>1. k \in 0 .. MaxTurns
      BY <2>1 DEF Shapes
    <3> QED
      BY <1>2, <1>5, <3>1 DEF PageOK, PageFields
  <2> HIDE DEF new
  <2>9. Tidy(new)
    BY <1>2, <2>2, <2>7 DEF Tidy
  <2>10. Tidy(r) /\ Aimed(r)
    BY <1>4, <2>7, <2>8, <2>9, TidyPaints, AimedPaints
  <2> HIDE DEF r
  <2>11. Threads'
    BY <1>1, <1>4, <2>1, <2>6, <2>10, ThreadsStep
  <2> QED
    BY <2>4, <2>11
<1> QED
  BY <1>2, <1>6, <1>7 DEF runStream, ask

\* The thread with its answer is settled.
LEMMA FinalSettled ==
    ASSUME Threads, NEW n \in Running
    PROVE  Settled(Final(n)) /\ Settled(turns[n].base)
<1> DEFINE m == Msg("assistant", n, turns[n].th, turns[n].got, FALSE)
<1>1. Settled(turns[n].base) /\ TameSeq(turns[n].base)
  BY DEF Threads, Settled
<1>2. TameMsg(m) /\ m.pending = FALSE
  BY MadeTame, ZenonT(60)
<1> HIDE DEF m
<1>3. Settled(Append(turns[n].base, m))
  BY <1>1, <1>2, AppendTame
<1> QED
  BY <1>1, <1>3 DEF Final, m

\* A fragment, the Stop button
LEMMA StreamThreads ==
    ASSUME Core, Threads, IsSeq(net), stop \/ \E n \in 1 .. MaxTurns : Delta(n)
    PROVE  Threads' /\ Onward /\ net' = net /\ server' = server
<1>1. UNCHANGED <<server, net, reads, titling, mount>> /\ Shapes
  BY DEF stop, Delta, Core
<1>2. SameTurns
  BY <1>1, StreamSame DEF stop, Delta
<1>3. Running' = Running /\ (\A n \in Running' : Settled(turns'[n].base)) /\ Onward
  <2>1. Running' = Running /\ \A n \in Running' : Settled(turns'[n].base)
    BY <1>2, SameSettled
  <2> QED
    BY <1>2, <2>1 DEF Onward, SameTurns, Running
<1>4. CASE stop
  <2>1. pg' = pg
    BY <1>4 DEF stop
  <2> QED
    BY <1>1, <1>3, <2>1 DEF Threads, Tidy, Pages, Tabs, ConvId, Old, OnPage, P, Aimed
<1>5. ASSUME NEW n \in 1 .. MaxTurns, Delta(n)
      PROVE  Threads'
  <2> DEFINE p == turns[n].page
             x == Msg("assistant", n, turns[n].th, turns'[n].got, FALSE)
             m == ReplaceLast(pg[p].messages, x)
             new == [pg[p] EXCEPT !.messages = m]
             r == Painted(p, new, LiveConv)
  <2>1. n \in Running /\ pg' = [pg EXCEPT ![p] = r]
    BY <1>5 DEF Delta
  <2>2. p \in Pages
    BY <1>1, <2>1, RunningIs
  <2>3. PageOK(pg[p]) /\ Tidy(pg[p])
    BY <1>1, <2>2 DEF Shapes, Threads
  <2>4. TameSeq(m)
    BY <2>3, MadeTame, ReplaceTame DEF Tidy
  <2> HIDE DEF m, x, p
  <2>5. /\ PageOK(new) /\ new.messages = m /\ new.queued = pg[p].queued /\ new.list = pg[p].list
        /\ new.tabs = pg[p].tabs /\ Untimed(pg[p], new)
    BY <2>3 DEF PageOK, PageFields, Untimed
  <2> HIDE DEF new
  <2>6. Tidy(new)
    BY <2>3, <2>4, <2>5, FieldTidy
  <2>7. Tidy(r)
    BY <2>5, <2>6, TidyPaints
  <2>8. p = mount => Aimed(r)
    <3>1. p = mount => P = pg[p] /\ OnPage
      BY <2>2 DEF P, OnPage, Pages
    <3> QED
      BY <2>3, <2>5, <3>1, AimedPaints DEF Threads
  <2> HIDE DEF r
  <2>9. \A q \in reads' : q.id \in ConvId
    BY <1>1 DEF Threads
  <2> QED
    BY <1>1, <1>3, <2>1, <2>2, <2>7, <2>8, <2>9, ThreadsStep
<1> QED
  BY <1>1, <1>3, <1>4, <1>5

\* A checkpoint is sent.
LEMMA CheckpointThreads ==
    ASSUME Core, Threads, IsSeq(net), NEW n \in 1 .. MaxTurns, Checkpoint(n)
    PROVE  /\ Threads' /\ server' = server
           /\ \E x : x.id = ConvOf(n) /\ x.id \in ConvId /\ net' = Append(net, x)
           /\ \A m \in Running : /\ m \in Running'
                                 /\ turns'[m].liveId = IF m = n THEN ConvOf(n) ELSE turns[m].liveId
           /\ n \in Running
<1> DEFINE c == ConvOf(n)
           y == Msg("assistant", n, turns[n].th, turns[n].got, TRUE)
           a == Append(turns[n].base, y)
           x == SaveRequest(c, a, "checkpoint")
<1>1. /\ n \in Running /\ turns' = [turns EXCEPT ![n].liveId = c] /\ net' = Append(net, x)
      /\ UNCHANGED <<server, reads, titling, pg, mount>> /\ Shapes
  BY DEF Checkpoint, Core
<1>2. TurnOK(turns[n]) /\ DOMAIN turns = 1 .. MaxTurns /\ c \in ConvId
  BY <1>1, RunningIs DEF Shapes, TurnOK, ConvOf, Named, ConvId
<1>3. TameMsg(y)
  BY MadeTame
<1> HIDE DEF y, c
<1>4. TameSeq(a)
  BY <1>1, <1>3, FinalSettled, AppendTame DEF Settled
<1> HIDE DEF a
<1>5. x.id = c /\ TameSeq(x.msgs)
  BY <1>4, RequestIs
<1> HIDE DEF x
<1> DEFINE t == [turns[n] EXCEPT !.liveId = c]
<1>6. turns'[n] = t /\ \A m \in 1 .. MaxTurns : m # n => turns'[m] = turns[m]
  BY <1>1, <1>2
<1>7. t.st = turns[n].st /\ t.base = turns[n].base /\ t.liveId = c
  BY <1>2 DEF TurnOK, TurnFields
<1> HIDE DEF t
<1>8. \A m \in Running : m \in Running' /\ turns'[m].liveId = IF m = n THEN c ELSE turns[m].liveId
  BY <1>6, <1>7 DEF Running
<1>9. \A m \in Running' : Settled(turns'[m].base)
  BY <1>1, <1>6, <1>7 DEF Running, Threads
<1>10. Threads'
  <2>1. PICK p : p \in Pages
    BY PlaygroundAssumption DEF Pages
  <2>3. Tidy(pg[p]) /\ (p = mount => Aimed(pg[p])) /\ \A q \in reads' : q.id \in ConvId
    BY <1>1, <2>1 DEF Threads, P, OnPage, Pages
  <2> QED
    BY <1>1, <1>2, <1>5, <1>9, <2>1, <2>3, ThreadsStep
<1> QED
  BY <1>1, <1>2, <1>5, <1>8, <1>10 DEF c

\* What a turn is followed by is asked on a settled thread.
LEMMA FollowTidy ==
    ASSUME Core, Threads, NEW n \in Running, NEW how, how # "done" /\ MayResume(n) => Room
    PROVE  LET f == Follow(n, how)
           IN  /\ PageOK(f.rec) /\ Tidy(f.rec) /\ Untimed(pg[turns[n].page], f.rec)
               /\ TameSeq(f.ask.base) /\ (f.go => Settled(f.ask.base))
<1> DEFINE p == turns[n].page
           old == pg[p]
           rec == EndedPage(n)
           f == Follow(n, how)
           z == Final(n) \o [j \in DOMAIN rec.queued |-> Typed(rec.queued[j], turns[n].th)]
<1>1. Shapes /\ p \in Pages /\ turns[n].st = "run"
  BY RunningIs DEF Core
<1>2. PageOK(old) /\ Tidy(old)
  BY <1>1 DEF Shapes, Threads
<1>3. DOMAIN old.list = ConvId /\ IsSeq(old.queued)
  BY <1>2 DEF Tidy
<1>4. PageOK(rec) /\ Ended(n, rec)
  BY <1>1, <1>3, EndedShows
<1>5. /\ f.rec.messages = rec.messages /\ f.rec.currentId = rec.currentId
      /\ f.rec.list = rec.list /\ f.rec.tabs = rec.tabs
      /\ f.rec.queued = rec.queued \/ f.rec.queued = <<>>
      /\ Untimed(rec, f.rec)
      /\ \/ f.ask.base = turns[n].base
         \/ f.ask.base = Append(Final(n), Hidden(turns[n].th))
         \/ (f.go => rec.queued # <<>>) /\ f.ask.base = z
  BY <1>1, FollowShows
<1>6. PageOK(f.rec)
  BY <1>1, FollowIs DEF Follows
<1>7. Settled(Final(n)) /\ TameSeq(Final(n)) /\ Settled(turns[n].base)
  BY FinalSettled DEF Settled
<1>8. Settled(Append(Final(n), Hidden(turns[n].th)))
  BY <1>7, MadeTame, AppendTame
<1>9. /\ rec.queued = old.queued /\ DOMAIN rec.list = ConvId /\ Untimed(old, rec)
      /\ \A d \in ConvId : rec.list[d] = IF d = ConvOf(n) THEN [in |-> TRUE, msgs |-> Final(n), omitted |-> FALSE]
                                         ELSE old.list[d]
      /\ rec.messages = Final(n) \/ rec.messages = old.messages
      /\ \A j \in Tabs : rec.tabs[j].messages = old.tabs[j].messages
  BY <1>4 DEF Ended
<1>10. IsSeq(rec.queued) /\ IsSeq(<<>>)
  BY <1>3, <1>9, QueueSeq
<1>11. TameSeq(z) /\ (rec.queued # <<>> => Settled(z))
  BY <1>7, <1>10, QueueTame
<1> HIDE DEF rec, f, z, old
<1>12. TameSeq(f.ask.base) /\ (f.go => Settled(f.ask.base))
  BY <1>5, <1>7, <1>8, <1>11 DEF Settled
<1>13. \A d \in ConvId : TameSeq(rec.list[d].msgs)
  <2> TAKE d \in ConvId
  <2> DEFINE e == [in |-> TRUE, msgs |-> Final(n), omitted |-> FALSE]
  <2>1. e.msgs = Final(n)
    OBVIOUS
  <2>2. rec.list[d] = e \/ rec.list[d] = old.list[d]
    BY <1>9
  <2> HIDE DEF e
  <2> QED
    BY <1>2, <1>7, <2>1, <2>2 DEF Tidy
<1>14. TameSeq(rec.messages) /\ \A j \in Tabs : TameSeq(rec.tabs[j].messages)
  BY <1>2, <1>7, <1>9 DEF Tidy
<1>15. Tidy(f.rec)
  BY <1>5, <1>9, <1>10, <1>13, <1>14 DEF Tidy
<1>16. Untimed(old, f.rec)
  BY <1>5, <1>9 DEF Untimed
<1> QED
  BY <1>6, <1>12, <1>15, <1>16 DEF f, old

\* The end of a turn: its thread is saved with its answer.
LEMMA EndThreads ==
    ASSUME Core, Shapes', Threads, IsSeq(net), NEW n \in 1 .. MaxTurns, End(n)
    PROVE  /\ Threads' /\ server' = server /\ n \in Running
           /\ \E x : /\ x.id = ConvOf(n) /\ x.id \in ConvId /\ ~LastPending(x.msgs)
                     /\ net' = Append(net, x)
           /\ \A m \in Running : m # n => m \in Running' /\ turns'[m].liveId = turns[m].liveId
<1> DEFINE p == turns[n].page
           k == nturn + 1
           free == [turns EXCEPT ![n] = Over]
           x == SaveRequest(ConvOf(n), Final(n), "final")
<1>1. n \in Running /\ UNCHANGED <<server, reads, titling, mount>> /\ net' = Append(net, x)
  BY DEF End
<1>2. Shapes /\ p \in Pages /\ turns[n].st = "run" /\ TurnOK(turns[n])
  BY <1>1, RunningIs DEF Core
<1>3. x.id = ConvOf(n) /\ x.id \in ConvId /\ TameSeq(x.msgs) /\ ~LastPending(x.msgs)
  <2>1. ConvOf(n) \in ConvId
    BY <1>2 DEF TurnOK, ConvOf, Named, ConvId
  <2>2. Settled(Final(n))
    BY <1>1, FinalSettled
  <2> QED
    BY <2>1, <2>2, RequestIs DEF Settled
<1> HIDE DEF x
<1>4. PICK how :
        /\ how # "done" /\ MayResume(n) => Room
        /\ LET next == Follow(n, how) IN
           IF next.go
           THEN /\ nturn' = k
                /\ turns' = [free EXCEPT ![k] = TurnOf(next.ask)]
                /\ pg' = [pg EXCEPT ![p] = Painted(p,
                     [next.rec EXCEPT !.streaming = TRUE, !.abort = k,
                        !.messages = Append(next.ask.base, Msg("assistant", k, next.ask.th, 0, FALSE))],
                     next.ask.cid)]
           ELSE /\ turns' = free
                /\ pg' = [pg EXCEPT ![p] = Painted(p, next.rec, IF live = n THEN 0 ELSE LiveConv)]
  BY DEF End
<1> DEFINE next == Follow(n, how)
           rec == next.rec
           ask == next.ask
<1>5. /\ PageOK(rec) /\ Tidy(rec) /\ Untimed(pg[p], rec)
      /\ TameSeq(ask.base) /\ (next.go => Settled(ask.base))
  BY <1>1, <1>4, FollowTidy
<1>6. DOMAIN turns = 1 .. MaxTurns /\ DOMAIN free = 1 .. MaxTurns /\ free[n] = Over
      /\ \A m \in 1 .. MaxTurns : m # n => free[m] = turns[m]
  BY <1>2 DEF Shapes
<1>7. Over.st = "over"
  BY OverOK
<1>8. p = mount => OnPage /\ P = pg[p] /\ PageOK(P) /\ Aimed(P)
  BY <1>2 DEF OnPage, Pages, P, Shapes, Threads
<1>9. \A q \in reads' : q.id \in ConvId
  BY <1>1 DEF Threads
<1>10. CASE next.go
  <2> DEFINE m == Append(ask.base, Msg("assistant", k, ask.th, 0, FALSE))
             new == [rec EXCEPT !.streaming = TRUE, !.abort = k, !.messages = m]
             r == Painted(p, new, ask.cid)
  <2>1. nturn' = k /\ turns' = [free EXCEPT ![k] = TurnOf(ask)] /\ pg' = [pg EXCEPT ![p] = r]
    BY <1>4, <1>10
  <2>2. TameSeq(m)
    BY <1>5, MadeTame, AppendTame
  <2>3. k \notin Running /\ k \in 1 .. MaxTurns
    BY <1>2, <2>1 DEF Core, Unborn, Running, Shapes
  <2>4. /\ \A i \in Running : i # n => i \in Running' /\ turns'[i].liveId = turns[i].liveId
        /\ \A i \in Running' : i = k \/ (i \in Running /\ turns'[i] = turns[i])
    BY <1>6, <1>7, <2>1, <2>3 DEF Running
  <2>5. turns'[k].base = ask.base
    BY <1>6, <2>1, <2>3, TurnOfIs
  <2>6. \A i \in Running' : Settled(turns'[i].base)
    BY <1>5, <1>10, <2>4, <2>5 DEF Threads
  <2> HIDE DEF m, k, ask, rec, next, p
  <2>7. /\ PageOK(new) /\ new.messages = m /\ new.queued = rec.queued /\ new.list = rec.list
        /\ new.tabs = rec.tabs /\ Untimed(pg[p], new)
    BY <1>5, <2>3 DEF PageOK, PageFields, Untimed
  <2> HIDE DEF new
  <2>8. Tidy(new)
    BY <1>5, <2>2, <2>7 DEF Tidy
  <2>9. Tidy(r) /\ (p = mount => Aimed(r))
    BY <1>8, <2>7, <2>8, TidyPaints, AimedPaints
  <2> HIDE DEF r
  <2>10. Threads'
    BY <1>1, <1>2, <1>3, <1>9, <2>1, <2>6, <2>9, ThreadsStep DEF p
  <2> QED
    BY <1>1, <1>3, <2>4, <2>10
<1>11. CASE ~next.go
  <2> DEFINE r == Painted(p, rec, IF live = n THEN 0 ELSE LiveConv)
  <2>1. turns' = free /\ pg' = [pg EXCEPT ![p] = r]
    BY <1>4, <1>11
  <2>2. /\ \A i \in Running : i # n => i \in Running' /\ turns'[i].liveId = turns[i].liveId
        /\ \A i \in Running' : i \in Running /\ turns'[i] = turns[i]
    BY <1>6, <1>7, <2>1 DEF Running
  <2>3. \A i \in Running' : Settled(turns'[i].base)
    BY <2>2 DEF Threads
  <2>4. Tidy(r) /\ (p = mount => Aimed(r))
    BY <1>5, <1>8, TidyPaints, AimedPaints
  <2> HIDE DEF r
  <2>5. Threads'
    BY <1>1, <1>2, <1>3, <1>9, <2>1, <2>3, <2>4, ThreadsStep
  <2> QED
    BY <1>1, <1>3, <2>2, <2>5
<1> QED
  BY <1>10, <1>11

\* A step that changes no page and no turn
LEMMA QuietThreads ==
    ASSUME Core, Threads, IsSeq(net), UNCHANGED <<server, titling, turns, pg, mount>>,
           net' = net \/ \E x : x.id \in ConvId /\ TameSeq(x.msgs) /\ net' = Append(net, x),
           \A q \in reads' : q.id \in ConvId
    PROVE  Threads' /\ Onward
<1> DEFINE p == 1
<1>1. p \in Pages
  BY PlaygroundAssumption DEF Pages
<1> HIDE DEF p
<1>2. Tidy(pg[p]) /\ (p = mount => Aimed(pg[p])) /\ Shapes
  BY <1>1 DEF Threads, P, OnPage, Pages, Core
<1>3. Running' = Running /\ \A n \in Running' : Settled(turns'[n].base)
  BY DEF Running, Threads
<1>4. Threads'
  BY <1>1, <1>2, <1>3, ThreadsStep
<1> QED
  BY <1>3, <1>4 DEF Onward

\* The effects and timers of the page on screen: what is read has a name.
LEMMA TimerThreads ==
    ASSUME Core, Threads, IsSeq(net), Poll \/ EffectsRerun \/ FollowTick
    PROVE  Threads' /\ Onward /\ net' = net /\ server' = server
<1>1. OnPage /\ UNCHANGED <<server, net, titling, turns, mount>>
  BY DEF Poll, EffectsRerun, FollowTick, OnlyPage
<1>2. PageOK(P) /\ Tidy(P) /\ mount \in Pages /\ Shapes /\ Aimed(P) /\ DOMAIN pg = Pages
  BY <1>1, TidyP DEF Threads, Shapes
<1>3. Running' = Running /\ (\A n \in Running' : Settled(turns'[n].base)) /\ Onward
  BY <1>1 DEF Running, Threads, Onward
<1>4. \A q \in reads' : q.id \in ConvId
  <2> DEFINE x == [page |-> mount, id |-> P.currentId, why |-> "poll"]
  <2>1. reads' \subseteq reads \cup {x} /\ (reads' # reads => P.armed \/ P.follow # 0)
    BY DEF Poll, EffectsRerun, FollowTick, OnlyPage
  <2>2. x.id = P.currentId
    OBVIOUS
  <2> HIDE DEF x
  <2>3. P.armed \/ P.follow # 0 => P.currentId \in ConvId
    BY <1>2 DEF PageOK, Aimed, Named
  <2> QED
    BY <2>1, <2>2, <2>3 DEF Threads
<1>5. CASE Poll \/ EffectsRerun
  <2> DEFINE a == [P EXCEPT !.armed = FALSE]
             b == [P EXCEPT !.follow = 0]
  <2>1. pg' = [pg EXCEPT ![mount] = a] \/ pg' = [pg EXCEPT ![mount] = b]
    BY <1>2, <1>5 DEF Poll, EffectsRerun, P
  <2>2. PageOK(a) /\ Shows(P, a) /\ Untimed(P, a) /\ PageOK(b) /\ Shows(P, b) /\ Untimed(P, b)
    BY <1>2 DEF PageOK, PageFields, Shows, Untimed
  <2> HIDE DEF a, b
  <2>3. Tidy(a) /\ Tidy(b)
    BY <1>2, <2>2, FieldTidy
  <2>4. Aimed(a) /\ Aimed(b)
    BY <1>2, <2>2 DEF Aimed, Shows, Untimed
  <2>5. Threads'
    BY <1>1, <1>2, <1>3, <1>4, <2>1, <2>3, <2>4, ThreadsStep
  <2> QED
    BY <1>1, <1>3, <2>5
<1>6. CASE FollowTick
  <2> DEFINE x == Msg("assistant", live, turns[live].th, turns[live].got, FALSE)
             m == ReplaceLast(P.messages, x)
             a == [P EXCEPT !.messages = m]
             b == [P EXCEPT !.follow = 0, !.abort = 0, !.streaming = FALSE]
  <2>1. Paint(a) \/ Paint(b)
    BY <1>6 DEF FollowTick
  <2>2. TameSeq(m)
    BY <1>2, MadeTame, ReplaceTame DEF Tidy
  <2> HIDE DEF m, x
  <2>3. /\ PageOK(a) /\ a.messages = m /\ a.queued = P.queued /\ a.list = P.list
        /\ a.tabs = P.tabs /\ Untimed(P, a)
    BY <1>2 DEF PageOK, PageFields, Untimed
  <2>4. PageOK(b) /\ Shows(P, b) /\ Untimed(P, b)
    BY <1>2, PlaygroundAssumption DEF PageOK, PageFields, Shows, Untimed
  <2> HIDE DEF a, b
  <2>5. Tidy(a) /\ Tidy(b)
    BY <1>2, <2>2, <2>3, <2>4, FieldTidy
  <2>6. Tidies
    BY <1>1, <2>1, <2>3, <2>4, <2>5 DEF Tidies
  <2>7. Threads'
    BY <1>1, <1>2, <1>3, <1>4, <2>6, TidyStep
  <2> QED
    BY <1>1, <1>3, <2>7
<1> QED
  BY <1>5, <1>6

\* The page is left, and opened again.
LEMMA MountThreads ==
    ASSUME Core, Threads, Leave \/ Return
    PROVE  Threads' /\ Onward /\ net' = net /\ server' = server
<1>1. UNCHANGED <<server, net, titling, turns>> /\ reads' \subseteq reads /\ Shapes /\ DOMAIN pg = Pages
  BY DEF Leave, Return, Core, Shapes
<1>2. Running' = Running /\ (\A n \in Running' : Settled(turns'[n].base)) /\ Onward
  BY <1>1 DEF Running, Threads, Onward
<1>3. ASSUME \A q \in Pages : Tidy(pg'[q]), (OnPage => Aimed(P))'
      PROVE  Threads'
  BY <1>1, <1>2, <1>3 DEF Threads, Tidy, Pages, Tabs, ConvId, Old
<1>4. CASE Leave
  <2> DEFINE r == Left(P.currentId, P.queued, P.resumes, P.answerNow)
  <2>1. OnPage /\ pg' = [pg EXCEPT ![mount] = r] /\ mount' = 0
    BY <1>4 DEF Leave, Left
  <2>2. Tidy(P) /\ mount \in Pages
    BY <2>1, TidyP
  <2>3. /\ r.messages = <<>> /\ r.queued = P.queued
        /\ r.list = [d \in ConvId |-> NoEntry]
        /\ r.tabs = [i \in Tabs |-> IF i = 1 THEN EmptyTab ELSE NoTab]
    BY LeftShows
  <2> HIDE DEF r
  <2>4. IsSeq(r.queued) /\ TameSeq(r.messages)
    BY <2>2, <2>3, NothingTame DEF Tidy
  <2>5. DOMAIN r.list = ConvId /\ \A c \in ConvId : TameSeq(r.list[c].msgs)
    BY <2>3, NothingTame
  <2>6. \A i \in Tabs : TameSeq(r.tabs[i].messages)
    BY <2>3, NothingTame
  <2>7. Tidy(r)
    BY <2>4, <2>5, <2>6 DEF Tidy
  <2>8. \A q \in Pages : Tidy(pg'[q])
    BY <1>1, <2>1, <2>7 DEF Threads
  <2> QED
    BY <1>1, <1>2, <1>3, <2>1, <2>8 DEF OnPage
<1>5. CASE Return
  <2> DEFINE o == opened + 1
  <2>1. pg' = [pg EXCEPT ![o] = FreshPage] /\ mount' = o /\ mount = 0
    BY <1>5 DEF Return, OnPage
  <2>2. o \in Pages
    BY <1>1, <2>1, PlaygroundAssumption DEF Shapes, Pages
  <2>3. \A q \in Pages : Tidy(pg'[q])
    BY <1>1, <2>1, FreshTidy DEF Threads
  <2>4. FreshPage.armed = FALSE /\ FreshPage.follow = 0
    BY DEF FreshPage
  <2>5. P' = FreshPage
    BY <1>1, <2>1, <2>2 DEF P
  <2>6. Aimed(P')
    BY <2>4, <2>5 DEF Aimed
  <2> QED
    BY <1>1, <1>2, <1>3, <2>3, <2>6
<1> QED
  BY <1>4, <1>5

-----------------------------------------------------------------------------
(* Checkpoints are replaced *)

\* Nothing is sent and nothing arrives.
LEMMA MarkedSame ==
    ASSUME Marked, Onward, net' = net, server' = server
    PROVE  Marked'
<1>1. \A c : Written(c) => Written(c)'
  BY DEF Written, Onward
<1> QED
  BY <1>1 DEF Marked, ConvId, Old

\* An answer to this conversation is being written after the step.
Still(c) == \E n \in Running' : turns'[n].liveId = c

\* A request leaves: a turn that no longer answers a conversation has sent its end.
LEMMA MarkedSent ==
    ASSUME Marked, IsSeq(net), NEW x, net' = Append(net, x), server' = server,
           \A c \in ConvId : Written(c) => c = x.id \/ Still(c),
           LastPending(x.msgs) => Still(x.id), \A i \in DOMAIN net : net[i].id \in ConvId
    PROVE  Marked'
<1> DEFINE k == Len(net) + 1
<1>1. /\ DOMAIN net = 1 .. Len(net) /\ Len(net) \in Nat
      /\ DOMAIN net' = 1 .. k
      /\ \A i \in 1 .. k : net'[i] = IF i = k THEN x ELSE net[i]
  BY LastRequest
<1>2. net'[k] = x /\ k \in DOMAIN net' /\ \A i \in DOMAIN net : i \in DOMAIN net' /\ net'[i] = net[i] /\ k > i
  BY <1>1
<1>3. ASSUME NEW i \in DOMAIN net', LastPending(net'[i].msgs)
      PROVE  (\E j \in DOMAIN net' : j > i /\ net'[j].id = net'[i].id) \/ Still(net'[i].id)
  <2>1. CASE i = k
    BY <1>2, <1>3, <2>1
  <2>2. CASE i # k
    <3>1. i \in DOMAIN net /\ net'[i] = net[i]
      BY <1>1, <2>2
    <3>2. (\E j \in DOMAIN net : j > i /\ net[j].id = net[i].id) \/ Written(net[i].id)
      BY <1>3, <3>1 DEF Marked
    <3>3. Written(net[i].id) => net[i].id = x.id \/ Still(net[i].id)
      BY <3>1
    <3> QED
      BY <1>2, <3>1, <3>2, <3>3
  <2> QED
    BY <2>1, <2>2
<1>4. ASSUME NEW c \in ConvId, LastPending(server[c])
      PROVE  (\E j \in DOMAIN net' : net'[j].id = c) \/ Still(c)
  <2>1. (\E j \in DOMAIN net : net[j].id = c) \/ Written(c)
    BY <1>4 DEF Marked
  <2> QED
    BY <1>2, <2>1
<1> HIDE DEF k
<1> QED
  BY <1>3, <1>4 DEF Marked, Written, Still, ConvId, Old

\* The oldest request is served.
LEMMA FirstServed ==
    ASSUME NEW s, IsSeq(s), 1 \in DOMAIN s
    PROVE  LET r == RemoveAt(s, 1)
           IN  /\ DOMAIN s = 1 .. Len(s) /\ Len(s) \in Nat /\ Len(s) > 0
               /\ DOMAIN r = 1 .. (Len(s) - 1)
               /\ \A i \in 1 .. (Len(s) - 1) : r[i] = s[i + 1]
<1>1. PICK S : s \in Seq(S)
  BY DEF IsSeq
<1>2. DOMAIN s = 1 .. Len(s) /\ Len(s) \in Nat /\ Len(s) > 0
  BY <1>1
<1> DEFINE a == SubSeq(s, 1, 0)
           b == SubSeq(s, 2, Len(s))
           r == RemoveAt(s, 1)
<1>3. a \in Seq(S) /\ Len(a) = 0
  BY <1>1, <1>2
<1>4. b \in Seq(S) /\ Len(b) = Len(s) - 1 /\ \A i \in 1 .. (Len(s) - 1) : b[i] = s[i + 1]
  BY <1>1, <1>2
<1>5. r = a \o b
  BY DEF RemoveAt
<1> HIDE DEF a, b, r
<1>6. DOMAIN r = 1 .. (Len(s) - 1) /\ \A i \in 1 .. (Len(s) - 1) : r[i] = b[i]
  <2>1. /\ DOMAIN (a \o b) = 1 .. (Len(a) + Len(b))
        /\ \A i \in 1 .. (Len(a) + Len(b)) : (a \o b)[i] = IF i <= Len(a) THEN a[i] ELSE b[i - Len(a)]
    <3>1. a \in Seq(S) /\ b \in Seq(S)
      BY <1>3, <1>4
    <3> QED
      BY ONLY <3>1
  <2>2. Len(a) + Len(b) = Len(s) - 1
    BY <1>2, <1>3, <1>4
  <2>3. \A i \in 1 .. (Len(s) - 1) : ~(i <= Len(a)) /\ i - Len(a) = i
    BY <1>2, <1>3
  <2> QED
    BY <1>5, <2>1, <2>2, <2>3
<1> QED
  BY <1>2, <1>4, <1>6 DEF r

\* The server takes the requests in the order in which they left.
LEMMA ServedThreads ==
    ASSUME Core, DataOK, Threads, Marked, "net" \notin mode, NEW i, RequestServed(i)
    PROVE  Threads' /\ Marked'
<1>1. /\ 1 \in DOMAIN net /\ server' = [server EXCEPT ![net[1].id] = net[1].msgs]
      /\ net' = RemoveAt(net, 1) /\ UNCHANGED <<reads, titling, turns, pg, mount>>
  BY DEF RequestServed, Servable
<1>2. IsSeq(net) /\ DOMAIN server = ConvId
  BY DEF DataOK
<1> DEFINE k == Len(net) - 1
<1>3. /\ DOMAIN net = 1 .. Len(net) /\ Len(net) \in Nat /\ Len(net) > 0
      /\ DOMAIN net' = 1 .. k /\ \A j \in 1 .. k : net'[j] = net[j + 1]
  BY <1>1, <1>2, FirstServed
<1>4. \A j \in DOMAIN net' : j + 1 \in DOMAIN net /\ net'[j] = net[j + 1]
  BY <1>3
<1>5. \A j \in DOMAIN net : j # 1 => j - 1 \in DOMAIN net' /\ net'[j - 1] = net[j]
  <2> SUFFICES ASSUME NEW j \in 1 .. Len(net), j # 1
               PROVE  j - 1 \in 1 .. k /\ net'[j - 1] = net[j]
    BY <1>3
  <2>1. j - 1 \in 1 .. k /\ (j - 1) + 1 = j
    BY <1>3
  <2> QED
    BY <1>3, <2>1
<1>6. /\ net[1].id \in ConvId /\ TameSeq(net[1].msgs)
      /\ \A c \in ConvId : server'[c] = IF c = net[1].id THEN net[1].msgs ELSE server[c]
  BY <1>1, <1>2 DEF Threads
<1>7. Threads'
  <2>1. \A c \in ConvId : TameSeq(server'[c])
    BY <1>6 DEF Threads
  <2>2. \A j \in DOMAIN net' : net'[j].id \in ConvId /\ TameSeq(net'[j].msgs)
    BY <1>4 DEF Threads
  <2> QED
    BY <1>1, <2>1, <2>2 DEF Threads, Tidy, Running, Pages, Tabs, ConvId, Old, OnPage, P, Aimed
<1>8. \A c : Written(c) => Still(c)
  BY <1>1 DEF Written, Still, Running
<1>9. ASSUME NEW j \in DOMAIN net', LastPending(net'[j].msgs)
      PROVE  (\E l \in DOMAIN net' : l > j /\ net'[l].id = net'[j].id) \/ Still(net'[j].id)
  <2>1. j + 1 \in DOMAIN net /\ net'[j] = net[j + 1] /\ j \in Nat
    BY <1>3, <1>4
  <2>2. (\E l \in DOMAIN net : l > j + 1 /\ net[l].id = net[j + 1].id) \/ Written(net[j + 1].id)
    BY <1>9, <2>1 DEF Marked
  <2>3. ASSUME NEW l \in DOMAIN net, l > j + 1, net[l].id = net[j + 1].id
        PROVE  \E h \in DOMAIN net' : h > j /\ net'[h].id = net'[j].id
    <3>1. l \in Nat /\ l # 1 /\ l - 1 > j
      BY <1>3, <2>1, <2>3
    <3>2. l - 1 \in DOMAIN net' /\ net'[l - 1] = net[l]
      BY <1>5, <3>1
    <3> QED
      BY <2>1, <2>3, <3>1, <3>2
  <2> QED
    BY <1>8, <2>1, <2>2, <2>3
<1>10. ASSUME NEW c \in ConvId, LastPending(server'[c])
       PROVE  (\E l \in DOMAIN net' : net'[l].id = c) \/ Still(c)
  <2>1. ASSUME NEW l \in DOMAIN net, l # 1, net[l].id = c
        PROVE  \E h \in DOMAIN net' : net'[h].id = c
    BY <1>5, <2>1
  <2>2. CASE c = net[1].id
    <3>1. LastPending(net[1].msgs)
      BY <1>6, <1>10, <2>2
    <3>2. (\E l \in DOMAIN net : l > 1 /\ net[l].id = net[1].id) \/ Written(net[1].id)
      BY <1>1, <3>1 DEF Marked
    <3>3. \A l \in DOMAIN net : l > 1 => l # 1
      BY <1>3
    <3> QED
      BY <1>8, <2>1, <2>2, <3>2, <3>3
  <2>3. CASE c # net[1].id
    <3>1. LastPending(server[c])
      BY <1>6, <1>10, <2>3
    <3>2. (\E l \in DOMAIN net : net[l].id = c) \/ Written(c)
      BY <3>1 DEF Marked
    <3> QED
      BY <1>8, <2>1, <2>3, <3>2
  <2> QED
    BY <2>2, <2>3
<1> HIDE DEF k
<1>11. Marked'
  BY <1>9, <1>10 DEF Marked, Written, Still, ConvId, Old
<1> QED
  BY <1>7, <1>11

-----------------------------------------------------------------------------
(* The last save of a turn *)

\* Requests arrive, in the order in which they left; conversations are not renamed and
\* titles are not generated (a title saves the list's copy, whatever it holds).
Ordered == \A m \in Modes : "net" \notin m /\ "titles" \notin m

\* Every step leaves the threads tame and the checkpoints followed.
LEMMA SavedNext ==
    ASSUME Ordered, PlaygroundInv, PlaygroundInv', Threads, Marked, [PlaygroundNext]_pgVars
    PROVE  Threads' /\ Marked'
<1>1. /\ Core /\ Shapes' /\ DataOK /\ IsSeq(net) /\ "net" \notin mode /\ "titles" \notin mode
      /\ \A q \in reads : q.page # 0 /\ q.id \in ConvId
      /\ titling = {} /\ \A j \in DOMAIN net : net[j].id \in ConvId
  BY DEF PlaygroundInv, Core, DataOK, Ordered, Threads
<1>2. ASSUME Onward, net' = net, server' = server
      PROVE  Marked'
  BY <1>2, MarkedSame
<1>3. ASSUME UNCHANGED <<server, titling, turns, pg, mount, net>>, \A q \in reads' : q.id \in ConvId
      PROVE  Threads' /\ Marked'
  BY <1>1, <1>2, <1>3, QuietThreads
<1>4. ASSUME Tidies, UNCHANGED <<server, titling, mount, net>>, SameTurns,
             \A q \in reads' : q.id \in ConvId
      PROVE  Threads' /\ Marked'
  <2>1. Running' = Running /\ \A n \in Running' : Settled(turns'[n].base)
    BY <1>4, SameSettled
  <2>2. Onward
    BY <1>4, <2>1 DEF Onward, SameTurns, Running
  <2>3. Threads'
    BY <1>1, <1>4, <2>1, TidyStep
  <2> QED
    BY <1>2, <1>4, <2>2, <2>3
<1>5. ASSUME NEW n \in 1 .. MaxTurns, Checkpoint(n)
      PROVE  Threads' /\ Marked'
  <2>1. /\ Threads' /\ server' = server /\ n \in Running
        /\ \E x : x.id = ConvOf(n) /\ x.id \in ConvId /\ net' = Append(net, x)
        /\ \A m \in Running : /\ m \in Running'
                              /\ turns'[m].liveId = IF m = n THEN ConvOf(n) ELSE turns[m].liveId
    BY <1>1, <1>5, CheckpointThreads
  <2>2. PICK x : x.id = ConvOf(n) /\ x.id \in ConvId /\ net' = Append(net, x)
    BY <2>1
  <2>3. Still(x.id)
    BY <2>1, <2>2 DEF Still
  <2>4. \A c \in ConvId : Written(c) => c = x.id \/ Still(c)
    <3> SUFFICES ASSUME NEW c \in ConvId, NEW m \in Running, turns[m].liveId = c
                 PROVE  c = x.id \/ Still(c)
      BY DEF Written
    <3>1. CASE m = n
      <4>1. 0 \notin ConvId
        BY PlaygroundAssumption DEF ConvId, Old
      <4> QED
        BY <2>2, <3>1, <4>1 DEF ConvOf
    <3>2. CASE m # n
      BY <2>1, <3>2 DEF Still
    <3> QED
      BY <3>1, <3>2
  <2> QED
    BY <1>1, <2>1, <2>2, <2>3, <2>4, MarkedSent
<1>6. ASSUME NEW n \in 1 .. MaxTurns, End(n)
      PROVE  Threads' /\ Marked'
  <2>1. /\ Threads' /\ server' = server /\ n \in Running
        /\ \E x : /\ x.id = ConvOf(n) /\ x.id \in ConvId /\ ~LastPending(x.msgs)
                  /\ net' = Append(net, x)
        /\ \A m \in Running : m # n => m \in Running' /\ turns'[m].liveId = turns[m].liveId
    BY <1>1, <1>6, EndThreads
  <2>2. PICK x : x.id = ConvOf(n) /\ x.id \in ConvId /\ ~LastPending(x.msgs) /\ net' = Append(net, x)
    BY <2>1
  <2>3. \A c \in ConvId : Written(c) => c = x.id \/ Still(c)
    <3> SUFFICES ASSUME NEW c \in ConvId, NEW m \in Running, turns[m].liveId = c
                 PROVE  c = x.id \/ Still(c)
      BY DEF Written
    <3>1. CASE m = n
      <4>1. 0 \notin ConvId
        BY PlaygroundAssumption DEF ConvId, Old
      <4> QED
        BY <2>2, <3>1, <4>1 DEF ConvOf
    <3>2. CASE m # n
      BY <2>1, <3>2 DEF Still
    <3> QED
      BY <3>1, <3>2
  <2> QED
    BY <1>1, <2>1, <2>2, <2>3, MarkedSent
<1>7. CASE PlaygroundWorks
  <2>1. ASSUME NEW n \in 1 .. MaxTurns, Delta(n)
        PROVE  Threads' /\ Marked'
    BY <1>1, <1>2, <2>1, StreamThreads
  <2>2. ASSUME NEW i, RequestServed(i) \/ RequestLost(i)
        PROVE  Threads' /\ Marked'
    BY <1>1, <2>2, ServedThreads DEF RequestLost
  <2>3. \A q \in titling : ~TitleArrives(q)
    BY <1>1
  <2>4. CASE (\E q \in reads : ReadArrives(q)) \/ ListArrives \/ ModelsArrive
    <3>1. UNCHANGED <<server, titling, mount, net, turns>> /\ reads' \subseteq reads
      BY <2>4 DEF ReadArrives, ListArrives, ModelsArrive, OnlyPage
    <3>2. SameTurns
      BY <3>1 DEF SameTurns
    <3> QED
      BY <1>1, <1>3, <1>4, <2>4, <3>1, <3>2, TidyHistory
  <2>5. CASE Poll \/ EffectsRerun \/ FollowTick
    BY <1>1, <1>2, <2>5, TimerThreads
  <2> QED
    BY <1>5, <1>6, <1>7, <2>1, <2>2, <2>3, <2>4, <2>5 DEF PlaygroundWorks
<1>8. CASE PlaygroundUser
  <2>1. ASSUME Asks
        PROVE  Threads' /\ Marked'
    <3>1. net' = net /\ server' = server
      BY <2>1 DEF Asks
    <3> QED
      BY <1>1, <1>2, <2>1, <3>1, AskThreads
  <2>2. CASE Send \/ sendVoice \/ AskHidden \/ regenerate
    BY <1>1, <2>1, <2>2, TidyAsks
  <2>3. CASE \/ SendQueued \/ answerNow
             \/ \E i \in 1 .. (2 * MaxTurns + 2) : editMessage(i)
             \/ \E i \in 1 .. MaxTyped : discardQueued(i) \/ sendQueuedNow(i)
    <3>1. (Tidies /\ SameTurns /\ UNCHANGED <<server, net, reads, titling, mount>>) \/ Asks
      BY <1>1, <2>3, TidyQueue
    <3> QED
      BY <1>1, <1>4, <2>1, <3>1
  <2>4. CASE stop
    BY <1>1, <1>2, <2>4, StreamThreads
  <2>5. ASSUME NEW i \in Tabs, switchTab(i) \/ newTab(i) \/ closeTab(i)
        PROVE  Threads' /\ Marked'
    <3>1. UNCHANGED <<server, titling, mount, net, turns, reads>>
      BY <1>1, <2>5 DEF switchTab, newTab, closeTab, OnlyPage
    <3>2. SameTurns
      BY <3>1 DEF SameTurns
    <3> QED
      BY <1>1, <1>4, <2>5, <3>1, <3>2, TidyTabs
  <2>6. ASSUME NEW c \in ConvId, selectConversation(c) \/ OpenFromUrl(c)
        PROVE  Threads' /\ Marked'
    <3>1. /\ UNCHANGED <<server, titling, mount, net, turns>>
          /\ reads' \subseteq reads \cup {[page |-> mount, id |-> c, why |-> "open"]}
      BY <2>6 DEF selectConversation, OpenFromUrl, OnlyPage
    <3>2. [page |-> mount, id |-> c, why |-> "open"].id = c
      OBVIOUS
    <3>3. SameTurns /\ \A q \in reads' : q.id \in ConvId
      BY <1>1, <3>1, <3>2 DEF SameTurns
    <3> QED
      BY <1>1, <1>3, <1>4, <2>6, <3>1, <3>3, TidyHistory
  <2>7. ASSUME NEW c \in ConvId, deleteConversation(c)
        PROVE  Threads' /\ Marked'
    <3> DEFINE x == DeleteRequest(c)
    <3>1. UNCHANGED <<server, titling, mount, turns, reads>> /\ net' = Append(net, x)
      BY <2>7 DEF deleteConversation
    <3>2. x.id \in ConvId /\ x.msgs = <<>>
      BY RequestIs
    <3> HIDE DEF x
    <3>3. TameSeq(x.msgs) /\ ~LastPending(x.msgs)
      BY <3>2, EmptyTame DEF Settled
    <3>4. Running' = Running /\ (\A n \in Running' : Settled(turns'[n].base))
          /\ \A d : Written(d) => Still(d)
      BY <3>1 DEF Running, Threads, Written, Still
    <3>5. Threads'
      <4>1. CASE Tidies
        BY <1>1, <3>1, <3>2, <3>3, <3>4, <4>1, TidyStep
      <4>2. CASE pg' = pg
        BY <1>1, <3>1, <3>2, <3>3, <4>2, QuietThreads
      <4> QED
        BY <1>1, <2>7, <4>1, <4>2, TidyHistory
    <3> QED
      BY <1>1, <3>1, <3>3, <3>4, <3>5, MarkedSent
  <2>8. ~genTitle /\ \A c \in ConvId : ~commitRename(c)
    BY <1>1 DEF genTitle, commitRename
  <2>9. CASE Leave \/ Return
    BY <1>1, <1>2, <2>9, MountThreads
  <2> QED
    BY <1>8, <2>2, <2>3, <2>4, <2>5, <2>6, <2>7, <2>8, <2>9 DEF PlaygroundUser
<1>9. CASE UNCHANGED pgVars
  BY <1>1, <1>3, <1>9 DEF pgVars
<1> QED
  BY <1>7, <1>8, <1>9 DEF PlaygroundNext

\* In every state the threads are tame and the checkpoints followed.
LEMMA SavedInvariance ==
    ASSUME Ordered
    PROVE  PlaygroundSpec => [](Threads /\ Marked)
<1>1. PlaygroundInit => Threads /\ Marked
  <2> SUFFICES ASSUME PlaygroundInit
               PROVE  Threads /\ Marked
    OBVIOUS
  <2>1. \A c \in ConvId : Settled(server[c])
    <3> SUFFICES ASSUME NEW c \in ConvId
                 PROVE  Settled(server[c])
      OBVIOUS
    <3>1. server[c] = OldThread(c) \/ server[c] = <<>>
      BY DEF PlaygroundInit
    <3> DEFINE a == Msg("user", 0, c, 0, FALSE)
               b == Msg("assistant", 0, c, 1, FALSE)
    <3>2. TameMsg(a) /\ TameMsg(b) /\ b.pending = FALSE
      BY DEF TameMsg, Msg
    <3>3. OldThread(c) = <<a, b>>
      BY DEF OldThread
    <3> HIDE DEF a, b
    <3>4. OldThread(c) = Append(Append(<<>>, a), b)
      BY <3>3
    <3>5. TameSeq(Append(<<>>, a))
      BY <3>2, NothingTame, AppendTame
    <3>6. Settled(Append(Append(<<>>, a), b))
      BY <3>2, <3>5, AppendTame
    <3> QED
      BY <3>1, <3>4, <3>6, EmptyTame
  <2>2. \A p \in Pages : Tidy(pg[p])
    BY FreshTidy DEF PlaygroundInit
  <2>3. Running = {}
    BY DEF PlaygroundInit, Running, NoTurn
  <2>4. DOMAIN net = {} /\ titling = {} /\ reads = {}
    BY DEF PlaygroundInit
  <2>5. Aimed(P)
    <3>1. 1 \in Pages
      BY PlaygroundAssumption DEF Pages
    <3>2. P = FreshPage
      <4> DEFINE f == FreshPage
      <4>1. pg = [p \in Pages |-> f] /\ mount = 1
        BY DEF PlaygroundInit
      <4> HIDE DEF f
      <4>2. pg[mount] = f
        BY <3>1, <4>1
      <4> QED
        BY <4>2 DEF P, f
    <3>3. FreshPage.armed = FALSE /\ FreshPage.follow = 0
      BY DEF FreshPage
    <3> QED
      BY <3>2, <3>3 DEF Aimed
  <2> QED
    BY <2>1, <2>2, <2>3, <2>4, <2>5 DEF Threads, Marked, Settled
<1>2. PlaygroundInv /\ PlaygroundInv' /\ Threads /\ Marked /\ [PlaygroundNext]_pgVars => Threads' /\ Marked'
  BY SavedNext
<1> QED
  BY <1>1, <1>2, PlaygroundInvariance, PTL DEF PlaygroundSpec

\* No answer stays marked as being written: when requests arrive in order, the last save
\* of a turn (runStream) replaces its checkpoints, however the page is used, left, opened
\* again or stopped meanwhile, and however many turns follow one another.
THEOREM PlaygroundFinal ==
    ASSUME Ordered
    PROVE  PlaygroundSpec => []FinalSurvives
<1>1. Marked => FinalSurvives
  BY DEF Marked, Written, FinalSurvives, Quiet
<1> QED
  BY <1>1, SavedInvariance, PTL

-----------------------------------------------------------------------------
(***************************************************************************)
(* A conversation that was deleted.  The user stays on the page, in one    *)
(* tab, and uses the history between two answers: the other liberties each *)
(* keep a name of the conversation somewhere, from which it is saved       *)
(* again.                                                                  *)
(***************************************************************************)

Careful == Modes \subseteq SUBSET {"fresh"}

\* A conversation that has been named: it is an old one, or a turn began it.
Known(c, k) == c \in Old \/ c <= k

\* A page that shows, lists and keeps none of the conversations g
Clear(r, g, k) ==
    /\ r.currentId \notin g /\ Known(r.currentId, k)
    /\ \A c \in ConvId : ~r.list[c].omitted /\ (r.list[c].in => c \notin g /\ Known(c, k))
    /\ \A i \in Tabs : r.tabs[i].open => i = r.tab

\* Turn n, which saves under none of them
Spares(n, t, g, k) ==
    /\ t.cid \notin g /\ t.liveId \notin g /\ n \notin g
    /\ Known(t.cid, k) /\ Known(t.liveId, k)

\* A request is a save of a conversation or its deletion.
Plain(x, k) == Known(x.id, k) /\ (x.op = "save" \/ (x.op = "delete" /\ x.msgs = <<>>))

\* The deletion of c is under way, after request j.
Deleting(q, c, j) == \E i \in DOMAIN q : i > j /\ q[i].op = "delete" /\ q[i].id = c

\* A deleted conversation is not on the server or its deletion is under way, and no
\* save of it comes after its deletion.
Erased(g, s, q) ==
    \A c \in g :
      /\ \A j \in DOMAIN q : q[j].id = c /\ q[j].op = "save" => Deleting(q, c, j)
      /\ s[c] = <<>> \/ Deleting(q, c, 0)

Forgotten ==
    /\ Clear(P, gone, nturn)
    /\ \A c \in gone : Known(c, nturn)
    /\ \A c \in ConvId : server[c] # <<>> => Known(c, nturn)
    /\ \A j \in DOMAIN net : Plain(net[j], nturn)
    /\ \A n \in Running : Spares(n, turns[n], gone, nturn)
    /\ \A q \in reads : q.why # "open"
    /\ Erased(gone, server, net)

\* Names are numbers.
LEMMA NamesAre ==
    /\ ConvId \subseteq Nat /\ 0 \notin ConvId /\ Named \subseteq Nat
    /\ \A k \in 1 .. MaxTurns : k \in ConvId /\ k \notin Old
    /\ \A c \in Named, j, k \in Nat : Known(c, j) /\ j <= k => Known(c, k)
    /\ \A k \in Nat : Known(0, k)
  BY PlaygroundAssumption DEF ConvId, Old, Named, Known

\* What the effects after a render leave clear
LEMMA ClearPaints ==
    ASSUME NEW new, PageOK(new), NEW g, NEW k, Clear(new, g, k), NEW conv
    PROVE  /\ Clear(Painted(mount, new, conv), g, k)
           /\ Clear(Polling(Adopted(P, new, conv), conv), g, k)
<1>1. Shows(new, Painted(mount, new, conv)) /\ Shows(new, Polling(Adopted(P, new, conv), conv))
  BY PaintedShows, EffectsShow
<1> QED
  BY <1>1 DEF Shows, Clear

\* More turns began.
LEMMA ClearLater ==
    ASSUME NEW r, NEW g, NEW j \in Nat, NEW k \in Nat, j <= k, Clear(r, g, j), PageOK(r)
    PROVE  Clear(r, g, k)
<1>1. r.currentId \in Named /\ ConvId \subseteq Named
  BY DEF PageOK, Named
<1> QED
  BY <1>1, NamesAre DEF Clear

\* The step sends nothing, or saves a conversation that was not deleted.
Sends ==
    \/ net' = net
    \/ \E x : x.op = "save" /\ x.id \in ConvId /\ x.id \notin gone /\ Known(x.id, nturn') /\ net' = Append(net, x)

\* A request leaves.
LEMMA ErasedSent ==
    ASSUME NEW s, NEW q, IsSeq(q), NEW g, Erased(g, s, q), NEW x, x.op = "save" => x.id \notin g
    PROVE  Erased(g, s, Append(q, x))
<1> DEFINE z == Append(q, x)
           k == Len(q) + 1
<1>1. /\ DOMAIN q = 1 .. Len(q) /\ Len(q) \in Nat /\ DOMAIN z = 1 .. k
      /\ \A i \in 1 .. k : z[i] = IF i = k THEN x ELSE q[i]
  BY LastRequest
<1>2. \A i \in DOMAIN q : i \in DOMAIN z /\ z[i] = q[i]
  BY <1>1
<1>3. \A i \in DOMAIN z : i = k \/ i \in DOMAIN q
  BY <1>1
<1>4. k \in DOMAIN z /\ z[k] = x
  BY <1>1
<1> HIDE DEF z, k
<1>5. \A c, j : Deleting(q, c, j) => Deleting(z, c, j)
  BY <1>2 DEF Deleting
<1>6. Erased(g, s, z)
  BY <1>2, <1>3, <1>4, <1>5 DEF Erased
<1> QED
  BY <1>6 DEF z

\* A step that deletes nothing: what is left to show is about the page on screen, the
\* turns that run and the request that leaves.
LEMMA ForgottenStep ==
    ASSUME Shapes, DataOK, Forgotten, NEW r, Clear(r, gone, nturn'),
           mount \in Pages, pg' = [pg EXCEPT ![mount] = r] \/ (pg' = pg /\ r = P),
           mount' = mount, gone' = gone, server' = server, nturn' \in Nat, nturn <= nturn', Sends,
           \A n \in Running' : Spares(n, turns'[n], gone, nturn'), \A q \in reads' : q.why # "open",
           \A j \in DOMAIN net : net[j].id \in ConvId
    PROVE  Forgotten'
<1>1. nturn \in Nat /\ IsSeq(net) /\ gone \subseteq ConvId /\ ConvId \subseteq Named
  BY DEF Shapes, DataOK, Named
<1>2. \A c \in ConvId : Known(c, nturn) => Known(c, nturn')
  BY <1>1, NamesAre
<1>3. P' = r
  BY DEF P, Shapes
<1>4. \A j \in DOMAIN net : Plain(net[j], nturn')
  BY <1>2 DEF Forgotten, Plain
<1>5. (\A j \in DOMAIN net' : Plain(net'[j], nturn')) /\ Erased(gone, server, net')
  <2>1. CASE net' = net
    BY <1>4, <2>1 DEF Forgotten
  <2>2. ASSUME NEW x, x.op = "save", x.id \in ConvId, x.id \notin gone, Known(x.id, nturn'), net' = Append(net, x)
        PROVE  (\A j \in DOMAIN net' : Plain(net'[j], nturn')) /\ Erased(gone, server, net')
    <3>1. Plain(x, nturn')
      BY <2>2 DEF Plain
    <3>2. \A j \in DOMAIN net' : net'[j] = x \/ (j \in DOMAIN net /\ net'[j] = net[j])
      BY <1>1, <2>2, LastRequest
    <3>3. Erased(gone, server, net')
      BY <1>1, <2>2, ErasedSent DEF Forgotten
    <3> QED
      BY <1>4, <3>1, <3>2, <3>3
  <2> QED
    BY <2>1, <2>2 DEF Sends
<1>6. Clear(P', gone', nturn')
  BY <1>3
<1>7. /\ \A c \in gone' : Known(c, nturn')
      /\ \A c \in ConvId : server'[c] # <<>> => Known(c, nturn')
  BY <1>1, <1>2 DEF Forgotten
<1> QED
  BY <1>5, <1>6, <1>7 DEF Forgotten, Clear, Known, Spares, Plain, Erased, Deleting, ConvId, Old, Tabs

\* The page on screen is painted, and stays clear.
Clears == OnPage /\ \E new : PageOK(new) /\ Clear(new, gone, nturn) /\ (Paint(new) \/ Repaint(new))

\* What is painted shows the same conversation in the same list and tabs.
Alters(new) ==
    /\ PageOK(new) /\ new.currentId = P.currentId /\ new.list = P.list /\ new.tabs = P.tabs
    /\ new.tab = P.tab

\* Then the page stays clear.
LEMMA AltersClears ==
    ASSUME Forgotten, OnPage, NEW new, Alters(new), Paint(new) \/ Repaint(new)
    PROVE  Clears
  BY DEF Forgotten, Alters, Clear, Clears

\* The page is painted, the turns go on and nothing is sent.
LEMMA ClearStep ==
    ASSUME Core, DataOK, Threads, Forgotten, Clears \/ pg' = pg, OnPage, SameTurns,
           UNCHANGED <<server, net, gone, mount, nturn>>, \A q \in reads' : q.why # "open"
    PROVE  Forgotten'
<1>1. mount \in Pages /\ Shapes /\ nturn \in Nat /\ \A j \in DOMAIN net : net[j].id \in ConvId
  BY TidyP DEF Shapes, Threads
<1>2. PICK r : Clear(r, gone, nturn) /\ (pg' = [pg EXCEPT ![mount] = r] \/ (pg' = pg /\ r = P))
  BY ClearPaints DEF Forgotten, Clears, Paint, Repaint
<1>3. \A n \in Running' : Spares(n, turns'[n], gone, nturn')
  BY DEF SameTurns, Running, Forgotten, Spares
<1>4. Sends /\ nturn <= nturn'
  BY <1>1 DEF Sends
<1> QED
  BY <1>1, <1>2, <1>3, <1>4, ForgottenStep

\* The queue, the quick answer, the message that is edited: the page shows the same
\* conversation, and a queue that goes out at once has a turn.
LEMMA ForgottenQueue ==
    ASSUME Core, Alone, DataOK, Threads, Forgotten,
           \/ SendQueued \/ answerNow
           \/ \E i \in 1 .. (2 * MaxTurns + 2) : editMessage(i)
           \/ \E i \in 1 .. MaxTyped : discardQueued(i) \/ sendQueuedNow(i)
    PROVE  Forgotten'
<1>1. OnPage /\ Calm(P) /\ PageOK(P) /\ Shapes /\ DOMAIN P = PageFields
  BY AloneRuns, TidyP DEF PageOK
<1>2. UNCHANGED <<server, net, gone, mount, reads>>
  BY DEF SendQueued, answerNow, editMessage, discardQueued, sendQueuedNow, OnlyTurn
<1>3. \A q : Alters([P EXCEPT !.queued = q])
  BY <1>1 DEF PageOK, PageFields, Alters
<1>4. ASSUME NEW new, Alters(new), Paint(new), SameTurns, nturn' = nturn
      PROVE  Forgotten'
  <2>1. Clears
    BY <1>1, <1>4, AltersClears
  <2>2. \A q \in reads' : q.why # "open"
    BY <1>2 DEF Forgotten
  <2> QED
    BY <1>1, <1>2, <1>4, <2>1, <2>2, ClearStep
<1>5. CASE SendQueued
  <2>1. turns' = turns /\ nturn' = nturn /\ Paint([P EXCEPT !.queued = Append(@, typed')])
    BY <1>5 DEF SendQueued
  <2>2. SameTurns
    BY <1>1, <2>1, StreamSame
  <2> QED
    BY <1>3, <1>4, <2>1, <2>2
<1>6. CASE answerNow
  <2> DEFINE new == [P EXCEPT !.answerNow = TRUE]
  <2>1. /\ P.abort \in Running /\ turns' = [turns EXCEPT ![P.abort].aborted = TRUE] /\ nturn' = nturn
        /\ Paint(new)
    BY <1>6 DEF answerNow
  <2>2. SameTurns
    BY <1>1, <2>1, StreamSame
  <2>3. Alters(new)
    BY <1>1 DEF PageOK, PageFields, Alters
  <2> QED
    BY <1>4, <2>1, <2>2, <2>3
<1>7. ASSUME NEW i, editMessage(i)
      PROVE  Forgotten'
  <2> DEFINE new == [P EXCEPT !.editing = i]
  <2>1. turns' = turns /\ nturn' = nturn /\ Paint(new)
    BY <1>7 DEF editMessage
  <2>2. SameTurns
    BY <1>1, <2>1, StreamSame
  <2>3. Alters(new)
    BY <1>1 DEF PageOK, PageFields, Alters
  <2> QED
    BY <1>4, <2>1, <2>2, <2>3
<1>8. ASSUME NEW i, discardQueued(i)
      PROVE  Forgotten'
  <2>1. turns' = turns /\ nturn' = nturn /\ Paint([P EXCEPT !.queued = RemoveAt(@, i)])
    BY <1>8 DEF discardQueued
  <2>2. SameTurns
    BY <1>1, <2>1, StreamSame
  <2> QED
    BY <1>3, <1>4, <2>1, <2>2
<1>9. ASSUME NEW i, sendQueuedNow(i)
      PROVE  Forgotten'
  <2>1. P.streaming
    BY <1>9 DEF sendQueuedNow, Alone
  <2>2. /\ turns' = IF P.abort \in Running THEN [turns EXCEPT ![P.abort].aborted = TRUE] ELSE turns
        /\ nturn' = nturn /\ \E q : Paint([P EXCEPT !.queued = q])
    BY <1>9, <2>1 DEF sendQueuedNow
  <2>3. SameTurns
    BY <1>1, <2>2, StreamSame
  <2> QED
    BY <1>3, <1>4, <2>2, <2>3
<1> QED
  BY <1>5, <1>6, <1>7, <1>8, <1>9

\* The Stop button and a fragment: the turns save where they did.
LEMMA ForgottenStream ==
    ASSUME Core, Alone, DataOK, Threads, Forgotten, stop \/ \E n \in 1 .. MaxTurns : Delta(n)
    PROVE  Forgotten'
<1>1. OnPage /\ PageOK(P) /\ Shapes /\ DOMAIN P = PageFields
  BY AloneRuns, TidyP DEF PageOK
<1>2. \A q \in reads : q.why # "open"
  BY DEF Forgotten
<1>3. CASE stop
  <2>1. /\ P.abort \in Running /\ turns' = [turns EXCEPT ![P.abort].aborted = TRUE] /\ pg' = pg
        /\ UNCHANGED <<server, net, gone, mount, nturn, reads>>
    BY <1>3 DEF stop
  <2>2. SameTurns
    BY <1>1, <2>1, StreamSame
  <2> QED
    BY <1>1, <1>2, <2>1, <2>2, ClearStep
<1>4. ASSUME NEW n \in 1 .. MaxTurns, Delta(n)
      PROVE  Forgotten'
  <2> DEFINE m == Msg("assistant", n, turns[n].th, turns'[n].got, FALSE)
             a == ReplaceLast(P.messages, m)
             new == [P EXCEPT !.messages = a]
  <2>1. n \in Running /\ turns[n].page = mount /\ turns' = [turns EXCEPT ![n].got = @ + 1]
        /\ UNCHANGED <<server, net, gone, mount, nturn, reads>>
    BY <1>4, AloneRuns DEF Delta
  <2>2. Paint(new)
    BY <1>4, <2>1 DEF Delta, Paint, P
  <2> HIDE DEF a
  <2>3. Alters(new)
    BY <1>1 DEF PageOK, PageFields, Alters
  <2> HIDE DEF new
  <2>4. SameTurns
    BY <1>1, <2>1, StreamSame
  <2>5. Clears
    BY <1>1, <2>2, <2>3, AltersClears
  <2> QED
    BY <1>1, <1>2, <2>1, <2>4, <2>5, ClearStep
<1> QED
  BY <1>3, <1>4

\* A turn that begins is none of the deleted conversations.
LEMMA NewName ==
    ASSUME Shapes, Shapes', nturn' = nturn + 1, Forgotten
    PROVE  nturn + 1 \in 1 .. MaxTurns /\ nturn + 1 \notin gone /\ nturn \in Nat
<1>1. nturn + 1 \in 1 .. MaxTurns /\ nturn \in Nat
  BY DEF Shapes
<1>2. nturn + 1 \notin Old /\ ~(nturn + 1 <= nturn)
  BY <1>1, NamesAre
<1> QED
  BY <1>1, <1>2 DEF Forgotten, Known

\* runStream, called by a handler: the turn is about the conversation on screen.
LEMMA ForgottenAsks ==
    ASSUME Core, Shapes', DataOK, Threads, Forgotten, Asks, gone' = gone
    PROVE  Forgotten'
<1>1. OnPage /\ UNCHANGED <<server, net, reads, mount>> /\ \A q \in reads' : q.why # "open"
  BY DEF Asks, Forgotten
<1>2. PICK rec, base, voice :
         /\ PageOK(rec) /\ Shows([P EXCEPT !.queued = rec.queued], rec)
         /\ runStream(rec, Ask(rec, base, voice))
  BY DEF Asks
<1> DEFINE ask == Ask(rec, base, voice)
<1>3. ask.cid = rec.currentId /\ ask.page = mount
  BY DEF Ask
<1>4. /\ PageOK(P) /\ mount \in Pages /\ Shapes /\ DOMAIN P = PageFields /\ DOMAIN rec = PageFields
      /\ nturn \in Nat /\ \A j \in DOMAIN net : net[j].id \in ConvId
  BY <1>1, <1>2, TidyP DEF Threads, PageOK, Shapes
<1>5. Alters(rec)
  <2> DEFINE q == rec.queued
  <2> HIDE DEF q
  <2>1. LET s == [P EXCEPT !.queued = q]
        IN  s.currentId = P.currentId /\ s.list = P.list /\ s.tabs = P.tabs /\ s.tab = P.tab
    BY <1>4 DEF PageFields
  <2> QED
    BY <1>2, <2>1 DEF Shows, Alters, q
<1> HIDE DEF ask
<1>6. CASE ~rec.model /\ Paint([rec EXCEPT !.messages = Append(ask.base, Note(ask.th))])
           /\ UNCHANGED <<nturn, turns, live>>
  <2> DEFINE m == Append(ask.base, Note(ask.th))
             new == [rec EXCEPT !.messages = m]
  <2>1. Paint(new)
    BY <1>6
  <2> HIDE DEF m
  <2>2. Alters(new)
    BY <1>2, <1>4, <1>5 DEF Alters, PageOK, PageFields
  <2> HIDE DEF new
  <2>3. Clears
    BY <1>1, <2>1, <2>2, AltersClears
  <2>4. SameTurns
    BY <1>6 DEF SameTurns
  <2> QED
    BY <1>1, <1>6, <2>3, <2>4, ClearStep
<1>7. CASE StartTurn(rec, ask)
  <2> DEFINE k == nturn + 1
             m == Append(ask.base, Msg("assistant", k, ask.th, 0, FALSE))
             new == [rec EXCEPT !.streaming = TRUE, !.abort = k, !.messages = m]
             r == Painted(mount, new, ask.cid)
  <2>1. turns' = [turns EXCEPT ![k] = TurnOf(ask)] /\ pg' = [pg EXCEPT ![mount] = r] /\ nturn' = k
    BY <1>3, <1>7 DEF StartTurn
  <2>2. k \in 1 .. MaxTurns /\ k \notin gone /\ k \in Nat /\ nturn <= k /\ k \in 0 .. MaxTurns
    BY <1>4, <2>1, NewName
  <2>3. turns'[k] = TurnOf(ask) /\ \A n \in Running' : n # k => n \in Running /\ turns'[n] = turns[n]
    BY <1>4, <2>1, <2>2 DEF Running, Shapes
  <2>4. rec.currentId \notin gone /\ Known(rec.currentId, nturn) /\ rec.currentId \in Named
    BY <1>2, <1>5 DEF Alters, Forgotten, Clear, PageOK
  <2> HIDE DEF m, k
  <2>5. Alters(new)
    BY <1>2, <1>4, <1>5, <2>2 DEF Alters, PageOK, PageFields
  <2> HIDE DEF new
  <2>6. Clear(new, gone, nturn) /\ PageOK(new)
    BY <2>5 DEF Alters, Forgotten, Clear
  <2>7. Clear(new, gone, k)
    BY <1>4, <2>2, <2>6, ClearLater
  <2>8. Clear(r, gone, k)
    BY <2>6, <2>7, ClearPaints
  <2> HIDE DEF r
  <2>9. \A n \in Running' : Spares(n, turns'[n], gone, k)
    <3>1. Spares(k, TurnOf(ask), gone, k)
      BY <1>3, <1>4, <2>2, <2>4, TurnOfIs, NamesAre DEF Spares
    <3>2. ASSUME NEW n \in Running
          PROVE  Spares(n, turns[n], gone, k)
      <4>1. turns[n].cid \in Named /\ turns[n].liveId \in Named
        BY <1>4, RunningIs DEF TurnOK
      <4> QED
        BY <1>4, <2>2, <4>1, NamesAre DEF Forgotten, Spares
    <3> QED
      BY <2>3, <3>1, <3>2
  <2>10. Sends
    BY <1>1 DEF Sends
  <2> QED
    BY <1>1, <1>4, <2>1, <2>2, <2>8, <2>9, <2>10, ForgottenStep
<1> QED
  BY <1>2, <1>6, <1>7 DEF runStream, ask

\* The conversation of a turn was not deleted.
LEMMA TurnSpares ==
    ASSUME Core, Forgotten, NEW n \in Running
    PROVE  /\ ConvOf(n) \in ConvId /\ ConvOf(n) \notin gone /\ Known(ConvOf(n), nturn)
           /\ Spares(n, turns[n], gone, nturn) /\ n <= nturn
<1>1. /\ n \in 1 .. MaxTurns /\ TurnOK(turns[n]) /\ turns[n].st = "run" /\ Spares(n, turns[n], gone, nturn)
      /\ nturn \in Nat
  BY RunningIs DEF Core, Forgotten, Shapes
<1>2. n <= nturn
  BY <1>1 DEF Core, Unborn
<1> QED
  BY <1>1, <1>2 DEF ConvOf, TurnOK, Named, ConvId, Spares, Known

\* A checkpoint is sent.
LEMMA ForgottenCheckpoint ==
    ASSUME Core, Alone, DataOK, Threads, Forgotten, NEW n \in 1 .. MaxTurns, Checkpoint(n)
    PROVE  Forgotten'
<1> DEFINE c == ConvOf(n)
           a == Append(turns[n].base, Msg("assistant", n, turns[n].th, turns[n].got, TRUE))
           x == SaveRequest(c, a, "checkpoint")
<1>1. /\ n \in Running /\ turns' = [turns EXCEPT ![n].liveId = c] /\ net' = Append(net, x)
      /\ UNCHANGED <<server, reads, pg, mount, nturn, gone>>
  BY DEF Checkpoint
<1>2. /\ mount \in Pages /\ Shapes /\ nturn \in Nat /\ DOMAIN turns = 1 .. MaxTurns
      /\ DOMAIN turns[n] = TurnFields /\ \A j \in DOMAIN net : net[j].id \in ConvId
  BY <1>1, AloneRuns, RunningIs DEF Shapes, Threads, TurnOK
<1>3. c \in ConvId /\ c \notin gone /\ Known(c, nturn) /\ Spares(n, turns[n], gone, nturn)
  BY <1>1, TurnSpares
<1> HIDE DEF c, a
<1>4. x.id = c /\ x.op = "save"
  BY RequestIs
<1> HIDE DEF x
<1>5. Sends
  BY <1>1, <1>3, <1>4 DEF Sends
<1> DEFINE t == [turns[n] EXCEPT !.liveId = c]
<1>6. turns'[n] = t /\ \A m \in 1 .. MaxTurns : m # n => turns'[m] = turns[m]
  BY <1>1, <1>2
<1>7. t.cid = turns[n].cid /\ t.liveId = c
  BY <1>2 DEF TurnFields
<1> HIDE DEF t
<1>8. \A m \in Running' : Spares(m, turns'[m], gone, nturn')
  <2>1. Spares(n, t, gone, nturn)
    BY <1>3, <1>7 DEF Spares
  <2> QED
    BY <1>1, <1>6, <2>1 DEF Running, Forgotten
<1>9. Clear(P, gone, nturn') /\ (\A q \in reads' : q.why # "open") /\ nturn <= nturn'
  BY <1>1, <1>2 DEF Forgotten
<1> QED
  BY <1>1, <1>2, <1>5, <1>8, <1>9, ForgottenStep

\* The page at the end of a turn lists and shows the conversation of the turn.
LEMMA FollowClear ==
    ASSUME Core, Threads, Forgotten, NEW n \in Running, turns[n].page = mount, mount \in Pages, NEW how
    PROVE  LET f == Follow(n, how)
           IN  Clear(f.rec, gone, nturn) /\ f.ask.cid = turns[n].cid
<1> DEFINE f == Follow(n, how)
           e == EndedPage(n)
           c == ConvOf(n)
           y == [in |-> TRUE, msgs |-> Final(n), omitted |-> FALSE]
<1>1. Shapes /\ DOMAIN P.list = ConvId /\ P = pg[turns[n].page]
  BY DEF Core, Threads, Tidy, P
<1>2. Ended(n, e)
  BY <1>1, EndedShows
<1>3. /\ f.rec.currentId = e.currentId /\ f.rec.list = e.list /\ f.rec.tabs = e.tabs
      /\ f.rec.tab = e.tab /\ f.ask.cid = turns[n].cid
  BY <1>1, FollowShows
<1>4. c \notin gone /\ Known(c, nturn)
  BY TurnSpares
<1> HIDE DEF f, e
<1>5. /\ e.tab = P.tab /\ e.currentId \in {c, P.currentId}
      /\ \A d \in ConvId : e.list[d] = IF d = c THEN y ELSE P.list[d]
      /\ \A j \in Tabs : e.tabs[j].open = P.tabs[j].open
  BY <1>1, <1>2 DEF Ended
<1>6. y.omitted = FALSE
  OBVIOUS
<1> HIDE DEF y, c
<1>7. Clear(e, gone, nturn)
  BY <1>4, <1>5, <1>6 DEF Forgotten, Clear
<1> QED
  BY <1>3, <1>7 DEF Clear, f

\* The end of a turn: the answer, its title in the list and what is asked next are of a
\* conversation that was not deleted.
LEMMA ForgottenEnd ==
    ASSUME Core, Shapes', Alone, DataOK, Threads, Forgotten, NEW n \in 1 .. MaxTurns, End(n)
    PROVE  Forgotten'
<1> DEFINE k == nturn + 1
           free == [turns EXCEPT ![n] = Over]
           x == SaveRequest(ConvOf(n), Final(n), "final")
<1>1. n \in Running /\ UNCHANGED <<server, reads, mount, gone>> /\ net' = Append(net, x)
  BY DEF End
<1>2. /\ Shapes /\ mount \in Pages /\ turns[n].page = mount /\ nturn \in Nat
      /\ \A j \in DOMAIN net : net[j].id \in ConvId
  BY <1>1, AloneRuns DEF Shapes, Threads
<1>3. /\ ConvOf(n) \in ConvId /\ ConvOf(n) \notin gone /\ Known(ConvOf(n), nturn)
      /\ Spares(n, turns[n], gone, nturn)
  BY <1>1, TurnSpares
<1>4. x.id = ConvOf(n) /\ x.op = "save"
  BY RequestIs
<1> HIDE DEF x
<1>5. PICK how :
        /\ how # "done" /\ MayResume(n) => Room
        /\ LET next == Follow(n, how) IN
           IF next.go
           THEN /\ nturn' = k
                /\ turns' = [free EXCEPT ![k] = TurnOf(next.ask)]
                /\ pg' = [pg EXCEPT ![mount] = Painted(mount,
                     [next.rec EXCEPT !.streaming = TRUE, !.abort = k,
                        !.messages = Append(next.ask.base, Msg("assistant", k, next.ask.th, 0, FALSE))],
                     next.ask.cid)]
           ELSE /\ turns' = free /\ nturn' = nturn
                /\ pg' = [pg EXCEPT ![mount] = Painted(mount, next.rec, IF live = n THEN 0 ELSE LiveConv)]
  BY <1>2 DEF End
<1> DEFINE next == Follow(n, how)
           rec == next.rec
           ask == next.ask
<1>6. PageOK(rec)
  BY <1>1, <1>5, FollowTidy
<1>7. Clear(rec, gone, nturn) /\ ask.cid = turns[n].cid
  BY <1>1, <1>2, FollowClear
<1>8. DOMAIN turns = 1 .. MaxTurns /\ DOMAIN free = 1 .. MaxTurns /\ free[n] = Over /\ Over.st = "over"
      /\ \A m \in 1 .. MaxTurns : m # n => free[m] = turns[m]
  BY <1>2, OverOK DEF Shapes
<1>9. \A q \in reads' : q.why # "open"
  BY <1>1 DEF Forgotten
<1>10. CASE next.go
  <2> DEFINE m == Append(ask.base, Msg("assistant", k, ask.th, 0, FALSE))
             new == [rec EXCEPT !.streaming = TRUE, !.abort = k, !.messages = m]
             r == Painted(mount, new, ask.cid)
  <2>1. nturn' = k /\ turns' = [free EXCEPT ![k] = TurnOf(ask)] /\ pg' = [pg EXCEPT ![mount] = r]
    BY <1>5, <1>10
  <2>2. k \in 1 .. MaxTurns /\ k \notin gone /\ k \in Nat /\ nturn <= k /\ k \in 0 .. MaxTurns
    BY <1>2, <2>1, NewName
  <2>3. turns'[k] = TurnOf(ask) /\ \A i \in Running' : i # k => i \in Running /\ turns'[i] = turns[i]
    BY <1>8, <2>1, <2>2 DEF Running
  <2> HIDE DEF m, k, rec, ask, next
  <2>4. /\ PageOK(new) /\ new.currentId = rec.currentId /\ new.list = rec.list
        /\ new.tabs = rec.tabs /\ new.tab = rec.tab
    BY <1>6, <2>2 DEF PageOK, PageFields
  <2> HIDE DEF new
  <2>5. Clear(new, gone, nturn)
    BY <1>7, <2>4 DEF Clear
  <2>6. Clear(r, gone, k)
    BY <1>2, <2>2, <2>4, <2>5, ClearLater, ClearPaints
  <2> HIDE DEF r
  <2>7. ASSUME NEW i \in Running
        PROVE  Spares(i, turns[i], gone, k)
    <3>1. turns[i].cid \in Named /\ turns[i].liveId \in Named
      BY <1>2, RunningIs DEF TurnOK
    <3> QED
      BY <1>2, <2>2, <3>1, NamesAre DEF Forgotten, Spares
  <2>8. Spares(k, TurnOf(ask), gone, k)
    BY <1>1, <1>7, <2>2, <2>7, TurnOfIs DEF Spares
  <2>9. \A i \in Running' : Spares(i, turns'[i], gone, nturn')
    BY <2>1, <2>3, <2>7, <2>8
  <2>10. Sends
    <3>1. Known(x.id, nturn')
      BY <1>2, <1>3, <1>4, <2>1, <2>2, NamesAre DEF Named
    <3> QED
      BY <1>1, <1>3, <1>4, <3>1 DEF Sends
  <2> QED
    BY <1>1, <1>2, <1>9, <2>1, <2>2, <2>6, <2>9, <2>10, ForgottenStep
<1>11. CASE ~next.go
  <2> DEFINE r == Painted(mount, rec, IF live = n THEN 0 ELSE LiveConv)
  <2>1. turns' = free /\ pg' = [pg EXCEPT ![mount] = r] /\ nturn' = nturn
    BY <1>5, <1>11
  <2>2. \A i \in Running' : Spares(i, turns'[i], gone, nturn')
    BY <1>8, <2>1 DEF Running, Forgotten
  <2>3. Clear(r, gone, nturn)
    BY <1>6, <1>7, ClearPaints
  <2> HIDE DEF r
  <2>4. Sends /\ nturn' \in Nat /\ nturn <= nturn'
    BY <1>1, <1>2, <1>3, <1>4, <2>1 DEF Sends
  <2> QED
    BY <1>1, <1>2, <1>9, <2>1, <2>2, <2>3, <2>4, ForgottenStep
<1> QED
  BY <1>10, <1>11

\* There is one tab: it can only be emptied.
LEMMA ForgottenTabs ==
    ASSUME Core, Alone, DataOK, Threads, Forgotten, "tabs" \notin mode, "titles" \notin mode,
           NEW i \in Tabs, switchTab(i) \/ newTab(i) \/ closeTab(i)
    PROVE  Forgotten'
<1>1. OnPage /\ Calm(P) /\ PageOK(P) /\ Shapes
  BY AloneRuns, TidyP
<1>2. Clear(P, gone, nturn) /\ (\A q \in reads : q.why # "open") /\ gone \subseteq ConvId /\ nturn \in Nat
  BY DEF Forgotten, DataOK, Core, Shapes
<1>3. closeTab(i)
  BY <1>2 DEF switchTab, newTab, Clear
<1> DEFINE left == [P EXCEPT !.tabs[i] = NoTab]
           empty == [left EXCEPT !.tabs[i] = EmptyTab]
           new == Restored(empty, i)
<1>4. /\ TabOK(NoTab) /\ TabOK(EmptyTab) /\ NoTab.open = FALSE /\ EmptyTab.currentId = 0
  BY DEF TabOK, NoTab, EmptyTab, Snapshot, Named
<1>5. Calm(left) /\ left.list = P.list /\ \A j \in Tabs : left.tabs[j] = IF j = i THEN NoTab ELSE P.tabs[j]
  BY <1>1, <1>4, TabSet, TabShows
<1>6. i = P.tab /\ \A j \in Tabs : ~left.tabs[j].open
  BY <1>2, <1>3, <1>4, <1>5 DEF closeTab, Clear
<1>7. Paint(new) /\ UNCHANGED <<server, net, gone, mount, nturn, reads, turns>>
  BY <1>3, <1>6 DEF closeTab
<1> HIDE DEF left
<1>8. /\ Calm(empty) /\ PageOK(left) /\ PageOK(empty) /\ empty.list = left.list
      /\ \A j \in Tabs : empty.tabs[j] = IF j = i THEN EmptyTab ELSE left.tabs[j]
  <2>1. PageOK(left)
    BY <1>5 DEF Calm
  <2>2. Calm(empty)
    BY <1>4, <1>5, TabSet
  <2>3. PageOK(empty)
    BY <2>2 DEF Calm
  <2>4. /\ empty.list = left.list
        /\ \A j \in Tabs : empty.tabs[j] = IF j = i THEN EmptyTab ELSE left.tabs[j]
    <3> DEFINE e == EmptyTab
    <3> HIDE DEF e
    <3>1. /\ [left EXCEPT !.tabs[i] = e].list = left.list
          /\ \A k \in Tabs : [left EXCEPT !.tabs[i] = e].tabs[k] = IF k = i THEN e ELSE left.tabs[k]
      BY <2>1 DEF PageOK, PageFields
    <3> QED
      BY <3>1 DEF e
  <2> QED
    BY <2>1, <2>2, <2>3, <2>4
<1> HIDE DEF empty
<1>9. /\ PageOK(new) /\ new.currentId = empty.tabs[i].currentId /\ new.list = empty.list
      /\ new.tabs = empty.tabs /\ new.tab = i
  BY <1>8, RestoredIs, RestoredShows DEF Calm
<1> HIDE DEF new
<1>10. Clear(new, gone, nturn)
  BY <1>2, <1>4, <1>5, <1>6, <1>8, <1>9, NamesAre DEF Clear
<1>11. Clears
  BY <1>1, <1>7, <1>9, <1>10 DEF Clears
<1>12. SameTurns
  BY <1>7 DEF SameTurns
<1> QED
  BY <1>1, <1>2, <1>7, <1>11, <1>12, ClearStep

\* What the server sends, and the conversation that is selected: none of those deleted.
LEMMA ForgottenHistory ==
    ASSUME Core, Alone, DataOK, Threads, Forgotten, "net" \notin mode, "omits" \notin mode,
           \/ \E c \in ConvId : selectConversation(c)
           \/ \E q \in reads : ReadArrives(q)
           \/ ListArrives \/ ModelsArrive
    PROVE  Forgotten'
<1>1. OnPage /\ Calm(P) /\ PageOK(P) /\ Shapes /\ DOMAIN P = PageFields /\ DOMAIN P.list = ConvId
  BY AloneRuns, TidyP DEF PageOK, Tidy
<1>2. /\ Clear(P, gone, nturn) /\ (\A q \in reads : q.why # "open") /\ gone \subseteq ConvId
      /\ nturn \in Nat /\ ConvId \subseteq Named
  BY DEF Forgotten, DataOK, Core, Shapes, Named
<1>3. ASSUME UNCHANGED <<server, net, gone, mount, nturn, turns>>, reads' \subseteq reads, Clears \/ pg' = pg
      PROVE  Forgotten'
  <2>1. SameTurns
    BY <1>3 DEF SameTurns
  <2> QED
    BY <1>1, <1>2, <1>3, <2>1, ClearStep
<1>4. ASSUME NEW c \in ConvId, selectConversation(c)
      PROVE  Forgotten'
  <2> DEFINE new == Applied(P, c, P.list[c].msgs)
  <2>1. /\ P.list[c].in /\ Repaint(new)
        /\ UNCHANGED <<server, net, gone, mount, nturn, turns, reads>>
    BY <1>2, <1>4 DEF selectConversation, Clear
  <2>2. /\ PageOK(new) /\ new.currentId = c /\ new.list = P.list /\ new.tab = P.tab
        /\ \A j \in Tabs : new.tabs[j].open = P.tabs[j].open
    BY <1>1, <1>2, AppliedIs, AppliedShows DEF Calm
  <2> HIDE DEF new
  <2>3. Clear(new, gone, nturn)
    BY <1>2, <2>1, <2>2 DEF Clear
  <2>4. Clears
    BY <1>1, <2>1, <2>2, <2>3 DEF Clears
  <2> QED
    BY <1>3, <2>1, <2>4
<1>5. ASSUME NEW q \in reads, ReadArrives(q)
      PROVE  Forgotten'
  <2> DEFINE m == FromSaved(server[q.id])
             new == [P EXCEPT !.messages = m]
  <2>1. /\ UNCHANGED <<server, net, gone, mount, nturn, turns>> /\ reads' \subseteq reads
        /\ pg' = pg \/ Repaint(new)
    BY <1>2, <1>5 DEF ReadArrives
  <2> HIDE DEF m
  <2>2. Alters(new)
    BY <1>1 DEF PageOK, PageFields, Alters
  <2> HIDE DEF new
  <2>3. Clears \/ pg' = pg
    BY <1>1, <2>1, <2>2, AltersClears
  <2> QED
    BY <1>3, <2>1, <2>3
<1>6. CASE ListArrives
  <2> DEFINE y(c) == [in |-> TRUE, msgs |-> server[c], omitted |-> FALSE]
             l == [c \in ConvId |-> IF server[c] = <<>> THEN NoEntry ELSE y(c)]
             new == [P EXCEPT !.loaded = TRUE, !.list = l]
  <2>1. PICK fails \in {"net" \in mode, FALSE}, omit \in {"omits" \in mode, FALSE} :
          Paint([P EXCEPT !.loaded = TRUE,
                  !.list = [c \in ConvId |->
                     IF fails \/ server[c] = <<>> THEN NoEntry
                     ELSE [in |-> TRUE, msgs |-> IF omit THEN <<>> ELSE server[c], omitted |-> omit]]])
    BY <1>6 DEF ListArrives
  <2>2. Paint(new)
    <3>1. ~fails /\ ~omit
      OBVIOUS
    <3>2. fails = FALSE /\ omit = FALSE
      BY <3>1
    <3> QED
      BY <2>1, <3>2
  <2>3. net = <<>> /\ UNCHANGED <<server, net, gone, mount, nturn, turns, reads>>
    BY <1>6 DEF ListArrives, OnlyPage
  <2>4. \A c \in gone : server[c] = <<>>
    <3>1. DOMAIN net = {}
      BY <2>3
    <3> QED
      BY <3>1 DEF Forgotten, Erased, Deleting
  <2>5. \A c : y(c).omitted = FALSE
    OBVIOUS
  <2>6. \A c \in ConvId : l[c] = IF server[c] = <<>> THEN NoEntry ELSE y(c)
    OBVIOUS
  <2>7. NoEntry.in = FALSE /\ NoEntry.omitted = FALSE
    BY DEF NoEntry
  <2> HIDE DEF y, l
  <2>8. \A c \in ConvId : ~l[c].omitted /\ (l[c].in => c \notin gone /\ Known(c, nturn))
    BY <2>4, <2>5, <2>6, <2>7 DEF Forgotten
  <2>9. PageOK(new) /\ new.currentId = P.currentId /\ new.list = l /\ new.tabs = P.tabs /\ new.tab = P.tab
    BY <1>1 DEF PageOK, PageFields
  <2> HIDE DEF new
  <2>10. Clear(new, gone, nturn)
    BY <1>2, <2>8, <2>9 DEF Clear
  <2>11. Clears
    BY <1>1, <2>2, <2>9, <2>10 DEF Clears
  <2> QED
    BY <1>3, <2>3, <2>11
<1>7. CASE ModelsArrive
  <2> DEFINE new == [P EXCEPT !.model = TRUE]
  <2>1. Paint(new) /\ UNCHANGED <<server, net, gone, mount, nturn, turns, reads>>
    BY <1>7 DEF ModelsArrive, OnlyPage
  <2>2. Alters(new)
    BY <1>1 DEF PageOK, PageFields, Alters
  <2> HIDE DEF new
  <2>3. Clears
    BY <1>1, <2>1, <2>2, AltersClears
  <2> QED
    BY <1>3, <2>1, <2>3
<1> QED
  BY <1>4, <1>5, <1>6, <1>7

\* deleteConversation: nothing is being written, and the deletion leaves last.
LEMMA ForgottenDelete ==
    ASSUME Core, Alone, DataOK, Threads, Forgotten, "busy" \notin mode,
           NEW c \in ConvId, deleteConversation(c)
    PROVE  Forgotten'
<1> DEFINE b == IF P.currentId = c THEN 0 ELSE P.currentId
           e == NoEntry
           l == [P.list EXCEPT ![c] = e]
           new == [P EXCEPT !.list = l, !.currentId = b]
           x == DeleteRequest(c)
           g == gone \cup {c}
           r == Painted(mount, new, LiveConv)
<1>1. OnPage /\ PageOK(P) /\ Shapes /\ DOMAIN P = PageFields /\ DOMAIN P.list = ConvId /\ mount \in Pages
  BY AloneRuns, TidyP DEF PageOK, Tidy
<1>2. /\ Clear(P, gone, nturn) /\ gone \subseteq ConvId /\ nturn \in Nat /\ IsSeq(net)
      /\ Erased(gone, server, net)
  BY DEF Forgotten, DataOK, Core, Shapes
<1>3. /\ P.list[c].in /\ net' = Append(net, x) /\ gone' = g /\ Running = {}
      /\ UNCHANGED <<server, reads, turns, nturn, mount>>
  BY AloneRuns DEF deleteConversation, MayBrowse
<1>4. pg' = [pg EXCEPT ![mount] = r]
  <2>1. Paint([P EXCEPT !.list[c] = e, !.currentId = b])
    BY DEF deleteConversation
  <2>2. Paint(new)
    BY <1>1, <2>1 DEF PageFields
  <2> QED
    BY <2>2 DEF Paint
<1>5. b \in Named /\ b \notin g /\ Known(b, nturn) /\ Known(c, nturn)
  BY <1>1, <1>2, <1>3, NamesAre DEF PageOK, Clear, Named
<1>6. NoEntry.in = FALSE /\ NoEntry.omitted = FALSE
  BY DEF NoEntry
<1>7. \A d \in ConvId : l[d] = IF d = c THEN e ELSE P.list[d]
  BY <1>1
<1>8. x.id = c /\ x.op = "delete" /\ x.msgs = <<>>
  BY RequestIs
<1> HIDE DEF b, l, x
<1>9. PageOK(new) /\ new.currentId = b /\ new.list = l /\ new.tabs = P.tabs /\ new.tab = P.tab
  BY <1>1, <1>5 DEF PageOK, PageFields
<1> HIDE DEF new
<1>10. Clear(new, g, nturn)
  BY <1>2, <1>5, <1>6, <1>7, <1>9 DEF Clear
<1>11. Clear(r, g, nturn)
  BY <1>9, <1>10, ClearPaints
<1> HIDE DEF r
<1>12. P' = r
  BY <1>1, <1>3, <1>4 DEF P, Shapes
<1>13. /\ Len(net) + 1 \in DOMAIN net' /\ net'[Len(net) + 1] = x /\ Len(net) \in Nat
       /\ DOMAIN net = 1 .. Len(net)
       /\ \A j \in DOMAIN net' : net'[j] = x \/ (j \in DOMAIN net /\ net'[j] = net[j])
  BY <1>2, <1>3, LastRequest
<1>14. Erased(gone, server, net')
  BY <1>2, <1>3, <1>8, ErasedSent
<1>15. Erased(g, server, net')
  <2>1. \A j \in DOMAIN net : Deleting(net', c, j)
    BY <1>8, <1>13 DEF Deleting
  <2>2. Deleting(net', c, 0)
    BY <1>8, <1>13 DEF Deleting
  <2> QED
    BY <1>8, <1>13, <1>14, <2>1, <2>2 DEF Erased
<1>16. \A j \in DOMAIN net' : Plain(net'[j], nturn)
  BY <1>5, <1>8, <1>13 DEF Forgotten, Plain
<1>17. Running' = {}
  BY <1>3 DEF Running
<1>18. Clear(P', gone', nturn') /\ Erased(gone', server', net') /\ \A d \in gone' : Known(d, nturn')
  BY <1>3, <1>5, <1>11, <1>12, <1>15 DEF Forgotten
<1> QED
  BY <1>3, <1>16, <1>17, <1>18 DEF Forgotten, Clear, Known, Spares, Plain, Erased, Deleting, ConvId, Old, Tabs

\* The oldest request is served: a save of a deleted conversation is before its deletion.
LEMMA ForgottenServed ==
    ASSUME Core, Alone, DataOK, Threads, Forgotten, "net" \notin mode, NEW i, RequestServed(i)
    PROVE  Forgotten'
<1>1. /\ 1 \in DOMAIN net /\ server' = [server EXCEPT ![net[1].id] = net[1].msgs]
      /\ net' = RemoveAt(net, 1) /\ UNCHANGED <<reads, turns, pg, mount, gone, nturn>>
  BY DEF RequestServed, Servable
<1>2. IsSeq(net) /\ DOMAIN server = ConvId /\ gone \subseteq ConvId /\ net[1].id \in ConvId
  BY <1>1 DEF DataOK, Threads
<1> DEFINE k == Len(net) - 1
<1>3. /\ DOMAIN net = 1 .. Len(net) /\ Len(net) \in Nat /\ Len(net) > 0
      /\ DOMAIN net' = 1 .. k /\ \A j \in 1 .. k : net'[j] = net[j + 1]
  BY <1>1, <1>2, FirstServed
<1>4. \A j \in DOMAIN net' : j + 1 \in DOMAIN net /\ net'[j] = net[j + 1] /\ j \in Nat
  BY <1>3
<1>5. \A j \in DOMAIN net : j # 1 => j - 1 \in DOMAIN net' /\ net'[j - 1] = net[j] /\ j \in Nat
  <2> SUFFICES ASSUME NEW j \in 1 .. Len(net), j # 1
               PROVE  j - 1 \in 1 .. k /\ net'[j - 1] = net[j] /\ j \in Nat
    BY <1>3
  <2>1. j - 1 \in 1 .. k /\ (j - 1) + 1 = j /\ j \in Nat
    BY <1>3
  <2> QED
    BY <1>3, <2>1
<1> HIDE DEF k
<1>6. \A c \in ConvId : server'[c] = IF c = net[1].id THEN net[1].msgs ELSE server[c]
  BY <1>1, <1>2
<1>7. Plain(net[1], nturn)
  BY <1>1 DEF Forgotten
<1>8. ASSUME NEW c, NEW j \in Nat, Deleting(net, c, j + 1)
      PROVE  Deleting(net', c, j)
  <2>1. PICK h \in DOMAIN net : h > j + 1 /\ net[h].op = "delete" /\ net[h].id = c
    BY <1>8 DEF Deleting
  <2>2. h \in Nat
    BY <1>3
  <2>3. h # 1 /\ h - 1 > j
    BY <2>1, <2>2
  <2> QED
    BY <1>5, <2>1, <2>3 DEF Deleting
<1>9. ASSUME NEW c \in gone, NEW j \in DOMAIN net', net'[j].id = c, net'[j].op = "save"
      PROVE  Deleting(net', c, j)
  <2>1. Deleting(net, c, j + 1) /\ j \in Nat
    BY <1>4, <1>9 DEF Forgotten, Erased
  <2> QED
    BY <1>8, <2>1
<1>10. ASSUME NEW c \in gone
       PROVE  server'[c] = <<>> \/ Deleting(net', c, 0)
  <2>1. CASE c = net[1].id /\ net[1].op = "save"
    <3>1. Deleting(net, c, 0 + 1)
      BY <1>1, <2>1 DEF Forgotten, Erased
    <3> QED
      BY <1>8, <3>1
  <2>2. CASE c = net[1].id /\ net[1].op # "save"
    BY <1>2, <1>6, <1>7, <2>2 DEF Plain
  <2>3. CASE c # net[1].id
    <3>1. server[c] = <<>> \/ Deleting(net, c, 0)
      BY DEF Forgotten, Erased
    <3>2. Deleting(net, c, 0) => Deleting(net, c, 0 + 1)
      BY <1>3, <2>3 DEF Deleting
    <3> QED
      BY <1>2, <1>6, <1>8, <2>3, <3>1, <3>2
  <2> QED
    BY <2>1, <2>2, <2>3
<1>11. Erased(gone', server', net')
  BY <1>1, <1>9, <1>10 DEF Erased
<1>12. \A c \in ConvId : server'[c] # <<>> => Known(c, nturn')
  BY <1>1, <1>6, <1>7 DEF Forgotten, Plain
<1>13. \A j \in DOMAIN net' : Plain(net'[j], nturn')
  BY <1>1, <1>4 DEF Forgotten
<1>14. Clear(P', gone', nturn') /\ \A n \in Running' : Spares(n, turns'[n], gone', nturn')
  BY <1>1 DEF Forgotten, Running, P
<1> QED
  BY <1>1, <1>11, <1>12, <1>13, <1>14 DEF Forgotten, Clear, Known, Spares, Plain, Erased, Deleting, ConvId, Old, Tabs

\* The timer of the poll: nothing is followed.
LEMMA ForgottenTimers ==
    ASSUME Core, Alone, DataOK, Threads, Forgotten, Poll \/ EffectsRerun \/ FollowTick
    PROVE  Forgotten'
<1>1. OnPage /\ PageOK(P) /\ Shapes /\ DOMAIN P = PageFields /\ mount \in Pages /\ Poll /\ nturn \in Nat
  BY AloneRuns, TidyP DEF PageOK, EffectsRerun, FollowTick, Alone, Shapes
<1> DEFINE new == [P EXCEPT !.armed = FALSE]
           q == [page |-> mount, id |-> P.currentId, why |-> "poll"]
<1>2. pg' = [pg EXCEPT ![mount] = new] /\ reads' = reads \cup {q}
      /\ UNCHANGED <<server, net, gone, mount, nturn, turns>>
  BY <1>1 DEF Poll, P
<1>3. q.why # "open"
  OBVIOUS
<1>4. new.currentId = P.currentId /\ new.list = P.list /\ new.tabs = P.tabs /\ new.tab = P.tab
  BY <1>1 DEF PageFields
<1> HIDE DEF new, q
<1>5. Clear(new, gone, nturn')
  BY <1>2, <1>4 DEF Forgotten, Clear
<1>6. (\A n \in Running' : Spares(n, turns'[n], gone, nturn')) /\ Sends /\ nturn <= nturn'
      /\ \A y \in reads' : y.why # "open"
  BY <1>1, <1>2, <1>3 DEF Forgotten, Running, Sends
<1>7. \A j \in DOMAIN net : net[j].id \in ConvId
  BY DEF Threads
<1> QED
  BY <1>1, <1>2, <1>5, <1>6, <1>7, ForgottenStep

\* Every step leaves what was deleted forgotten.
LEMMA ForgottenNext ==
    ASSUME Careful, PlaygroundInv, PlaygroundInv', Alone, Threads, Forgotten, [PlaygroundNext]_pgVars
    PROVE  Forgotten'
<1>1. /\ Core /\ Shapes' /\ DataOK /\ OnPage /\ titling = {}
      /\ "net" \notin mode /\ "titles" \notin mode /\ "tabs" \notin mode /\ "omits" \notin mode
      /\ "busy" \notin mode /\ "leaves" \notin mode
  BY AloneRuns DEF PlaygroundInv, Core, DataOK, Careful, Threads
<1>2. CASE PlaygroundWorks
  <2>1. ASSUME NEW n \in 1 .. MaxTurns, Delta(n) \/ Checkpoint(n) \/ End(n)
        PROVE  Forgotten'
    BY <1>1, <2>1, ForgottenStream, ForgottenCheckpoint, ForgottenEnd
  <2>2. ASSUME NEW i, RequestServed(i) \/ RequestLost(i)
        PROVE  Forgotten'
    BY <1>1, <2>2, ForgottenServed DEF RequestLost
  <2>3. CASE (\E q \in reads : ReadArrives(q)) \/ ListArrives \/ ModelsArrive
    BY <1>1, <2>3, ForgottenHistory
  <2>4. CASE Poll \/ EffectsRerun \/ FollowTick
    BY <1>1, <2>4, ForgottenTimers
  <2> QED
    BY <1>1, <1>2, <2>1, <2>2, <2>3, <2>4 DEF PlaygroundWorks
<1>3. CASE PlaygroundUser
  <2>1. CASE Send \/ sendVoice \/ AskHidden \/ regenerate
    <3>1. Asks /\ gone' = gone
      BY <1>1, <2>1, TidyAsks DEF Send, sendVoice, AskHidden, regenerate, OnlyTurn
    <3> QED
      BY <1>1, <3>1, ForgottenAsks
  <2>2. CASE \/ SendQueued \/ answerNow
             \/ \E i \in 1 .. (2 * MaxTurns + 2) : editMessage(i)
             \/ \E i \in 1 .. MaxTyped : discardQueued(i) \/ sendQueuedNow(i)
    BY <1>1, <2>2, ForgottenQueue
  <2>3. CASE stop
    BY <1>1, <2>3, ForgottenStream
  <2>4. ASSUME NEW i \in Tabs, switchTab(i) \/ newTab(i) \/ closeTab(i)
        PROVE  Forgotten'
    BY <1>1, <2>4, ForgottenTabs
  <2>5. ASSUME NEW c \in ConvId, selectConversation(c) \/ deleteConversation(c)
        PROVE  Forgotten'
    BY <1>1, <2>5, ForgottenHistory, ForgottenDelete
  <2>6. ~genTitle /\ ~Leave /\ ~Return /\ \A c \in ConvId : ~commitRename(c) /\ ~OpenFromUrl(c)
    BY <1>1 DEF genTitle, commitRename, OpenFromUrl, Leave, Return
  <2> QED
    BY <1>3, <2>1, <2>2, <2>3, <2>4, <2>5, <2>6 DEF PlaygroundUser
<1>4. CASE UNCHANGED pgVars
  <2>1. SameTurns /\ pg' = pg /\ UNCHANGED <<server, net, gone, mount, nturn, reads>>
    BY <1>4 DEF pgVars, SameTurns
  <2>2. \A q \in reads' : q.why # "open"
    BY <2>1 DEF Forgotten
  <2> QED
    BY <1>1, <2>1, <2>2, ClearStep
<1> QED
  BY <1>2, <1>3, <1>4 DEF PlaygroundNext

\* It is so from the beginning on.
LEMMA ForgottenInvariance ==
    ASSUME Careful
    PROVE  PlaygroundSpec => []Forgotten
<1>1. Ordered /\ Stays
  BY DEF Careful, Ordered, Stays
<1>2. PlaygroundInit => Forgotten
  <2> SUFFICES ASSUME PlaygroundInit
               PROVE  Forgotten
    OBVIOUS
  <2>1. mount = 1 /\ gone = {} /\ nturn = 0 /\ reads = {} /\ DOMAIN net = {} /\ "omits" \notin mode
    BY DEF PlaygroundInit, Careful
  <2>2. Running = {}
    BY DEF PlaygroundInit, Running, NoTurn
  <2>3. \A c \in ConvId : server[c] # <<>> => Known(c, nturn)
    BY DEF PlaygroundInit, Known
  <2>4. Clear(P, gone, nturn)
    <3> DEFINE f == FreshPage
               l == [c \in ConvId |-> NoEntry]
               tb == [i \in Tabs |-> IF i = 1 THEN EmptyTab ELSE NoTab]
    <3>1. 1 \in Pages
      BY PlaygroundAssumption DEF Pages
    <3>2. P = f
      <4>1. pg = [p \in Pages |-> f]
        BY DEF PlaygroundInit
      <4> HIDE DEF f
      <4> QED
        BY <2>1, <3>1, <4>1 DEF P
    <3>3. f.currentId = 0 /\ f.list = l /\ f.tabs = tb /\ f.tab = 1
      BY <2>1 DEF FreshPage
    <3> HIDE DEF f
    <3>4. NoEntry.in = FALSE /\ NoEntry.omitted = FALSE /\ NoTab.open = FALSE
      BY DEF NoEntry, NoTab, Snapshot
    <3>5. (\A c \in ConvId : l[c] = NoEntry) /\ \A i \in Tabs : i # 1 => tb[i] = NoTab
      OBVIOUS
    <3> HIDE DEF l, tb
    <3>6. Known(0, nturn)
      BY <2>1, NamesAre
    <3> QED
      BY <2>1, <3>2, <3>3, <3>4, <3>5, <3>6 DEF Clear
  <2> QED
    BY <2>1, <2>2, <2>3, <2>4 DEF Forgotten, Erased
<1>3. /\ PlaygroundInv /\ PlaygroundInv' /\ Alone /\ Threads /\ Forgotten /\ [PlaygroundNext]_pgVars
      => Forgotten'
  BY ForgottenNext
<1>4. PlaygroundSpec => []Alone /\ [](Threads /\ Marked)
  BY <1>1, AloneInvariance, SavedInvariance
<1> QED
  BY <1>2, <1>3, <1>4, PlaygroundInvariance, PTL DEF PlaygroundSpec

\* A conversation that was deleted does not come back (deleteConversation, saveCurrent,
\* runStream): while the user stays on the page, in one tab, deletes between two answers,
\* and requests arrive in order, no answer, resume, queue, read or list saves it again,
\* however many turns and conversations there are.
THEOREM PlaygroundDeleted ==
    ASSUME Careful
    PROVE  PlaygroundSpec => []DeletedStaysDeleted
<1>1. Forgotten => DeletedStaysDeleted
  BY DEF Forgotten, Erased, Deleting, DeletedStaysDeleted
<1> QED
  BY <1>1, ForgottenInvariance, PTL

-----------------------------------------------------------------------------
(***************************************************************************)
(* Threads and their conversations.  A function f from names to threads is *)
(* followed through the behaviour: a thread that has no name takes that of *)
(* the turn that begins in it, and a name never changes its thread.  Only  *)
(* a conversation that has a name is continued: a continuation keeps the   *)
(* closure of its turn, and saves a thread without a name under a second   *)
(* one.                                                                    *)
(***************************************************************************)

Plainly == Modes \subseteq {{}}

\* All the messages are of thread t.
Bears(s, t) == \A i \in DOMAIN s : s[i].th = t

\* The messages a page makes are of the thread they are made for.
LEMMA MadeBears ==
    \A k, t, l, p : /\ Typed(k, t).th = t /\ Hidden(t).th = t /\ Note(t).th = t
                    /\ Msg("assistant", k, t, l, p).th = t
  BY DEF Typed, Hidden, Note, Msg

\* A message of the thread is added, and the thread is not empty.
LEMMA AppendBears ==
    ASSUME NEW s, TameSeq(s), NEW t, Bears(s, t), NEW m, m.th = t
    PROVE  Bears(Append(s, m), t) /\ Append(s, m) # <<>>
<1>1. PICK S : s \in Seq(S)
  BY DEF TameSeq
<1> DEFINE T == S \cup {m}
           a == Append(s, m)
<1>2. s \in Seq(T) /\ m \in T
  BY <1>1
<1> HIDE DEF T
<1>3. a # <<>> /\ DOMAIN a = 1 .. (Len(s) + 1) /\ Len(s) \in Nat /\ DOMAIN s = 1 .. Len(s)
      /\ \A i \in 1 .. (Len(s) + 1) : a[i] = IF i = Len(s) + 1 THEN m ELSE s[i]
  BY <1>2
<1> HIDE DEF a
<1>4. Bears(a, t)
  BY <1>3 DEF Bears
<1> QED
  BY <1>3, <1>4 DEF a

\* The beginning of a thread
LEMMA CutBears ==
    ASSUME NEW s, TameSeq(s), NEW t, Bears(s, t)
    PROVE  /\ \A i \in DOMAIN s : Bears(SubSeq(s, 1, i - 1), t)
           /\ s # <<>> => Bears(Front(s), t)
<1>1. PICK S : s \in Seq(S)
  BY DEF TameSeq
<1>2. Len(s) \in Nat /\ DOMAIN s = 1 .. Len(s)
  BY <1>1
<1>3. ASSUME NEW k \in Nat, k <= Len(s)
      PROVE  Bears(SubSeq(s, 1, k), t)
  <2> DEFINE a == SubSeq(s, 1, k)
  <2>1. DOMAIN a = 1 .. k /\ \A i \in 1 .. k : a[i] = s[i] /\ i \in 1 .. Len(s)
    BY <1>1, <1>2, <1>3
  <2> HIDE DEF a
  <2>2. Bears(a, t)
    BY <1>2, <2>1 DEF Bears
  <2> QED
    BY <2>2 DEF a
<1>4. ASSUME NEW i \in DOMAIN s
      PROVE  Bears(SubSeq(s, 1, i - 1), t)
  BY <1>2, <1>3
<1>5. s # <<>> => Bears(SubSeq(s, 1, Len(s) - 1), t)
  <2>1. s # <<>> => Len(s) - 1 \in Nat /\ Len(s) - 1 <= Len(s)
    BY <1>1
  <2> QED
    BY <1>3, <2>1
<1> QED
  BY <1>4, <1>5 DEF Front

\* The last message is replaced by one of the thread.
LEMMA ReplaceBears ==
    ASSUME NEW s, TameSeq(s), NEW t, Bears(s, t), NEW m, m.th = t
    PROVE  Bears(ReplaceLast(s, m), t) /\ (ReplaceLast(s, m) # <<>> => s # <<>>)
<1> DEFINE r == [s EXCEPT ![Len(s)] = m]
<1>1. DOMAIN r = DOMAIN s /\ \A i \in DOMAIN s : r[i] = m \/ r[i] = s[i]
  OBVIOUS
<1> HIDE DEF r
<1>2. Bears(r, t)
  BY <1>1 DEF Bears
<1> QED
  BY <1>2 DEF ReplaceLast, r

\* The messages that waited are put behind it.
LEMMA QueueBears ==
    ASSUME NEW s, TameSeq(s), NEW t, Bears(s, t), s # <<>>, NEW q, IsSeq(q)
    PROVE  LET z == s \o [j \in DOMAIN q |-> Typed(q[j], t)]
           IN  Bears(z, t) /\ z # <<>>
<1>1. PICK S : s \in Seq(S)
  BY DEF TameSeq
<1>2. PICK Q : q \in Seq(Q)
  BY DEF IsSeq
<1> DEFINE U == {Typed(x, t) : x \in Q}
           T == S \cup U
           w == [j \in DOMAIN q |-> Typed(q[j], t)]
           z == s \o w
<1>3. w \in Seq(U) /\ \A j \in DOMAIN w : w[j].th = t
  BY <1>2, MadeBears
<1>4. s \in Seq(T) /\ w \in Seq(T)
  BY <1>1, <1>3
<1> HIDE DEF T, U, w
<1>5. /\ DOMAIN z = 1 .. (Len(s) + Len(w)) /\ Len(s) \in Nat /\ Len(w) \in Nat
      /\ \A j \in 1 .. (Len(s) + Len(w)) : z[j] = IF j <= Len(s) THEN s[j] ELSE w[j - Len(s)]
      /\ DOMAIN s = 1 .. Len(s) /\ DOMAIN w = 1 .. Len(w) /\ Len(s) > 0
  BY <1>4
<1> HIDE DEF z
<1>6. \A j \in 1 .. (Len(s) + Len(w)) : \/ j \in 1 .. Len(s) /\ z[j] = s[j]
                                        \/ j - Len(s) \in 1 .. Len(w) /\ z[j] = w[j - Len(s)]
  BY <1>5
<1>7. Bears(z, t)
  BY <1>3, <1>5, <1>6 DEF Bears
<1>8. z # <<>>
  <2>1. 1 \in DOMAIN z
    BY <1>5
  <2> QED
    BY <2>1
<1> QED
  BY <1>7, <1>8 DEF z, w

-----------------------------------------------------------------------------
(* The invariant *)

\* A thread there has been: an old one, or one the user began.
Topic(t, k) == t \in Nat /\ (t \in Old \/ t <= MaxTurns + k)

\* f gives each conversation its thread, 0 to a name that is not used.  Of the
\* conversations that were not deleted no two have the same.
Naming(f, g, n, k) ==
    /\ f \in [ConvId -> Nat]
    /\ \A c \in ConvId : Topic(f[c], k) /\ (f[c] # 0 => Known(c, n))
    /\ \A c, d \in ConvId \ g : f[c] = f[d] /\ f[c] # 0 => c = d

\* Messages of the thread of c, to be saved
Of(f, c, m) == m # <<>> /\ Bears(m, f[c]) /\ f[c] # 0

\* A page shows a thread, and its conversation if that has a name.
Held(r, f, k) ==
    /\ Topic(r.th, k) /\ Bears(r.messages, r.th)
    /\ r.messages # <<>> => r.th # 0
    /\ r.currentId # 0 => r.th # 0 /\ f[r.currentId] = r.th
    /\ \A c \in ConvId : r.list[c].in => Of(f, c, r.list[c].msgs)
    /\ r.queued # <<>> \/ r.answerNow => r.currentId # 0

\* A turn writes in the thread on screen.  A conversation without a name gets that
\* of its turn, and nothing continues the turn.
AtWork(n, t, f, r) ==
    /\ t.th = r.th /\ t.cid = r.currentId /\ t.th # 0
    /\ t.base # <<>> /\ Bears(t.base, t.th)
    /\ t.cid # 0 => t.liveId = t.cid
    /\ t.cid = 0 => t.liveId \in {0, n} /\ f[n] = t.th /\ ~t.voice

\* Nothing was promised by a page that writes nothing, and a thread it shows without
\* a name has none.
Idle(r, f, g) ==
    /\ ~r.answerNow
    /\ r.currentId = 0 /\ r.th # 0 => \A c \in ConvId \ g : f[c] # r.th

\* What is saved, and what is sent to be saved
Stored(f, s, q) ==
    /\ \A c \in ConvId : s[c] # <<>> => Of(f, c, s[c])
    /\ \A j \in DOMAIN q : q[j].op = "save" => Of(f, q[j].id, q[j].msgs)

\* The deletion of c is under way, after request i and before request j.
Cleared(q, c, i, j) == \E k \in DOMAIN q : i < k /\ k < j /\ q[k].op = "delete" /\ q[k].id = c

\* When a save of a thread is served, no other conversation has it any more.
Apart(f, s, q) ==
    /\ \A c, d \in ConvId : c # d /\ f[c] = f[d] => s[c] = <<>> \/ s[d] = <<>>
    /\ \A j \in DOMAIN q : \A c \in ConvId :
         q[j].op = "save" /\ c # q[j].id /\ f[c] = f[q[j].id] =>
           /\ s[c] # <<>> => Cleared(q, c, 0, j)
           /\ \A i \in DOMAIN q : i < j /\ q[i].op = "save" /\ q[i].id = c => Cleared(q, c, i, j)

Filed(f) ==
    /\ Naming(f, gone, nturn, typed) /\ Stored(f, server, net) /\ Apart(f, server, net)
    /\ Held(P, f, typed)
    /\ Running = {} => Idle(P, f, gone)
    /\ \A n \in Running : AtWork(n, turns[n], f, P)

-----------------------------------------------------------------------------
(* What a page shows, its thread and its promise included *)

Faces(new, r) == Shows(new, r) /\ r.th = new.th /\ r.answerNow = new.answerNow

\* The effects after a render change nothing of it.
LEMMA EffectsFace ==
    ASSUME NEW new, PageOK(new), NEW conv
    PROVE  /\ Faces(new, Painted(mount, new, conv))
           /\ Faces(new, Polling(Adopted(P, new, conv), conv))
<1> DEFINE z == [new EXCEPT !.follow = 0]
           w == [z EXCEPT !.abort = live, !.streaming = TRUE, !.follow = live]
           a == Adopted(P, new, conv)
           Same(r) == r.th = new.th /\ r.answerNow = new.answerNow /\ DOMAIN r = PageFields
<1>1. a = new \/ a = z \/ a = w
  BY DEF Adopted, Adopting
<1>2. DOMAIN new = PageFields
  BY DEF PageOK
<1>3. Same(new) /\ Same(z)
  BY <1>2 DEF PageFields
<1> HIDE DEF z
<1>4. Same(w)
  BY <1>3 DEF PageFields
<1> HIDE DEF w
<1>5. Same(a)
  BY <1>1, <1>3, <1>4
<1>6. Painted(mount, new, conv) = a \/ Painted(mount, new, conv) = Polling(a, conv)
  BY DEF Painted, Mounted, Rendered, P
<1> HIDE DEF a
<1> DEFINE x == [a EXCEPT !.polls = MaxPolls, !.armed = FALSE]
           y == [a EXCEPT !.armed = FALSE]
           v == [a EXCEPT !.polls = @ - 1, !.armed = TRUE]
<1>7. Polling(a, conv) = x \/ Polling(a, conv) = y \/ Polling(a, conv) = v
  BY DEF Polling
<1>8. Same(x) /\ Same(y) /\ Same(v)
  BY <1>5 DEF PageFields
<1> HIDE DEF x, y, v
<1>9. Same(Polling(a, conv)) /\ Same(Painted(mount, new, conv))
  BY <1>5, <1>6, <1>7, <1>8
<1>10. Shows(new, Painted(mount, new, conv)) /\ Shows(new, Polling(a, conv))
  BY PaintedShows, EffectsShow DEF a
<1> QED
  BY <1>9, <1>10 DEF Faces, a

\* What is painted holds what was to be shown.
LEMMA FaceHolds ==
    ASSUME NEW new, NEW r, Faces(new, r)
    PROVE  /\ \A f, k : Held(new, f, k) => Held(r, f, k)
           /\ \A f, g : Idle(new, f, g) => Idle(r, f, g)
           /\ \A n, t, f : AtWork(n, t, f, new) => AtWork(n, t, f, r)
  BY DEF Faces, Shows, Held, Idle, AtWork

-----------------------------------------------------------------------------
(* Saves *)

\* A request leaves.  If it saves a thread, any other conversation that had it was
\* deleted, and the deletion left before.
LEMMA ApartSent ==
    ASSUME NEW f, NEW s, NEW q, IsSeq(q), NEW g, NEW x,
           Apart(f, s, q), Erased(g, s, q), x.id \in ConvId,
           x.op = "save" => \A c \in ConvId : c # x.id /\ f[c] = f[x.id] => c \in g
    PROVE  Apart(f, s, Append(q, x))
<1> DEFINE z == Append(q, x)
           k == Len(q) + 1
<1>1. /\ DOMAIN q = 1 .. Len(q) /\ Len(q) \in Nat /\ DOMAIN z = 1 .. k
      /\ \A i \in 1 .. k : z[i] = IF i = k THEN x ELSE q[i]
  BY LastRequest
<1>2. \A i \in DOMAIN q : i \in DOMAIN z /\ z[i] = q[i] /\ i < k /\ i \in Nat /\ 0 < i
  BY <1>1
<1>3. \A i \in DOMAIN z : i \in Nat /\ (i = k \/ i \in DOMAIN q)
  BY <1>1
<1>4. k \in DOMAIN z /\ z[k] = x /\ k \in Nat
  BY <1>1
<1> HIDE DEF z, k
<1>5. \A c, i, j : Cleared(q, c, i, j) => Cleared(z, c, i, j)
  BY <1>2 DEF Cleared
<1>6. \A c, i : Deleting(q, c, i) => Cleared(z, c, i, k)
  BY <1>2 DEF Deleting, Cleared
<1>7. ASSUME NEW j \in DOMAIN z, NEW c \in ConvId, z[j].op = "save", c # z[j].id, f[c] = f[z[j].id]
      PROVE  /\ s[c] # <<>> => Cleared(z, c, 0, j)
             /\ \A i \in DOMAIN z : i < j /\ z[i].op = "save" /\ z[i].id = c => Cleared(z, c, i, j)
  <2>1. CASE j = k
    <3>1. c \in g
      BY <1>4, <1>7, <2>1
    <3>2. s[c] # <<>> => Deleting(q, c, 0)
      BY <3>1 DEF Erased
    <3>3. \A i \in DOMAIN z : i < k => i \in DOMAIN q /\ z[i] = q[i]
      BY <1>2, <1>3, <1>4
    <3>4. \A i \in DOMAIN q : q[i].id = c /\ q[i].op = "save" => Deleting(q, c, i)
      BY <3>1 DEF Erased
    <3> QED
      BY <1>6, <2>1, <3>2, <3>3, <3>4
  <2>2. CASE j # k
    <3>1. j \in DOMAIN q /\ z[j] = q[j] /\ j < k /\ j \in Nat /\ k \in Nat
      BY <1>2, <1>3, <1>4, <2>2
    <3>2. \A i \in DOMAIN z : i < j => i \in DOMAIN q /\ z[i] = q[i]
      BY <1>2, <1>3, <3>1
    <3> QED
      BY <1>5, <1>7, <3>1, <3>2 DEF Apart
  <2> QED
    BY <2>1, <2>2
<1>8. \A c, d \in ConvId : c # d /\ f[c] = f[d] => s[c] = <<>> \/ s[d] = <<>>
  BY DEF Apart
<1>9. Apart(f, s, z)
  BY <1>7, <1>8 DEF Apart
<1> QED
  BY <1>9 DEF z

\* A name that no turn has had is given to a thread: what was saved is as it was.
LEMMA Renaming ==
    ASSUME NEW f, NEW h, NEW s, NEW q,
           \A c \in ConvId : f[c] # 0 => h[c] = f[c],
           \A j \in DOMAIN q : q[j].id \in ConvId
    PROVE  /\ Stored(f, s, q) => Stored(h, s, q)
           /\ Stored(f, s, q) /\ Apart(f, s, q) => Apart(h, s, q)
<1>1. \A c \in ConvId : \A m : Of(f, c, m) => Of(h, c, m)
  BY DEF Of
<1>2. Stored(f, s, q) => Stored(h, s, q)
  BY <1>1 DEF Stored
<1>3. ASSUME Stored(f, s, q), Apart(f, s, q)
      PROVE  Apart(h, s, q)
  <2>1. \A c \in ConvId : s[c] # <<>> => h[c] = f[c]
    BY <1>3 DEF Stored, Of
  <2>2. \A j \in DOMAIN q : q[j].op = "save" => h[q[j].id] = f[q[j].id]
    BY <1>3 DEF Stored, Of
  <2>3. \A c, d \in ConvId : c # d /\ h[c] = h[d] => s[c] = <<>> \/ s[d] = <<>>
    BY <1>3, <2>1 DEF Apart
  <2>4. ASSUME NEW j \in DOMAIN q, NEW c \in ConvId, q[j].op = "save", c # q[j].id, h[c] = h[q[j].id]
        PROVE  /\ s[c] # <<>> => Cleared(q, c, 0, j)
               /\ \A i \in DOMAIN q : i < j /\ q[i].op = "save" /\ q[i].id = c => Cleared(q, c, i, j)
    BY <1>3, <2>1, <2>2, <2>4 DEF Apart
  <2> QED
    BY <2>3, <2>4 DEF Apart
<1> QED
  BY <1>2, <1>3

\* The step sends nothing, or saves messages of the thread of a conversation that was
\* not deleted.
Files(h) ==
    \/ net' = net
    \/ \E x : /\ x.op = "save" /\ x.id \in ConvId /\ x.id \notin gone /\ Of(h, x.id, x.msgs)
              /\ net' = Append(net, x)

\* A step that deletes nothing and in which nothing is served
LEMMA FiledStep ==
    ASSUME Shapes, DataOK, Threads, Forgotten, NEW f, Filed(f), NEW h, NEW r, mount \in Pages,
           \A c \in ConvId : f[c] # 0 => h[c] = f[c], Naming(h, gone, nturn', typed'),
           pg' = [pg EXCEPT ![mount] = r] \/ (pg' = pg /\ r = P),
           UNCHANGED <<mount, gone, server>>, Files(h),
           Held(r, h, typed'), Running' = {} => Idle(r, h, gone),
           \A n \in Running' : AtWork(n, turns'[n], h, r)
    PROVE  Filed(h)'
<1>1. P' = r
  BY DEF P, Shapes
<1>2. IsSeq(net) /\ Erased(gone, server, net) /\ \A j \in DOMAIN net : net[j].id \in ConvId
  BY DEF DataOK, Forgotten, Threads
<1>3. Stored(h, server, net) /\ Apart(h, server, net)
  BY <1>2, Renaming DEF Filed
<1>4. Stored(h, server, net') /\ Apart(h, server, net')
  <2>1. CASE net' = net
    BY <1>3, <2>1
  <2>2. ASSUME NEW x, x.op = "save", x.id \in ConvId, x.id \notin gone, Of(h, x.id, x.msgs), net' = Append(net, x)
        PROVE  Stored(h, server, net') /\ Apart(h, server, net')
    <3>1. \A c \in ConvId : c # x.id /\ h[c] = h[x.id] => c \in gone
      BY <2>2 DEF Naming, Of
    <3>2. Apart(h, server, net')
      BY <1>2, <1>3, <2>2, <3>1, ApartSent
    <3>3. \A j \in DOMAIN net' : net'[j] = x \/ (j \in DOMAIN net /\ net'[j] = net[j])
      BY <1>2, <2>2, LastRequest
    <3>4. Stored(h, server, net')
      BY <1>3, <2>2, <3>3 DEF Stored
    <3> QED
      BY <3>2, <3>4
  <2> QED
    BY <2>1, <2>2 DEF Files
<1>5. Held(P', h, typed') /\ (Running' = {} => Idle(P', h, gone')) /\ \A n \in Running' : AtWork(n, turns'[n], h, P')
  BY <1>1
<1> QED
  BY <1>4, <1>5 DEF Filed, Naming, Stored, Apart, Held, Idle, AtWork, Of, Topic, Cleared, Bears, Known, ConvId, Old

\* The turns that run are the same, on the same threads.
SameWork ==
    \A n \in 1 .. MaxTurns :
      LET t == turns[n]
          u == turns'[n]
      IN  /\ u.st = t.st /\ u.base = t.base /\ u.liveId = t.liveId /\ u.cid = t.cid
          /\ u.th = t.th /\ u.voice = t.voice

\* A fragment, the Stop button
LEMMA StreamWork ==
    ASSUME Shapes,
           \/ turns' = turns
           \/ \E n \in Running : \/ turns' = [turns EXCEPT ![n].aborted = TRUE]
                                 \/ turns' = [turns EXCEPT ![n].got = @ + 1]
    PROVE  SameWork
<1>1. CASE turns' = turns
  BY <1>1 DEF SameWork
<1>2. ASSUME NEW n \in Running, \/ turns' = [turns EXCEPT ![n].aborted = TRUE]
                                \/ turns' = [turns EXCEPT ![n].got = @ + 1]
      PROVE  SameWork
  <2>1. DOMAIN turns = 1 .. MaxTurns /\ n \in 1 .. MaxTurns /\ DOMAIN turns[n] = TurnFields
    BY RunningIs DEF Shapes, TurnOK
  <2> DEFINE a == [turns[n] EXCEPT !.aborted = TRUE]
             b == [turns[n] EXCEPT !.got = @ + 1]
             Same(u) == /\ u.st = turns[n].st /\ u.base = turns[n].base /\ u.liveId = turns[n].liveId
                        /\ u.cid = turns[n].cid /\ u.th = turns[n].th /\ u.voice = turns[n].voice
  <2>2. PICK t : turns' = [turns EXCEPT ![n] = t] /\ (t = a \/ t = b)
    BY <1>2, <2>1
  <2>3. Same(a) /\ Same(b)
    BY <2>1 DEF TurnFields
  <2> HIDE DEF a, b
  <2>4. turns'[n] = t /\ \A m \in 1 .. MaxTurns : m # n => turns'[m] = turns[m]
    BY <2>1, <2>2
  <2> QED
    BY <2>2, <2>3, <2>4 DEF SameWork
<1> QED
  BY <1>1, <1>2

\* The same turns are at work.
LEMMA SameAtWork ==
    ASSUME SameWork
    PROVE  /\ Running' = Running
           /\ \A n \in Running : \A f, r : AtWork(n, turns[n], f, r) => AtWork(n, turns'[n], f, r)
  BY DEF SameWork, Running, AtWork

\* A new message was written, or not.
Later == typed' \in Nat /\ typed <= typed'

\* The messages are counted.
LEMMA Counted ==
    ASSUME DataOK
    PROVE  typed \in Nat /\ (typed' = typed \/ typed' = typed + 1 => Later)
<1>1. typed \in 0 .. MaxTyped /\ MaxTyped \in Nat
  BY PlaygroundAssumption DEF DataOK
<1>2. typed \in Nat
  BY <1>1
<1> QED
  BY <1>2 DEF Later

\* More threads were begun.
LEMMA TopicLater ==
    ASSUME DataOK, Later
    PROVE  /\ \A t : Topic(t, typed) => Topic(t, typed')
           /\ \A f, r : Held(r, f, typed) => Held(r, f, typed')
           /\ \A f, g, n : Naming(f, g, n, typed) => Naming(f, g, n, typed')
<1>1. typed \in Nat /\ MaxTurns \in Nat /\ typed' \in Nat /\ typed <= typed'
  BY PlaygroundAssumption, Counted DEF Later
<1>2. \A a, b, c, t \in Nat : a <= b /\ t <= c + a => t <= c + b
  OBVIOUS
<1>3. \A t : Topic(t, typed) => Topic(t, typed')
  BY <1>1, <1>2 DEF Topic
<1>4. \A f, r : Held(r, f, typed) => Held(r, f, typed')
  BY <1>3 DEF Held
<1>5. \A f, g, n : Naming(f, g, n, typed) => Naming(f, g, n, typed')
  BY <1>3 DEF Naming
<1> QED
  BY <1>3, <1>4, <1>5

\* The page on screen is painted, or not, and the turns go on: it shows the thread it
\* showed, or another while nothing is written.
Turning(f, new) ==
    \/ /\ new.th = P.th /\ new.currentId = P.currentId
       /\ new.answerNow => P.answerNow \/ Running # {}
    \/ Running = {} /\ Idle(new, f, gone)

LEMMA FiledPaint ==
    ASSUME Core, Alone, DataOK, Threads, Forgotten, NEW f, Filed(f), NEW new, PageOK(new),
           Held(new, f, typed'), Later, Turning(f, new), SameWork,
           Paint(new) \/ Repaint(new) \/ (pg' = pg /\ new = P) \/ pg' = [pg EXCEPT ![mount] = new],
           UNCHANGED <<server, net, gone, mount, nturn>>
    PROVE  Filed(f)'
<1>1. mount \in Pages /\ Shapes
  BY AloneRuns
<1>2. PICK r : Faces(new, r) /\ (pg' = [pg EXCEPT ![mount] = r] \/ (pg' = pg /\ r = P))
  <2>1. Faces(new, new)
    BY DEF Faces, Shows
  <2> QED
    BY <2>1, EffectsFace DEF Paint, Repaint
<1>3. Naming(f, gone, nturn', typed')
  BY TopicLater DEF Filed
<1>4. Held(r, f, typed')
  BY <1>2, FaceHolds
<1>5. ASSUME Running' = {} PROVE Idle(r, f, gone)
  <2>1. Running = {} /\ Idle(P, f, gone)
    BY <1>5, SameAtWork DEF Filed
  <2>2. Idle(new, f, gone)
    BY <2>1 DEF Turning, Idle
  <2> QED
    BY <1>2, <2>2, FaceHolds
<1>6. ASSUME NEW n \in Running' PROVE AtWork(n, turns'[n], f, r)
  <2>1. n \in Running /\ AtWork(n, turns'[n], f, P)
    BY <1>6, SameAtWork DEF Filed
  <2>2. new.th = P.th /\ new.currentId = P.currentId
    BY <2>1 DEF Turning
  <2>3. AtWork(n, turns'[n], f, new)
    BY <2>1, <2>2 DEF AtWork
  <2> QED
    BY <1>2, <2>3, FaceHolds
<1>7. Files(f)
  BY DEF Files
<1>8. UNCHANGED <<mount, gone, server>>
  OBVIOUS
<1> QED
  BY <1>1, <1>2, <1>3, <1>4, <1>5, <1>6, <1>7, <1>8, FiledStep

-----------------------------------------------------------------------------
(* The steps *)

\* What is painted is of the thread on screen.
Mine(new) ==
    /\ PageOK(new) /\ new.th = P.th /\ new.currentId = P.currentId /\ new.list = P.list
    /\ Bears(new.messages, P.th) /\ (new.messages # <<>> => P.th # 0)
    /\ new.queued # <<>> \/ new.answerNow => P.currentId # 0

\* Then everything stays filed.
LEMMA FiledMine ==
    ASSUME Core, Alone, DataOK, Threads, Forgotten, NEW f, Filed(f), NEW new, Mine(new), Later, SameWork,
           new.answerNow => P.answerNow \/ Running # {},
           Paint(new) \/ Repaint(new) \/ (pg' = pg /\ new = P) \/ pg' = [pg EXCEPT ![mount] = new],
           UNCHANGED <<server, net, gone, mount, nturn>>
    PROVE  Filed(f)'
<1>1. Held(P, f, typed')
  BY TopicLater DEF Filed
<1>2. Held(new, f, typed') /\ PageOK(new) /\ Turning(f, new)
  BY <1>1 DEF Mine, Held, Turning
<1> QED
  BY <1>2, FiledPaint

\* The queue, the quick answer, the message that is edited
LEMMA FiledQueue ==
    ASSUME Core, Alone, DataOK, Threads, Forgotten, NEW f, Filed(f), "fresh" \notin mode,
           \/ SendQueued \/ answerNow
           \/ \E i \in 1 .. (2 * MaxTurns + 2) : editMessage(i)
           \/ \E i \in 1 .. MaxTyped : discardQueued(i) \/ sendQueuedNow(i)
    PROVE  Filed(f)'
<1>1. OnPage /\ PageOK(P) /\ Shapes /\ DOMAIN P = PageFields /\ Held(P, f, typed)
  BY AloneRuns DEF PageOK, Filed
<1>2. UNCHANGED <<server, net, gone, mount>>
  BY DEF SendQueued, answerNow, editMessage, discardQueued, sendQueuedNow, OnlyTurn
<1>3. \A q : (q # <<>> => P.currentId # 0) => Mine([P EXCEPT !.queued = q])
  BY <1>1 DEF PageOK, PageFields, Mine, Held
<1>4. ASSUME NEW new, Mine(new), Paint(new), SameWork, nturn' = nturn, Later,
             new.answerNow => P.answerNow \/ Running # {}
      PROVE  Filed(f)'
  BY <1>2, <1>4, FiledMine
<1>5. CASE SendQueued
  <2> DEFINE q == Append(P.queued, typed')
             new == [P EXCEPT !.queued = q]
  <2>1. /\ turns' = turns /\ nturn' = nturn /\ Paint(new) /\ P.currentId # 0 /\ typed' = typed + 1
    BY <1>5 DEF SendQueued, MayChain
  <2>2. SameWork /\ Later
    BY <1>1, <2>1, StreamWork, Counted
  <2> HIDE DEF q
  <2>3. Mine(new) /\ new.answerNow = P.answerNow
    BY <1>1, <1>3, <2>1 DEF PageFields
  <2> HIDE DEF new
  <2> QED
    BY <1>4, <2>1, <2>2, <2>3
<1>6. CASE answerNow
  <2> DEFINE new == [P EXCEPT !.answerNow = TRUE]
  <2>1. /\ P.abort \in Running /\ turns' = [turns EXCEPT ![P.abort].aborted = TRUE] /\ nturn' = nturn
        /\ Paint(new) /\ P.currentId # 0 /\ typed' = typed
    BY <1>6 DEF answerNow, MayChain
  <2>2. SameWork /\ Later
    BY <1>1, <2>1, StreamWork, Counted
  <2>3. Mine(new)
    BY <1>1, <2>1 DEF PageOK, PageFields, Mine, Held
  <2> HIDE DEF new
  <2> QED
    BY <1>4, <2>1, <2>2, <2>3
<1>7. ASSUME NEW i, editMessage(i)
      PROVE  Filed(f)'
  <2> DEFINE new == [P EXCEPT !.editing = i]
  <2>1. turns' = turns /\ nturn' = nturn /\ Paint(new) /\ typed' = typed
    BY <1>7 DEF editMessage
  <2>2. SameWork /\ Later
    BY <1>1, <2>1, StreamWork, Counted
  <2>3. Mine(new) /\ new.answerNow = P.answerNow
    BY <1>1, <2>1 DEF PageOK, PageFields, Mine, Held
  <2> HIDE DEF new
  <2> QED
    BY <1>4, <2>1, <2>2, <2>3
<1>8. ASSUME NEW i, discardQueued(i)
      PROVE  Filed(f)'
  <2> DEFINE q == RemoveAt(P.queued, i)
             new == [P EXCEPT !.queued = q]
  <2>1. turns' = turns /\ nturn' = nturn /\ Paint(new) /\ i \in DOMAIN P.queued /\ typed' = typed
    BY <1>8 DEF discardQueued
  <2>2. SameWork /\ Later
    BY <1>1, <2>1, StreamWork, Counted
  <2>3. P.currentId # 0
    BY <1>1, <2>1 DEF Held
  <2> HIDE DEF q
  <2>4. Mine(new) /\ new.answerNow = P.answerNow
    BY <1>1, <1>3, <2>3 DEF PageFields
  <2> HIDE DEF new
  <2> QED
    BY <1>4, <2>1, <2>2, <2>4
<1>9. ASSUME NEW i, sendQueuedNow(i)
      PROVE  Filed(f)'
  <2>1. P.streaming /\ P.queued # <<>>
    BY <1>9 DEF sendQueuedNow, Alone
  <2>2. PICK q : /\ turns' = IF P.abort \in Running THEN [turns EXCEPT ![P.abort].aborted = TRUE] ELSE turns
                 /\ nturn' = nturn /\ typed' = typed /\ Paint([P EXCEPT !.queued = q])
    BY <1>9, <2>1 DEF sendQueuedNow
  <2> DEFINE new == [P EXCEPT !.queued = q]
  <2>3. SameWork /\ Later
    BY <1>1, <2>2, StreamWork, Counted
  <2>4. P.currentId # 0
    BY <1>1, <2>1 DEF Held
  <2>5. Mine(new) /\ new.answerNow = P.answerNow
    BY <1>1, <1>3, <2>4 DEF PageFields
  <2>6. Paint(new)
    BY <2>2
  <2> HIDE DEF new
  <2> QED
    BY <1>4, <2>2, <2>3, <2>5, <2>6
<1> QED
  BY <1>5, <1>6, <1>7, <1>8, <1>9

\* The Stop button and a fragment: the answer on screen is of the thread on screen.
LEMMA FiledStream ==
    ASSUME Core, Alone, DataOK, Threads, Forgotten, NEW f, Filed(f), stop \/ \E n \in 1 .. MaxTurns : Delta(n)
    PROVE  Filed(f)'
<1>1. PageOK(P) /\ Shapes /\ DOMAIN P = PageFields /\ Held(P, f, typed) /\ TameSeq(P.messages)
  BY AloneRuns, TidyP DEF PageOK, Filed, Tidy
<1>2. UNCHANGED <<server, net, gone, mount, nturn, typed>>
  BY DEF stop, Delta
<1>3. SameWork /\ Later
  BY <1>1, <1>2, StreamWork, Counted DEF stop, Delta
<1>4. CASE stop
  <2>1. Mine(P) /\ pg' = pg
    BY <1>1, <1>4 DEF stop, Mine, Held
  <2> QED
    BY <1>2, <1>3, <2>1, FiledMine
<1>5. ASSUME NEW n \in 1 .. MaxTurns, Delta(n)
      PROVE  Filed(f)'
  <2> DEFINE m == Msg("assistant", n, turns[n].th, turns'[n].got, FALSE)
             a == ReplaceLast(P.messages, m)
             new == [P EXCEPT !.messages = a]
  <2>1. n \in Running /\ turns[n].page = mount
    BY <1>5, AloneRuns DEF Delta
  <2>2. Paint(new)
    BY <1>5, <2>1 DEF Delta, Paint, P
  <2>3. turns[n].th = P.th
    BY <2>1 DEF Filed, AtWork
  <2>4. m.th = P.th
    <3>1. m.th = turns[n].th
      BY DEF Msg
    <3> QED
      BY <2>3, <3>1
  <2>5. Bears(P.messages, P.th) /\ (P.messages # <<>> => P.th # 0)
    BY <1>1 DEF Held
  <2> HIDE DEF m
  <2>6. Bears(a, P.th) /\ (a # <<>> => P.th # 0)
    BY <1>1, <2>4, <2>5, ReplaceBears
  <2> HIDE DEF a
  <2>7. Mine(new) /\ new.answerNow = P.answerNow
    BY <1>1, <2>6 DEF PageOK, PageFields, Mine, Held
  <2> HIDE DEF new
  <2> QED
    BY <1>2, <1>3, <2>2, <2>7, FiledMine
<1> QED
  BY <1>4, <1>5

\* The timer of the poll
LEMMA FiledTimers ==
    ASSUME Core, Alone, DataOK, Threads, Forgotten, NEW f, Filed(f), Poll \/ EffectsRerun \/ FollowTick
    PROVE  Filed(f)'
<1>1. PageOK(P) /\ Shapes /\ DOMAIN P = PageFields /\ Poll /\ Held(P, f, typed)
  BY AloneRuns DEF PageOK, EffectsRerun, FollowTick, Alone, Filed
<1> DEFINE new == [P EXCEPT !.armed = FALSE]
<1>2. pg' = [pg EXCEPT ![mount] = new] /\ UNCHANGED <<server, net, gone, mount, nturn, turns, typed>>
  BY <1>1 DEF Poll, P
<1>3. SameWork /\ Later
  BY <1>1, <1>2, StreamWork, Counted
<1>4. Mine(new) /\ new.answerNow = P.answerNow
  BY <1>1 DEF PageOK, PageFields, Mine, Held
<1> HIDE DEF new
<1> QED
  BY <1>2, <1>3, <1>4, FiledMine

\* A conversation comes on screen with its thread.
LEMMA AppliedThread ==
    ASSUME NEW rec, PageOK(rec), NEW c, NEW msgs
    PROVE  LET r == Applied(rec, c, msgs)
           IN  r.answerNow = rec.answerNow /\ (msgs # <<>> => r.th = msgs[1].th)
<1> DEFINE m == FromSaved(msgs)
           h == IF msgs = <<>> THEN rec.th ELSE msgs[1].th
           tb == [rec.tabs EXCEPT ![rec.tab].currentId = c]
           r == [rec EXCEPT !.messages = m, !.currentId = c, !.editing = 0, !.queued = <<>>,
                            !.th = h, !.tabs = tb]
<1>1. r = Applied(rec, c, msgs)
  BY DEF Applied, PageOK, PageFields
<1>2. msgs # <<>> => h = msgs[1].th
  OBVIOUS
<1> HIDE DEF m, h, tb
<1>3. r.answerNow = rec.answerNow /\ r.th = h
  BY DEF PageOK, PageFields
<1> HIDE DEF r
<1> QED
  BY <1>1, <1>2, <1>3

\* Messages of a conversation tell its thread.
LEMMA FirstBears ==
    ASSUME NEW s, TameSeq(s), NEW t, Bears(s, t), s # <<>>
    PROVE  s[1].th = t
<1>1. PICK S : s \in Seq(S)
  BY DEF TameSeq
<1>2. 1 \in DOMAIN s
  BY <1>1
<1> QED
  BY <1>2 DEF Bears

\* What the server sends, and the conversation that is selected
LEMMA FiledHistory ==
    ASSUME Core, Alone, DataOK, Threads, Forgotten, NEW f, Filed(f), "net" \notin mode, "omits" \notin mode,
           "busy" \notin mode,
           \/ \E c \in ConvId : selectConversation(c)
           \/ \E q \in reads : ReadArrives(q)
           \/ ListArrives \/ ModelsArrive
    PROVE  Filed(f)'
<1>1. /\ PageOK(P) /\ Shapes /\ DOMAIN P = PageFields /\ Held(P, f, typed) /\ Tidy(P)
      /\ OnPage /\ Clear(P, gone, nturn) /\ \A q \in reads : q.why # "open"
  BY AloneRuns, TidyP DEF PageOK, Filed, Forgotten
<1>2. UNCHANGED <<server, net, gone, mount, nturn, typed, turns>>
  BY DEF selectConversation, ReadArrives, ListArrives, ModelsArrive, OnlyPage
<1>3. SameWork /\ Later
  BY <1>1, <1>2, StreamWork, Counted
<1>4. Held(P, f, typed') /\ 0 \notin ConvId
  BY <1>3, TopicLater, NamesAre DEF Filed
<1>5. ASSUME NEW c \in ConvId, selectConversation(c)
      PROVE  Filed(f)'
  <2> DEFINE m == P.list[c].msgs
             new == Applied(P, c, m)
  <2>1. P.list[c].in /\ Repaint(new) /\ Running = {}
    BY <1>1, <1>5, AloneRuns DEF selectConversation, Clear, MayBrowse
  <2>2. Of(f, c, m) /\ TameSeq(m)
    BY <1>1, <2>1 DEF Held, Tidy
  <2>3. m # <<>> /\ Bears(m, f[c]) /\ f[c] # 0 /\ m[1].th = f[c]
    BY <2>2, FirstBears DEF Of
  <2>4. /\ PageOK(new) /\ new.currentId = c /\ new.list = P.list /\ new.messages = m
        /\ new.queued = <<>> /\ new.answerNow = P.answerNow /\ new.th = f[c]
    <3>1. Calm(P) /\ c \in Named
      BY <1>1, TidyP DEF Named
    <3> QED
      BY <1>1, <2>3, <3>1, AppliedIs, AppliedShows, AppliedThread DEF Calm
  <2> HIDE DEF m, new
  <2>5. ~P.answerNow
    BY <2>1 DEF Filed, Idle
  <2>6. Topic(f[c], typed')
    BY <1>2, <1>4 DEF Filed, Naming
  <2>7. Held(new, f, typed')
    BY <1>4, <2>3, <2>4, <2>5, <2>6 DEF Held
  <2>8. Turning(f, new)
    BY <1>4, <2>1, <2>4, <2>5 DEF Turning, Idle
  <2> QED
    BY <1>2, <1>3, <2>1, <2>4, <2>7, <2>8, FiledPaint
<1>6. ASSUME NEW q \in reads, ReadArrives(q)
      PROVE  Filed(f)'
  <2> DEFINE m == server[q.id]
             new == [P EXCEPT !.messages = m]
  <2>1. pg' = pg \/ (Repaint(new) /\ P.currentId = q.id /\ m # <<>>)
    BY <1>1, <1>6 DEF ReadArrives, FromSaved
  <2>2. CASE pg' = pg
    <3>1. Mine(P)
      BY <1>1 DEF Mine, Held
    <3> QED
      BY <1>2, <1>3, <2>2, <3>1, FiledMine
  <2>3. CASE Repaint(new) /\ P.currentId = q.id /\ m # <<>>
    <3>1. q.id \in ConvId
      BY DEF Threads
    <3>2. Of(f, q.id, m) /\ f[q.id] = P.th /\ q.id # 0
      BY <1>1, <1>4, <2>3, <3>1 DEF Filed, Stored, Held
    <3>3. Bears(m, P.th) /\ P.th # 0
      BY <3>2 DEF Of
    <3> HIDE DEF m
    <3>4. Mine(new) /\ new.answerNow = P.answerNow
      BY <1>1, <3>3 DEF PageOK, PageFields, Mine, Held
    <3> HIDE DEF new
    <3> QED
      BY <1>2, <1>3, <2>3, <3>4, FiledMine
  <2> QED
    BY <2>1, <2>2, <2>3
<1>7. CASE ListArrives
  <2> DEFINE y(c) == [in |-> TRUE, msgs |-> server[c], omitted |-> FALSE]
             l == [c \in ConvId |-> IF server[c] = <<>> THEN NoEntry ELSE y(c)]
             new == [P EXCEPT !.loaded = TRUE, !.list = l]
  <2>1. PICK fails \in {"net" \in mode, FALSE}, omit \in {"omits" \in mode, FALSE} :
          Paint([P EXCEPT !.loaded = TRUE,
                  !.list = [c \in ConvId |->
                     IF fails \/ server[c] = <<>> THEN NoEntry
                     ELSE [in |-> TRUE, msgs |-> IF omit THEN <<>> ELSE server[c], omitted |-> omit]]])
    BY <1>7 DEF ListArrives
  <2>2. Paint(new)
    <3>1. ~fails /\ ~omit
      OBVIOUS
    <3>2. fails = FALSE /\ omit = FALSE
      BY <3>1
    <3> QED
      BY <2>1, <3>2
  <2>3. \A c : y(c).msgs = server[c]
    OBVIOUS
  <2>4. \A c \in ConvId : l[c] = IF server[c] = <<>> THEN NoEntry ELSE y(c)
    OBVIOUS
  <2>5. NoEntry.in = FALSE
    BY DEF NoEntry
  <2> HIDE DEF y, l
  <2>6. \A c \in ConvId : l[c].in => Of(f, c, l[c].msgs)
    BY <2>3, <2>4, <2>5 DEF Filed, Stored
  <2>7. /\ PageOK(new) /\ new.currentId = P.currentId /\ new.list = l /\ new.messages = P.messages
        /\ new.queued = P.queued /\ new.answerNow = P.answerNow /\ new.th = P.th
    BY <1>1 DEF PageOK, PageFields
  <2> HIDE DEF new
  <2>8. Held(new, f, typed') /\ Turning(f, new)
    BY <1>4, <2>6, <2>7 DEF Held, Turning
  <2> QED
    BY <1>2, <1>3, <2>2, <2>7, <2>8, FiledPaint
<1>8. CASE ModelsArrive
  <2> DEFINE new == [P EXCEPT !.model = TRUE]
  <2>1. Paint(new)
    BY <1>8 DEF ModelsArrive
  <2>2. Mine(new) /\ new.answerNow = P.answerNow
    BY <1>1 DEF PageOK, PageFields, Mine, Held
  <2> HIDE DEF new
  <2> QED
    BY <1>2, <1>3, <2>1, <2>2, FiledMine
<1> QED
  BY <1>5, <1>6, <1>7, <1>8

\* A tab is emptied, and comes on screen: what was promised is as it was.
LEMMA RestoredThread ==
    ASSUME NEW rec, PageOK(rec), NEW i \in Tabs, NEW s
    PROVE  /\ [rec EXCEPT !.tabs[i] = s].answerNow = rec.answerNow
           /\ Restored(rec, i).answerNow = rec.answerNow /\ Restored(rec, i).th = rec.tabs[i].th
<1> DEFINE m == rec.tabs[i].messages
           c == rec.tabs[i].currentId
           h == rec.tabs[i].th
           r == [rec EXCEPT !.messages = m, !.currentId = c, !.th = h, !.editing = 0, !.queued = <<>>, !.tab = i]
<1>1. r = Restored(rec, i)
  BY DEF Restored
<1>2. [rec EXCEPT !.tabs[i] = s].answerNow = rec.answerNow
  BY DEF PageOK, PageFields
<1> HIDE DEF m, c, h
<1>3. r.answerNow = rec.answerNow /\ r.th = h
  BY DEF PageOK, PageFields
<1> HIDE DEF r
<1> QED
  BY <1>1, <1>2, <1>3 DEF h

\* There is one tab: it can only be emptied.
LEMMA FiledTabs ==
    ASSUME Core, Alone, DataOK, Threads, Forgotten, NEW f, Filed(f), "tabs" \notin mode,
           NEW i \in Tabs, switchTab(i) \/ newTab(i) \/ closeTab(i)
    PROVE  Filed(f)'
<1>1. OnPage /\ Calm(P) /\ PageOK(P) /\ Shapes /\ Clear(P, gone, nturn)
  BY AloneRuns, TidyP DEF Forgotten
<1>2. closeTab(i) /\ Running = {}
  BY <1>1, AloneRuns DEF switchTab, newTab, closeTab, Clear
<1> DEFINE left == [P EXCEPT !.tabs[i] = NoTab]
           empty == [left EXCEPT !.tabs[i] = EmptyTab]
           new == Restored(empty, i)
<1>3. /\ TabOK(NoTab) /\ TabOK(EmptyTab) /\ NoTab.open = FALSE /\ EmptyTab.currentId = 0
      /\ EmptyTab.th = 0 /\ EmptyTab.messages = <<>>
  BY DEF TabOK, NoTab, EmptyTab, Snapshot, Named
<1>4. Calm(left) /\ left.list = P.list /\ \A j \in Tabs : left.tabs[j] = IF j = i THEN NoTab ELSE P.tabs[j]
  <2>1. TabOK(NoTab)
    BY <1>3
  <2>2. Calm(left)
    BY <1>1, <2>1, TabSet
  <2>3. PageOK(P)
    BY <1>1
  <2>4. left.list = P.list /\ \A j \in Tabs : left.tabs[j] = IF j = i THEN NoTab ELSE P.tabs[j]
    <3> DEFINE e == NoTab
    <3> HIDE DEF e
    <3>1. LET r == [P EXCEPT !.tabs[i] = e]
          IN  r.list = P.list /\ \A j \in Tabs : r.tabs[j] = IF j = i THEN e ELSE P.tabs[j]
      BY <2>3 DEF PageOK, PageFields
    <3> QED
      BY <3>1 DEF e
  <2> QED
    BY <2>2, <2>4
<1>5. i = P.tab /\ \A j \in Tabs : ~left.tabs[j].open
  BY <1>1, <1>2, <1>3, <1>4 DEF closeTab, Clear
<1>6. Paint(new) /\ UNCHANGED <<server, net, gone, mount, nturn, turns, typed>>
  BY <1>2, <1>5 DEF closeTab
<1>7. left.answerNow = P.answerNow /\ PageOK(left)
  BY <1>1, <1>4, RestoredThread DEF Calm
<1> HIDE DEF left
<1>8. Calm(empty) /\ PageOK(empty)
  BY <1>3, <1>4, TabSet DEF Calm
<1>9. empty.list = left.list /\ empty.answerNow = left.answerNow /\ empty.tabs[i] = EmptyTab
  <2> DEFINE e == EmptyTab
  <2> HIDE DEF e
  <2>1. /\ [left EXCEPT !.tabs[i] = e].list = left.list
        /\ [left EXCEPT !.tabs[i] = e].answerNow = left.answerNow
        /\ [left EXCEPT !.tabs[i] = e].tabs[i] = e
    BY <1>7 DEF PageOK, PageFields
  <2> QED
    BY <2>1 DEF e
<1> HIDE DEF empty
<1>10. PageOK(new)
  BY <1>3, <1>8, <1>9, RestoredIs DEF Calm
<1>11. /\ new.currentId = 0 /\ new.list = P.list /\ new.messages = <<>> /\ new.queued = <<>>
       /\ new.th = 0 /\ new.answerNow = P.answerNow
  BY <1>3, <1>4, <1>7, <1>8, <1>9, RestoredShows, RestoredThread
<1> HIDE DEF new
<1>12. ~P.answerNow /\ Held(P, f, typed)
  BY <1>2 DEF Filed, Idle
<1>13. SameWork /\ Later
  BY <1>1, <1>6, StreamWork, Counted
<1>14. Topic(0, typed') /\ Bears(<<>>, 0)
  <2>1. typed' \in Nat /\ MaxTurns \in Nat
    BY <1>13, PlaygroundAssumption DEF Later
  <2>2. \A a, b \in Nat : 0 <= a + b
    OBVIOUS
  <2>3. DOMAIN <<>> = {}
    OBVIOUS
  <2> QED
    BY <2>1, <2>2, <2>3 DEF Topic, Bears
<1>15. Held(new, f, typed')
  BY <1>11, <1>12, <1>14 DEF Held
<1>16. Turning(f, new)
  BY <1>2, <1>11, <1>12 DEF Turning, Idle
<1> QED
  BY <1>6, <1>10, <1>13, <1>15, <1>16, FiledPaint

\* deleteConversation: the thread that stays on screen has no name any more.
LEMMA FiledDelete ==
    ASSUME Core, Alone, DataOK, Threads, Forgotten, NEW f, Filed(f), "busy" \notin mode,
           NEW c \in ConvId, deleteConversation(c)
    PROVE  Filed(f)'
<1> DEFINE b == IF P.currentId = c THEN 0 ELSE P.currentId
           e == NoEntry
           l == [P.list EXCEPT ![c] = e]
           new == [P EXCEPT !.list = l, !.currentId = b]
           x == DeleteRequest(c)
           g == gone \cup {c}
           r == Painted(mount, new, LiveConv)
<1>1. OnPage /\ PageOK(P) /\ Shapes /\ DOMAIN P = PageFields /\ DOMAIN P.list = ConvId /\ mount \in Pages
  BY AloneRuns, TidyP DEF PageOK, Tidy
<1>2. Clear(P, gone, nturn) /\ IsSeq(net) /\ Erased(gone, server, net)
  BY DEF Forgotten, DataOK
<1>3. /\ P.list[c].in /\ net' = Append(net, x) /\ gone' = g /\ Running = {} /\ ~P.streaming
      /\ UNCHANGED <<server, turns, nturn, mount, typed>>
  BY AloneRuns DEF deleteConversation, MayBrowse
<1>4. pg' = [pg EXCEPT ![mount] = r]
  <2>1. Paint([P EXCEPT !.list[c] = e, !.currentId = b])
    BY DEF deleteConversation
  <2>2. Paint(new)
    BY <1>1, <2>1 DEF PageFields
  <2> QED
    BY <2>2 DEF Paint
<1>5. NoEntry.in = FALSE
  BY DEF NoEntry
<1>6. \A d \in ConvId : l[d] = IF d = c THEN e ELSE P.list[d]
  BY <1>1
<1>7. x.id = c /\ x.op = "delete"
  BY RequestIs
<1>8. b \in Named /\ (b = P.currentId \/ (b = 0 /\ P.currentId = c))
  BY <1>1 DEF PageOK, Named
<1> HIDE DEF b, l, x
<1>9. /\ PageOK(new) /\ new.currentId = b /\ new.list = l /\ new.messages = P.messages /\ new.th = P.th
      /\ new.queued = P.queued /\ new.answerNow = P.answerNow
  BY <1>1, <1>8 DEF PageOK, PageFields
<1>10. Held(P, f, typed) /\ Idle(P, f, gone) /\ ~P.answerNow /\ P.queued = <<>> /\ Naming(f, gone, nturn, typed)
       /\ 0 \notin ConvId
  BY <1>3, NamesAre DEF Filed, Idle, Alone
<1> HIDE DEF new
<1>11. Held(new, f, typed)
  BY <1>5, <1>6, <1>8, <1>9, <1>10 DEF Held
<1>12. Naming(f, g, nturn, typed)
  BY <1>10 DEF Naming
<1>13. Idle(new, f, g)
  <2>1. ASSUME new.currentId = 0, new.th # 0, NEW d \in ConvId \ g
        PROVE  f[d] # new.th
    <3>1. CASE P.currentId = 0
      BY <1>9, <1>10, <2>1, <3>1 DEF Idle
    <3>2. CASE P.currentId = c
      <4>1. f[c] = P.th /\ P.th # 0 /\ c \notin gone
        BY <1>2, <1>3, <1>10, <3>2 DEF Held, Clear
      <4> QED
        BY <1>9, <1>10, <2>1, <4>1 DEF Naming
    <3> QED
      BY <1>8, <1>9, <2>1, <3>1, <3>2
  <2> QED
    BY <1>9, <1>10, <2>1 DEF Idle
<1>14. Faces(new, r)
  BY <1>9, EffectsFace
<1>15. Held(r, f, typed) /\ Idle(r, f, g)
  BY <1>11, <1>13, <1>14, FaceHolds
<1> HIDE DEF r
<1>16. P' = r /\ Running' = {}
  BY <1>1, <1>3, <1>4 DEF P, Shapes, Running
<1>17. Stored(f, server, net) /\ Apart(f, server, net)
  BY DEF Filed
<1>18. Apart(f, server, net')
  BY <1>2, <1>3, <1>7, <1>17, ApartSent
<1>19. \A j \in DOMAIN net' : net'[j] = x \/ (j \in DOMAIN net /\ net'[j] = net[j])
  BY <1>2, <1>3, LastRequest
<1>20. Stored(f, server, net')
  BY <1>7, <1>17, <1>19 DEF Stored
<1>21. Held(P', f, typed') /\ Idle(P', f, gone') /\ Naming(f, gone', nturn', typed')
  BY <1>3, <1>12, <1>15, <1>16
<1>22. Stored(f, server', net') /\ Apart(f, server', net')
  BY <1>3, <1>18, <1>20
<1> QED
  BY <1>16, <1>21, <1>22 DEF Filed, Naming, Stored, Apart, Held, Idle, AtWork, Of, Topic, Cleared, Bears, Known, ConvId, Old

\* The oldest request is served: when a thread is saved, the other conversations that had
\* it were deleted before.
LEMMA FiledServed ==
    ASSUME Core, Alone, DataOK, Threads, Forgotten, NEW f, Filed(f), "net" \notin mode, NEW i, RequestServed(i)
    PROVE  Filed(f)'
<1>1. /\ 1 \in DOMAIN net /\ server' = [server EXCEPT ![net[1].id] = net[1].msgs]
      /\ net' = RemoveAt(net, 1) /\ UNCHANGED <<turns, pg, mount, gone, nturn, typed>>
  BY DEF RequestServed, Servable
<1>2. IsSeq(net) /\ DOMAIN server = ConvId /\ net[1].id \in ConvId /\ \A j \in DOMAIN net : net[j].id \in ConvId
  BY <1>1 DEF DataOK, Threads
<1> DEFINE k == Len(net) - 1
<1>3. /\ DOMAIN net = 1 .. Len(net) /\ Len(net) \in Nat /\ Len(net) > 0
      /\ DOMAIN net' = 1 .. k /\ \A j \in 1 .. k : net'[j] = net[j + 1]
  BY <1>1, <1>2, FirstServed
<1>4. \A j \in DOMAIN net' : j + 1 \in DOMAIN net /\ net'[j] = net[j + 1] /\ j \in Nat /\ 1 < j + 1
  BY <1>3
<1>5. \A j \in DOMAIN net : j # 1 => j - 1 \in DOMAIN net' /\ net'[j - 1] = net[j] /\ j \in Nat
  <2> SUFFICES ASSUME NEW j \in 1 .. Len(net), j # 1
               PROVE  j - 1 \in 1 .. k /\ net'[j - 1] = net[j] /\ j \in Nat
    BY <1>3
  <2>1. j - 1 \in 1 .. k /\ (j - 1) + 1 = j /\ j \in Nat
    BY <1>3
  <2> QED
    BY <1>3, <2>1
<1> HIDE DEF k
<1>6. \A c \in ConvId : server'[c] = IF c = net[1].id THEN net[1].msgs ELSE server[c]
  BY <1>1, <1>2
<1>7. net[1].op = "save" \/ net[1].msgs = <<>>
  BY <1>1 DEF Forgotten, Plain
<1>8. Stored(f, server, net) /\ Apart(f, server, net)
  BY DEF Filed
<1>9. ASSUME NEW c, NEW h \in Nat, NEW j \in Nat, Cleared(net, c, h + 1, j + 1)
      PROVE  Cleared(net', c, h, j)
  <2>1. PICK y \in DOMAIN net : h + 1 < y /\ y < j + 1 /\ net[y].op = "delete" /\ net[y].id = c
    BY <1>9 DEF Cleared
  <2>2. y \in Nat
    BY <1>3
  <2>3. y # 1 /\ h < y - 1 /\ y - 1 < j
    BY <2>1, <2>2
  <2> QED
    BY <1>5, <2>1, <2>3 DEF Cleared
<1>10. ASSUME NEW c, NEW j, Cleared(net, c, 0, j), c # net[1].id
       PROVE  Cleared(net, c, 0 + 1, j)
  <2>1. PICK y \in DOMAIN net : 0 < y /\ y < j /\ net[y].op = "delete" /\ net[y].id = c
    BY <1>10 DEF Cleared
  <2>2. y \in Nat /\ y # 1
    BY <1>3, <1>10, <2>1
  <2>3. 0 + 1 < y
    BY <2>1, <2>2
  <2> QED
    BY <2>1, <2>3 DEF Cleared
<1>11. \A c : ~Cleared(net, c, 0, 1)
  BY <1>3 DEF Cleared
<1>12. Stored(f, server', net')
  <2>1. \A c \in ConvId : server'[c] # <<>> => Of(f, c, server'[c])
    BY <1>1, <1>6, <1>7, <1>8 DEF Stored
  <2>2. \A j \in DOMAIN net' : net'[j].op = "save" => Of(f, net'[j].id, net'[j].msgs)
    BY <1>4, <1>8 DEF Stored
  <2> QED
    BY <2>1, <2>2 DEF Stored
<1>13. ASSUME NEW c \in ConvId, NEW d \in ConvId, c # d, f[c] = f[d]
       PROVE  server'[c] = <<>> \/ server'[d] = <<>>
  <2>1. server[c] = <<>> \/ server[d] = <<>>
    BY <1>8, <1>13 DEF Apart
  <2>2. \A y \in ConvId : net[1].op = "save" /\ y # net[1].id /\ f[y] = f[net[1].id] => server[y] = <<>>
    BY <1>1, <1>8, <1>11 DEF Apart
  <2> QED
    BY <1>6, <1>7, <1>13, <2>1, <2>2
<1>14. ASSUME NEW j \in DOMAIN net', NEW c \in ConvId, net'[j].op = "save", c # net'[j].id, f[c] = f[net'[j].id]
       PROVE  /\ server'[c] # <<>> => Cleared(net', c, 0, j)
              /\ \A h \in DOMAIN net' : h < j /\ net'[h].op = "save" /\ net'[h].id = c => Cleared(net', c, h, j)
  <2>1. j + 1 \in DOMAIN net /\ net'[j] = net[j + 1] /\ j \in Nat /\ 1 < j + 1
    BY <1>4
  <2>2. /\ server[c] # <<>> => Cleared(net, c, 0, j + 1)
        /\ \A h \in DOMAIN net : h < j + 1 /\ net[h].op = "save" /\ net[h].id = c => Cleared(net, c, h, j + 1)
    BY <1>8, <1>14, <2>1 DEF Apart
  <2>3. ASSUME server'[c] # <<>> PROVE Cleared(net', c, 0, j)
    <3>1. CASE c = net[1].id
      <4>1. net[1].op = "save"
        BY <1>6, <1>7, <2>3, <3>1
      <4>2. Cleared(net, c, 1, j + 1)
        BY <1>1, <2>1, <2>2, <3>1, <4>1
      <4>3. Cleared(net, c, 0 + 1, j + 1)
        BY <4>2
      <4> QED
        BY <1>9, <2>1, <4>3
    <3>2. CASE c # net[1].id
      <4>1. Cleared(net, c, 0, j + 1)
        BY <1>6, <2>2, <2>3, <3>2
      <4>2. Cleared(net, c, 0 + 1, j + 1)
        BY <1>10, <3>2, <4>1
      <4> QED
        BY <1>9, <2>1, <4>2
    <3> QED
      BY <3>1, <3>2
  <2>4. ASSUME NEW h \in DOMAIN net', h < j, net'[h].op = "save", net'[h].id = c
        PROVE  Cleared(net', c, h, j)
    <3>1. h + 1 \in DOMAIN net /\ net'[h] = net[h + 1] /\ h \in Nat
      BY <1>4
    <3>2. h + 1 < j + 1
      BY <2>1, <2>4, <3>1
    <3>3. Cleared(net, c, h + 1, j + 1)
      BY <2>2, <2>4, <3>1, <3>2
    <3> QED
      BY <1>9, <2>1, <3>1, <3>3
  <2> QED
    BY <2>3, <2>4
<1>15. Apart(f, server', net')
  BY <1>13, <1>14 DEF Apart
<1>16. /\ Held(P', f, typed') /\ Naming(f, gone', nturn', typed') /\ Running' = Running
       /\ (Running = {} => Idle(P', f, gone')) /\ \A n \in Running : AtWork(n, turns'[n], f, P')
  BY <1>1 DEF Filed, P, Running
<1> QED
  BY <1>12, <1>15, <1>16 DEF Filed, Naming, Stored, Apart, Held, Idle, AtWork, Of, Topic, Cleared, Bears, Known, ConvId, Old

\* A generation is of the thread it was asked in.
LEMMA TurnOfThread ==
    ASSUME NEW ask
    PROVE  TurnOf(ask).th = ask.th /\ TurnOf(ask).voice = ask.voice
<1> DEFINE p == ask.page
           b == ask.tab
           c == ask.cid
           m == ask.base
           h == ask.th
           v == ask.voice
           y == ask.retried
           u == ask.auto
           t == [NoTurn EXCEPT !.st = "run", !.page = p, !.tab = b, !.cid = c,
                   !.base = m, !.th = h, !.liveId = c, !.voice = v, !.retried = y, !.auto = u]
<1>1. TurnOf(ask) = t
  BY DEF TurnOf
<1> HIDE DEF p, b, c, m, h, v, y, u
<1>2. t.th = h /\ t.voice = v
  BY DEF NoTurn
<1> HIDE DEF t
<1> QED
  BY <1>1, <1>2 DEF h, v

\* One more turn began, in a conversation that has a name.
LEMMA NamingLater ==
    ASSUME NEW f, NEW g, NEW n \in Nat, NEW k, Naming(f, g, n, k)
    PROVE  Naming(f, g, n + 1, k)
<1>1. \A c \in ConvId : Known(c, n) => Known(c, n + 1)
  <2>1. ConvId \subseteq Named /\ n + 1 \in Nat /\ n <= n + 1
    BY DEF Named
  <2> QED
    BY <2>1, NamesAre
<1> QED
  BY <1>1 DEF Naming

\* One more turn began, in a conversation that has none: it takes the name of the turn,
\* and no other conversation has its thread.
LEMMA NamingTurn ==
    ASSUME NEW f, NEW g, NEW n \in Nat, NEW k, Naming(f, g, n, k), n + 1 \in 1 .. MaxTurns,
           NEW t, t # 0, Topic(t, k), \A c \in ConvId \ g : f[c] # t
    PROVE  \E h : /\ Naming(h, g, n + 1, k) /\ h[n + 1] = t
                  /\ \A c \in ConvId : f[c] # 0 => h[c] = f[c]
<1> DEFINE z == n + 1
           h == [f EXCEPT ![z] = t]
<1>1. z \in ConvId /\ ~Known(z, n) /\ Known(z, z) /\ Naming(f, g, z, k)
  <2>1. z \in ConvId /\ z \notin Old /\ z \in Nat /\ ~(z <= n) /\ z <= z
    BY NamesAre
  <2> QED
    BY <2>1, NamingLater DEF Known
<1> HIDE DEF z
<1>2. t \in Nat /\ f \in [ConvId -> Nat] /\ f[z] = 0
  BY <1>1 DEF Topic, Naming
<1>3. h \in [ConvId -> Nat] /\ \A c \in ConvId : h[c] = IF c = z THEN t ELSE f[c]
  BY <1>1, <1>2
<1> HIDE DEF h
<1>4. \A c \in ConvId : Topic(h[c], k) /\ (h[c] # 0 => Known(c, z))
  BY <1>1, <1>3 DEF Naming
<1>5. \A c, d \in ConvId \ g : h[c] = h[d] /\ h[c] # 0 => c = d
  BY <1>1, <1>3 DEF Naming
<1>6. Naming(h, g, z, k)
  BY <1>3, <1>4, <1>5 DEF Naming
<1> QED
  BY <1>1, <1>2, <1>3, <1>6 DEF h, z

\* What a handler asks is of the thread on screen, or of one it begins.
AsksOf(f) ==
    \E rec, base, voice :
      /\ PageOK(rec) /\ Shows(P, rec) /\ rec.answerNow = P.answerNow
      /\ rec.th # 0 /\ Topic(rec.th, typed')
      /\ rec.th = P.th \/ (P.th = 0 /\ \A c \in ConvId : f[c] # rec.th)
      /\ TameSeq(base) /\ base # <<>> /\ Bears(base, rec.th)
      /\ voice => P.currentId # 0
      /\ runStream(rec, Ask(rec, base, voice))

\* The handlers that ask: send, sendVoice, the hidden requests, regenerate
LEMMA HandlersAsk ==
    ASSUME Core, DataOK, Threads, OnPage, NEW f, Filed(f), "fresh" \notin mode,
           Send \/ sendVoice \/ AskHidden \/ regenerate
    PROVE  AsksOf(f) /\ Later
<1>1. PageOK(P) /\ Tidy(P)
  BY TidyP
<1>2. TameSeq(P.messages) /\ Held(P, f, typed)
  BY <1>1 DEF Tidy, Filed
<1>3. Later
  BY Counted DEF Send, sendVoice, AskHidden, regenerate
<1>4. Held(P, f, typed')
  BY <1>2, <1>3, TopicLater
<1> DEFINE h == IF P.th = 0 THEN MaxTurns + typed' ELSE P.th
           a == [P EXCEPT !.th = h]
           b == [a EXCEPT !.editing = 0]
           kept == IF P.editing \in DOMAIN P.messages THEN SubSeq(P.messages, 1, P.editing - 1) ELSE P.messages
           Right(t) == /\ t # 0 /\ Topic(t, typed')
                       /\ t = P.th \/ (P.th = 0 /\ \A c \in ConvId : f[c] # t)
<1>5. WithThread(P, typed') = a
  BY DEF WithThread
<1>6. P.th # 0 => Right(P.th)
  BY <1>4 DEF Held
<1>7. Send \/ sendVoice => Right(h)
  <2> SUFFICES ASSUME Send \/ sendVoice, P.th = 0
               PROVE  Right(h)
    BY <1>6
  <2>1. typed' = typed + 1 /\ typed < MaxTyped /\ h = MaxTurns + typed'
    BY DEF Send, sendVoice
  <2>2. typed \in Nat /\ MaxTyped \in Nat /\ MaxTurns \in Nat
    BY PlaygroundAssumption, Counted
  <2>3. h \in Nat /\ h # 0 /\ h <= MaxTurns + typed' /\ ~(h <= MaxTurns + typed) /\ h <= MaxTurns + MaxTyped
    BY <2>1, <2>2
  <2>4. h \notin Old
    BY <2>2, <2>3, PlaygroundAssumption DEF Old
  <2> HIDE DEF h
  <2>5. Topic(h, typed') /\ ~Topic(h, typed)
    BY <2>3, <2>4 DEF Topic
  <2>6. \A c \in ConvId : f[c] # h
    BY <2>5 DEF Filed, Naming
  <2> QED
    BY <2>3, <2>5, <2>6
<1> HIDE DEF h
<1>8. PageOK(a) /\ Shows(P, a) /\ a.answerNow = P.answerNow /\ a.th = h
  BY <1>1 DEF PageOK, PageFields, Shows
<1> HIDE DEF a
<1>9. PageOK(b) /\ Shows(P, b) /\ b.answerNow = P.answerNow /\ b.th = h
  BY <1>8 DEF PageOK, PageFields, Shows
<1> HIDE DEF b
<1>10. TameSeq(kept) /\ Bears(P.messages, P.th) /\ Bears(kept, P.th) /\ TameSeq(<<>>) /\ DOMAIN <<>> = {}
  BY <1>2, CutTame, CutBears, EmptyTame DEF Held, Settled
<1>11. \A t : Right(t) => Bears(P.messages, t) /\ Bears(kept, t)
  <2>1. ASSUME P.th = 0 PROVE P.messages = <<>> /\ kept = <<>>
    <3>1. P.messages = <<>>
      BY <1>2, <2>1 DEF Held
    <3>2. DOMAIN P.messages = {}
      BY <3>1
    <3> QED
      BY <3>1, <3>2
  <2> QED
    BY <1>10, <2>1 DEF Bears
<1> HIDE DEF kept
<1>12. ASSUME NEW rec, PageOK(rec), Shows(P, rec), rec.answerNow = P.answerNow, Right(rec.th), NEW base,
              TameSeq(base), base # <<>>, Bears(base, rec.th), NEW voice, voice => P.currentId # 0,
              runStream(rec, Ask(rec, base, voice))
       PROVE  AsksOf(f)
  BY <1>12 DEF AsksOf
<1>13. \A k, t, m : TameSeq(m) => TameSeq(Append(m, Typed(k, t))) /\ TameSeq(Append(m, Hidden(t)))
  BY MadeTame, AppendTame DEF Settled
<1>14. \A k, t, m : TameSeq(m) /\ Bears(m, t) =>
          /\ Bears(Append(m, Typed(k, t)), t) /\ Append(m, Typed(k, t)) # <<>>
          /\ Bears(Append(m, Hidden(t)), t) /\ Append(m, Hidden(t)) # <<>>
  BY MadeBears, AppendBears
<1> HIDE DEF Right
<1>15. CASE Send
  <2> DEFINE base == Append(kept, Typed(typed', b.th))
  <2>1. runStream(b, Ask(b, base, FALSE)) /\ Right(b.th)
    BY <1>5, <1>7, <1>9, <1>15 DEF Send, b, kept
  <2>2. TameSeq(base) /\ base # <<>> /\ Bears(base, b.th)
    BY <1>10, <1>11, <1>13, <1>14, <2>1
  <2> HIDE DEF base
  <2> QED
    BY <1>3, <1>9, <1>12, <2>1, <2>2
<1>16. CASE sendVoice
  <2> DEFINE base == Append(P.messages, Typed(typed', a.th))
  <2>1. runStream(a, Ask(a, base, TRUE)) /\ Right(a.th) /\ P.currentId # 0
    BY <1>5, <1>7, <1>8, <1>16 DEF sendVoice, MayChain
  <2>2. TameSeq(base) /\ base # <<>> /\ Bears(base, a.th)
    BY <1>2, <1>11, <1>13, <1>14, <2>1
  <2> HIDE DEF base
  <2> QED
    BY <1>3, <1>8, <1>12, <2>1, <2>2
<1>17. ASSUME P.messages # <<>>
       PROVE  Right(P.th) /\ Shows(P, P)
  BY <1>2, <1>6, <1>17 DEF Held, Shows
<1>18. CASE AskHidden
  <2> DEFINE base == Append(P.messages, Hidden(P.th))
  <2>1. runStream(P, Ask(P, base, FALSE)) /\ Right(P.th) /\ Shows(P, P)
    BY <1>17, <1>18 DEF AskHidden
  <2>2. TameSeq(base) /\ base # <<>> /\ Bears(base, P.th)
    BY <1>2, <1>11, <1>13, <1>14, <2>1
  <2> HIDE DEF base
  <2> QED
    BY <1>1, <1>3, <1>12, <2>1, <2>2
<1>19. CASE regenerate
  <2> DEFINE base == IF LastOf(P.messages).role = "assistant" THEN Front(P.messages) ELSE P.messages
  <2>1. P.messages # <<>> /\ base # <<>> /\ runStream(P, Ask(P, base, FALSE))
    BY <1>19 DEF regenerate
  <2>2. TameSeq(base) /\ Bears(base, P.th)
    BY <1>2, <1>10, <2>1, FrontTame, CutBears
  <2>3. Right(P.th) /\ Shows(P, P)
    BY <1>17, <2>1
  <2> HIDE DEF base
  <2> QED
    BY <1>1, <1>3, <1>12, <2>1, <2>2, <2>3
<1> QED
  BY <1>15, <1>16, <1>18, <1>19

\* runStream, called by a handler: a thread that has no name is given that of the turn.
LEMMA FiledAsks ==
    ASSUME Core, Shapes', Alone, DataOK, Threads, Forgotten, NEW f, Filed(f), AsksOf(f), Later,
           ~P.streaming, UNCHANGED <<server, net, mount, gone>>
    PROVE  \E h : Filed(h)'
<1>1. PICK rec, base, voice :
        /\ PageOK(rec) /\ Shows(P, rec) /\ rec.answerNow = P.answerNow
        /\ rec.th # 0 /\ Topic(rec.th, typed')
        /\ rec.th = P.th \/ (P.th = 0 /\ \A c \in ConvId : f[c] # rec.th)
        /\ TameSeq(base) /\ base # <<>> /\ Bears(base, rec.th)
        /\ voice => P.currentId # 0
        /\ runStream(rec, Ask(rec, base, voice))
  BY DEF AsksOf
<1> DEFINE ask == Ask(rec, base, voice)
<1>2. /\ ask.cid = rec.currentId /\ ask.page = mount /\ ask.base = base /\ ask.th = rec.th /\ ask.voice = voice
  BY DEF Ask
<1>3. /\ mount \in Pages /\ Shapes /\ DOMAIN rec = PageFields /\ nturn \in Nat /\ Running = {}
  BY <1>1, AloneRuns DEF PageOK, Shapes
<1>4. /\ Held(P, f, typed') /\ Idle(P, f, gone) /\ ~rec.answerNow /\ rec.currentId = P.currentId
      /\ Naming(f, gone, nturn, typed')
  BY <1>1, <1>3, TopicLater DEF Filed, Idle, Shows
<1>5. P.currentId # 0 => f[P.currentId] = rec.th
  BY <1>1, <1>4 DEF Held
<1>6. P.currentId = 0 => \A c \in ConvId \ gone : f[c] # rec.th
  BY <1>1, <1>4 DEF Idle
<1> HIDE DEF ask
<1>7. CASE ~rec.model /\ Paint([rec EXCEPT !.messages = Append(ask.base, Note(ask.th))])
           /\ UNCHANGED <<nturn, turns, live>>
  <2> DEFINE m == Append(ask.base, Note(ask.th))
             new == [rec EXCEPT !.messages = m]
  <2>1. Paint(new)
    BY <1>7
  <2>2. Bears(m, rec.th)
    BY <1>1, <1>2, MadeBears, AppendBears
  <2> HIDE DEF m
  <2>3. /\ PageOK(new) /\ new.messages = m /\ new.queued = rec.queued /\ new.list = rec.list
        /\ new.currentId = rec.currentId /\ new.th = rec.th /\ new.answerNow = rec.answerNow
    BY <1>1, <1>3 DEF PageOK, PageFields
  <2> HIDE DEF new
  <2>4. Held(new, f, typed')
    BY <1>1, <1>4, <1>5, <2>2, <2>3 DEF Held, Shows
  <2>5. Turning(f, new)
    BY <1>3, <1>4, <1>6, <2>3 DEF Turning, Idle
  <2>6. SameWork
    BY <1>3, <1>7, StreamWork
  <2>7. Filed(f)'
    BY <1>7, <2>1, <2>3, <2>4, <2>5, <2>6, FiledPaint
  <2> QED
    BY <2>7
<1>8. CASE StartTurn(rec, ask)
  <2> DEFINE k == nturn + 1
             m == Append(ask.base, Msg("assistant", k, ask.th, 0, FALSE))
             new == [rec EXCEPT !.streaming = TRUE, !.abort = k, !.messages = m]
             r == Painted(mount, new, ask.cid)
             t == TurnOf(ask)
  <2>1. turns' = [turns EXCEPT ![k] = t] /\ pg' = [pg EXCEPT ![mount] = r] /\ nturn' = k
    BY <1>2, <1>8 DEF StartTurn
  <2>2. k \in 1 .. MaxTurns /\ k \in 0 .. MaxTurns
    BY <1>3, <2>1, NewName
  <2>3. /\ t.st = "run" /\ t.base = base /\ t.cid = rec.currentId /\ t.liveId = rec.currentId
        /\ t.th = rec.th /\ t.voice = voice
    BY <1>2, TurnOfIs, TurnOfThread
  <2> HIDE DEF t
  <2>4. turns'[k] = t /\ Running' = {k}
    BY <1>3, <2>1, <2>2, <2>3 DEF Running, Shapes
  <2>5. Bears(m, rec.th) /\ m # <<>>
    <3> DEFINE y == Msg("assistant", k, ask.th, 0, FALSE)
    <3>1. y.th = rec.th
      BY <1>2 DEF Msg
    <3> HIDE DEF y
    <3>2. Bears(Append(base, y), rec.th) /\ Append(base, y) # <<>>
      BY <1>1, <3>1, AppendBears
    <3> QED
      BY <1>2, <3>2 DEF y
  <2>6. PICK h : /\ Naming(h, gone, k, typed') /\ \A c \in ConvId : f[c] # 0 => h[c] = f[c]
                 /\ IF P.currentId = 0 THEN h[k] = rec.th ELSE h[P.currentId] = rec.th
    <3>1. CASE P.currentId # 0
      <4>1. Naming(f, gone, k, typed')
        BY <1>3, <1>4, NamingLater
      <4> QED
        BY <1>5, <3>1, <4>1
    <3>2. CASE P.currentId = 0
      <4>1. /\ Naming(f, gone, nturn, typed') /\ nturn \in Nat /\ nturn + 1 \in 1 .. MaxTurns
            /\ rec.th # 0 /\ Topic(rec.th, typed') /\ \A c \in ConvId \ gone : f[c] # rec.th
        BY <1>1, <1>3, <1>4, <1>6, <2>2, <3>2
      <4>2. PICK h : /\ Naming(h, gone, nturn + 1, typed') /\ h[nturn + 1] = rec.th
                     /\ \A c \in ConvId : f[c] # 0 => h[c] = f[c]
        BY <4>1, NamingTurn
      <4> QED
        BY <3>2, <4>2
    <3> QED
      BY <3>1, <3>2
  <2> HIDE DEF m, k
  <2>7. /\ PageOK(new) /\ new.messages = m /\ new.queued = rec.queued /\ new.list = rec.list
        /\ new.currentId = rec.currentId /\ new.th = rec.th /\ new.answerNow = rec.answerNow
    BY <1>1, <1>3, <2>2 DEF PageOK, PageFields
  <2> HIDE DEF new
  <2>8. \A c \in ConvId : new.list[c].in => Of(h, c, new.list[c].msgs)
    BY <1>1, <1>4, <2>6, <2>7 DEF Held, Shows, Of
  <2>9. Held(new, h, typed')
    BY <1>1, <1>4, <2>5, <2>6, <2>7, <2>8 DEF Held, Shows
  <2>10. AtWork(k, t, h, new)
    BY <1>1, <1>4, <2>3, <2>6, <2>7 DEF AtWork
  <2>11. Held(r, h, typed') /\ AtWork(k, t, h, r)
    BY <2>7, <2>9, <2>10, EffectsFace, FaceHolds
  <2> HIDE DEF r
  <2>12. Files(h)
    BY DEF Files
  <2>13. Filed(h)'
    BY <1>3, <2>1, <2>4, <2>6, <2>11, <2>12, FiledStep
  <2> QED
    BY <2>13
<1> QED
  BY <1>1, <1>7, <1>8 DEF runStream, ask

\* What a turn saves is of the conversation on screen, and the conversation of its thread.
LEMMA TurnHome ==
    ASSUME Core, Alone, Threads, NEW f, Filed(f), NEW n \in Running
    PROVE  /\ AtWork(n, turns[n], f, P) /\ f[ConvOf(n)] = P.th /\ P.th # 0 /\ SameThread(n)
           /\ ConvOf(n) \in {n, turns[n].cid} /\ (turns[n].cid # 0 => ConvOf(n) = turns[n].cid)
           /\ TameSeq(turns[n].base) /\ Of(f, ConvOf(n), Final(n)) /\ TameSeq(Final(n))
<1>1. /\ AtWork(n, turns[n], f, P) /\ Held(P, f, typed) /\ turns[n].page = mount /\ n \in 1 .. MaxTurns
      /\ TameSeq(turns[n].base) /\ TameSeq(Final(n))
  BY AloneRuns, FinalSettled DEF Filed, Settled, Running
<1>2. n # 0
  BY <1>1
<1>3. /\ f[ConvOf(n)] = P.th /\ P.th # 0 /\ ConvOf(n) \in {n, turns[n].cid}
      /\ (turns[n].cid # 0 => ConvOf(n) = turns[n].cid)
  BY <1>1, <1>2 DEF AtWork, Held, ConvOf
<1>4. SameThread(n)
  BY <1>1 DEF SameThread, AtWork, P
<1> DEFINE m == Msg("assistant", n, turns[n].th, turns[n].got, FALSE)
<1>5. m.th = P.th /\ Bears(turns[n].base, P.th) /\ turns[n].base # <<>>
  <2>1. m.th = turns[n].th
    BY DEF Msg
  <2> QED
    BY <1>1, <2>1 DEF AtWork
<1> HIDE DEF m
<1>6. Bears(Append(turns[n].base, m), P.th) /\ Append(turns[n].base, m) # <<>>
  BY <1>1, <1>5, AppendBears
<1>7. Bears(Final(n), P.th) /\ Final(n) # <<>>
  BY <1>5, <1>6 DEF Final, m
<1> QED
  BY <1>1, <1>3, <1>4, <1>7 DEF Of

\* A checkpoint is sent.
LEMMA FiledCheckpoint ==
    ASSUME Core, Alone, DataOK, Threads, Forgotten, NEW f, Filed(f), NEW n \in 1 .. MaxTurns, Checkpoint(n)
    PROVE  Filed(f)'
<1> DEFINE c == ConvOf(n)
           y == Msg("assistant", n, turns[n].th, turns[n].got, TRUE)
           a == Append(turns[n].base, y)
           x == SaveRequest(c, a, "checkpoint")
<1>1. /\ n \in Running /\ turns' = [turns EXCEPT ![n].liveId = c] /\ net' = Append(net, x)
      /\ UNCHANGED <<server, pg, mount, nturn, gone, typed>>
  BY DEF Checkpoint
<1>2. /\ mount \in Pages /\ Shapes /\ DOMAIN turns = 1 .. MaxTurns /\ DOMAIN turns[n] = TurnFields
  BY <1>1, AloneRuns, RunningIs DEF Shapes, TurnOK
<1>3. c \in ConvId /\ c \notin gone
  BY <1>1, TurnSpares
<1>4. /\ AtWork(n, turns[n], f, P) /\ f[c] = P.th /\ P.th # 0 /\ c \in {n, turns[n].cid}
      /\ (turns[n].cid # 0 => c = turns[n].cid) /\ TameSeq(turns[n].base)
  BY <1>1, TurnHome
<1>5. Of(f, c, a)
  <2>1. y.th = turns[n].th
    BY DEF Msg
  <2> HIDE DEF y
  <2>2. Bears(a, P.th) /\ a # <<>>
    BY <1>4, <2>1, AppendBears DEF AtWork
  <2> QED
    BY <1>4, <2>2 DEF Of
<1> HIDE DEF c, a
<1>6. x.id = c /\ x.op = "save" /\ x.msgs = a
  BY RequestIs
<1> HIDE DEF x
<1>7. Files(f)
  BY <1>1, <1>3, <1>5, <1>6 DEF Files
<1> DEFINE t == [turns[n] EXCEPT !.liveId = c]
<1>8. turns'[n] = t /\ \A m \in 1 .. MaxTurns : m # n => turns'[m] = turns[m]
  BY <1>1, <1>2
<1>9. /\ t.cid = turns[n].cid /\ t.liveId = c /\ t.th = turns[n].th /\ t.base = turns[n].base
      /\ t.voice = turns[n].voice /\ t.st = turns[n].st
  BY <1>2 DEF TurnFields
<1> HIDE DEF t
<1>10. AtWork(n, t, f, P)
  BY <1>4, <1>9 DEF AtWork
<1>11. Running' = Running /\ \A m \in Running : AtWork(m, turns'[m], f, P)
  BY <1>8, <1>9, <1>10 DEF Running, Filed
<1>12. Held(P, f, typed') /\ Naming(f, gone, nturn', typed') /\ (Running' = {} => Idle(P, f, gone))
  BY <1>1, <1>11 DEF Filed
<1> QED
  BY <1>1, <1>2, <1>7, <1>11, <1>12, FiledStep

\* The page at the end of a turn shows the thread it showed, and promises what it did.
LEMMA EndedThread ==
    ASSUME Shapes, NEW n \in Running
    PROVE  LET old == pg[turns[n].page]
           IN  EndedPage(n).th = old.th /\ EndedPage(n).answerNow = old.answerNow
<1> DEFINE old == pg[turns[n].page]
           c == ConvOf(n)
           f == Final(n)
           tab == turns[n].tab
           entry == [in |-> TRUE, msgs |-> f, omitted |-> FALSE]
           rec == [old EXCEPT !.list[c] = entry]
           off == [rec EXCEPT !.streaming = FALSE, !.abort = 0]
           d == IF rec.tabs[tab].open THEN c ELSE off.tabs[tab].currentId
           on == [off EXCEPT !.messages = f, !.currentId = c, !.tabs[tab].currentId = d]
           Same(r) == r.th = old.th /\ r.answerNow = old.answerNow /\ DOMAIN r = PageFields
<1>1. PageOK(old)
  BY RunningIs DEF Shapes
<1>2. EndedPage(n) = (IF SameThread(n) THEN on ELSE off)
  BY DEF EndedPage, Listed
<1> HIDE DEF old, c, f, tab, entry
<1>3. Same(rec)
  BY <1>1 DEF PageOK, PageFields
<1> HIDE DEF rec
<1>4. Same(off)
  BY <1>3 DEF PageFields
<1> HIDE DEF off, d
<1>5. Same(on)
  BY <1>4 DEF PageFields
<1> HIDE DEF on
<1> QED
  BY <1>2, <1>4, <1>5 DEF old

\* What follows a turn keeps its thread, and a promise once kept is none.
LEMMA FollowThread ==
    ASSUME Shapes, NEW n \in Running, NEW how
    PROVE  LET f == Follow(n, how)
               old == pg[turns[n].page]
           IN  /\ f.rec.th = old.th /\ ~f.rec.answerNow
               /\ f.ask.voice => turns[n].voice
               /\ f.go => old.answerNow \/ turns[n].voice \/ how # "done" \/ EndedPage(n).queued # <<>>
<1> DEFINE rec == EndedPage(n)
           t == turns[n]
           old == pg[t.page]
           more == [rec EXCEPT !.resumes = @ + 1]
           last == [rec EXCEPT !.resumes = 0, !.queued = <<>>]
           quick == [rec EXCEPT !.answerNow = FALSE]
           f == Follow(n, how)
<1>1. DOMAIN rec = PageFields
  BY EndedIs DEF Rests, PageOK
<1>2. rec.th = old.th /\ rec.answerNow = old.answerNow
  BY EndedThread
<1>3. f.rec = quick \/ (~rec.answerNow /\ (f.rec = rec \/ f.rec = more \/ f.rec = last))
  BY DEF Follow
<1>4. \E b, v, e, a : f.ask = AskAgain(n, b, v, e, a) /\ (v => t.voice)
  BY DEF Follow
<1>5. f.ask.voice => t.voice
  BY <1>4 DEF AskAgain
<1>6. f.go => rec.answerNow \/ t.voice \/ how # "done" \/ rec.queued # <<>>
  BY DEF Follow
<1> HIDE DEF rec, f
<1>7. \A z \in {rec, more, last} : z.th = rec.th /\ z.answerNow = rec.answerNow
  BY <1>1 DEF PageFields
<1>8. quick.th = rec.th /\ ~quick.answerNow
  BY <1>1 DEF PageFields
<1> HIDE DEF quick, more, last
<1>9. f.rec.th = old.th /\ ~f.rec.answerNow
  BY <1>2, <1>3, <1>7, <1>8
<1> QED
  BY <1>2, <1>5, <1>6, <1>9 DEF f, rec

\* What a turn is followed by is asked in its thread.
LEMMA FollowHome ==
    ASSUME Core, Alone, DataOK, Threads, Forgotten, NEW f, Filed(f), "fresh" \notin mode,
           NEW n \in Running, NEW how \in Ends(n), how # "done" /\ MayResume(n) => Room
    PROVE  LET next == Follow(n, how)
           IN  /\ PageOK(next.rec) /\ Held(next.rec, f, typed) /\ ~next.rec.answerNow
               /\ next.rec.th = P.th /\ P.th # 0 /\ next.rec.currentId = ConvOf(n)
               /\ next.ask.th = P.th /\ next.ask.cid = turns[n].cid
               /\ TameSeq(next.ask.base) /\ next.ask.base # <<>> /\ Bears(next.ask.base, P.th)
               /\ next.go => turns[n].cid # 0 /\ ConvOf(n) = turns[n].cid
<1> DEFINE next == Follow(n, how)
           rec == next.rec
           ask == next.ask
           e == EndedPage(n)
           c == ConvOf(n)
           q == P.queued
           z == Final(n) \o [j \in DOMAIN q |-> Typed(q[j], P.th)]
           y == [in |-> TRUE, msgs |-> Final(n), omitted |-> FALSE]
<1>1. /\ Shapes /\ turns[n].page = mount /\ P = pg[turns[n].page] /\ DOMAIN P.list = ConvId /\ IsSeq(q)
      /\ Held(P, f, typed)
  BY AloneRuns, TidyP DEF P, Tidy, Filed
<1>2. /\ AtWork(n, turns[n], f, P) /\ f[c] = P.th /\ P.th # 0 /\ SameThread(n)
      /\ (turns[n].cid # 0 => c = turns[n].cid)
      /\ Of(f, c, Final(n)) /\ TameSeq(Final(n)) /\ Final(n) # <<>> /\ Bears(Final(n), P.th)
      /\ TameSeq(turns[n].base)
  BY TurnHome DEF Of
<1>3. c \in ConvId /\ c # 0
  BY TurnSpares, NamesAre
<1>4. turns[n].th = P.th /\ turns[n].cid = P.currentId /\ Bears(turns[n].base, P.th) /\ turns[n].base # <<>>
      /\ (turns[n].cid = 0 => ~turns[n].voice)
  BY <1>2 DEF AtWork
<1>5. Ended(n, e)
  BY <1>1, EndedShows
<1>6. /\ e.queued = q /\ e.messages = Final(n) /\ e.currentId = c
      /\ \A d \in ConvId : e.list[d] = IF d = c THEN y ELSE P.list[d]
  BY <1>1, <1>2, <1>5 DEF Ended
<1>7. y.msgs = Final(n)
  OBVIOUS
<1>8. PageOK(rec) /\ TameSeq(ask.base)
  BY FollowTidy
<1>9. /\ rec.messages = e.messages /\ rec.currentId = e.currentId /\ rec.list = e.list
      /\ ask.cid = turns[n].cid /\ ask.th = turns[n].th
      /\ \/ ask.base = turns[n].base
         \/ ask.base = Append(Final(n), Hidden(turns[n].th))
         \/ ask.base = Final(n) \o [j \in DOMAIN e.queued |-> Typed(e.queued[j], turns[n].th)]
  BY <1>1, FollowShows
<1>10. /\ rec.th = P.th /\ ~rec.answerNow
       /\ next.go => P.answerNow \/ turns[n].voice \/ how # "done" \/ e.queued # <<>>
  BY <1>1, FollowThread
<1>11. turns[n].cid = 0 => how = "done"
  BY DEF Ends, MayChain
<1>12. next.go => turns[n].cid # 0
  BY <1>1, <1>4, <1>6, <1>10, <1>11 DEF Held
<1>13. Bears(z, P.th) /\ z # <<>>
  BY <1>1, <1>2, QueueBears
<1>14. Bears(Append(Final(n), Hidden(P.th)), P.th) /\ Append(Final(n), Hidden(P.th)) # <<>>
  BY <1>2, MadeBears, AppendBears
<1>15. ask.base = turns[n].base \/ ask.base = Append(Final(n), Hidden(P.th)) \/ ask.base = z
  BY <1>4, <1>6, <1>9
<1> HIDE DEF z, y, rec, ask, e, next, c
<1>16. ask.base # <<>> /\ Bears(ask.base, P.th)
  BY <1>4, <1>13, <1>14, <1>15
<1>17. \A d \in ConvId : e.list[d].in => Of(f, d, e.list[d].msgs)
  BY <1>1, <1>2, <1>6, <1>7 DEF Held
<1>18. Held(rec, f, typed)
  BY <1>1, <1>2, <1>3, <1>6, <1>9, <1>10, <1>17 DEF Held
<1> QED
  BY <1>2, <1>4, <1>6, <1>8, <1>9, <1>10, <1>12, <1>16, <1>18 DEF rec, ask, next, c

\* The end of a turn: its thread is saved under its name, and what is asked next is of it.
LEMMA FiledEnd ==
    ASSUME Core, Shapes', Alone, DataOK, Threads, Forgotten, NEW f, Filed(f), "fresh" \notin mode,
           NEW n \in 1 .. MaxTurns, End(n)
    PROVE  Filed(f)'
<1> DEFINE k == nturn + 1
           free == [turns EXCEPT ![n] = Over]
           c == ConvOf(n)
           x == SaveRequest(c, Final(n), "final")
<1>1. n \in Running /\ UNCHANGED <<server, mount, gone, typed>> /\ net' = Append(net, x)
  BY DEF End
<1>2. Shapes /\ mount \in Pages /\ turns[n].page = mount /\ nturn \in Nat /\ Running = {n}
  <2>1. Shapes /\ mount \in Pages /\ nturn \in Nat
    BY AloneRuns DEF Shapes
  <2>2. \A m \in Running : turns[m].page = mount /\ P.abort = m
    BY AloneRuns
  <2> QED
    BY <1>1, <2>1, <2>2
<1>3. c \in ConvId /\ c \notin gone /\ c # 0 /\ Of(f, c, Final(n))
  BY <1>1, TurnSpares, TurnHome, NamesAre
<1>4. Files(f)
  <2> HIDE DEF c
  <2>1. x.id = c /\ x.op = "save" /\ x.msgs = Final(n)
    BY RequestIs
  <2> HIDE DEF x
  <2> QED
    BY <1>1, <1>3, <2>1 DEF Files
<1> HIDE DEF x
<1>5. PICK how \in Ends(n) :
        /\ how # "done" /\ MayResume(n) => Room
        /\ LET next == Follow(n, how) IN
           IF next.go
           THEN /\ nturn' = k
                /\ turns' = [free EXCEPT ![k] = TurnOf(next.ask)]
                /\ pg' = [pg EXCEPT ![mount] = Painted(mount,
                     [next.rec EXCEPT !.streaming = TRUE, !.abort = k,
                        !.messages = Append(next.ask.base, Msg("assistant", k, next.ask.th, 0, FALSE))],
                     next.ask.cid)]
           ELSE /\ turns' = free /\ nturn' = nturn
                /\ pg' = [pg EXCEPT ![mount] = Painted(mount, next.rec, IF live = n THEN 0 ELSE LiveConv)]
  BY <1>2 DEF End
<1> DEFINE next == Follow(n, how)
           rec == next.rec
           ask == next.ask
<1>6. /\ PageOK(rec) /\ Held(rec, f, typed) /\ ~rec.answerNow
      /\ rec.th = P.th /\ P.th # 0 /\ rec.currentId = c
      /\ ask.th = P.th /\ ask.cid = turns[n].cid
      /\ TameSeq(ask.base) /\ ask.base # <<>> /\ Bears(ask.base, P.th)
      /\ next.go => turns[n].cid # 0 /\ c = turns[n].cid
  BY <1>1, <1>5, FollowHome
<1>7. DOMAIN turns = 1 .. MaxTurns /\ DOMAIN free = 1 .. MaxTurns /\ free[n] = Over /\ Over.st = "over"
      /\ \A m \in 1 .. MaxTurns : m # n => free[m] = turns[m]
  BY <1>2, OverOK DEF Shapes
<1>8. Naming(f, gone, nturn, typed)
  BY DEF Filed
<1>9. CASE next.go
  <2> DEFINE m == Append(ask.base, Msg("assistant", k, ask.th, 0, FALSE))
             new == [rec EXCEPT !.streaming = TRUE, !.abort = k, !.messages = m]
             r == Painted(mount, new, ask.cid)
             t == TurnOf(ask)
  <2>1. nturn' = k /\ turns' = [free EXCEPT ![k] = t] /\ pg' = [pg EXCEPT ![mount] = r]
    BY <1>5, <1>9
  <2>2. k \in 1 .. MaxTurns /\ k \in 0 .. MaxTurns
    BY <1>2, <2>1, NewName
  <2>3. t.st = "run" /\ t.base = ask.base /\ t.cid = ask.cid /\ t.liveId = ask.cid /\ t.th = ask.th
    BY TurnOfIs, TurnOfThread
  <2> HIDE DEF t
  <2>4. turns'[k] = t /\ Running' = {k}
    BY <1>2, <1>7, <2>1, <2>2, <2>3 DEF Running
  <2>5. Bears(m, P.th) /\ m # <<>>
    <3> DEFINE y == Msg("assistant", k, ask.th, 0, FALSE)
    <3>1. y.th = ask.th
      BY DEF Msg
    <3> HIDE DEF y, ask
    <3>2. Bears(Append(ask.base, y), P.th) /\ Append(ask.base, y) # <<>>
      BY <1>6, <3>1, AppendBears
    <3> QED
      BY <3>2 DEF y
  <2>6. Naming(f, gone, k, typed)
    BY <1>2, <1>8, NamingLater
  <2> HIDE DEF m, k, rec, ask, next, c
  <2>7. /\ PageOK(new) /\ new.messages = m /\ new.queued = rec.queued /\ new.list = rec.list
        /\ new.currentId = rec.currentId /\ new.th = rec.th /\ new.answerNow = rec.answerNow
    BY <1>6, <2>2 DEF PageOK, PageFields
  <2> HIDE DEF new
  <2>8. Held(new, f, typed)
    BY <1>6, <2>5, <2>7 DEF Held
  <2>9. AtWork(k, t, f, new)
    BY <1>6, <1>9, <2>3, <2>7 DEF AtWork
  <2>10. Held(r, f, typed) /\ AtWork(k, t, f, r)
    BY <2>7, <2>8, <2>9, EffectsFace, FaceHolds
  <2> HIDE DEF r
  <2> QED
    BY <1>1, <1>2, <1>4, <2>1, <2>4, <2>6, <2>10, FiledStep
<1>10. CASE ~next.go
  <2> DEFINE r == Painted(mount, rec, IF live = n THEN 0 ELSE LiveConv)
  <2>1. turns' = free /\ pg' = [pg EXCEPT ![mount] = r] /\ nturn' = nturn
    BY <1>5, <1>10
  <2>2. Running' = {}
    BY <1>2, <1>7, <2>1 DEF Running
  <2> HIDE DEF rec, c
  <2>3. Idle(rec, f, gone)
    BY <1>3, <1>6 DEF Idle
  <2>4. Held(r, f, typed) /\ Idle(r, f, gone)
    BY <1>6, <2>3, EffectsFace, FaceHolds
  <2> HIDE DEF r
  <2> QED
    BY <1>1, <1>2, <1>4, <1>8, <2>1, <2>2, <2>4, FiledStep
<1> QED
  BY <1>9, <1>10

\* Every step leaves the threads filed.
LEMMA FiledNext ==
    ASSUME Plainly, PlaygroundInv, PlaygroundInv', Alone, Threads, Forgotten, \E f : Filed(f),
           [PlaygroundNext]_pgVars
    PROVE  \E f : Filed(f)'
<1>1. PICK f : Filed(f)
  OBVIOUS
<1>2. /\ Core /\ Shapes' /\ Shapes /\ DataOK /\ OnPage /\ titling = {}
      /\ "net" \notin mode /\ "titles" \notin mode /\ "tabs" \notin mode /\ "omits" \notin mode
      /\ "busy" \notin mode /\ "leaves" \notin mode /\ "fresh" \notin mode
  BY AloneRuns DEF PlaygroundInv, Core, DataOK, Plainly, Threads
<1>3. CASE PlaygroundWorks
  <2>1. ASSUME NEW n \in 1 .. MaxTurns, Delta(n)
        PROVE  Filed(f)'
    BY <1>1, <1>2, <2>1, FiledStream
  <2>2. ASSUME NEW n \in 1 .. MaxTurns, Checkpoint(n)
        PROVE  Filed(f)'
    BY <1>1, <1>2, <2>2, FiledCheckpoint
  <2>3. ASSUME NEW n \in 1 .. MaxTurns, End(n)
        PROVE  Filed(f)'
    BY <1>1, <1>2, <2>3, FiledEnd
  <2>4. ASSUME NEW i, RequestServed(i) \/ RequestLost(i)
        PROVE  Filed(f)'
    BY <1>1, <1>2, <2>4, FiledServed DEF RequestLost
  <2>5. CASE (\E q \in reads : ReadArrives(q)) \/ ListArrives \/ ModelsArrive
    BY <1>1, <1>2, <2>5, FiledHistory
  <2>6. CASE Poll \/ EffectsRerun \/ FollowTick
    BY <1>1, <1>2, <2>6, FiledTimers
  <2> QED
    BY <1>2, <1>3, <2>1, <2>2, <2>3, <2>4, <2>5, <2>6 DEF PlaygroundWorks
<1>4. CASE PlaygroundUser
  <2>1. CASE Send \/ sendVoice \/ AskHidden \/ regenerate
    <3>1. AsksOf(f) /\ Later
      BY <1>1, <1>2, <2>1, HandlersAsk
    <3>2. ~P.streaming /\ UNCHANGED <<server, net, mount, gone>>
      BY <2>1 DEF Send, sendVoice, AskHidden, regenerate, CanAsk, OnlyTurn
    <3> QED
      BY <1>1, <1>2, <3>1, <3>2, FiledAsks
  <2>2. CASE \/ SendQueued \/ answerNow
             \/ \E i \in 1 .. (2 * MaxTurns + 2) : editMessage(i)
             \/ \E i \in 1 .. MaxTyped : discardQueued(i) \/ sendQueuedNow(i)
    <3>1. Filed(f)'
      BY <1>1, <1>2, <2>2, FiledQueue
    <3> QED
      BY <3>1
  <2>3. CASE stop
    <3>1. Filed(f)'
      BY <1>1, <1>2, <2>3, FiledStream
    <3> QED
      BY <3>1
  <2>4. ASSUME NEW i \in Tabs, switchTab(i) \/ newTab(i) \/ closeTab(i)
        PROVE  Filed(f)'
    BY <1>1, <1>2, <2>4, FiledTabs
  <2>5. ASSUME NEW c \in ConvId, selectConversation(c) \/ deleteConversation(c)
        PROVE  Filed(f)'
    BY <1>1, <1>2, <2>5, FiledHistory, FiledDelete
  <2>6. ~genTitle /\ ~Leave /\ ~Return /\ \A c \in ConvId : ~commitRename(c) /\ ~OpenFromUrl(c)
    BY <1>2 DEF genTitle, commitRename, OpenFromUrl, Leave, Return
  <2> QED
    BY <1>4, <2>1, <2>2, <2>3, <2>4, <2>5, <2>6 DEF PlaygroundUser
<1>5. CASE UNCHANGED pgVars
  <2>1. turns' = turns /\ pg' = pg /\ UNCHANGED <<server, net, gone, mount, nturn>> /\ typed' = typed
    BY <1>5 DEF pgVars
  <2>2. SameWork /\ Later
    BY <1>2, <2>1, StreamWork, Counted
  <2>3. PageOK(P) /\ Held(P, f, typed)
    BY <1>1, <1>2, AloneRuns DEF Filed
  <2>4. Mine(P)
    BY <2>3 DEF Mine, Held
  <2>5. Filed(f)'
    BY <1>1, <1>2, <2>1, <2>2, <2>4, FiledMine
  <2> QED
    BY <2>5
<1> QED
  BY <1>3, <1>4, <1>5 DEF PlaygroundNext

\* Nothing has been written yet: each old conversation has its own thread.
LEMMA FiledInit ==
    ASSUME PlaygroundInit, Plainly
    PROVE  \E f : Filed(f)
<1> DEFINE f == [c \in ConvId |-> IF c \in Old THEN c ELSE 0]
<1>1. /\ mount = 1 /\ gone = {} /\ nturn = 0 /\ typed = 0 /\ net = <<>> /\ DOMAIN net = {} /\ "omits" \notin mode
      /\ server = [c \in ConvId |-> IF c \in Old THEN OldThread(c) ELSE <<>>]
  BY DEF PlaygroundInit, Plainly
<1>2. Running = {}
  BY DEF PlaygroundInit, Running, NoTurn
<1>3. /\ ConvId \subseteq Nat /\ 0 \notin ConvId /\ Old \subseteq ConvId /\ MaxTurns \in Nat
      /\ \A c \in ConvId : f[c] = IF c \in Old THEN c ELSE 0
  BY NamesAre, PlaygroundAssumption DEF ConvId
<1>4. f \in [ConvId -> Nat]
  BY <1>3
<1> HIDE DEF f
<1>5. \A c \in Old : Bears(OldThread(c), c) /\ OldThread(c) # <<>>
  <2> TAKE c \in Old
  <2> DEFINE a == Msg("user", 0, c, 0, FALSE)
             b == Msg("assistant", 0, c, 1, FALSE)
  <2>1. a.th = c /\ b.th = c
    BY DEF Msg
  <2>2. OldThread(c) = <<a, b>>
    BY DEF OldThread
  <2> HIDE DEF a, b
  <2>3. DOMAIN <<a, b>> = {1, 2} /\ <<a, b>>[1] = a /\ <<a, b>>[2] = b /\ <<a, b>> # <<>>
    OBVIOUS
  <2> QED
    BY <2>1, <2>2, <2>3 DEF Bears
<1>6. \A c \in ConvId : server[c] = IF c \in Old THEN OldThread(c) ELSE <<>>
  BY <1>1
<1>7. Naming(f, gone, nturn, typed)
  <2>1. Topic(0, typed)
    BY <1>1, <1>3 DEF Topic
  <2>2. \A c \in ConvId : Topic(f[c], typed) /\ (f[c] # 0 => Known(c, nturn))
    BY <1>3, <2>1 DEF Topic, Known
  <2>3. \A c, d \in ConvId \ gone : f[c] = f[d] /\ f[c] # 0 => c = d
    BY <1>3
  <2> QED
    BY <1>4, <2>2, <2>3 DEF Naming
<1>8. Stored(f, server, net)
  BY <1>1, <1>3, <1>5, <1>6 DEF Stored, Of
<1>9. Apart(f, server, net)
  BY <1>1, <1>3, <1>6 DEF Apart
<1>10. Held(P, f, typed) /\ Idle(P, f, gone)
  <2> DEFINE g == FreshPage
             l == [c \in ConvId |-> NoEntry]
  <2>1. 1 \in Pages
    BY PlaygroundAssumption DEF Pages
  <2>2. P = g
    <3>1. pg = [p \in Pages |-> g]
      BY DEF PlaygroundInit
    <3> HIDE DEF g
    <3> QED
      BY <1>1, <2>1, <3>1 DEF P
  <2>3. /\ g.currentId = 0 /\ g.list = l /\ g.th = 0 /\ g.messages = <<>> /\ g.queued = <<>>
        /\ g.answerNow = FALSE
    BY <1>1 DEF FreshPage
  <2> HIDE DEF g
  <2>4. NoEntry.in = FALSE /\ \A c \in ConvId : l[c] = NoEntry
    BY DEF NoEntry
  <2> HIDE DEF l
  <2>5. Topic(0, typed) /\ Bears(<<>>, 0)
    <3>1. DOMAIN <<>> = {}
      OBVIOUS
    <3>2. Topic(0, typed)
      BY <1>1, <1>3 DEF Topic
    <3> QED
      BY <3>1, <3>2 DEF Bears
  <2> QED
    BY <2>2, <2>3, <2>4, <2>5 DEF Held, Idle
<1>11. Filed(f)
  BY <1>2, <1>7, <1>8, <1>9, <1>10 DEF Filed
<1> QED
  BY <1>11

\* A thread that is filed has one home.
LEMMA FiledHomes ==
    ASSUME Threads, NEW f, Filed(f)
    PROVE  ThreadsHaveOneHome
<1>1. \A c \in ConvId : server[c] # <<>> => Bears(server[c], f[c]) /\ TameSeq(server[c])
  BY DEF Filed, Stored, Of, Threads
<1>2. \A c, d \in ConvId : c # d /\ f[c] = f[d] => server[c] = <<>> \/ server[d] = <<>>
  BY DEF Filed, Apart
<1>3. OneThread
  <2> SUFFICES ASSUME NEW c \in ConvId, NEW i \in DOMAIN server[c], NEW j \in DOMAIN server[c]
               PROVE  server[c][i].th = server[c][j].th
    BY DEF OneThread
  <2>1. server[c] # <<>>
    <3>1. DOMAIN <<>> = {}
      OBVIOUS
    <3> QED
      BY <3>1
  <2> QED
    BY <1>1, <2>1 DEF Bears
<1>4. \A c \in ConvId : server[c] # <<>> => server[c][1].th = f[c]
  BY <1>1, FirstBears
<1>5. OneHome
  BY <1>2, <1>4 DEF OneHome
<1> QED
  BY <1>3, <1>5 DEF ThreadsHaveOneHome

\* Saved conversations and threads correspond one to one (saveCurrent, runStream): while
\* the user stays on the page, in one tab, continues only conversations that have a name,
\* uses the history between two answers, and requests arrive in order, no answer, resume,
\* queue or deletion files a thread twice or under another, however many turns, messages
\* and conversations there are.
THEOREM PlaygroundHomes ==
    ASSUME Plainly
    PROVE  PlaygroundSpec => []ThreadsHaveOneHome
<1>1. Ordered /\ Stays /\ Careful
  BY DEF Plainly, Careful, Ordered, Stays
<1> DEFINE I == \E f : Filed(f)
<1>2. PlaygroundInit => I
  BY FiledInit
<1>3. PlaygroundInv /\ PlaygroundInv' /\ Alone /\ Threads /\ Forgotten /\ I /\ [PlaygroundNext]_pgVars => I'
  BY FiledNext
<1>4. Threads /\ I => ThreadsHaveOneHome
  BY FiledHomes
<1>5. PlaygroundSpec => []Alone /\ [](Threads /\ Marked) /\ []Forgotten
  BY <1>1, AloneInvariance, SavedInvariance, ForgottenInvariance
<1> HIDE DEF I
<1> QED
  BY <1>2, <1>3, <1>4, <1>5, PlaygroundInvariance, PTL DEF PlaygroundSpec
=============================================================================
