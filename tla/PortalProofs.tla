---------------------------- MODULE PortalProofs ----------------------------
(*****************************************************************************)
(* The theorems about the portal's pages. The support page and signing in    *)
(* come first; then the invariants of all the components are put together    *)
(* for the portal, of which one component is mounted at a time.              *)
(*****************************************************************************)
EXTENDS Portal, PagesProofs, ScreensProofs

-----------------------------------------------------------------------------
(***************************************************************************)
(* The support page.  While a stream writes, the last message is its own   *)
(* unless a confirmation's result came between (raced), so no other is     *)
(* left empty; and an answer in its place that was voted on is marked so,  *)
(* because a turn number is never used twice.                              *)
(***************************************************************************)

\* The messages of the thread, the votes, and what is under way.
MessageRec == [who : {"user", "assistant"}, text : Texts, of : Nat, card : 0 .. MaxTokens]

VoteRec == [busy : BOOLEAN, sent : BOOLEAN]

BallotRec == [at : Nat, nr : Nat, of : Nat]

TallyRec == [at : Nat, of : Nat]

VoteMaps == UNION {[S -> VoteRec] : S \in SUBSET Nat}

DeskRec ==
  [thread : Seq(MessageRec), sending : BOOLEAN, confirming : 0 .. MaxTokens,
   votes : VoteMaps, earlier : {"loading", "kept", "none"}, raced : BOOLEAN]

LineRec ==
  [turn : 0 .. MaxTurns, acc : BOOLEAN, reason : BOOLEAN, notice : BOOLEAN, tokens : 0 .. MaxTokens,
   confirms : SUBSET (1 .. MaxTokens), asked : Nat, ballots : SUBSET BallotRec, cast : 0 .. MaxVotes,
   counted : Seq(TallyRec), crossed : BOOLEAN]

\* The vote of a place, as VoteOf reads it.
VoteAt(votes, i) == IF i \in DOMAIN votes THEN votes[i] ELSE NoVote

\* No message but the result of a confirmation is of a turn to come.
TurnsPast(th, turn) == \A i \in 1 .. Len(th) : th[i].text # "result" => th[i].of <= turn

\* The answer the vote x speaks of stands in its place.
Stands(th, x) ==
  x.of > 0 /\ x.at \in 1 .. Len(th) /\ th[x.at].of = x.of /\ th[x.at].text # "result"

\* A vote on an answer that stands is marked in its place.
Marked(th, votes, l) ==
  ~l.crossed =>
    /\ \A x \in l.ballots : Stands(th, x) => VoteAt(votes, x.at).busy \/ VoteAt(votes, x.at).sent
    /\ \A k \in 1 .. Len(l.counted) : Stands(th, l.counted[k]) => VoteAt(votes, l.counted[k].at).sent

\* Votes are of turns begun, and while a stream writes none is on its place.
VotesPast(d, l) ==
  /\ \A x \in l.ballots : x.of <= l.turn /\ (d.sending /\ x.of = l.turn => x.at < Len(d.thread))
  /\ \A k \in 1 .. Len(l.counted) :
       l.counted[k].of <= l.turn /\ (d.sending /\ l.counted[k].of = l.turn => l.counted[k].at < Len(d.thread))

\* One vote per answer, travelling or counted.
OneBallot(l) ==
  ~l.crossed =>
    /\ \A x, y \in l.ballots : x.of > 0 /\ x.at = y.at /\ x.of = y.of => x = y
    /\ \A x \in l.ballots, k \in 1 .. Len(l.counted) :
         x.of > 0 => ~(l.counted[k].at = x.at /\ l.counted[k].of = x.of)
    /\ \A j, k \in 1 .. Len(l.counted) :
         j # k /\ l.counted[j].of > 0 => l.counted[j] # l.counted[k]

\* Only the last message, while a stream writes, may be empty.
GhostFree(d, l) ==
  /\ d.sending => d.thread # <<>> /\ l.turn > 0
  /\ d.sending /\ ~d.raced /\ (l.acc \/ l.notice) => d.thread[Len(d.thread)].text # "empty"
  /\ ~d.raced /\ ~(l.notice /\ l.reason /\ ~d.sending) =>
       \A i \in 1 .. Len(d.thread) :
         d.thread[i].of = l.turn /\ d.thread[i].text = "empty" => d.sending /\ i = Len(d.thread)

\* The page and the line fit.
DeskFits(d, l) ==
  /\ d \in DeskRec /\ l \in LineRec
  /\ TurnsPast(d.thread, l.turn) /\ GhostFree(d, l)
  /\ VotesPast(d, l) /\ OneBallot(l) /\ Marked(d.thread, d.votes, l)

\* The inductive invariant of the support page.
DeskInv == DeskFits(desk, line)

\* The page starts within the invariant.
LEMMA DeskInitInv == SupportInit => DeskInv
<1> SUFFICES ASSUME SupportInit PROVE DeskInv
  OBVIOUS
<1> USE SupportAssumption
<1>1. <<>> \in VoteMaps /\ <<>> \in Seq(MessageRec) /\ <<>> \in Seq(TallyRec) /\ Len(<<>>) = 0
  <2>1. <<>> \in [{} -> VoteRec]
    BY DEF VoteRec
  <2>2. {} \in SUBSET Nat
    OBVIOUS
  <2> QED
    BY <2>1, <2>2, EmptySeq DEF VoteMaps
<1>2. 0 \in 0 .. MaxTokens /\ 0 \in 0 .. MaxTurns /\ 0 \in 0 .. MaxVotes
  OBVIOUS
<1> DEFINE e == <<>>
<1>3. /\ desk = [thread |-> e, sending |-> FALSE, confirming |-> 0, votes |-> e,
             earlier |-> "loading", raced |-> FALSE]
      /\ line = [turn |-> 0, acc |-> FALSE, reason |-> FALSE, notice |-> FALSE, tokens |-> 0,
             confirms |-> {}, asked |-> 0, ballots |-> {}, cast |-> 0, counted |-> e, crossed |-> FALSE]
  BY DEF SupportInit
<1>e. e \in VoteMaps /\ e \in Seq(MessageRec) /\ e \in Seq(TallyRec) /\ Len(e) = 0
  BY <1>1
<1> HIDE DEF e
<1>4. desk \in DeskRec /\ desk.thread = e /\ ~desk.sending
  BY <1>2, <1>3, <1>e DEF DeskRec
<1>5. line \in LineRec /\ line.counted = e /\ line.ballots = {}
  BY <1>2, <1>3, <1>e DEF LineRec
<1>6. \A i : i \notin 1 .. Len(desk.thread) /\ i \notin 1 .. Len(line.counted)
  BY <1>e, <1>4, <1>5
<1> QED
  BY <1>4, <1>5, <1>6 DEF DeskInv, DeskFits, TurnsPast, GhostFree, VotesPast, OneBallot, Marked

\* A message is one.
LEMMA MessageIs ==
  ASSUME NEW who \in {"user", "assistant"}, NEW text \in Texts, NEW of \in Nat
  PROVE  /\ Message(who, text, of) \in MessageRec /\ Message(who, text, of).text = text
         /\ Message(who, text, of).of = of /\ Message(who, text, of).who = who
<1>1. 0 \in 0 .. MaxTokens
  BY SupportAssumption
<1> QED
  BY <1>1 DEF Message, MessageRec

\* The stream writes into the last message.
LEMMA WithLastIs ==
  ASSUME NEW d \in DeskRec, NEW text \in Texts, d.thread # <<>>, line \in LineRec
  PROVE  /\ WithLast(d, text) \in DeskRec /\ Len(WithLast(d, text).thread) = Len(d.thread)
         /\ Len(d.thread) \in Nat /\ Len(d.thread) > 0
         /\ WithLast(d, text).thread[Len(d.thread)].text = text
         /\ WithLast(d, text).thread[Len(d.thread)].of = line.turn
         /\ \A i \in 1 .. Len(d.thread) : i # Len(d.thread) => WithLast(d, text).thread[i] = d.thread[i]
         /\ WithLast(d, text).sending = d.sending /\ WithLast(d, text).raced = d.raced
         /\ WithLast(d, text).votes = d.votes
<1> DEFINE n == Len(d.thread)
           th == d.thread
           m == [th[n] EXCEPT !.text = text, !.of = line.turn]
           u == [th EXCEPT ![n] = m]
           q == [d EXCEPT !.thread = u]
<1>1. th \in Seq(MessageRec) /\ th # <<>>
  BY DEF DeskRec
<1>2. n \in Nat /\ n > 0 /\ n \in 1 .. n /\ n \in 1 .. Len(th) /\ DOMAIN th = 1 .. n
  BY <1>1, LenProperties, EmptySeq
<1>3. th[n] \in MessageRec
  BY <1>1, <1>2, ElementOfSeq
<1>4. line.turn \in Nat
  BY SupportAssumption DEF LineRec
<1>5. m \in MessageRec /\ m.text = text /\ m.of = line.turn
  BY <1>3, <1>4 DEF MessageRec
<1>6. WithLast(d, text) = q
  BY <1>1, <1>2, <1>3 DEF WithLast, DeskRec, MessageRec
<1> HIDE DEF m
<1>7. u \in Seq(MessageRec) /\ Len(u) = n /\ u[n] = m /\ \A i \in 1 .. n : i # n => u[i] = th[i]
  <2>1. u \in Seq(MessageRec) /\ Len(u) = Len(th)
    BY <1>1, <1>2, <1>5, ExceptSeq
  <2>2. u[n] = m /\ \A i \in 1 .. n : i # n => u[i] = th[i]
    BY <1>1, <1>2
  <2> QED
    BY <2>1, <2>2
<1> HIDE DEF u
<1>8. q \in DeskRec /\ q.thread = u /\ q.sending = d.sending /\ q.raced = d.raced /\ q.votes = d.votes
  BY <1>7 DEF DeskRec
<1> HIDE DEF q
<1> QED
  BY <1>2, <1>5, <1>6, <1>7, <1>8

\* What the page is when its last message alone was rewritten by the stream.
LastOnly(d) ==
  /\ d \in DeskRec /\ Len(d.thread) = Len(desk.thread) /\ d.votes = desk.votes /\ d.raced = desk.raced
  /\ d.thread[Len(desk.thread)].text # "result" /\ d.thread[Len(desk.thread)].of = line.turn
  /\ \A i \in 1 .. Len(desk.thread) : i # Len(desk.thread) => d.thread[i] = desk.thread[i]

\* Another state of the line, of the same turn and with the same votes.
SameVotes(l) ==
  /\ l \in LineRec /\ l.turn = line.turn /\ l.ballots = line.ballots /\ l.counted = line.counted
  /\ l.crossed = line.crossed

\* The stream's writing leaves votes and turns in order.
LEMMA WritesFit ==
  ASSUME DeskInv, desk.sending, NEW d, LastOnly(d), NEW l, SameVotes(l),
         d.sending => /\ d.sending = desk.sending
                      /\ ~d.raced /\ (l.acc \/ l.notice) => d.thread[Len(d.thread)].text # "empty",
         ~d.sending => (d.raced \/ (l.notice /\ l.reason) \/ d.thread[Len(d.thread)].text # "empty")
  PROVE  DeskFits(d, l)
<1> DEFINE n == Len(desk.thread)
<1>0. /\ desk \in DeskRec /\ line \in LineRec /\ TurnsPast(desk.thread, line.turn) /\ GhostFree(desk, line)
      /\ VotesPast(desk, line) /\ OneBallot(line) /\ Marked(desk.thread, desk.votes, line)
  BY DEF DeskInv, DeskFits
<1>1. desk.thread \in Seq(MessageRec) /\ desk.thread # <<>> /\ line.turn \in Nat /\ line.turn > 0
  BY <1>0, SupportAssumption DEF DeskRec, GhostFree, LineRec
<1>2. n \in Nat /\ n > 0
  BY <1>1, LenProperties, EmptySeq
<1>3. /\ d \in DeskRec /\ Len(d.thread) = n /\ d.votes = desk.votes /\ d.raced = desk.raced
      /\ d.thread[n].text # "result" /\ d.thread[n].of = line.turn
      /\ \A i \in 1 .. n : i # n => d.thread[i] = desk.thread[i]
      /\ l \in LineRec /\ l.turn = line.turn /\ l.ballots = line.ballots /\ l.counted = line.counted /\ l.crossed = line.crossed
  BY DEF LastOnly, SameVotes
<1> HIDE DEF n
<1>4. TurnsPast(d.thread, l.turn)
  BY <1>0, <1>1, <1>3 DEF TurnsPast, n
<1>5. \A x : (x.of = line.turn => x.at < n) /\ Stands(d.thread, x) => Stands(desk.thread, x)
  <2> SUFFICES ASSUME NEW x, x.of = line.turn => x.at < n, Stands(d.thread, x) PROVE Stands(desk.thread, x)
    OBVIOUS
  <2>1. x.at \in 1 .. n /\ x.of > 0 /\ d.thread[x.at].of = x.of /\ d.thread[x.at].text # "result"
    BY <1>3 DEF Stands
  <2>2. x.at # n
    BY <1>2, <1>3, <2>1
  <2> QED
    BY <1>3, <2>1, <2>2 DEF Stands, n
<1>6. VotesPast(d, l)
  BY <1>0, <1>3 DEF VotesPast, n
<1>7. OneBallot(l)
  BY <1>0, <1>3 DEF OneBallot
<1>8. Marked(d.thread, d.votes, l)
  BY <1>0, <1>3, <1>5 DEF Marked, VotesPast, n
<1>9. GhostFree(d, l)
  <2>1. d.thread # <<>>
    BY <1>2, <1>3, EmptySeq
  <2>2. ASSUME ~d.raced, NEW i \in 1 .. n, d.thread[i].of = line.turn, d.thread[i].text = "empty" PROVE i = n
    BY <1>0, <1>3, <2>2 DEF GhostFree, n
  <2>3. d.sending \in BOOLEAN
    BY <1>3 DEF DeskRec
  <2> QED
    BY <1>1, <1>3, <2>1, <2>2, <2>3 DEF GhostFree
<1> QED
  BY <1>3, <1>4, <1>6, <1>7, <1>8, <1>9 DEF DeskFits

\* A new turn begins (runStream) on the messages of the thread and new ones.
LEMMA StreamingFits ==
  ASSUME DeskInv, line.turn < MaxTurns, NEW msgs \in Seq(MessageRec),
         \A i \in 1 .. Len(msgs) :
           \/ i \in 1 .. Len(desk.thread) /\ msgs[i] = desk.thread[i]
           \/ msgs[i].text \notin {"result", "empty"} /\ msgs[i].of \in {0, line.turn + 1}
  PROVE  DeskFits(Streaming(desk, msgs), NewTurn)
<1> USE SupportAssumption
<1> DEFINE n == Len(msgs)
           m == n + 1
           k == line.turn + 1
           a == Message("assistant", "empty", k)
           u == Append(msgs, a)
           v == VotesReset(desk.votes, m)
           d == [desk EXCEPT !.thread = u, !.votes = v, !.sending = TRUE, !.raced = FALSE]
           l == [line EXCEPT !.turn = k, !.acc = FALSE, !.reason = FALSE, !.notice = FALSE]
<1>0. /\ desk \in DeskRec /\ line \in LineRec /\ TurnsPast(desk.thread, line.turn) /\ GhostFree(desk, line)
      /\ VotesPast(desk, line) /\ OneBallot(line) /\ Marked(desk.thread, desk.votes, line)
  BY DEF DeskInv, DeskFits
<1>1. line.turn \in Nat /\ k \in Nat /\ k \in 0 .. MaxTurns /\ k > 0 /\ n \in Nat /\ m \in Nat /\ m > n
  BY <1>0, LenProperties DEF LineRec
<1>2. Streaming(desk, msgs) = d /\ NewTurn = l
  BY <1>0 DEF Streaming, NewTurn, DeskRec, LineRec
<1>3. a \in MessageRec /\ a.text = "empty" /\ a.of = k
  <2>1. "empty" \in Texts
    BY DEF Texts
  <2> QED
    BY <1>1, <2>1, MessageIs
<1> HIDE DEF a, k
<1>4. u \in Seq(MessageRec) /\ Len(u) = m /\ u[m] = a /\ \A i \in 1 .. n : u[i] = msgs[i]
  BY <1>1, <1>3, AppendProperties
<1>5. v \in VoteMaps /\ \A i : i # m => VoteAt(v, i) = VoteAt(desk.votes, i)
  <2>1. PICK S \in SUBSET Nat : desk.votes \in [S -> VoteRec]
    BY <1>0 DEF DeskRec, VoteMaps
  <2>2. NoVote \in VoteRec
    BY DEF NoVote, VoteRec
  <2>3. v = [j \in S \cup {m} |-> IF j = m THEN NoVote ELSE desk.votes[j]]
    BY <2>1 DEF VotesReset
  <2>4. v \in [S \cup {m} -> VoteRec] /\ S \cup {m} \in SUBSET Nat
    BY <1>1, <2>1, <2>2, <2>3
  <2>5. \A i : i # m => VoteAt(v, i) = VoteAt(desk.votes, i)
    BY <2>1, <2>3 DEF VoteAt
  <2> QED
    BY <2>4, <2>5 DEF VoteMaps
<1> HIDE DEF u, v
<1>6. d \in DeskRec /\ d.thread = u /\ d.votes = v /\ d.sending = TRUE /\ d.raced = FALSE
  BY <1>0, <1>4, <1>5 DEF DeskRec
<1>7. /\ l \in LineRec /\ l.turn = k /\ ~l.acc /\ ~l.notice /\ l.ballots = line.ballots /\ l.counted = line.counted
      /\ l.crossed = line.crossed
  BY <1>0, <1>1 DEF LineRec
<1>8. line.turn < k /\ k = line.turn + 1
  BY <1>1 DEF k
<1> HIDE DEF d, l, n
<1>9. \A i \in 1 .. m : i = m \/ i \in 1 .. n
  BY <1>1
<1> HIDE DEF m
<1>t. \A i \in 1 .. n : msgs[i].of \in Nat
  <2> SUFFICES ASSUME NEW i \in 1 .. n PROVE msgs[i].of \in Nat
    OBVIOUS
  <2>1. msgs[i] \in MessageRec
    BY ElementOfSeq DEF n
  <2> QED
    BY <2>1 DEF MessageRec
<1>o. \A i \in 1 .. n :
        \/ i \in 1 .. Len(desk.thread) /\ msgs[i] = desk.thread[i]
        \/ msgs[i].text \notin {"result", "empty"} /\ (msgs[i].of = 0 \/ msgs[i].of = k)
  <2> SUFFICES ASSUME NEW i \in 1 .. n
               PROVE \/ i \in 1 .. Len(desk.thread) /\ msgs[i] = desk.thread[i]
                     \/ msgs[i].text \notin {"result", "empty"} /\ (msgs[i].of = 0 \/ msgs[i].of = k)
    OBVIOUS
  <2>1. i \in 1 .. Len(msgs)
    BY DEF n
  <2>2. \/ i \in 1 .. Len(desk.thread) /\ msgs[i] = desk.thread[i]
        \/ msgs[i].text \notin {"result", "empty"} /\ msgs[i].of \in {0, line.turn + 1}
    BY <2>1
  <2>3. {0, line.turn + 1} = {0, k}
    BY <1>8
  <2> QED
    BY <2>2, <2>3
<1>10. \A i \in 1 .. n : (u[i].text # "result" => u[i].of <= k) /\ (u[i].text = "empty" => u[i].of < k)
  <2> SUFFICES ASSUME NEW i \in 1 .. n
               PROVE (u[i].text # "result" => u[i].of <= k) /\ (u[i].text = "empty" => u[i].of < k)
    OBVIOUS
  <2>1. u[i] = msgs[i] /\ msgs[i].of \in Nat
    BY <1>4, <1>t
  <2>2. CASE i \in 1 .. Len(desk.thread) /\ msgs[i] = desk.thread[i]
    <3>1. u[i].text # "result" => u[i].of <= line.turn
      BY <1>0, <2>1, <2>2 DEF TurnsPast
    <3>2. "empty" # "result"
      OBVIOUS
    <3> QED
      BY <1>1, <1>8, <2>1, <3>1, <3>2
  <2>3. CASE msgs[i].text \notin {"result", "empty"} /\ (msgs[i].of = 0 \/ msgs[i].of = k)
    BY <1>1, <2>1, <2>3
  <2> QED
    BY <1>o, <2>2, <2>3
<1>11. TurnsPast(d.thread, l.turn)
  <2> SUFFICES ASSUME NEW i \in 1 .. m, u[i].text # "result" PROVE u[i].of <= k
    BY <1>4, <1>6, <1>7 DEF TurnsPast
  <2>1. CASE i = m
    BY <1>1, <1>3, <1>4, <2>1
  <2>2. CASE i \in 1 .. n
    BY <1>10, <2>2
  <2> QED
    BY <1>9, <2>1, <2>2
<1>12. GhostFree(d, l)
  <2>1. u # <<>>
    BY <1>1, <1>4, EmptySeq
  <2>2. ASSUME NEW i \in 1 .. m, u[i].of = k, u[i].text = "empty" PROVE i = m
    <3>1. CASE i \in 1 .. n
      <4>1. u[i].of < k
        BY <1>10, <2>2, <3>1
      <4> QED
        BY <1>1, <2>2, <4>1
    <3> QED
      BY <1>9, <3>1
  <2> QED
    BY <1>1, <1>4, <1>6, <1>7, <2>1, <2>2 DEF GhostFree
<1>b. /\ \A x \in line.ballots : x.of \in Nat /\ x.at \in Nat /\ x.of < k
      /\ \A j \in 1 .. Len(line.counted) : line.counted[j].of \in Nat /\ line.counted[j].at \in Nat /\ line.counted[j].of < k
  <2>1. \A x \in line.ballots : x.of \in Nat /\ x.at \in Nat
    BY <1>0 DEF LineRec, BallotRec
  <2>2. \A j \in 1 .. Len(line.counted) : line.counted[j] \in TallyRec
    BY <1>0, ElementOfSeq DEF LineRec
  <2>3. \A j \in 1 .. Len(line.counted) : line.counted[j].of \in Nat /\ line.counted[j].at \in Nat
    BY <2>2 DEF TallyRec
  <2> QED
    BY <1>0, <1>1, <1>8, <2>1, <2>3 DEF VotesPast
<1>13. VotesPast(d, l)
  BY <1>1, <1>7, <1>b DEF VotesPast
<1>14. OneBallot(l)
  BY <1>0, <1>7 DEF OneBallot
<1>15. \A x : x.of \in Nat /\ x.of < k /\ Stands(u, x) => Stands(desk.thread, x) /\ x.at # m
  <2> SUFFICES ASSUME NEW x, x.of \in Nat, x.of < k, Stands(u, x) PROVE Stands(desk.thread, x) /\ x.at # m
    OBVIOUS
  <2>1. x.at \in 1 .. m /\ x.of > 0 /\ u[x.at].of = x.of /\ u[x.at].text # "result"
    BY <1>4 DEF Stands
  <2>2. x.at # m
    BY <1>1, <1>3, <1>4, <2>1
  <2>3. x.at \in 1 .. n /\ msgs[x.at].of = x.of /\ msgs[x.at].text # "result"
    BY <1>4, <1>9, <2>1, <2>2
  <2>4. x.at \in 1 .. Len(desk.thread) /\ msgs[x.at] = desk.thread[x.at]
    <3>1. ~(msgs[x.at].of = 0 \/ msgs[x.at].of = k)
      BY <1>1, <2>1, <2>3
    <3> QED
      BY <1>o, <2>3, <3>1
  <2> QED
    BY <2>1, <2>2, <2>3, <2>4 DEF Stands
<1>16. Marked(d.thread, d.votes, l)
  BY <1>0, <1>5, <1>6, <1>7, <1>b, <1>15 DEF Marked
<1>17. DeskFits(d, l)
  BY <1>6, <1>7, <1>11, <1>12, <1>13, <1>14, <1>16 DEF DeskFits
<1> QED
  BY <1>2, <1>17

\* The thread's beginning, or all of it, with the same votes, when no stream
\* writes: stops, and the page at rest.
LEMMA ShorterFits ==
  ASSUME DeskInv, NEW d \in DeskRec, ~d.sending, d.votes = desk.votes \/ d.thread = <<>>,
         Len(d.thread) <= Len(desk.thread), \A i \in 1 .. Len(d.thread) : d.thread[i] = desk.thread[i],
         ~d.raced /\ ~(line.notice /\ line.reason) =>
           (~desk.raced /\ (desk.sending => Len(d.thread) < Len(desk.thread))) \/ d.thread = <<>>
  PROVE  DeskFits(d, line)
<1>0. /\ desk \in DeskRec /\ line \in LineRec /\ TurnsPast(desk.thread, line.turn) /\ GhostFree(desk, line)
      /\ VotesPast(desk, line) /\ OneBallot(line) /\ Marked(desk.thread, desk.votes, line)
  BY DEF DeskInv, DeskFits
<1>1. d.thread \in Seq(MessageRec) /\ desk.thread \in Seq(MessageRec) /\ Len(d.thread) \in Nat /\ Len(desk.thread) \in Nat
  BY <1>0, LenProperties DEF DeskRec
<1>2. \A i \in 1 .. Len(d.thread) : i \in 1 .. Len(desk.thread)
  BY <1>1
<1>e. d.thread = <<>> => \A i : i \notin 1 .. Len(d.thread)
  BY EmptySeq
<1>3. TurnsPast(d.thread, line.turn)
  BY <1>0, <1>2 DEF TurnsPast
<1>4. GhostFree(d, line)
  <2>1. desk.sending \in BOOLEAN
    BY <1>0 DEF DeskRec
  <2>2. ASSUME ~d.raced, ~(line.notice /\ line.reason), NEW i \in 1 .. Len(d.thread), d.thread[i].of = line.turn, d.thread[i].text = "empty"
        PROVE FALSE
    <3>1. ~desk.raced /\ (desk.sending => Len(d.thread) < Len(desk.thread))
      BY <1>e, <2>2
    <3>2. desk.sending /\ i = Len(desk.thread)
      BY <1>0, <1>2, <2>1, <2>2, <3>1 DEF GhostFree
    <3> QED
      BY <1>1, <3>1, <3>2
  <2> QED
    BY <2>2 DEF GhostFree
<1>5. VotesPast(d, line)
  BY <1>0 DEF VotesPast
<1>6. Marked(d.thread, d.votes, line)
  <2>1. CASE d.thread = <<>>
    BY <1>e, <2>1 DEF Marked, Stands
  <2>2. CASE d.votes = desk.votes
    <3>1. \A x : Stands(d.thread, x) => Stands(desk.thread, x)
      BY <1>2 DEF Stands
    <3> QED
      BY <1>0, <2>2, <3>1 DEF Marked
  <2> QED
    BY <2>1, <2>2
<1> QED
  BY <1>0, <1>3, <1>4, <1>5, <1>6 DEF DeskFits

\* What the invariant says of the page and the line apart.
LEMMA DeskParts ==
  ASSUME DeskInv
  PROVE  /\ desk \in DeskRec /\ line \in LineRec /\ TurnsPast(desk.thread, line.turn) /\ GhostFree(desk, line)
         /\ VotesPast(desk, line) /\ OneBallot(line) /\ Marked(desk.thread, desk.votes, line)
         /\ desk.thread \in Seq(MessageRec) /\ Len(desk.thread) \in Nat /\ DOMAIN desk.thread = 1 .. Len(desk.thread)
         /\ line.turn \in Nat /\ line.counted \in Seq(TallyRec) /\ Len(line.counted) \in Nat
         /\ \A x \in line.ballots : x \in BallotRec
         /\ \A k \in 1 .. Len(line.counted) : line.counted[k] \in TallyRec
<1>0. /\ desk \in DeskRec /\ line \in LineRec /\ TurnsPast(desk.thread, line.turn) /\ GhostFree(desk, line)
      /\ VotesPast(desk, line) /\ OneBallot(line) /\ Marked(desk.thread, desk.votes, line)
  BY DEF DeskInv, DeskFits
<1>1. desk.thread \in Seq(MessageRec) /\ line.counted \in Seq(TallyRec) /\ line.ballots \subseteq BallotRec
  BY <1>0 DEF DeskRec, LineRec
<1>2. line.turn \in Nat
  BY <1>0, SupportAssumption DEF LineRec
<1>3. \A k \in 1 .. Len(line.counted) : line.counted[k] \in TallyRec
  BY <1>1, ElementOfSeq
<1> QED
  BY <1>0, <1>1, <1>2, <1>3, LenProperties

\* The same words and votes: what a card, a confirmation or the earlier
\* thread's arrival leaves.
LEMMA SameWordsFit ==
  ASSUME DeskInv, NEW d \in DeskRec, NEW l, SameVotes(l), Len(d.thread) = Len(desk.thread),
         \A i \in 1 .. Len(desk.thread) : d.thread[i].text = desk.thread[i].text /\ d.thread[i].of = desk.thread[i].of,
         d.sending = desk.sending, d.raced = desk.raced, d.votes = desk.votes,
         l.acc = line.acc, l.notice = line.notice, l.reason = line.reason
  PROVE  DeskFits(d, l)
<1>1. /\ l \in LineRec /\ l.turn = line.turn /\ l.ballots = line.ballots /\ l.counted = line.counted
      /\ l.crossed = line.crossed
  BY DEF SameVotes
<1>2. TurnsPast(d.thread, l.turn) /\ VotesPast(d, l) /\ OneBallot(l)
  BY <1>1, DeskParts DEF TurnsPast, VotesPast, OneBallot
<1>3. GhostFree(d, l)
  <2>1. d.thread \in Seq(MessageRec) /\ (d.thread = <<>> <=> desk.thread = <<>>)
    BY DeskParts, EmptySeq DEF DeskRec
  <2>2. desk.thread # <<>> => Len(desk.thread) \in 1 .. Len(desk.thread)
    BY DeskParts, EmptySeq
  <2>3. d.sending => d.thread # <<>> /\ l.turn > 0
    BY <1>1, <2>1, DeskParts DEF GhostFree
  <2>4. d.sending /\ ~d.raced /\ (l.acc \/ l.notice) => d.thread[Len(d.thread)].text # "empty"
    BY <1>1, <2>1, <2>2, <2>3, DeskParts DEF GhostFree
  <2>5. ASSUME ~d.raced, ~(l.notice /\ l.reason /\ ~d.sending), NEW i \in 1 .. Len(d.thread),
               d.thread[i].of = l.turn, d.thread[i].text = "empty"
        PROVE d.sending /\ i = Len(d.thread)
    BY <1>1, <2>5, DeskParts DEF GhostFree
  <2> QED
    BY <2>3, <2>4, <2>5 DEF GhostFree
<1>4. \A x : Stands(d.thread, x) => Stands(desk.thread, x)
  BY DEF Stands
<1>5. Marked(d.thread, d.votes, l)
  BY <1>1, <1>4, DeskParts DEF Marked
<1> QED
  BY <1>1, <1>2, <1>3, <1>5 DEF DeskFits

\* A vote's mark is set in its place alone.
LEMMA VotesWithIs ==
  ASSUME DeskInv, NEW i \in Nat, NEW v \in VoteRec
  PROVE  /\ VotesWith(desk, i, v) \in DeskRec /\ VotesWith(desk, i, v).thread = desk.thread
         /\ VotesWith(desk, i, v).sending = desk.sending /\ VotesWith(desk, i, v).raced = desk.raced
         /\ VoteAt(VotesWith(desk, i, v).votes, i) = v
         /\ \A j : j # i => VoteAt(VotesWith(desk, i, v).votes, j) = VoteAt(desk.votes, j)
<1> DEFINE w == [j \in DOMAIN desk.votes \cup {i} |-> IF j = i THEN v ELSE desk.votes[j]]
           d == [desk EXCEPT !.votes = w]
<1>0. desk \in DeskRec
  BY DeskParts
<1>1. PICK S \in SUBSET Nat : desk.votes \in [S -> VoteRec]
  BY <1>0 DEF DeskRec, VoteMaps
<1>2. w \in [S \cup {i} -> VoteRec] /\ S \cup {i} \in SUBSET Nat
  BY <1>1
<1>3. w \in VoteMaps
  BY <1>2 DEF VoteMaps
<1>4. VoteAt(w, i) = v /\ \A j : j # i => VoteAt(w, j) = VoteAt(desk.votes, j)
  BY <1>1 DEF VoteAt
<1>5. VotesWith(desk, i, v) = d
  BY <1>0 DEF VotesWith, DeskRec
<1> HIDE DEF w
<1>6. d \in DeskRec /\ d.thread = desk.thread /\ d.sending = desk.sending /\ d.raced = desk.raced /\ d.votes = w
  BY <1>0, <1>3 DEF DeskRec
<1> QED
  BY <1>4, <1>5, <1>6

\* Words and turns do not depend on the votes.
LEMMA VotesApart ==
  ASSUME DeskInv, NEW d \in DeskRec, d.thread = desk.thread, d.sending = desk.sending, d.raced = desk.raced,
         NEW l \in LineRec, l.turn = line.turn, l.acc = line.acc, l.notice = line.notice, l.reason = line.reason
  PROVE  TurnsPast(d.thread, l.turn) /\ GhostFree(d, l)
BY DeskParts DEF GhostFree

\* A place always has a mark.
LEMMA VoteAtIs == DeskInv => \A i : VoteAt(desk.votes, i) \in VoteRec /\ VoteOf(i) = VoteAt(desk.votes, i)
<1> SUFFICES ASSUME DeskInv, NEW i PROVE VoteAt(desk.votes, i) \in VoteRec /\ VoteOf(i) = VoteAt(desk.votes, i)
  OBVIOUS
<1>1. PICK S \in SUBSET Nat : desk.votes \in [S -> VoteRec]
  BY DeskParts DEF DeskRec, VoteMaps
<1>2. NoVote \in VoteRec
  BY DEF NoVote, VoteRec
<1> QED
  BY <1>1, <1>2 DEF VoteAt, VoteOf

\* A vote is sent on an answer that has none yet: an earlier one would be
\* marked in its place.
LEMMA VoteStep ==
  ASSUME DeskInv, NEW i \in DOMAIN desk.thread, Vote(i)
  PROVE  DeskInv'
<1> USE SupportAssumption
<1> DEFINE m == desk.thread[i]
           o == IF m.text = "result" THEN 0 ELSE m.of
           c == line.cast + 1
           b == [at |-> i, nr |-> c, of |-> o]
           v == [busy |-> TRUE, sent |-> FALSE]
           B == line.ballots \cup {b}
           l == [line EXCEPT !.cast = c, !.ballots = B]
           d == VotesWith(desk, i, v)
           n == Len(desk.thread)
<1>0. /\ desk \in DeskRec /\ line \in LineRec /\ TurnsPast(desk.thread, line.turn)
      /\ VotesPast(desk, line) /\ OneBallot(line) /\ Marked(desk.thread, desk.votes, line)
      /\ desk.thread \in Seq(MessageRec) /\ n \in Nat /\ line.turn \in Nat /\ i \in 1 .. n
  BY DeskParts
<1>1. CanVote(i) /\ line.cast < MaxVotes /\ desk' = d /\ line' = l
  BY <1>0 DEF Vote, LineRec
<1>2. m \in MessageRec
  BY <1>0, ElementOfSeq
<1>3. o \in Nat /\ o <= line.turn /\ (o > 0 => m.text # "result" /\ m.of = o)
  <2>1. m.of \in Nat
    BY <1>2 DEF MessageRec
  <2> QED
    BY <1>0, <2>1 DEF TurnsPast
<1>4. c \in 0 .. MaxVotes /\ c \in Nat
  BY <1>0, <1>1 DEF LineRec
<1>5. ~VoteAt(desk.votes, i).sent /\ ~VoteAt(desk.votes, i).busy /\ (desk.sending => i # n)
  BY <1>1, VoteAtIs DEF CanVote
<1>6. v \in VoteRec /\ v.busy = TRUE
  BY DEF VoteRec
<1> HIDE DEF v
<1>7. /\ d \in DeskRec /\ d.thread = desk.thread /\ d.sending = desk.sending /\ d.raced = desk.raced
      /\ VoteAt(d.votes, i) = v /\ \A j : j # i => VoteAt(d.votes, j) = VoteAt(desk.votes, j)
  BY <1>0, <1>6, VotesWithIs
<1> HIDE DEF o, c, m, n, d
<1>8. b \in BallotRec /\ b.at = i /\ b.of = o
  BY <1>0, <1>3, <1>4 DEF BallotRec
<1> HIDE DEF b
<1>9. /\ l \in LineRec /\ l.turn = line.turn /\ l.acc = line.acc /\ l.notice = line.notice /\ l.reason = line.reason
      /\ l.ballots = B /\ l.counted = line.counted /\ l.crossed = line.crossed
  <2>1. B \in SUBSET BallotRec
    BY <1>0, <1>8 DEF LineRec
  <2> HIDE DEF B
  <2> QED
    BY <1>0, <1>4, <2>1 DEF LineRec
<1> HIDE DEF l
<1>10. TurnsPast(d.thread, l.turn) /\ GhostFree(d, l)
  BY <1>7, <1>9, VotesApart
<1>11. VotesPast(d, l)
  <2>1. d.sending /\ b.of = l.turn => b.at < Len(d.thread)
    BY <1>0, <1>5, <1>7, <1>8 DEF n
  <2> QED
    BY <1>0, <1>3, <1>7, <1>8, <1>9, <2>1 DEF VotesPast
<1>12. \A x : x.at = i /\ x.of = o /\ o > 0 => Stands(desk.thread, x)
  BY <1>0, <1>3 DEF Stands, m, n
<1>13. ~line.crossed =>
         /\ \A x \in line.ballots : ~(o > 0 /\ x.at = i /\ x.of = o)
         /\ \A k \in 1 .. Len(line.counted) : ~(o > 0 /\ line.counted[k].at = i /\ line.counted[k].of = o)
  BY <1>0, <1>5, <1>12 DEF Marked
<1>14. OneBallot(l)
  <2> SUFFICES ASSUME ~line.crossed
               PROVE /\ \A x, y \in B : x.of > 0 /\ x.at = y.at /\ x.of = y.of => x = y
                     /\ \A x \in B, k \in 1 .. Len(line.counted) :
                          x.of > 0 => ~(line.counted[k].at = x.at /\ line.counted[k].of = x.of)
    BY <1>0, <1>9 DEF OneBallot
  <2> QED
    BY <1>0, <1>8, <1>13 DEF OneBallot
<1>15. Marked(d.thread, d.votes, l)
  <2> SUFFICES ASSUME ~line.crossed
               PROVE /\ \A x \in B : Stands(desk.thread, x) => VoteAt(d.votes, x.at).busy \/ VoteAt(d.votes, x.at).sent
                     /\ \A k \in 1 .. Len(line.counted) :
                          Stands(desk.thread, line.counted[k]) => VoteAt(d.votes, line.counted[k].at).sent
    BY <1>7, <1>9 DEF Marked
  <2>1. \A x \in B : Stands(desk.thread, x) => VoteAt(d.votes, x.at).busy \/ VoteAt(d.votes, x.at).sent
    BY <1>0, <1>6, <1>7, <1>8 DEF Marked
  <2>2. \A k \in 1 .. Len(line.counted) :
          Stands(desk.thread, line.counted[k]) => VoteAt(d.votes, line.counted[k].at).sent
    BY <1>0, <1>5, <1>7 DEF Marked
  <2> QED
    BY <2>1, <2>2
<1> QED
  BY <1>1, <1>7, <1>9, <1>10, <1>11, <1>14, <1>15 DEF DeskInv, DeskFits

\* A vote that is counted leaves its place marked for good.
LEMMA CountStep ==
  ASSUME DeskInv, NEW b \in line.ballots, VoteCounts(b)
  PROVE  DeskInv'
<1> DEFINE t == [at |-> b.at, of |-> b.of]
           v == [busy |-> FALSE, sent |-> TRUE]
           B == line.ballots \ {b}
           C == Append(line.counted, t)
           n == Len(line.counted)
           p == n + 1
           l == [line EXCEPT !.ballots = B, !.counted = C]
           d == VotesWith(desk, b.at, v)
<1>0. /\ desk \in DeskRec /\ line \in LineRec /\ VotesPast(desk, line) /\ OneBallot(line)
      /\ Marked(desk.thread, desk.votes, line) /\ b \in BallotRec /\ line.counted \in Seq(TallyRec)
      /\ n \in Nat /\ p \in Nat /\ line.ballots \subseteq BallotRec
  BY DeskParts DEF LineRec
<1>1. desk' = d /\ line' = l
  BY <1>0 DEF VoteCounts, LineRec
<1>2. b.at \in Nat /\ b.of \in Nat
  BY <1>0 DEF BallotRec
<1>3. t \in TallyRec /\ t.at = b.at /\ t.of = b.of
  BY <1>2 DEF TallyRec
<1>4. v \in VoteRec /\ v.sent = TRUE
  BY DEF VoteRec
<1> HIDE DEF v, t
<1>5. /\ d \in DeskRec /\ d.thread = desk.thread /\ d.sending = desk.sending /\ d.raced = desk.raced
      /\ VoteAt(d.votes, b.at) = v /\ \A j : j # b.at => VoteAt(d.votes, j) = VoteAt(desk.votes, j)
  BY <1>2, <1>4, VotesWithIs
<1>6. C \in Seq(TallyRec) /\ Len(C) = p /\ C[p] = t /\ \A k \in 1 .. n : C[k] = line.counted[k]
  BY <1>0, <1>3, AppendProperties
<1>7. \A k \in 1 .. p : k = p \/ k \in 1 .. n
  BY <1>0
<1> HIDE DEF C, p, d
<1>8. /\ l \in LineRec /\ l.turn = line.turn /\ l.acc = line.acc /\ l.notice = line.notice /\ l.reason = line.reason
      /\ l.ballots = B /\ l.counted = C /\ l.crossed = line.crossed
  <2>1. B \in SUBSET BallotRec
    BY <1>0
  <2> HIDE DEF B
  <2> QED
    BY <1>0, <1>6, <2>1 DEF LineRec
<1> HIDE DEF l, n
<1>9. TurnsPast(d.thread, l.turn) /\ GhostFree(d, l)
  BY <1>5, <1>8, VotesApart
<1>10. VotesPast(d, l)
  <2> SUFFICES /\ \A x \in B : x.of <= line.turn /\ (desk.sending /\ x.of = line.turn => x.at < Len(desk.thread))
               /\ \A k \in 1 .. p : C[k].of <= line.turn /\ (desk.sending /\ C[k].of = line.turn => C[k].at < Len(desk.thread))
    BY <1>5, <1>6, <1>8 DEF VotesPast
  <2>1. \A k \in 1 .. n : C[k].of <= line.turn /\ (desk.sending /\ C[k].of = line.turn => C[k].at < Len(desk.thread))
    BY <1>0, <1>6 DEF VotesPast, n
  <2>2. C[p].of <= line.turn /\ (desk.sending /\ C[p].of = line.turn => C[p].at < Len(desk.thread))
    BY <1>0, <1>3, <1>6 DEF VotesPast
  <2> QED
    BY <1>0, <1>7, <2>1, <2>2 DEF VotesPast
<1>11. OneBallot(l)
  <2> SUFFICES ASSUME ~line.crossed
               PROVE /\ \A x, y \in B : x.of > 0 /\ x.at = y.at /\ x.of = y.of => x = y
                     /\ \A x \in B, k \in 1 .. p : x.of > 0 => ~(C[k].at = x.at /\ C[k].of = x.of)
                     /\ \A j, k \in 1 .. p : j # k /\ C[j].of > 0 => C[j] # C[k]
    BY <1>6, <1>8 DEF OneBallot
  <2>1. \A x, y \in B : x.of > 0 /\ x.at = y.at /\ x.of = y.of => x = y
    BY <1>0 DEF OneBallot
  <2>2. \A x \in B, k \in 1 .. p : x.of > 0 => ~(C[k].at = x.at /\ C[k].of = x.of)
    <3>1. \A x \in B, k \in 1 .. n : x.of > 0 => ~(C[k].at = x.at /\ C[k].of = x.of)
      BY <1>0, <1>6 DEF OneBallot, n
    <3>2. \A x \in B : x.of > 0 => ~(C[p].at = x.at /\ C[p].of = x.of)
      BY <1>0, <1>3, <1>6 DEF OneBallot
    <3> QED
      BY <1>7, <3>1, <3>2
  <2>3. ASSUME NEW j \in 1 .. p, NEW k \in 1 .. p, j # k, C[j].of > 0 PROVE C[j] # C[k]
    <3>1. CASE j \in 1 .. n /\ k \in 1 .. n
      BY <1>0, <1>6, <2>3, <3>1 DEF OneBallot, n
    <3>2. \A x \in 1 .. n : b.of > 0 => C[x] # C[p]
      BY <1>0, <1>3, <1>6 DEF OneBallot, n
    <3> QED
      BY <1>3, <1>6, <1>7, <2>3, <3>1, <3>2
  <2> QED
    BY <2>1, <2>2, <2>3
<1>12. Marked(d.thread, d.votes, l)
  <2> SUFFICES ASSUME ~line.crossed
               PROVE /\ \A x \in B : Stands(desk.thread, x) => VoteAt(d.votes, x.at).busy \/ VoteAt(d.votes, x.at).sent
                     /\ \A k \in 1 .. p : Stands(desk.thread, C[k]) => VoteAt(d.votes, C[k].at).sent
    BY <1>5, <1>6, <1>8 DEF Marked
  <2>1. \A x \in B : Stands(desk.thread, x) => VoteAt(d.votes, x.at).busy \/ VoteAt(d.votes, x.at).sent
    BY <1>0, <1>4, <1>5 DEF Marked
  <2>2. \A k \in 1 .. n : Stands(desk.thread, C[k]) => VoteAt(d.votes, C[k].at).sent
    BY <1>0, <1>4, <1>5, <1>6 DEF Marked, n
  <2>3. VoteAt(d.votes, C[p].at).sent
    BY <1>3, <1>4, <1>5, <1>6
  <2> QED
    BY <1>7, <2>1, <2>2, <2>3
<1> QED
  BY <1>1, <1>5, <1>8, <1>9, <1>10, <1>11, <1>12 DEF DeskInv, DeskFits

\* A vote that is lost frees its place, which no other vote holds unless the
\* two crossed.
LEMMA LostStep ==
  ASSUME DeskInv, NEW b \in line.ballots, VoteLost(b)
  PROVE  DeskInv'
<1> DEFINE v == [VoteOf(b.at) EXCEPT !.busy = FALSE]
           B == line.ballots \ {b}
           c == line.crossed \/ \E x \in B : x.at = b.at
           l == [line EXCEPT !.ballots = B, !.crossed = c]
           d == VotesWith(desk, b.at, v)
<1>0. /\ desk \in DeskRec /\ line \in LineRec /\ VotesPast(desk, line) /\ OneBallot(line)
      /\ Marked(desk.thread, desk.votes, line) /\ b \in BallotRec /\ line.ballots \subseteq BallotRec
  BY DeskParts DEF LineRec
<1>1. desk' = d /\ line' = l
  BY <1>0 DEF VoteLost, LineRec
<1>2. b.at \in Nat
  BY <1>0 DEF BallotRec
<1>3. v \in VoteRec /\ v.sent = VoteAt(desk.votes, b.at).sent
  BY VoteAtIs DEF VoteRec
<1> HIDE DEF v
<1>5. /\ d \in DeskRec /\ d.thread = desk.thread /\ d.sending = desk.sending /\ d.raced = desk.raced
      /\ VoteAt(d.votes, b.at) = v /\ \A j : j # b.at => VoteAt(d.votes, j) = VoteAt(desk.votes, j)
  BY <1>2, <1>3, VotesWithIs
<1> HIDE DEF d
<1>6. B \in SUBSET BallotRec /\ c \in BOOLEAN /\ (~c => ~line.crossed /\ \A x \in B : x.at # b.at)
  BY <1>0 DEF LineRec
<1> HIDE DEF c
<1>8. /\ l \in LineRec /\ l.turn = line.turn /\ l.acc = line.acc /\ l.notice = line.notice /\ l.reason = line.reason
      /\ l.ballots = B /\ l.counted = line.counted /\ l.crossed = c
  <2> HIDE DEF B
  <2> QED
    BY <1>0, <1>6 DEF LineRec
<1> HIDE DEF l
<1>9. TurnsPast(d.thread, l.turn) /\ GhostFree(d, l)
  BY <1>5, <1>8, VotesApart
<1>10. VotesPast(d, l)
  BY <1>0, <1>5, <1>8 DEF VotesPast
<1>11. OneBallot(l)
  BY <1>0, <1>6, <1>8 DEF OneBallot
<1>12. Marked(d.thread, d.votes, l)
  BY <1>0, <1>3, <1>5, <1>6, <1>8 DEF Marked
<1> QED
  BY <1>1, <1>5, <1>8, <1>9, <1>10, <1>11, <1>12 DEF DeskInv, DeskFits

\* The result of a confirmation comes last, and is nobody's turn.
LEMMA ResultStep ==
  ASSUME DeskInv, NEW token \in line.confirms, ConfirmAnswers(token)
  PROVE  DeskInv'
<1> USE SupportAssumption
<1>0. /\ desk \in DeskRec /\ line \in LineRec /\ TurnsPast(desk.thread, line.turn) /\ GhostFree(desk, line)
      /\ VotesPast(desk, line) /\ OneBallot(line) /\ Marked(desk.thread, desk.votes, line)
      /\ desk.thread \in Seq(MessageRec) /\ Len(desk.thread) \in Nat /\ DOMAIN desk.thread = 1 .. Len(desk.thread)
      /\ line.turn \in Nat
  BY DeskParts
<1>1. PICK keep \in BOOLEAN : desk' = WithResult(desk, token, keep)
  BY DEF ConfirmAnswers
<1> DEFINE n == Len(desk.thread)
           p == n + 1
           s == [i \in 1 .. n |-> IF ~keep /\ desk.thread[i].card = token
                                  THEN [desk.thread[i] EXCEPT !.card = 0] ELSE desk.thread[i]]
           a == Message("assistant", "result", token)
           u == Append(s, a)
           r == desk.raced \/ desk.sending
           d == [desk EXCEPT !.thread = u, !.confirming = 0, !.raced = r]
           F == line.confirms \ {token}
           l == [line EXCEPT !.confirms = F]
<1>2. desk' = d /\ line' = l
  BY <1>0, <1>1 DEF ConfirmAnswers, WithResult, DeskRec, LineRec
<1>3. token \in Nat /\ 0 \in 0 .. MaxTokens /\ p \in Nat /\ n \in Nat
  BY <1>0 DEF LineRec
<1>4. a \in MessageRec /\ a.text = "result"
  <2>1. "result" \in Texts
    BY DEF Texts
  <2> QED
    BY <1>3, <2>1, MessageIs
<1> HIDE DEF a
<1>5. s \in Seq(MessageRec) /\ Len(s) = n
  <2>1. \A i \in 1 .. n : s[i] \in MessageRec
    <3> SUFFICES ASSUME NEW i \in 1 .. n PROVE s[i] \in MessageRec
      OBVIOUS
    <3>1. desk.thread[i] \in MessageRec
      BY <1>0, ElementOfSeq
    <3>2. [desk.thread[i] EXCEPT !.card = 0] \in MessageRec
      BY <1>3, <3>1 DEF MessageRec
    <3> QED
      BY <3>1, <3>2
  <2> QED
    <3>1. s \in [1 .. n -> MessageRec]
      BY <2>1
    <3>2. s \in Seq(MessageRec)
      BY <1>3, <3>1 DEF Seq
    <3>3. Len(s) \in Nat /\ DOMAIN s = 1 .. Len(s) /\ DOMAIN s = 1 .. n
      BY <3>1, <3>2, LenProperties
    <3> HIDE DEF s
    <3> QED
      BY <1>3, <3>2, <3>3
<1>6. \A i \in 1 .. n : s[i].text = desk.thread[i].text /\ s[i].of = desk.thread[i].of
  <2> SUFFICES ASSUME NEW i \in 1 .. n PROVE s[i].text = desk.thread[i].text /\ s[i].of = desk.thread[i].of
    OBVIOUS
  <2>1. desk.thread[i] \in MessageRec
    BY <1>0, ElementOfSeq
  <2> QED
    BY <2>1 DEF MessageRec
<1> HIDE DEF s
<1>7. u \in Seq(MessageRec) /\ Len(u) = p /\ u[p] = a /\ \A i \in 1 .. n : u[i] = s[i]
  BY <1>4, <1>5, AppendProperties
<1>8. \A i \in 1 .. p : i = p \/ i \in 1 .. n
  BY <1>3
<1>9. p > n
  BY <1>3
<1> HIDE DEF u, p
<1>10. r \in BOOLEAN /\ (~r => ~desk.raced /\ ~desk.sending)
  BY <1>0 DEF DeskRec
<1> HIDE DEF r
<1>11. d \in DeskRec /\ d.thread = u /\ d.votes = desk.votes /\ d.sending = desk.sending /\ d.raced = r
  BY <1>0, <1>3, <1>7, <1>10 DEF DeskRec
<1>12. F \in SUBSET (1 .. MaxTokens)
  BY <1>0 DEF LineRec
<1> HIDE DEF F, d
<1>13. /\ l \in LineRec /\ l.turn = line.turn /\ l.acc = line.acc /\ l.notice = line.notice /\ l.reason = line.reason
       /\ l.ballots = line.ballots /\ l.counted = line.counted /\ l.crossed = line.crossed
  BY <1>0, <1>12 DEF LineRec
<1> HIDE DEF l
<1>14. TurnsPast(d.thread, l.turn)
  <2> SUFFICES ASSUME NEW i \in 1 .. p, u[i].text # "result" PROVE u[i].of <= line.turn
    BY <1>7, <1>11, <1>13 DEF TurnsPast
  <2>1. i \in 1 .. n
    BY <1>4, <1>7, <1>8
  <2> QED
    BY <1>0, <1>6, <1>7, <2>1 DEF TurnsPast
<1>15. GhostFree(d, l)
  <2>1. u # <<>>
    BY <1>3, <1>7, <1>9, EmptySeq
  <2>2. ASSUME ~r, ~(l.notice /\ l.reason /\ ~d.sending), NEW i \in 1 .. p, u[i].of = line.turn, u[i].text = "empty" PROVE FALSE
    <3>1. i \in 1 .. n
      BY <1>4, <1>7, <1>8, <2>2
    <3> QED
      BY <1>0, <1>6, <1>7, <1>10, <1>11, <1>13, <2>2, <3>1 DEF GhostFree
  <2>3. desk.sending => line.turn > 0
    BY <1>0 DEF GhostFree
  <2> QED
    BY <1>7, <1>10, <1>11, <1>13, <2>1, <2>2, <2>3 DEF GhostFree
<1>b. \A x \in line.ballots : x.at \in Nat
  BY DeskParts DEF BallotRec
<1>c. \A k \in 1 .. Len(line.counted) : line.counted[k].at \in Nat
  BY DeskParts DEF TallyRec
<1>16. VotesPast(d, l)
  BY <1>0, <1>3, <1>7, <1>9, <1>11, <1>13, <1>b, <1>c DEF VotesPast
<1>17. OneBallot(l)
  BY <1>0, <1>13 DEF OneBallot
<1>18. \A x : Stands(u, x) => Stands(desk.thread, x)
  <2> SUFFICES ASSUME NEW x, Stands(u, x) PROVE Stands(desk.thread, x)
    OBVIOUS
  <2>1. x.at \in 1 .. n
    BY <1>4, <1>7, <1>8 DEF Stands
  <2> QED
    BY <1>6, <1>7, <2>1 DEF Stands
<1>19. Marked(d.thread, d.votes, l)
  BY <1>0, <1>11, <1>13, <1>18 DEF Marked
<1> QED
  BY <1>2, <1>11, <1>13, <1>14, <1>15, <1>16, <1>17, <1>19 DEF DeskInv, DeskFits

\* A question begins a turn on the thread, or on the welcome.
LEMMA QuestionStep ==
  ASSUME DeskInv, SendQuestion
  PROVE  DeskInv'
<1> DEFINE k == line.turn + 1
           a == Message("user", "question", k)
           msgs == Append(Shown, a)
           n == Len(Shown)
           p == n + 1
<1>0. desk.thread \in Seq(MessageRec) /\ Len(desk.thread) \in Nat /\ line.turn \in Nat
  BY DeskParts
<1>1. a \in MessageRec /\ a.text = "question" /\ a.of = k
  <2>1. "question" \in Texts /\ k \in Nat
    BY <1>0 DEF Texts
  <2> QED
    BY <2>1, MessageIs
<1>2. Welcome \in MessageRec /\ Welcome.text = "welcome" /\ Welcome.of = 0
  <2>1. "welcome" \in Texts /\ 0 \in Nat
    BY DEF Texts
  <2> QED
    BY <2>1, MessageIs DEF Welcome
<1> HIDE DEF a
<1>3. Shown \in Seq(MessageRec) /\ n \in Nat /\ p \in Nat
  <2>1. <<Welcome>> \in Seq(MessageRec)
    BY <1>2
  <2> QED
    BY <1>0, <2>1, LenProperties DEF Shown
<1>4. \A i \in 1 .. n : Shown[i] = Welcome \/ (i \in 1 .. Len(desk.thread) /\ Shown[i] = desk.thread[i])
  <2>1. CASE desk.thread = <<>>
    <3>1. Shown = <<Welcome>>
      BY <2>1 DEF Shown
    <3> QED
      BY <3>1
  <2>2. CASE desk.thread # <<>>
    BY <2>2 DEF Shown
  <2> QED
    BY <2>1, <2>2
<1>5. msgs \in Seq(MessageRec) /\ Len(msgs) = p /\ msgs[p] = a /\ \A i \in 1 .. n : msgs[i] = Shown[i]
  BY <1>1, <1>3, AppendProperties
<1>6. \A i \in 1 .. p : i = p \/ i \in 1 .. n
  BY <1>3
<1>7. desk' = Streaming(desk, msgs) /\ line' = NewTurn /\ line.turn < MaxTurns
  BY DEF SendQuestion, a
<1> HIDE DEF msgs, p, n
<1>8. \A i \in 1 .. Len(msgs) :
        \/ i \in 1 .. Len(desk.thread) /\ msgs[i] = desk.thread[i]
        \/ msgs[i].text \notin {"result", "empty"} /\ msgs[i].of \in {0, line.turn + 1}
  <2> SUFFICES ASSUME NEW i \in 1 .. p
               PROVE \/ i \in 1 .. Len(desk.thread) /\ msgs[i] = desk.thread[i]
                     \/ msgs[i].text \notin {"result", "empty"} /\ msgs[i].of \in {0, line.turn + 1}
    BY <1>5
  <2>1. CASE i = p
    BY <1>1, <1>5, <2>1
  <2>2. CASE i \in 1 .. n
    BY <1>2, <1>4, <1>5, <2>2
  <2> QED
    BY <1>6, <2>1, <2>2
<1>9. DeskFits(Streaming(desk, msgs), NewTurn)
  BY <1>5, <1>7, <1>8, StreamingFits
<1> QED
  BY <1>7, <1>9 DEF DeskInv

\* Another answer begins a turn on the thread without its last answer.
LEMMA RegenerateStep ==
  ASSUME DeskInv, Regenerate
  PROVE  DeskInv'
<1>0. desk.thread \in Seq(MessageRec) /\ Len(desk.thread) \in Nat
  BY DeskParts
<1>1. DropLast(desk.thread) \in Seq(MessageRec) \/ desk.thread = <<>>
  <2>1. Len(desk.thread) - 1 \in 0 .. Len(desk.thread) \/ desk.thread = <<>>
    BY <1>0, EmptySeq
  <2>2. 1 \in 1 .. Len(desk.thread) + 1
    BY <1>0
  <2> QED
    BY <1>0, <2>1, <2>2, SubSeqProperties DEF DropLast
<1>2. desk.thread # <<>> =>
        /\ Len(DropLast(desk.thread)) = Len(desk.thread) - 1
        /\ \A i \in 1 .. Len(DropLast(desk.thread)) : i \in 1 .. Len(desk.thread) /\ DropLast(desk.thread)[i] = desk.thread[i]
  BY <1>0, EmptySeq DEF DropLast
<1>3. /\ RegenerateBase \in Seq(MessageRec)
      /\ \A i \in 1 .. Len(RegenerateBase) : i \in 1 .. Len(desk.thread) /\ RegenerateBase[i] = desk.thread[i]
  <2>1. CASE desk.thread # <<>> /\ EndOf(desk.thread).who = "assistant"
    <3>1. RegenerateBase = DropLast(desk.thread)
      BY <2>1 DEF RegenerateBase
    <3> QED
      BY <1>1, <1>2, <2>1, <3>1
  <2>2. CASE ~(desk.thread # <<>> /\ EndOf(desk.thread).who = "assistant")
    <3>1. RegenerateBase = desk.thread
      BY <2>2 DEF RegenerateBase
    <3> QED
      BY <1>0, <3>1
  <2> QED
    BY <2>1, <2>2
<1>4. desk' = Streaming(desk, RegenerateBase) /\ line' = NewTurn /\ line.turn < MaxTurns
  BY DEF Regenerate
<1>5. DeskFits(Streaming(desk, RegenerateBase), NewTurn)
  BY <1>3, <1>4, StreamingFits
<1> QED
  BY <1>4, <1>5 DEF DeskInv

\* What the stream writes into the last message.
LEMMA WrittenFit ==
  ASSUME DeskInv, desk.sending, NEW text \in Texts, text # "result", NEW l, SameVotes(l),
         ~desk.raced /\ (l.acc \/ l.notice) => text # "empty"
  PROVE  DeskFits(WithLast(desk, text), l)
<1>0. desk \in DeskRec /\ line \in LineRec /\ desk.thread # <<>>
  BY DeskParts DEF GhostFree
<1> DEFINE d == WithLast(desk, text)
<1>1. /\ d \in DeskRec /\ Len(d.thread) = Len(desk.thread) /\ d.thread[Len(desk.thread)].text = text
      /\ d.thread[Len(desk.thread)].of = line.turn
      /\ \A i \in 1 .. Len(desk.thread) : i # Len(desk.thread) => d.thread[i] = desk.thread[i]
      /\ d.sending = desk.sending /\ d.raced = desk.raced /\ d.votes = desk.votes
  BY <1>0, WithLastIs
<1> HIDE DEF d
<1>2. LastOnly(d)
  BY <1>1 DEF LastOnly
<1>3. DeskFits(d, l)
  BY <1>1, <1>2, WritesFit
<1> QED
  BY <1>3 DEF d

\* The end of a stream with something to say.
LEMMA EndedFit ==
  ASSUME DeskInv, desk.sending, NEW d, LastOnly(d), d.raced \/ (line.notice /\ line.reason) \/ d.thread[Len(d.thread)].text # "empty"
  PROVE  DeskFits(Ended(d), line)
<1> DEFINE e == [d EXCEPT !.sending = FALSE]
<1>1. /\ d \in DeskRec /\ Len(d.thread) = Len(desk.thread) /\ d.votes = desk.votes /\ d.raced = desk.raced
      /\ d.thread[Len(desk.thread)].text # "result" /\ d.thread[Len(desk.thread)].of = line.turn
      /\ \A i \in 1 .. Len(desk.thread) : i # Len(desk.thread) => d.thread[i] = desk.thread[i]
  BY DEF LastOnly
<1>2. e \in DeskRec /\ e.thread = d.thread /\ e.votes = d.votes /\ e.raced = d.raced /\ e.sending = FALSE
  BY <1>1 DEF DeskRec
<1> HIDE DEF e
<1>3. LastOnly(e)
  BY <1>1, <1>2 DEF LastOnly
<1>4. SameVotes(line)
  BY DeskParts DEF SameVotes
<1>5. ~e.sending /\ (e.raced \/ (line.notice /\ line.reason) \/ e.thread[Len(e.thread)].text # "empty")
  BY <1>2
<1>6. DeskFits(e, line)
  BY <1>3, <1>4, <1>5, WritesFit
<1> QED
  BY <1>6 DEF e, Ended

\* The words a stream writes are an answer.
LEMMA WordsAre == Words \in Texts /\ Words # "result" /\ {"words", "none", "notice"} \subseteq Texts
BY DEF Words, Texts

\* Pieces, thoughts, tool calls and refusals write into the last message.
LEMMA SpeakingStep ==
  ASSUME DeskInv, Piece \/ Thought \/ ToolCall \/ Refusal
  PROVE  DeskInv'
<1>0. /\ line \in LineRec /\ line.acc \in BOOLEAN /\ line.reason \in BOOLEAN /\ line.notice \in BOOLEAN
      /\ desk.sending /\ ~line.notice
  BY DeskParts DEF LineRec, Piece, Thought, ToolCall, Refusal, Speaking
<1>w. (line.acc => Words = "words") /\ "words" # "empty" /\ "words" # "result" /\ "notice" # "empty" /\ "notice" # "result"
  BY DEF Words
<1>1. CASE Piece
  <2> DEFINE l == [line EXCEPT !.acc = TRUE]
  <2>1. line' = l /\ desk' = WithLast(desk, "words")
    BY <1>1 DEF Piece
  <2>2. SameVotes(l)
    BY <1>0 DEF SameVotes, LineRec
  <2> HIDE DEF l
  <2>3. DeskFits(WithLast(desk, "words"), l)
    BY <1>0, <1>w, <2>2, WordsAre, WrittenFit
  <2> QED
    BY <2>1, <2>3 DEF DeskInv
<1>2. CASE Thought
  <2> DEFINE l == [line EXCEPT !.reason = TRUE]
  <2>1. line' = l /\ desk' = WithLast(desk, Words)
    BY <1>2 DEF Thought
  <2>2. SameVotes(l) /\ l.acc = line.acc /\ l.notice = line.notice
    BY <1>0 DEF SameVotes, LineRec
  <2> HIDE DEF l
  <2>3. DeskFits(WithLast(desk, Words), l)
    BY <1>0, <1>w, <2>2, WordsAre, WrittenFit
  <2> QED
    BY <2>1, <2>3 DEF DeskInv
<1>3. CASE ToolCall
  <2>1. line' = line /\ desk' = WithLast(desk, Words)
    BY <1>3 DEF ToolCall
  <2>2. SameVotes(line)
    BY <1>0 DEF SameVotes
  <2>3. DeskFits(WithLast(desk, Words), line)
    BY <1>0, <1>w, <2>2, WordsAre, WrittenFit
  <2> QED
    BY <2>1, <2>3 DEF DeskInv
<1>4. CASE Refusal
  <2> DEFINE l == [line EXCEPT !.notice = TRUE]
  <2>1. line' = l /\ desk' = WithLast(desk, "notice")
    BY <1>4 DEF Refusal
  <2>2. SameVotes(l)
    BY <1>0 DEF SameVotes, LineRec
  <2> HIDE DEF l
  <2>3. DeskFits(WithLast(desk, "notice"), l)
    BY <1>0, <1>w, <2>2, WordsAre, WrittenFit
  <2> QED
    BY <2>1, <2>3 DEF DeskInv
<1> QED
  BY <1>1, <1>2, <1>3, <1>4

\* A card on the last message changes no words.
LEMMA CardStep ==
  ASSUME DeskInv, CardArrives
  PROVE  DeskInv'
<1> USE SupportAssumption
<1> DEFINE c == line.tokens + 1
           n == Len(desk.thread)
           l == [line EXCEPT !.tokens = c]
<1>0. /\ desk \in DeskRec /\ line \in LineRec /\ desk.thread \in Seq(MessageRec) /\ n \in Nat
      /\ desk.thread # <<>> /\ DOMAIN desk.thread = 1 .. n
  BY DeskParts DEF GhostFree, CardArrives, Speaking
<1>1. c \in 0 .. MaxTokens /\ line' = l
  BY <1>0 DEF CardArrives, LineRec
<1> HIDE DEF c
<1>2. SameVotes(l) /\ l.acc = line.acc /\ l.notice = line.notice /\ l.reason = line.reason
  BY <1>0, <1>1 DEF SameVotes, LineRec
<1> HIDE DEF l
<1>3. CASE EndOf(desk.thread).who # "assistant"
  <2>1. desk' = desk
    BY <1>3 DEF CardArrives
  <2>2. DeskFits(desk, l)
    BY <1>0, <1>2, SameWordsFit
  <2> QED
    BY <1>1, <2>1, <2>2 DEF DeskInv
<1>4. CASE EndOf(desk.thread).who = "assistant"
  <2> DEFINE m == [desk.thread[n] EXCEPT !.card = c]
             u == [desk.thread EXCEPT ![n] = m]
             d == [desk EXCEPT !.thread = u]
  <2>1. n \in 1 .. n /\ desk.thread[n] \in MessageRec
    BY <1>0, EmptySeq, ElementOfSeq
  <2>2. desk' = d
    BY <1>0, <1>4, <2>1 DEF CardArrives, DeskRec, MessageRec, c
  <2>3. m \in MessageRec /\ m.text = desk.thread[n].text /\ m.of = desk.thread[n].of
    BY <1>1, <2>1 DEF MessageRec
  <2> HIDE DEF m
  <2>4. u \in Seq(MessageRec) /\ Len(u) = n /\ u[n] = m /\ \A i \in 1 .. n : i # n => u[i] = desk.thread[i]
    <3>1. u \in Seq(MessageRec) /\ Len(u) = Len(desk.thread)
      BY <1>0, <2>1, <2>3, ExceptSeq
    <3> QED
      BY <1>0, <2>1, <3>1
  <2> HIDE DEF u
  <2>5. d \in DeskRec /\ d.thread = u /\ d.sending = desk.sending /\ d.raced = desk.raced /\ d.votes = desk.votes
    BY <1>0, <2>4 DEF DeskRec
  <2> HIDE DEF d
  <2>6. \A i \in 1 .. n : d.thread[i].text = desk.thread[i].text /\ d.thread[i].of = desk.thread[i].of
    BY <2>3, <2>4, <2>5
  <2>7. DeskFits(d, l)
    BY <1>2, <2>4, <2>5, <2>6, SameWordsFit
  <2> QED
    BY <1>1, <2>2, <2>7 DEF DeskInv
<1> QED
  BY <1>3, <1>4

\* A confirmation changes no words.
LEMMA ConfirmStep ==
  ASSUME DeskInv, NEW i \in DOMAIN desk.thread, Confirm(i)
  PROVE  DeskInv'
<1> USE SupportAssumption
<1> DEFINE c == desk.thread[i].card
           F == line.confirms \cup {c}
           k == line.asked + 1
           d == [desk EXCEPT !.confirming = c]
           l == [line EXCEPT !.confirms = F, !.asked = k]
<1>0. desk \in DeskRec /\ line \in LineRec /\ desk.thread[i] \in MessageRec
  BY DeskParts, ElementOfSeq
<1>1. c \in 0 .. MaxTokens /\ c # 0 /\ desk' = d /\ line' = l
  BY <1>0 DEF Confirm, MessageRec, LineRec
<1>2. F \in SUBSET (1 .. MaxTokens) /\ k \in Nat
  BY <1>0, <1>1 DEF LineRec
<1> HIDE DEF c, F, k
<1>3. /\ d \in DeskRec /\ d.thread = desk.thread /\ d.sending = desk.sending /\ d.raced = desk.raced
      /\ d.votes = desk.votes
  BY <1>0, <1>1 DEF DeskRec
<1>4. SameVotes(l) /\ l.acc = line.acc /\ l.notice = line.notice /\ l.reason = line.reason
  BY <1>0, <1>2 DEF SameVotes, LineRec
<1> HIDE DEF d, l
<1>5. DeskFits(d, l)
  BY <1>3, <1>4, SameWordsFit
<1> QED
  BY <1>1, <1>5 DEF DeskInv

\* The end of a stream, told or broken.
LEMMA EndStep ==
  ASSUME DeskInv, StreamEndsWell \/ StreamBreaks
  PROVE  DeskInv'
<1>0. /\ desk \in DeskRec /\ line \in LineRec /\ line.acc \in BOOLEAN /\ line.reason \in BOOLEAN
      /\ line.notice \in BOOLEAN /\ desk.sending /\ desk.thread # <<>> /\ GhostFree(desk, line)
  BY DeskParts DEF LineRec, StreamEndsWell, StreamBreaks, GhostFree
<1>w. "none" # "empty" /\ "none" # "result" /\ "words" # "empty" /\ "none" \in Texts
  BY WordsAre
<1>1. ASSUME NEW text \in Texts, text # "result", text # "empty" \/ (line.notice /\ line.reason)
      PROVE  DeskFits(Ended(WithLast(desk, text)), line)
  <2> DEFINE d == WithLast(desk, text)
  <2>1. /\ d \in DeskRec /\ Len(d.thread) = Len(desk.thread) /\ d.thread[Len(desk.thread)].text = text
        /\ d.thread[Len(desk.thread)].of = line.turn
        /\ \A i \in 1 .. Len(desk.thread) : i # Len(desk.thread) => d.thread[i] = desk.thread[i]
        /\ d.sending = desk.sending /\ d.raced = desk.raced /\ d.votes = desk.votes
    BY <1>0, WithLastIs
  <2> HIDE DEF d
  <2>2. LastOnly(d)
    BY <1>1, <2>1 DEF LastOnly
  <2>3. DeskFits(Ended(d), line)
    BY <1>0, <1>1, <2>1, <2>2, EndedFit
  <2> QED
    BY <2>3 DEF d
<1>2. DeskFits(Ended(WithLast(WithLast(desk, Words), "none")), line)
  <2> DEFINE d == WithLast(desk, Words)
             e == WithLast(d, "none")
  <2>1. /\ d \in DeskRec /\ Len(d.thread) = Len(desk.thread)
        /\ \A i \in 1 .. Len(desk.thread) : i # Len(desk.thread) => d.thread[i] = desk.thread[i]
        /\ d.sending = desk.sending /\ d.raced = desk.raced /\ d.votes = desk.votes
        /\ Len(desk.thread) \in Nat /\ Len(desk.thread) > 0
    BY <1>0, WordsAre, WithLastIs
  <2> HIDE DEF d
  <2>2. d.thread # <<>>
    BY <2>1, EmptySeq
  <2>3. /\ e \in DeskRec /\ Len(e.thread) = Len(d.thread) /\ e.thread[Len(d.thread)].text = "none"
        /\ e.thread[Len(d.thread)].of = line.turn
        /\ \A i \in 1 .. Len(d.thread) : i # Len(d.thread) => e.thread[i] = d.thread[i]
        /\ e.sending = d.sending /\ e.raced = d.raced /\ e.votes = d.votes
    BY <1>0, <1>w, <2>1, <2>2, WithLastIs
  <2> HIDE DEF e
  <2>4. LastOnly(e)
    BY <1>w, <2>1, <2>3 DEF LastOnly
  <2>5. DeskFits(Ended(e), line)
    BY <1>0, <1>w, <2>1, <2>3, <2>4, EndedFit
  <2> QED
    BY <2>5 DEF d, e
<1>3. ASSUME line.acc \/ line.notice PROVE DeskFits(Ended(desk), line)
  <2> DEFINE d == [desk EXCEPT !.sending = FALSE]
  <2>1. /\ d \in DeskRec /\ d.thread = desk.thread /\ d.votes = desk.votes /\ d.raced = desk.raced /\ d.sending = FALSE
    BY <1>0 DEF DeskRec
  <2> HIDE DEF d
  <2>2. GhostFree(d, line)
    BY <1>0, <1>3, <2>1 DEF GhostFree
  <2>3. VotesPast(d, line)
    BY <2>1, DeskParts DEF VotesPast
  <2>4. DeskFits(d, line)
    BY <2>1, <2>2, <2>3, DeskParts DEF DeskFits
  <2> QED
    BY <2>4 DEF d, Ended
<1>4. CASE StreamBreaks
  BY <1>1, <1>4, <1>w DEF StreamBreaks, DeskInv
<1>5. CASE StreamEndsWell
  <2>0. line' = line
    BY <1>5 DEF StreamEndsWell
  <2>1. CASE line.reason /\ ~line.acc /\ ~line.notice
    <3>1. desk' = Ended(WithLast(WithLast(desk, Words), "none"))
      BY <1>5, <2>1 DEF StreamEndsWell
    <3> QED
      BY <1>2, <2>0, <3>1 DEF DeskInv
  <2>2. CASE line.reason /\ (line.acc \/ line.notice)
    <3>1. desk' = Ended(WithLast(desk, Words))
      BY <1>5, <2>2 DEF StreamEndsWell
    <3>2. Words # "empty" \/ (line.notice /\ line.reason)
      BY <2>2 DEF Words
    <3>3. DeskFits(Ended(WithLast(desk, Words)), line)
      BY <1>1, <3>2, WordsAre
    <3> QED
      BY <2>0, <3>1, <3>3 DEF DeskInv
  <2>3. CASE ~line.reason /\ ~line.acc /\ ~line.notice
    <3>1. desk' = Ended(WithLast(desk, "none"))
      BY <1>5, <2>3 DEF StreamEndsWell
    <3> QED
      BY <1>1, <1>w, <2>0, <3>1 DEF DeskInv
  <2>4. CASE ~line.reason /\ (line.acc \/ line.notice)
    <3>1. desk' = Ended(desk)
      BY <1>5, <2>4 DEF StreamEndsWell
    <3> QED
      BY <1>3, <2>0, <2>4, <3>1 DEF DeskInv
  <2> QED
    BY <1>0, <2>1, <2>2, <2>3, <2>4
<1> QED
  BY <1>4, <1>5

\* A stop keeps the words that arrived, or drops the empty message.
LEMMA StopStep ==
  ASSUME DeskInv, StopAnswer
  PROVE  DeskInv'
<1>0. /\ desk \in DeskRec /\ line \in LineRec /\ line.acc \in BOOLEAN /\ desk.sending /\ desk.thread # <<>>
      /\ desk.thread \in Seq(MessageRec) /\ Len(desk.thread) \in Nat
  BY DeskParts DEF LineRec, StopAnswer, GhostFree
<1>1. desk' = Aborted(desk) /\ line' = line
  BY DEF StopAnswer
<1>2. CASE line.acc
  <2> DEFINE d == WithLast(desk, "words")
  <2>1. /\ d \in DeskRec /\ Len(d.thread) = Len(desk.thread) /\ d.thread[Len(desk.thread)].text = "words"
        /\ d.thread[Len(desk.thread)].of = line.turn
        /\ \A i \in 1 .. Len(desk.thread) : i # Len(desk.thread) => d.thread[i] = desk.thread[i]
        /\ d.sending = desk.sending /\ d.raced = desk.raced /\ d.votes = desk.votes
    BY <1>0, WordsAre, WithLastIs
  <2>2. desk' = Ended(d)
    BY <1>1, <1>2 DEF Aborted
  <2> HIDE DEF d
  <2>3. LastOnly(d)
    BY <2>1 DEF LastOnly
  <2>4. DeskFits(Ended(d), line)
    BY <1>0, <2>1, <2>3, EndedFit
  <2> QED
    BY <1>1, <2>2, <2>4 DEF DeskInv
<1>3. CASE ~line.acc
  <2> DEFINE u == DropLast(desk.thread)
             d == [desk EXCEPT !.thread = u, !.sending = FALSE]
  <2>1. desk' = d
    BY <1>0, <1>1, <1>3 DEF Aborted, Ended, DeskRec
  <2>2. u \in Seq(MessageRec) /\ Len(u) = Len(desk.thread) - 1 /\ \A i \in 1 .. Len(u) : u[i] = desk.thread[i]
    <3>1. Len(desk.thread) - 1 \in 0 .. Len(desk.thread) /\ 1 \in 1 .. Len(desk.thread) + 1
      BY <1>0, EmptySeq
    <3>2. u \in Seq(MessageRec)
      BY <1>0, <3>1, SubSeqProperties DEF DropLast
    <3>3. Len(u) = Len(desk.thread) - 1 /\ \A i \in 1 .. Len(u) : u[i] = desk.thread[i]
      BY <1>0, <3>1 DEF DropLast
    <3> QED
      BY <3>2, <3>3
  <2> HIDE DEF u
  <2>3. d \in DeskRec /\ d.thread = u /\ d.votes = desk.votes /\ d.raced = desk.raced /\ d.sending = FALSE
    BY <1>0, <2>2 DEF DeskRec
  <2> HIDE DEF d
  <2>4. Len(d.thread) <= Len(desk.thread) /\ Len(d.thread) < Len(desk.thread)
    BY <1>0, <2>2, <2>3
  <2>5. DeskFits(d, line)
    BY <2>2, <2>3, <2>4, ShorterFits
  <2> QED
    BY <1>1, <2>1, <2>5 DEF DeskInv
<1> QED
  BY <1>0, <1>2, <1>3

\* A new conversation has neither words nor marks.
LEMMA NewStep ==
  ASSUME DeskInv, NewConversation
  PROVE  DeskInv'
<1> USE SupportAssumption
<1> DEFINE e == <<>>
           d == [desk EXCEPT !.thread = e, !.votes = e, !.confirming = 0, !.raced = FALSE, !.sending = FALSE]
<1>0. desk \in DeskRec /\ Len(desk.thread) \in Nat
  BY DeskParts
<1>1. desk' = d /\ line' = line
  <2>1. desk.sending \in BOOLEAN
    BY <1>0 DEF DeskRec
  <2>2. CASE desk.sending
    BY <1>0, <2>2 DEF NewConversation, Aborted, Ended, Emptied, WithLast, DeskRec
  <2>3. CASE ~desk.sending
    BY <1>0, <2>1, <2>3 DEF NewConversation, Emptied, DeskRec
  <2> QED
    BY <2>1, <2>2, <2>3 DEF NewConversation
<1>2. e \in VoteMaps /\ e \in Seq(MessageRec) /\ Len(e) = 0
  <2>1. e \in [{} -> VoteRec]
    BY DEF VoteRec
  <2>2. {} \in SUBSET Nat
    OBVIOUS
  <2> QED
    BY <2>1, <2>2, EmptySeq DEF VoteMaps
<1>3. 0 \in 0 .. MaxTokens
  OBVIOUS
<1>4. d.thread = <<>> /\ d.thread = e
  BY <1>0 DEF DeskRec
<1> HIDE DEF e
<1>5. d \in DeskRec /\ d.sending = FALSE
  BY <1>0, <1>2, <1>3 DEF DeskRec
<1> HIDE DEF d
<1>6. Len(d.thread) <= Len(desk.thread) /\ \A i \in 1 .. Len(d.thread) : d.thread[i] = desk.thread[i]
  BY <1>0, <1>2, <1>4
<1>7. DeskFits(d, line)
  BY <1>4, <1>5, <1>6, ShorterFits
<1> QED
  BY <1>1, <1>7 DEF DeskInv

\* The earlier thread is put back on an empty one; its answers are of no turn.
LEMMA EarlierStep ==
  ASSUME DeskInv, EarlierLoads \/ ResumeEarlier
  PROVE  DeskInv'
<1>0. desk \in DeskRec /\ line \in LineRec /\ line.turn \in Nat
  BY DeskParts
<1>1. CASE EarlierLoads
  <2>1. PICK found \in {"kept", "none"} : desk' = [desk EXCEPT !.earlier = found]
    BY <1>1 DEF EarlierLoads
  <2> DEFINE d == [desk EXCEPT !.earlier = found]
  <2>2. d \in DeskRec /\ d.thread = desk.thread /\ d.sending = desk.sending /\ d.raced = desk.raced /\ d.votes = desk.votes
    BY <1>0 DEF DeskRec
  <2>3. SameVotes(line) /\ line' = line /\ desk' = d
    BY <1>0, <1>1, <2>1 DEF SameVotes, EarlierLoads
  <2> HIDE DEF d
  <2>4. DeskFits(d, line)
    BY <2>2, <2>3, SameWordsFit
  <2> QED
    BY <2>3, <2>4 DEF DeskInv
<1>2. CASE ResumeEarlier
  <2> DEFINE a == Message("user", "question", 0)
             b == Message("assistant", "earlier", 0)
             u == <<a, b>>
             d == [desk EXCEPT !.earlier = "none", !.thread = u]
  <2>1. desk' = d /\ line' = line /\ ~desk.sending
    BY <1>0, <1>2, DeskParts DEF ResumeEarlier, DeskRec, GhostFree
  <2>2. "question" \in Texts /\ "earlier" \in Texts /\ 0 \in Nat
    BY DEF Texts
  <2>3. a \in MessageRec /\ a.text # "empty" /\ a.of = 0 /\ b \in MessageRec /\ b.text # "empty" /\ b.of = 0
    BY <2>2, MessageIs
  <2> HIDE DEF a, b
  <2>4. u \in Seq(MessageRec) /\ Len(u) = 2 /\ \A i \in 1 .. 2 : u[i] = a \/ u[i] = b
    BY <2>3
  <2> HIDE DEF u
  <2>5. d \in DeskRec /\ d.thread = u /\ d.sending = desk.sending /\ d.votes = desk.votes
    BY <1>0, <2>4 DEF DeskRec
  <2> HIDE DEF d
  <2>6. \A i \in 1 .. Len(d.thread) : d.thread[i].text # "empty" /\ d.thread[i].of = 0
    BY <2>3, <2>4, <2>5
  <2>7. TurnsPast(d.thread, line.turn)
    BY <1>0, <2>6 DEF TurnsPast
  <2>8. GhostFree(d, line)
    BY <2>1, <2>5, <2>6 DEF GhostFree
  <2>9. VotesPast(d, line)
    BY <2>1, <2>5, DeskParts DEF VotesPast
  <2>10. \A x : ~Stands(d.thread, x)
    BY <2>6 DEF Stands
  <2>11. Marked(d.thread, d.votes, line)
    BY <2>10 DEF Marked
  <2>12. DeskFits(d, line)
    BY <2>5, <2>7, <2>8, <2>9, <2>11, DeskParts DEF DeskFits
  <2> QED
    BY <2>1, <2>12 DEF DeskInv
<1> QED
  BY <1>1, <1>2

\* Every step of the support page keeps the invariant.
LEMMA DeskStep == DeskInv /\ [SupportNext]_supportVars => DeskInv'
<1> SUFFICES ASSUME DeskInv, [SupportNext]_supportVars PROVE DeskInv'
  OBVIOUS
<1>1. CASE UNCHANGED supportVars
  BY <1>1 DEF supportVars, DeskInv
<1>2. CASE SupportNext
  BY <1>2, EarlierStep, QuestionStep, RegenerateStep, SpeakingStep, CardStep, EndStep, StopStep, NewStep,
     ConfirmStep, ResultStep, VoteStep, CountStep, LostStep DEF SupportNext
<1> QED
  BY <1>1, <1>2

\* The invariant says what the runs check of the support page.
LEMMA DeskIs == DeskInv => SupportSound /\ SupportTypeOK
<1> SUFFICES ASSUME DeskInv PROVE SupportSound /\ SupportTypeOK
  OBVIOUS
<1>1. NoGhostAnswer
  BY DeskParts DEF NoGhostAnswer, GhostFree
<1>2. OneVoteUnlessCrossed
  <2>1. DOMAIN line.counted = 1 .. Len(line.counted)
    BY DeskParts, LenProperties
  <2> QED
    BY <2>1, DeskParts DEF OneVoteUnlessCrossed, OneVotePerAnswer, OneBallot
<1>3. \A i \in DOMAIN desk.thread : desk.thread[i].text \in Texts /\ desk.thread[i].card \in 0 .. MaxTokens
  <2> SUFFICES ASSUME NEW i \in DOMAIN desk.thread PROVE desk.thread[i].text \in Texts /\ desk.thread[i].card \in 0 .. MaxTokens
    OBVIOUS
  <2>1. desk.thread[i] \in MessageRec
    BY DeskParts, ElementOfSeq
  <2> QED
    BY <2>1 DEF MessageRec
<1>4. desk.confirming \in 0 .. MaxTokens /\ line.confirms \subseteq 1 .. MaxTokens /\ line.turn \in 0 .. MaxTurns /\ line.cast \in 0 .. MaxVotes
  BY DeskParts DEF DeskRec, LineRec
<1> QED
  BY <1>1, <1>2, <1>3, <1>4 DEF SupportSound, SupportTypeOK

-----------------------------------------------------------------------------
(***************************************************************************)
(* Signing in and out.  A submission under which neither the session nor   *)
(* the cookie moved knows where it stands with the portal: its call left   *)
(* with the cookie the browser still has, a refused token is not the       *)
(* session's, and the one fetched then is.  The same for a sign-out.       *)
(***************************************************************************)

\* The sessions of the portal, the calls, a submission, and the page.
SessionRec == [csrf : Nat, user : BOOLEAN, live : BOOLEAN]

AskRec ==
  [kind : {"none", "csrf", "login", "verify", "whoami", "logout"}, cookie : Nat, token : Nat,
   served : BOOLEAN, answer : Nat, set : Nat]

TryRec ==
  [phase : {"none", "post", "fresh", "again", "key", "verify", "who", "over"}, token : Nat,
   password : Passwords, status : Nat, crossed : BOOLEAN, failed : BOOLEAN,
   said : {"", "expired", "blocked", "wrong", "keyfailed", "cancelled", "network"}]

DoorRec ==
  [page : {"login", "app", "refused"}, held : Nat, provider : Nat, retried : BOOLEAN, unsure : BOOLEAN,
   tries : [Submits -> TryRec], moves : Nat]

Callers == 1 .. MaxSubmits + 3

\* t is the token of the live session s; a live session of a user.
TokenIn(v, s, t) == s \in 1 .. Len(v) /\ v[s].live /\ v[s].csrf = t
\* The session s is someone's.
UserIn(v, s) == s \in 1 .. Len(v) /\ v[s].live /\ v[s].user

\* The cookie once the answer of c has landed.
Landed(j, c) == IF c.set = 0 THEN j ELSE c.set

\* The call a submission waits for in each phase.
KindOf(phase) ==
  CASE phase \in {"post", "again"} -> "login"
    [] phase = "fresh" -> "csrf"
    [] phase = "verify" -> "verify"
    [] phase = "who" -> "whoami"
    [] phase \in {"none", "key", "over"} -> "none"

\* A right password was let in, or its key is asked for.
LetIn(v, j, t, c) ==
  \/ c.answer = 302 /\ UserIn(v, Landed(j, c))
  \/ c.answer = 200 /\ c.set = 0 /\ TokenIn(v, j, t.token)

\* Where a submission of a right password stands.
Healthy(v, j, t, c) ==
  /\ t.phase \in {"post", "fresh", "again", "verify", "who"} => c.cookie = j
  /\ t.phase \in {"post", "again", "verify"} => c.token = t.token
  /\ t.phase = "post" /\ c.served =>
       (c.answer = 400 /\ c.set = 0 /\ ~TokenIn(v, j, t.token)) \/ (c.answer # 400 /\ LetIn(v, j, t, c))
  /\ t.phase = "fresh" /\ ~c.served => ~TokenIn(v, j, t.token)
  /\ t.phase = "fresh" /\ c.served => TokenIn(v, Landed(j, c), c.answer) /\ c.answer # t.token
  /\ t.phase = "again" /\ ~c.served => TokenIn(v, j, t.token)
  /\ t.phase = "again" /\ c.served => LetIn(v, j, t, c)
  /\ t.phase = "key" => TokenIn(v, j, t.token)
  /\ t.phase = "verify" /\ ~c.served => TokenIn(v, j, t.token)
  /\ t.phase = "who" /\ ~c.served => UserIn(v, j)
  /\ t.phase \in {"verify", "who"} /\ c.served => c.answer = 200
  /\ t.phase = "over" => t.said = "cancelled"

\* Where a sign-out stands.
Leaving(v, j, c) ==
  /\ c.kind # "none" => c.cookie = j
  /\ c.kind = "csrf" /\ c.served => TokenIn(v, Landed(j, c), c.answer)
  /\ c.kind = "logout" /\ ~c.served => TokenIn(v, j, c.token)
  /\ c.kind = "logout" /\ c.served => c.answer = 302

\* A right password whose submission nothing crossed.
Uncrossed(t) == t.password \in {"right", "key"} /\ ~t.crossed /\ ~t.failed

\* Sessions and their tokens are within the bounds.
VaultFits(v) == v \in Seq(SessionRec) /\ Len(v) <= MaxSessions /\ \A s \in 1 .. Len(v) : v[s].csrf \in 1 .. Len(v)

\* A call knows only sessions there are.
ReplyFits(n, c) ==
  /\ c \in AskRec /\ c.cookie \in 0 .. n /\ c.token \in 0 .. n
  /\ c.kind = "none" => ~c.served
  /\ c.set \in 0 .. n \/ (c.set = ClearCookie /\ c.kind = "logout")
  /\ c.kind = "csrf" /\ c.served => c.answer \in 1 .. n

\* Every caller's call fits.
RepliesFit(n, a) ==
  /\ a \in [Callers -> AskRec] /\ \A w \in Callers : ReplyFits(n, a[w])
  /\ {a[LoginPage].kind, a[Provider].kind} \subseteq {"none", "csrf"}
  /\ a[SignOut].kind \in {"none", "csrf", "logout"}

\* The page knows only tokens there are.
DoorFits(n, d) ==
  /\ d \in DoorRec /\ d.held \in 0 .. n /\ d.provider \in 0 .. n
  /\ \A i \in Submits : d.tries[i].token \in 0 .. n
  /\ d.page # "login" => \A i \in Submits : d.tries[i].phase = "none"
  /\ d.page = "refused" => d.unsure

\* Every submission fits.
TriesFit(v, j, d, a) ==
  /\ \A i \in Submits : a[i].kind = KindOf(d.tries[i].phase)
  /\ \A i \in Submits : Uncrossed(d.tries[i]) => Healthy(v, j, d.tries[i], a[i])

\* The sign-out fits.
OutFits(v, j, d, a) ==
  /\ d.page # "app" => a[SignOut].kind = "none"
  /\ ~d.unsure => Leaving(v, j, a[SignOut])

\* The sessions, the cookie, the page and the calls fit.
SignFits(v, j, d, a) ==
  /\ VaultFits(v) /\ j \in 0 .. Len(v) /\ DoorFits(Len(v), d) /\ RepliesFit(Len(v), a)
  /\ TriesFit(v, j, d, a) /\ OutFits(v, j, d, a)

\* The inductive invariant of signing in and out.
SignInv == SignFits(vault, jar, door, asked)

\* Who has calls out: the submissions and three others.
LEMMA CallersAre ==
  /\ LoginPage \in Callers /\ Provider \in Callers /\ SignOut \in Callers /\ Submits \subseteq Callers
  /\ LoginPage \notin Submits /\ Provider \notin Submits /\ SignOut \notin Submits
  /\ LoginPage # Provider /\ LoginPage # SignOut /\ Provider # SignOut
  /\ \A w \in Callers : w \in Submits \/ w = LoginPage \/ w = Provider \/ w = SignOut
  /\ 0 \notin Submits /\ 0 # SignOut
BY SignInAssumption DEF LoginPage, Provider, SignOut, Callers, Submits

\* A call that leaves, and the first call of a document.
PutCall(kind, cookie, token) == [NoCall EXCEPT !.kind = kind, !.cookie = cookie, !.token = token]
\* The call for a token.
AskFor(cookie) == [NoCall EXCEPT !.kind = "csrf", !.cookie = cookie]

\* A call that leaves.
LEMMA PutCallIs ==
  ASSUME NEW n \in Nat, NEW kind \in {"csrf", "login", "verify", "whoami", "logout"}, NEW cookie \in 0 .. n, NEW token \in 0 .. n
  PROVE  /\ ReplyFits(n, PutCall(kind, cookie, token)) /\ PutCall(kind, cookie, token).kind = kind
         /\ PutCall(kind, cookie, token).cookie = cookie /\ PutCall(kind, cookie, token).token = token
         /\ ~PutCall(kind, cookie, token).served /\ PutCall(kind, cookie, token) \in AskRec
<1> DEFINE c == PutCall(kind, cookie, token)
<1>1. c.kind = kind /\ c.cookie = cookie /\ c.token = token /\ ~c.served /\ c.set = 0
  BY DEF PutCall, NoCall
<1>2. cookie \in Nat /\ token \in Nat /\ 0 \in 0 .. n /\ kind # "none"
  OBVIOUS
<1>3. c \in AskRec
  BY <1>2 DEF PutCall, NoCall, AskRec
<1> HIDE DEF c
<1>4. ReplyFits(n, c)
  BY <1>1, <1>2, <1>3 DEF ReplyFits
<1> QED
  BY <1>1, <1>3, <1>4 DEF c

\* The first call of a document.
LEMMA PutCallForIs ==
  ASSUME NEW n \in Nat, NEW cookie \in 0 .. n
  PROVE  /\ ReplyFits(n, AskFor(cookie)) /\ AskFor(cookie).kind = "csrf" /\ AskFor(cookie) \in AskRec
<1> DEFINE c == AskFor(cookie)
<1>1. c.kind = "csrf" /\ c.cookie = cookie /\ c.token = 0 /\ ~c.served /\ c.set = 0
  BY DEF AskFor, NoCall
<1>2. cookie \in Nat /\ 0 \in 0 .. n
  OBVIOUS
<1>3. c \in AskRec
  BY <1>2 DEF AskFor, NoCall, AskRec
<1> HIDE DEF c
<1>4. ReplyFits(n, c)
  BY <1>1, <1>2, <1>3 DEF ReplyFits
<1> QED
  BY <1>1, <1>3, <1>4 DEF c

\* No call.
LEMMA NoCallIs ==
  ASSUME NEW n \in Nat
  PROVE  ReplyFits(n, NoCall) /\ NoCall.kind = "none" /\ ~NoCall.served /\ NoCall \in AskRec
<1>1. NoCall \in AskRec /\ NoCall.kind = "none" /\ ~NoCall.served /\ NoCall.cookie = 0 /\ NoCall.token = 0 /\ NoCall.set = 0
  BY DEF NoCall, AskRec
<1>2. 0 \in 0 .. n
  OBVIOUS
<1> QED
  BY <1>1, <1>2 DEF ReplyFits

\* The door of a document that loads.
BlankAt(p, m) == [Blank EXCEPT !.page = p, !.moves = m]

\* It has tried nothing.
LEMMA BlankIs ==
  ASSUME NEW p \in {"login", "app"}, NEW m \in Nat
  PROVE  /\ BlankAt(p, m) \in DoorRec /\ BlankAt(p, m).page = p /\ BlankAt(p, m).held = 0
         /\ BlankAt(p, m).provider = 0 /\ \A i \in Submits : BlankAt(p, m).tries[i] = NoTry
<1>1. NoTry \in TryRec
  BY DEF NoTry, TryRec, Passwords
<1>2. [i \in Submits |-> NoTry] \in [Submits -> TryRec]
  BY <1>1
<1> QED
  BY <1>2 DEF BlankAt, Blank, DoorRec

\* A document that loads starts over.
LEMMA LoadsFit ==
  ASSUME NEW v, VaultFits(v), NEW j \in 0 .. Len(v),
         NEW d \in DoorRec, d.page # "refused", d.held = 0, d.provider = 0, \A i \in Submits : d.tries[i] = NoTry,
         NEW a, a \in [Callers -> AskRec],
         {a[LoginPage], a[Provider]} \subseteq {NoCall, AskFor(j), PutCall("csrf", j, 0)},
         \A w \in Callers : w # LoginPage /\ w # Provider => a[w] = NoCall
  PROVE  SignFits(v, j, d, a)
<1> USE SignInAssumption
<1> DEFINE n == Len(v)
<1>1. n \in Nat /\ 0 \in 0 .. n
  BY LenProperties DEF VaultFits
<1>2. NoTry.token = 0 /\ NoTry.phase = "none" /\ NoTry.password = "wrong"
  BY DEF NoTry
<1>4. DoorFits(n, d)
  BY <1>1, <1>2 DEF DoorFits
<1>5. ReplyFits(n, AskFor(j)) /\ AskFor(j).kind = "csrf" /\ ReplyFits(n, PutCall("csrf", j, 0)) /\ PutCall("csrf", j, 0).kind = "csrf"
  BY <1>1, PutCallIs, PutCallForIs
<1>6. ReplyFits(n, NoCall) /\ NoCall.kind = "none"
  BY <1>1, NoCallIs
<1>0. a[SignOut] = NoCall
  BY CallersAre
<1>7. RepliesFit(n, a)
  <2>1. \A w \in Callers : ReplyFits(n, a[w])
    BY <1>5, <1>6
  <2> HIDE DEF n
  <2> QED
    BY <1>0, <1>5, <1>6, <2>1 DEF RepliesFit
<1>8. TriesFit(v, j, d, a)
  <2>1. \A i \in Submits : a[i] = NoCall /\ d.tries[i] = NoTry
    BY CallersAre
  <2>2. KindOf("none") = "none"
    BY DEF KindOf
  <2> QED
    BY <1>2, <1>6, <2>1, <2>2 DEF TriesFit, Uncrossed
<1>9. OutFits(v, j, d, a)
  BY <1>0, <1>6 DEF OutFits, Leaving
<1> QED
  BY <1>4, <1>7, <1>8, <1>9 DEF SignFits

\* DocumentLoads keeps the invariant.
LEMMA DocumentFits ==
  ASSUME NEW v, VaultFits(v), NEW j \in 0 .. Len(v), NEW p \in {"login", "app"}, door \in DoorRec, DocumentLoads(p, j)
  PROVE  SignFits(v, j, door', asked')
<1> DEFINE d == BlankAt(p, door.moves)
           x == IF p = "login" THEN AskFor(j) ELSE NoCall
           a == [NoCalls EXCEPT ![Provider] = AskFor(j), ![LoginPage] = x]
<1>1. door' = d /\ asked' = a
  BY DEF DocumentLoads, AskFor, BlankAt
<1>2. d \in DoorRec /\ d.page = p /\ d.held = 0 /\ d.provider = 0 /\ \A i \in Submits : d.tries[i] = NoTry
  <2>1. door.moves \in Nat
    BY DEF DoorRec
  <2> QED
    BY <2>1, BlankIs
<1>3. Len(v) \in Nat
  BY LenProperties DEF VaultFits
<1>4. NoCall \in AskRec /\ AskFor(j) \in AskRec /\ x \in {NoCall, AskFor(j)}
  BY <1>3, NoCallIs, PutCallForIs
<1>5. NoCalls \in [Callers -> AskRec] /\ \A w \in Callers : NoCalls[w] = NoCall
  BY <1>4 DEF NoCalls, Callers
<1> HIDE DEF x, d
<1>6. /\ a \in [Callers -> AskRec] /\ a[LoginPage] = x /\ a[Provider] = AskFor(j)
      /\ \A w \in Callers : w # LoginPage /\ w # Provider => a[w] = NoCall
  BY <1>4, <1>5, CallersAre
<1> HIDE DEF a
<1> QED
  BY <1>1, <1>2, <1>4, <1>6, LoadsFit

\* The login page starts within the invariant.
LEMMA SignInitInv == SignInInit => SignInv
<1> SUFFICES ASSUME SignInInit PROVE SignInv
  OBVIOUS
<1>1. vault = <<>> /\ jar = 0 /\ Len(vault) = 0 /\ jar \in 0 .. Len(vault)
  BY DEF SignInInit, NoCookie
<1>2. VaultFits(vault)
  BY <1>1, EmptySeq, SignInAssumption DEF VaultFits
<1>3. /\ door \in DoorRec /\ door.page = "login" /\ door.held = 0 /\ door.provider = 0
      /\ \A i \in Submits : door.tries[i] = NoTry
  <2>1. NoTry \in TryRec
    BY DEF NoTry, TryRec, Passwords
  <2>2. [i \in Submits |-> NoTry] \in [Submits -> TryRec]
    BY <2>1
  <2>3. door = Blank
    BY DEF SignInInit
  <2> QED
    BY <2>2, <2>3 DEF Blank, DoorRec
<1> DEFINE x == PutCall("csrf", jar, 0)
<1>4. asked = [NoCalls EXCEPT ![LoginPage] = x, ![Provider] = x]
  BY DEF SignInInit, Leaves, PutCall
<1>5. NoCall \in AskRec /\ x \in AskRec
  BY <1>1, NoCallIs, PutCallIs
<1>6. NoCalls \in [Callers -> AskRec] /\ \A w \in Callers : NoCalls[w] = NoCall
  BY <1>5 DEF NoCalls, Callers
<1> HIDE DEF x
<1>7. /\ asked \in [Callers -> AskRec] /\ asked[LoginPage] = x /\ asked[Provider] = x
      /\ \A w \in Callers : w # LoginPage /\ w # Provider => asked[w] = NoCall
  BY <1>4, <1>5, <1>6, CallersAre
<1>8. {asked[LoginPage], asked[Provider]} \subseteq {NoCall, AskFor(jar), PutCall("csrf", jar, 0)}
  BY <1>7 DEF x
<1> QED
  BY <1>1, <1>2, <1>3, <1>7, <1>8, LoadsFit DEF SignInv

\* What the invariant says part by part.
LEMMA SignParts ==
  ASSUME SignInv
  PROVE  /\ VaultFits(vault) /\ jar \in 0 .. Len(vault) /\ DoorFits(Len(vault), door) /\ RepliesFit(Len(vault), asked)
         /\ TriesFit(vault, jar, door, asked) /\ OutFits(vault, jar, door, asked)
         /\ vault \in Seq(SessionRec) /\ Len(vault) \in Nat /\ door \in DoorRec /\ asked \in [Callers -> AskRec]
         /\ \A i \in Submits : door.tries[i] \in TryRec /\ door.tries[i].token \in 0 .. Len(vault)
         /\ \A w \in Callers : asked[w] \in AskRec /\ ReplyFits(Len(vault), asked[w])
<1>1. /\ VaultFits(vault) /\ jar \in 0 .. Len(vault) /\ DoorFits(Len(vault), door) /\ RepliesFit(Len(vault), asked)
      /\ TriesFit(vault, jar, door, asked) /\ OutFits(vault, jar, door, asked)
  BY DEF SignInv, SignFits
<1>2. vault \in Seq(SessionRec) /\ Len(vault) \in Nat
  BY <1>1, LenProperties DEF VaultFits
<1>3. door \in DoorRec /\ asked \in [Callers -> AskRec]
  BY <1>1 DEF DoorFits, RepliesFit
<1>4. \A i \in Submits : door.tries[i] \in TryRec
  BY <1>3 DEF DoorRec
<1> QED
  BY <1>1, <1>2, <1>3, <1>4 DEF DoorFits, RepliesFit

\* A submission the session moved under.
SameTry(t, u) ==
  /\ u.phase = t.phase /\ u.token = t.token /\ u.password = t.password /\ u.failed = t.failed /\ u.said = t.said
  /\ t.crossed => u.crossed

\* What Crossed changes.
LEMMA CrossedIs ==
  ASSUME door \in DoorRec, NEW who, NEW moved, moved \in BOOLEAN
  PROVE  /\ Crossed(door, who, moved) \in DoorRec
         /\ Crossed(door, who, moved).page = door.page /\ Crossed(door, who, moved).held = door.held
         /\ Crossed(door, who, moved).provider = door.provider /\ Crossed(door, who, moved).moves = door.moves
         /\ \A i \in Submits : SameTry(door.tries[i], Crossed(door, who, moved).tries[i])
         /\ \A i \in Submits : i = who => Crossed(door, who, moved).tries[i] = door.tries[i]
         /\ \A i \in Submits : moved /\ i # who /\ Active(door.tries[i]) => Crossed(door, who, moved).tries[i].crossed
         /\ door.unsure => Crossed(door, who, moved).unsure
         /\ moved /\ who # SignOut /\ asked[SignOut].kind # "none" => Crossed(door, who, moved).unsure
         /\ ~moved => Crossed(door, who, moved) = door
         /\ who = SignOut => Crossed(door, who, moved).unsure = door.unsure
<1>0. door.tries \in [Submits -> TryRec] /\ \A i \in Submits : door.tries[i] \in TryRec
  BY DEF DoorRec
<1>1. CASE ~moved
  <2>1. Crossed(door, who, moved) = door
    BY <1>1 DEF Crossed
  <2> QED
    BY <1>1, <2>1 DEF SameTry
<1>2. CASE moved
  <2> DEFINE tr == [i \in Submits |-> IF i # who /\ Active(door.tries[i])
                                      THEN [door.tries[i] EXCEPT !.crossed = TRUE] ELSE door.tries[i]]
             u == door.unsure \/ (who # SignOut /\ asked[SignOut].kind # "none")
             d == [door EXCEPT !.tries = tr, !.unsure = u]
  <2>1. Crossed(door, who, moved) = d
    BY <1>2 DEF Crossed, DoorRec
  <2>2. \A i \in Submits : /\ tr[i] \in TryRec /\ SameTry(door.tries[i], tr[i])
                           /\ i = who => tr[i] = door.tries[i]
                           /\ i # who /\ Active(door.tries[i]) => tr[i].crossed
    <3> SUFFICES ASSUME NEW i \in Submits
                 PROVE /\ tr[i] \in TryRec /\ SameTry(door.tries[i], tr[i])
                       /\ i = who => tr[i] = door.tries[i]
                       /\ i # who /\ Active(door.tries[i]) => tr[i].crossed
      OBVIOUS
    <3>1. CASE i # who /\ Active(door.tries[i])
      <4>1. PICK t \in TryRec : t = door.tries[i]
        BY <1>0
      <4>2. tr[i] = [t EXCEPT !.crossed = TRUE]
        BY <3>1, <4>1
      <4>3. [t EXCEPT !.crossed = TRUE] \in TryRec /\ SameTry(t, [t EXCEPT !.crossed = TRUE]) /\ [t EXCEPT !.crossed = TRUE].crossed
        BY <4>1 DEF TryRec, SameTry
      <4> QED
        BY <3>1, <4>1, <4>2, <4>3
    <3>2. CASE ~(i # who /\ Active(door.tries[i]))
      <4>1. tr[i] = door.tries[i]
        BY <3>2
      <4> QED
        BY <1>0, <3>2, <4>1 DEF SameTry
    <3> QED
      BY <3>1, <3>2
  <2>3. tr \in [Submits -> TryRec]
    BY <2>2
  <2>4. u \in BOOLEAN /\ (door.unsure => u) /\ (who # SignOut /\ asked[SignOut].kind # "none" => u) /\ (who = SignOut => u = door.unsure)
    BY DEF DoorRec
  <2> HIDE DEF tr, u
  <2>5. /\ d \in DoorRec /\ d.page = door.page /\ d.held = door.held /\ d.provider = door.provider
        /\ d.moves = door.moves /\ d.tries = tr /\ d.unsure = u
    BY <2>3, <2>4 DEF DoorRec
  <2> HIDE DEF d
  <2> QED
    BY <1>2, <2>1, <2>2, <2>4, <2>5
<1> QED
  BY <1>1, <1>2

\* Sessions are only added.
Stable(v, w) == Len(w) \in Nat /\ Len(v) <= Len(w) /\ \A s \in 1 .. Len(v) : w[s] = v[s]

\* What a submission or a sign-out knows stays true when sessions are only added.
LEMMA StableKeeps ==
  ASSUME NEW v, NEW w, Stable(v, w), Len(v) \in Nat, NEW j \in 0 .. Len(v)
  PROVE  /\ \A t : TokenIn(w, j, t) <=> TokenIn(v, j, t)
         /\ UserIn(w, j) <=> UserIn(v, j)
<1>1. j \in 1 .. Len(v) \/ j = 0
  OBVIOUS
<1>2. j \in 1 .. Len(v) => j \in 1 .. Len(w) /\ w[j] = v[j]
  BY DEF Stable
<1>3. 0 \notin 1 .. Len(w) /\ 0 \notin 1 .. Len(v)
  BY DEF Stable
<1> QED
  BY <1>1, <1>2, <1>3 DEF TokenIn, UserIn

\* So a healthy submission stays so.
LEMMA HealthyKeeps ==
  ASSUME NEW v, NEW w, Stable(v, w), Len(v) \in Nat, NEW j \in 0 .. Len(v), NEW t, NEW c, c.set \in 0 .. Len(v), Healthy(v, j, t, c)
  PROVE  Healthy(w, j, t, c)
<1>1. Landed(j, c) \in 0 .. Len(v)
  BY DEF Landed
<1>2. /\ \A x : TokenIn(w, j, x) <=> TokenIn(v, j, x)
      /\ \A x : TokenIn(w, Landed(j, c), x) <=> TokenIn(v, Landed(j, c), x)
      /\ UserIn(w, j) <=> UserIn(v, j)
      /\ UserIn(w, Landed(j, c)) <=> UserIn(v, Landed(j, c))
  BY <1>1, StableKeeps
<1> QED
  BY <1>2 DEF Healthy, LetIn

\* And a sign-out.
LEMMA LeavingKeeps ==
  ASSUME NEW v, NEW w, Stable(v, w), Len(v) \in Nat, NEW j \in 0 .. Len(v), NEW c, ReplyFits(Len(v), c), Leaving(v, j, c)
  PROVE  Leaving(w, j, c)
<1>1. c.kind = "csrf" => Landed(j, c) \in 0 .. Len(v)
  BY DEF Landed, ReplyFits
<1>2. \A x : TokenIn(w, j, x) <=> TokenIn(v, j, x)
  BY StableKeeps
<1>3. c.kind = "csrf" => \A x : TokenIn(w, Landed(j, c), x) <=> TokenIn(v, Landed(j, c), x)
  BY <1>1, StableKeeps
<1> QED
  BY <1>2, <1>3 DEF Leaving

\* The sessions may move under the others, which are then marked; the one who
\* moved them answers for itself.
LEMMA TriesStep ==
  ASSUME SignInv, NEW w, NEW k, NEW who, NEW moved \in BOOLEAN, NEW d, NEW a,
         \A i \in Submits : i # who => a[i] = asked[i] /\ d.tries[i] = Crossed(door, who, moved).tries[i],
         ~moved => k = jar /\ Stable(vault, w),
         who \in Submits =>
           a[who].kind = KindOf(d.tries[who].phase) /\ (Uncrossed(d.tries[who]) => Healthy(w, k, d.tries[who], a[who]))
  PROVE  TriesFit(w, k, d, a)
<1> SUFFICES ASSUME NEW i \in Submits
             PROVE a[i].kind = KindOf(d.tries[i].phase) /\ (Uncrossed(d.tries[i]) => Healthy(w, k, d.tries[i], a[i]))
  BY DEF TriesFit
<1>1. CASE i = who
  BY <1>1
<1>2. CASE i # who
  <2> DEFINE t == door.tries[i]
             u == d.tries[i]
  <2>1. SameTry(t, u) /\ a[i] = asked[i] /\ (moved /\ Active(t) => u.crossed)
    BY <1>2, SignParts, CrossedIs
  <2>2. asked[i].kind = KindOf(t.phase) /\ (Uncrossed(t) => Healthy(vault, jar, t, asked[i]))
    BY SignParts DEF TriesFit
  <2>3. a[i].kind = KindOf(u.phase)
    BY <2>1, <2>2 DEF SameTry
  <2>4. ASSUME Uncrossed(u) PROVE Healthy(w, k, u, a[i])
    <3>1. Uncrossed(t)
      BY <2>1, <2>4 DEF Uncrossed, SameTry
    <3>2. Healthy(vault, jar, u, a[i])
      BY <2>1, <2>2, <3>1 DEF Healthy, LetIn, SameTry
    <3>3. CASE ~moved
      <4>1. asked[i].set \in 0 .. Len(vault)
        <5>1. asked[i].kind # "logout"
          BY <2>2, SignParts DEF TryRec, KindOf
        <5>2. ReplyFits(Len(vault), asked[i])
          BY SignParts, CallersAre
        <5> QED
          BY <5>1, <5>2 DEF ReplyFits
      <4> QED
        BY <2>1, <3>2, <3>3, <4>1, SignParts, HealthyKeeps
    <3>4. CASE moved
      <4>1. u.phase \in {"none", "over"}
        BY <2>1, <2>4, <3>4 DEF Active, Uncrossed, SameTry
      <4> QED
        BY <3>2, <4>1 DEF Healthy
    <3> QED
      BY <3>3, <3>4
  <2> QED
    BY <2>3, <2>4
<1> QED
  BY <1>1, <1>2

\* A sign-out the session moved under is not sure of its end.
LEMMA OutStep ==
  ASSUME SignInv, NEW w, NEW k, NEW who, who # SignOut, NEW moved \in BOOLEAN, NEW d, NEW a,
         a[SignOut] = asked[SignOut], d.page = door.page, Crossed(door, who, moved).unsure => d.unsure,
         ~moved => k = jar /\ Stable(vault, w)
  PROVE  OutFits(w, k, d, a)
<1>1. ReplyFits(Len(vault), asked[SignOut])
  BY SignParts, CallersAre
<1>2. door.unsure => d.unsure
  BY SignParts, CrossedIs
<1>3. moved /\ asked[SignOut].kind # "none" => d.unsure
  BY SignParts, CrossedIs
<1>4. asked[SignOut].kind = "none" => Leaving(w, k, asked[SignOut])
  BY DEF Leaving
<1>5. ~moved /\ ~d.unsure => Leaving(w, k, asked[SignOut])
  BY <1>1, <1>2, SignParts, LeavingKeeps DEF OutFits
<1> QED
  BY <1>3, <1>4, <1>5, SignParts DEF OutFits

\* A vault the portal may come to: no session is forgotten.
Later(v, w) == Len(w) \in Nat /\ Len(v) <= Len(w) /\ (Len(w) <= MaxSessions => VaultFits(w))

\* A session dropped keeps its token.
LEMMA DroppedIs ==
  ASSUME NEW v, VaultFits(v), NEW s \in 1 .. Len(v)
  PROVE  VaultFits(Dropped(v, s)) /\ Len(Dropped(v, s)) = Len(v)
<1> DEFINE x == [v[s] EXCEPT !.live = FALSE]
           w == [v EXCEPT ![s] = x]
<1>0. v \in Seq(SessionRec) /\ Len(v) \in Nat /\ Len(v) <= MaxSessions /\ v[s] \in SessionRec /\ DOMAIN v = 1 .. Len(v)
      /\ \A y \in 1 .. Len(v) : v[y].csrf \in 1 .. Len(v)
  BY LenProperties, ElementOfSeq DEF VaultFits
<1>1. Dropped(v, s) = w
  BY <1>0 DEF Dropped
<1>2. x \in SessionRec /\ x.csrf = v[s].csrf
  BY <1>0 DEF SessionRec
<1> HIDE DEF x
<1>3. w \in Seq(SessionRec) /\ Len(w) = Len(v)
  BY <1>0, <1>2, ExceptSeq
<1>4. \A y \in 1 .. Len(v) : w[y].csrf = v[y].csrf
  BY <1>0, <1>2
<1> QED
  BY <1>0, <1>1, <1>3, <1>4 DEF VaultFits

\* A session added.
LEMMA AddedIs ==
  ASSUME NEW v, VaultFits(v), NEW t \in 1 .. Len(v) + 1, NEW b \in BOOLEAN, NEW w,
         w = Append(v, [csrf |-> t, user |-> b, live |-> TRUE])
  PROVE  /\ Later(v, w) /\ Stable(v, w) /\ Len(w) = Len(v) + 1
         /\ TokenIn(w, Len(v) + 1, t) /\ (b => UserIn(w, Len(v) + 1))
<1> DEFINE x == [csrf |-> t, user |-> b, live |-> TRUE]
           n == Len(v)
           m == n + 1
<1>0. v \in Seq(SessionRec) /\ n \in Nat /\ \A y \in 1 .. n : v[y].csrf \in 1 .. n
  BY LenProperties DEF VaultFits
<1>1. x.csrf = t /\ x.user = b /\ x.live = TRUE
  OBVIOUS
<1>2. x \in SessionRec
  <2>1. t \in Nat
    BY <1>0
  <2> QED
    BY <2>1 DEF SessionRec
<1> HIDE DEF x
<1>3. w \in Seq(SessionRec) /\ Len(w) = m /\ w[m] = x /\ \A y \in 1 .. n : w[y] = v[y]
  <2>1. w = Append(v, x)
    BY DEF x
  <2> QED
    BY <1>0, <1>2, <2>1, AppendProperties
<1>4. m \in Nat /\ n <= m /\ m \in 1 .. m /\ t \in 1 .. m /\ \A y \in 1 .. m : y = m \/ y \in 1 .. n
  BY <1>0
<1>5. \A y \in 1 .. n : y \in 1 .. m
  BY <1>0
<1> HIDE DEF m, n
<1>6. \A y \in 1 .. m : w[y].csrf \in 1 .. m
  BY <1>0, <1>1, <1>3, <1>4, <1>5
<1>7. Later(v, w)
  BY <1>3, <1>4, <1>6 DEF Later, VaultFits, n
<1>8. Stable(v, w)
  BY <1>3, <1>4 DEF Stable, n
<1>9. TokenIn(w, m, t) /\ (b => UserIn(w, m))
  BY <1>1, <1>3, <1>4 DEF TokenIn, UserIn
<1> QED
  BY <1>3, <1>7, <1>8, <1>9 DEF m, n

\* Live, SignedIn and CsrfOk, in the invariant's words.
LEMMA PortalSays ==
  ASSUME SignInv
  PROVE  /\ \A s, t : TokenIn(vault, s, t) <=> (Live(s) /\ vault[s].csrf = t)
         /\ \A s : UserIn(vault, s) <=> SignedIn(s)
         /\ \A c : TokenIn(vault, c.cookie, c.token) <=> CsrfOk(c)
         /\ \A s : Live(s) => s \in 1 .. Len(vault)
<1>1. DOMAIN vault = 1 .. Len(vault)
  BY SignParts, LenProperties
<1> QED
  BY <1>1 DEF TokenIn, UserIn, Live, SignedIn, CsrfOk

\* api_csrf answers the token of the session the browser will have.
LEMMA ServeCsrfIs ==
  ASSUME SignInv, NEW c, c.cookie \in 0 .. Len(vault), NEW r, r = ServeCsrf(c)
  PROVE  /\ Later(vault, r.vault) /\ Stable(vault, r.vault)
         /\ r.answer \in 1 .. Len(r.vault) /\ r.set \in 0 .. Len(r.vault)
         /\ TokenIn(r.vault, IF r.set = 0 THEN c.cookie ELSE r.set, r.answer)
         /\ \A t \in 0 .. Len(vault) : ~TokenIn(vault, c.cookie, t) => r.answer # t
<1> DEFINE n == Len(vault)
           m == n + 1
           w == Append(vault, [csrf |-> m, user |-> FALSE, live |-> TRUE])
<1>0. VaultFits(vault) /\ n \in Nat /\ Later(vault, vault) /\ Stable(vault, vault) /\ m \in 1 .. m /\ m \in Nat /\ m # 0 /\ m \notin 0 .. n
  BY SignParts DEF Later, Stable
<1>1. CASE Live(c.cookie)
  <2>1. r = PortalReply(vault, vault[c.cookie].csrf, 0)
    BY <1>1 DEF ServeCsrf
  <2>2. r.vault = vault /\ r.answer = vault[c.cookie].csrf /\ r.set = 0
    BY <2>1 DEF PortalReply
  <2>3. c.cookie \in 1 .. n /\ TokenIn(vault, c.cookie, vault[c.cookie].csrf)
    BY <1>1, PortalSays
  <2>4. vault[c.cookie].csrf \in 1 .. n /\ 0 \in 0 .. n
    BY <1>0, <2>3 DEF VaultFits
  <2> QED
    BY <1>0, <2>2, <2>3, <2>4
<1>2. CASE ~Live(c.cookie)
  <2>1. r = PortalReply(w, m, m)
    BY <1>2 DEF ServeCsrf
  <2>2. r.vault = w /\ r.answer = m /\ r.set = m
    BY <2>1 DEF PortalReply
  <2>3. Later(vault, w) /\ Stable(vault, w) /\ Len(w) = m /\ TokenIn(w, m, m)
    <3>1. m \in 1 .. n + 1 /\ FALSE \in BOOLEAN
      BY <1>0
    <3> QED
      BY <1>0, <3>1, AddedIs
  <2> HIDE DEF w, m
  <2>4. m \in 1 .. Len(w) /\ m \in 0 .. Len(w)
    BY <1>0, <2>3
  <2> QED
    BY <1>0, <2>2, <2>3, <2>4
<1> QED
  BY <1>1, <1>2

\* apply_session.
LEMMA OpenedIs ==
  ASSUME SignInv, NEW s, Live(s), NEW m, m = Len(vault) + 1
  PROVE  Later(vault, Opened(s)) /\ Len(Opened(s)) = m /\ UserIn(Opened(s), m) /\ m \in Nat /\ m # 0
<1>0. VaultFits(vault) /\ Len(vault) \in Nat /\ s \in 1 .. Len(vault)
  BY SignParts, PortalSays
<1>1. VaultFits(Dropped(vault, s)) /\ Len(Dropped(vault, s)) = Len(vault)
  BY <1>0, DroppedIs
<1>2. vault[s].csrf \in 1 .. Len(vault) + 1
  <2>1. vault[s].csrf \in 1 .. Len(vault)
    BY <1>0 DEF VaultFits
  <2> QED
    BY <1>0, <2>1
<1> DEFINE v == Dropped(vault, s)
           t == vault[s].csrf
<1>3. Opened(s) = Append(v, [csrf |-> t, user |-> TRUE, live |-> TRUE])
  BY DEF Opened
<1>4. VaultFits(v) /\ Len(v) = Len(vault) /\ t \in 1 .. Len(v) + 1
  BY <1>1, <1>2
<1> HIDE DEF v, t
<1>5. /\ Later(v, Opened(s)) /\ Len(Opened(s)) = Len(v) + 1 /\ UserIn(Opened(s), Len(v) + 1)
  BY <1>3, <1>4, AddedIs
<1> QED
  BY <1>0, <1>4, <1>5 DEF Later

\* The login: a right password is refused for its token alone.
LEMMA ServeLoginIs ==
  ASSUME SignInv, NEW c, c.cookie \in 0 .. Len(vault), NEW p \in Passwords, NEW r, r = ServeLogin(c, p)
  PROVE  /\ Later(vault, r.vault) /\ r.answer \in Nat /\ r.set \in 0 .. Len(r.vault) /\ (r.set = 0 => r.vault = vault)
         /\ p \in {"right", "key"} =>
              \/ r.answer = 400 /\ r.set = 0 /\ ~TokenIn(vault, c.cookie, c.token)
              \/ r.answer = 302 /\ UserIn(r.vault, IF r.set = 0 THEN c.cookie ELSE r.set)
              \/ r.answer = 200 /\ r.set = 0 /\ TokenIn(vault, c.cookie, c.token)
<1> DEFINE m == Len(vault) + 1
<1>0. Later(vault, vault) /\ 0 \in 0 .. Len(vault) /\ Len(vault) \in Nat
  BY SignParts DEF Later
<1>1. CASE ~CsrfOk(c)
  <2>1. r = PortalReply(vault, 400, 0)
    BY <1>1 DEF ServeLogin
  <2>2. r.vault = vault /\ r.answer = 400 /\ r.set = 0
    BY <2>1 DEF PortalReply
  <2> QED
    BY <1>0, <1>1, <2>2, PortalSays
<1>2. CASE CsrfOk(c) /\ SignedIn(c.cookie)
  <2>1. r = PortalReply(vault, 302, 0)
    BY <1>2 DEF ServeLogin
  <2>2. r.vault = vault /\ r.answer = 302 /\ r.set = 0
    BY <2>1 DEF PortalReply
  <2> QED
    BY <1>0, <1>2, <2>2, PortalSays
<1>3. CASE CsrfOk(c) /\ ~SignedIn(c.cookie)
  <2>1. CASE p \in {"wrong", "blocked"}
    <3>1. r = PortalReply(vault, 401, 0) \/ r = PortalReply(vault, 403, 0)
      BY <1>3, <2>1 DEF ServeLogin
    <3>2. r.vault = vault /\ r.answer \in Nat /\ r.set = 0
      BY <3>1 DEF PortalReply
    <3> QED
      BY <1>0, <2>1, <3>2
  <2>2. CASE p = "key"
    <3>1. r = PortalReply(vault, 200, 0)
      BY <1>3, <2>2 DEF ServeLogin
    <3>2. r.vault = vault /\ r.answer = 200 /\ r.set = 0
      BY <3>1 DEF PortalReply
    <3> QED
      BY <1>0, <1>3, <3>2, PortalSays
  <2>3. CASE p = "right"
    <3>1. r = PortalReply(Opened(c.cookie), 302, m)
      BY <1>3, <2>3 DEF ServeLogin
    <3>2. r.vault = Opened(c.cookie) /\ r.answer = 302 /\ r.set = m
      BY <3>1 DEF PortalReply
    <3>3. Live(c.cookie)
      BY <1>3 DEF CsrfOk
    <3>4. Later(vault, Opened(c.cookie)) /\ Len(Opened(c.cookie)) = m /\ UserIn(Opened(c.cookie), m) /\ m \in Nat /\ m # 0
      BY <3>3, OpenedIs
    <3> HIDE DEF m
    <3>5. m \in 0 .. Len(r.vault)
      BY <3>2, <3>4
    <3> QED
      BY <3>2, <3>4, <3>5
  <2> QED
    BY <2>1, <2>2, <2>3 DEF Passwords
<1> QED
  BY <1>1, <1>2, <1>3

\* The passkey's answer.
LEMMA ServeVerifyIs ==
  ASSUME SignInv, NEW c, NEW r, r = ServeVerify(c)
  PROVE  /\ Later(vault, r.vault) /\ r.answer \in Nat /\ r.set \in 0 .. Len(r.vault) /\ (r.set = 0 => r.vault = vault)
         /\ TokenIn(vault, c.cookie, c.token) => r.answer = 200
<1> DEFINE m == Len(vault) + 1
<1>0. Later(vault, vault) /\ 0 \in 0 .. Len(vault) /\ Len(vault) \in Nat
  BY SignParts DEF Later
<1>1. CASE ~CsrfOk(c)
  <2>1. r = PortalReply(vault, 400, 0)
    BY <1>1 DEF ServeVerify
  <2>2. r.vault = vault /\ r.answer = 400 /\ r.set = 0
    BY <2>1 DEF PortalReply
  <2> QED
    BY <1>0, <1>1, <2>2, PortalSays
<1>2. CASE CsrfOk(c)
  <2>1. r = PortalReply(Opened(c.cookie), 200, m)
    BY <1>2 DEF ServeVerify
  <2>2. r.vault = Opened(c.cookie) /\ r.answer = 200 /\ r.set = m
    BY <2>1 DEF PortalReply
  <2>3. Live(c.cookie)
    BY <1>2 DEF CsrfOk
  <2>4. Later(vault, Opened(c.cookie)) /\ Len(Opened(c.cookie)) = m /\ m \in Nat /\ m # 0
    BY <2>3, OpenedIs
  <2> HIDE DEF m
  <2>5. m \in 0 .. Len(r.vault)
    BY <2>2, <2>4
  <2> QED
    BY <2>2, <2>4, <2>5
<1> QED
  BY <1>1, <1>2

\* whoami.
LEMMA ServeWhoamiIs ==
  ASSUME SignInv, NEW c, NEW r, r = ServeWhoami(c)
  PROVE  r.vault = vault /\ r.answer \in Nat /\ r.set = 0 /\ (UserIn(vault, c.cookie) => r.answer = 200)
<1>1. SignedIn(c.cookie) <=> UserIn(vault, c.cookie)
  BY PortalSays
<1> QED
  BY <1>1 DEF ServeWhoami, PortalReply

\* The sign-out.
LEMMA ServeLogoutIs ==
  ASSUME SignInv, NEW c, NEW r, r = ServeLogout(c)
  PROVE  /\ Later(vault, r.vault) /\ r.answer \in Nat /\ r.set \in {0, ClearCookie} /\ (r.set = 0 => r.vault = vault)
         /\ TokenIn(vault, c.cookie, c.token) => r.answer = 302
<1>0. Later(vault, vault) /\ VaultFits(vault)
  BY SignParts DEF Later
<1>1. CASE ~CsrfOk(c)
  <2>1. r = PortalReply(vault, 400, 0)
    BY <1>1 DEF ServeLogout
  <2>2. r.vault = vault /\ r.answer = 400 /\ r.set = 0
    BY <2>1 DEF PortalReply
  <2> QED
    BY <1>0, <1>1, <2>2, PortalSays
<1>2. CASE CsrfOk(c)
  <2>1. r = PortalReply(Dropped(vault, c.cookie), 302, ClearCookie)
    BY <1>2 DEF ServeLogout
  <2>2. r.vault = Dropped(vault, c.cookie) /\ r.answer = 302 /\ r.set = ClearCookie
    BY <2>1 DEF PortalReply
  <2>3. c.cookie \in 1 .. Len(vault)
    BY <1>2, PortalSays DEF CsrfOk
  <2>4. Later(vault, Dropped(vault, c.cookie))
    BY <1>0, <2>3, DroppedIs, SignParts DEF Later
  <2>5. ClearCookie # 0
    BY SignInAssumption DEF ClearCookie
  <2> QED
    BY <2>2, <2>4, <2>5
<1> QED
  BY <1>1, <1>2

\* A larger vault holds what a smaller one does.
LEMMA FitsGrow ==
  ASSUME NEW n \in Nat, NEW m \in Nat, n <= m
  PROVE  /\ \A d : DoorFits(n, d) => DoorFits(m, d)
         /\ \A c : ReplyFits(n, c) => ReplyFits(m, c)
         /\ \A a : RepliesFit(n, a) => RepliesFit(m, a)
<1>1. \A x : (x \in 0 .. n => x \in 0 .. m) /\ (x \in 1 .. n => x \in 1 .. m)
  OBVIOUS
<1>2. \A c : ReplyFits(n, c) => ReplyFits(m, c)
  BY <1>1 DEF ReplyFits
<1>3. \A d : DoorFits(n, d) => DoorFits(m, d)
  BY <1>1 DEF DoorFits
<1> QED
  BY <1>2, <1>3 DEF RepliesFit

\* A door the session moved under is still one.
LEMMA CrossedFits ==
  ASSUME SignInv, NEW who, NEW moved \in BOOLEAN
  PROVE  DoorFits(Len(vault), Crossed(door, who, moved))
<1>1. DoorFits(Len(vault), door) /\ door \in DoorRec
  BY SignParts
<1>2. \A i \in Submits : Crossed(door, who, moved).tries[i].token = door.tries[i].token /\ Crossed(door, who, moved).tries[i].phase = door.tries[i].phase
  BY <1>1, CrossedIs DEF SameTry
<1> QED
  BY <1>1, <1>2, CrossedIs DEF DoorFits

\* Another call of one caller.
LEMMA CallChanges ==
  ASSUME NEW n, NEW a, RepliesFit(n, a), NEW who \in Callers, NEW b, ReplyFits(n, b),
         who \in {LoginPage, Provider} => b.kind \in {"none", "csrf"},
         who = SignOut => b.kind \in {"none", "csrf", "logout"}
  PROVE  RepliesFit(n, [a EXCEPT ![who] = b])
<1> DEFINE e == [a EXCEPT ![who] = b]
<1>1. a \in [Callers -> AskRec] /\ b \in AskRec
  BY DEF RepliesFit, ReplyFits
<1>2. e \in [Callers -> AskRec] /\ e[who] = b /\ \A x \in Callers : x # who => e[x] = a[x]
  BY <1>1
<1> HIDE DEF e
<1>3. \A x \in Callers : ReplyFits(n, e[x])
  BY <1>2 DEF RepliesFit
<1>4. {e[LoginPage].kind, e[Provider].kind} \subseteq {"none", "csrf"} /\ e[SignOut].kind \in {"none", "csrf", "logout"}
  BY <1>2, CallersAre DEF RepliesFit
<1>5. RepliesFit(n, e)
  BY <1>2, <1>3, <1>4 DEF RepliesFit
<1> QED
  BY <1>5 DEF e

\* What the portal makes of a call, whatever it is.
LEMMA ServedIs ==
  ASSUME SignInv, NEW c, ReplyFits(Len(vault), c), c.kind # "none", NEW p \in Passwords, NEW r, r = Served(c, p)
  PROVE  /\ Later(vault, r.vault) /\ r.answer \in Nat
         /\ r.set \in 0 .. Len(r.vault) \/ (r.set = ClearCookie /\ c.kind = "logout")
         /\ c.kind = "csrf" \/ r.set = 0 => Stable(vault, r.vault)
         /\ c.kind = "csrf" => r = ServeCsrf(c) /\ r.answer \in 1 .. Len(r.vault)
         /\ c.kind = "login" => r = ServeLogin(c, p)
         /\ c.kind = "verify" => r = ServeVerify(c)
         /\ c.kind = "whoami" => r = ServeWhoami(c)
         /\ c.kind = "logout" => r = ServeLogout(c)
<1>0. c.kind \in {"csrf", "login", "verify", "whoami", "logout"} /\ c.cookie \in 0 .. Len(vault)
  BY DEF ReplyFits, AskRec
<1>s. Stable(vault, vault) /\ Later(vault, vault) /\ Len(vault) \in Nat /\ 0 \in 0 .. Len(vault)
  BY SignParts DEF Stable, Later
<1>1. CASE c.kind = "csrf"
  <2>1. r = ServeCsrf(c)
    BY <1>1 DEF Served
  <2>2. Later(vault, r.vault) /\ Stable(vault, r.vault) /\ r.answer \in 1 .. Len(r.vault) /\ r.set \in 0 .. Len(r.vault)
    BY <1>0, <2>1, ServeCsrfIs
  <2> QED
    BY <1>1, <2>1, <2>2 DEF Later
<1>2. CASE c.kind = "login"
  <2>1. r = ServeLogin(c, p)
    BY <1>2 DEF Served
  <2>2. Later(vault, r.vault) /\ r.answer \in Nat /\ r.set \in 0 .. Len(r.vault) /\ (r.set = 0 => r.vault = vault)
    BY <1>0, <2>1, ServeLoginIs
  <2> QED
    BY <1>2, <1>s, <2>1, <2>2
<1>3. CASE c.kind = "verify"
  <2>1. r = ServeVerify(c)
    BY <1>3 DEF Served
  <2>2. Later(vault, r.vault) /\ r.answer \in Nat /\ r.set \in 0 .. Len(r.vault) /\ (r.set = 0 => r.vault = vault)
    BY <2>1, ServeVerifyIs
  <2> QED
    BY <1>3, <1>s, <2>1, <2>2
<1>4. CASE c.kind = "whoami"
  <2>1. r = ServeWhoami(c)
    BY <1>4 DEF Served
  <2>2. r.vault = vault /\ r.answer \in Nat /\ r.set = 0
    BY <2>1, ServeWhoamiIs
  <2> QED
    BY <1>4, <1>s, <2>1, <2>2
<1>5. CASE c.kind = "logout"
  <2>1. r = ServeLogout(c)
    BY <1>5 DEF Served
  <2>2. Later(vault, r.vault) /\ r.answer \in Nat /\ r.set \in {0, ClearCookie} /\ (r.set = 0 => r.vault = vault)
    BY <2>1, ServeLogoutIs
  <2> QED
    BY <1>5, <1>s, <2>1, <2>2
<1> QED
  BY <1>0, <1>1, <1>2, <1>3, <1>4, <1>5

\* A submission that was served knows its answer.
LEMMA ServedTry ==
  ASSUME SignInv, NEW i \in Submits, NEW r, ~asked[i].served, asked[i].kind # "none", r = Served(asked[i], door.tries[i].password),
         NEW b, b.kind = asked[i].kind, b.cookie = asked[i].cookie, b.token = asked[i].token, b.served = TRUE,
         b.answer = r.answer, b.set = r.set, Uncrossed(door.tries[i])
  PROVE  Healthy(r.vault, jar, door.tries[i], b)
<1> DEFINE t == door.tries[i]
           c == asked[i]
           p == t.password
<1>0. /\ ReplyFits(Len(vault), c) /\ c.kind = KindOf(t.phase) /\ Healthy(vault, jar, t, c) /\ p \in {"right", "key"}
      /\ t \in TryRec /\ p \in Passwords /\ jar \in 0 .. Len(vault) /\ Len(vault) \in Nat /\ t.token \in 0 .. Len(vault)
  BY SignParts, CallersAre DEF TriesFit, Uncrossed, Passwords
<1>1. t.phase \in {"post", "fresh", "again", "verify", "who"} /\ c.cookie = jar /\ c.cookie \in 0 .. Len(vault)
  BY <1>0 DEF KindOf, TryRec, Healthy, ReplyFits
<1> HIDE DEF c, t, p
<1>f. /\ b.kind = c.kind /\ b.cookie = c.cookie /\ b.token = c.token /\ b.served = TRUE /\ b.answer = r.answer /\ b.set = r.set
      /\ ~c.served /\ c.kind # "none" /\ r = Served(c, p)
  BY DEF c, t, p
<1>l. Landed(jar, b) = IF r.set = 0 THEN c.cookie ELSE r.set
  BY <1>1, <1>f DEF Landed
<1>2. CASE t.phase \in {"post", "again"}
  <2>1. c.kind = "login" /\ c.token = t.token
    BY <1>0, <1>2 DEF KindOf, Healthy
  <2>2. r = ServeLogin(c, p)
    BY <1>0, <1>f, <2>1, ServedIs
  <2>3. /\ r.set = 0 => r.vault = vault
        /\ \/ r.answer = 400 /\ r.set = 0 /\ ~TokenIn(vault, c.cookie, c.token)
           \/ r.answer = 302 /\ UserIn(r.vault, IF r.set = 0 THEN c.cookie ELSE r.set)
           \/ r.answer = 200 /\ r.set = 0 /\ TokenIn(vault, c.cookie, c.token)
    BY <1>0, <1>1, <2>2, ServeLoginIs
  <2>4. t.phase = "again" => TokenIn(vault, jar, t.token)
    BY <1>0, <1>f DEF Healthy
  <2>5. 400 # 302 /\ 400 # 200
    OBVIOUS
  <2> HIDE <1>2
  <2>6. (r.answer = 400 /\ r.set = 0 /\ ~TokenIn(r.vault, jar, t.token)) \/ (r.answer # 400 /\ LetIn(r.vault, jar, t, b))
    BY <1>1, <1>f, <1>l, <2>1, <2>3, <2>5 DEF LetIn
  <2>7. t.phase = "again" => LetIn(r.vault, jar, t, b)
    BY <1>1, <1>f, <1>l, <2>1, <2>3, <2>4 DEF LetIn
  <2>8. t.phase \notin {"fresh", "key", "verify", "who", "over"}
    BY <1>2
  <2> QED
    BY <1>1, <1>f, <2>1, <2>6, <2>7, <2>8 DEF Healthy, t
<1>3. CASE t.phase = "fresh"
  <2>1. c.kind = "csrf" /\ ~TokenIn(vault, jar, t.token)
    BY <1>0, <1>3, <1>f DEF KindOf, Healthy
  <2>2. r = ServeCsrf(c)
    BY <1>0, <1>f, <2>1, ServedIs
  <2>3. TokenIn(r.vault, IF r.set = 0 THEN c.cookie ELSE r.set, r.answer) /\ r.answer # t.token
    BY <1>0, <1>1, <2>1, <2>2, ServeCsrfIs
  <2> QED
    BY <1>1, <1>3, <1>f, <1>l, <2>3 DEF Healthy, t
<1>4. CASE t.phase = "verify"
  <2>1. c.kind = "verify" /\ c.token = t.token /\ TokenIn(vault, jar, t.token)
    BY <1>0, <1>4, <1>f DEF KindOf, Healthy
  <2>2. r = ServeVerify(c)
    BY <1>0, <1>f, <2>1, ServedIs
  <2>3. r.answer = 200
    BY <1>1, <2>1, <2>2, ServeVerifyIs
  <2> QED
    BY <1>1, <1>4, <1>f, <2>1, <2>3 DEF Healthy, t
<1>5. CASE t.phase = "who"
  <2>1. c.kind = "whoami" /\ UserIn(vault, jar)
    BY <1>0, <1>5, <1>f DEF KindOf, Healthy
  <2>2. r = ServeWhoami(c)
    BY <1>0, <1>f, <2>1, ServedIs
  <2>3. r.answer = 200
    BY <1>1, <2>1, <2>2, ServeWhoamiIs
  <2> QED
    BY <1>1, <1>5, <1>f, <2>3 DEF Healthy, t
<1> QED
  BY <1>1, <1>2, <1>3, <1>4, <1>5

\* A sign-out that was served knows its answer.
LEMMA ServedOut ==
  ASSUME SignInv, NEW p \in Passwords, NEW r, ~asked[SignOut].served, asked[SignOut].kind # "none", r = Served(asked[SignOut], p),
         NEW b, b.kind = asked[SignOut].kind, b.cookie = asked[SignOut].cookie, b.token = asked[SignOut].token,
         b.served = TRUE, b.answer = r.answer, b.set = r.set, ~door.unsure
  PROVE  Leaving(r.vault, jar, b)
<1> DEFINE c == asked[SignOut]
<1>0. /\ ReplyFits(Len(vault), c) /\ c.kind \in {"csrf", "logout"} /\ Leaving(vault, jar, c)
  BY SignParts, CallersAre DEF OutFits, RepliesFit
<1>1. c.cookie = jar /\ c.cookie \in 0 .. Len(vault)
  BY <1>0 DEF Leaving, ReplyFits
<1> HIDE DEF c
<1>f. /\ b.kind = c.kind /\ b.cookie = c.cookie /\ b.token = c.token /\ b.served = TRUE /\ b.answer = r.answer /\ b.set = r.set
      /\ ~c.served /\ c.kind # "none" /\ r = Served(c, p)
  BY DEF c
<1>2. CASE c.kind = "csrf"
  <2>1. r = ServeCsrf(c)
    BY <1>0, <1>2, <1>f, ServedIs
  <2>2. TokenIn(r.vault, IF r.set = 0 THEN c.cookie ELSE r.set, r.answer)
    BY <1>1, <2>1, ServeCsrfIs
  <2> QED
    BY <1>1, <1>2, <1>f, <2>2 DEF Leaving, Landed
<1>3. CASE c.kind = "logout"
  <2>1. r = ServeLogout(c) /\ TokenIn(vault, c.cookie, c.token)
    BY <1>0, <1>1, <1>3, <1>f, ServedIs DEF Leaving
  <2>2. r.answer = 302
    BY <2>1, ServeLogoutIs
  <2> QED
    BY <1>1, <1>3, <1>f, <2>2 DEF Leaving
<1> QED
  BY <1>0, <1>2, <1>3

\* The portal serves a call.
LEMMA ServeStep == SignInv /\ Serve => SignInv'
<1> SUFFICES ASSUME SignInv, Serve PROVE SignInv'
  OBVIOUS
<1>d. DOMAIN asked = Callers
  BY SignParts
<1>0. PICK who \in Callers :
        LET c == asked[who]
            r == Served(c, IF who \in Submits THEN door.tries[who].password ELSE "wrong")
        IN /\ c.kind # "none" /\ ~c.served
           /\ Len(r.vault) <= MaxSessions
           /\ vault' = r.vault
           /\ asked' = [asked EXCEPT ![who].served = TRUE, ![who].answer = r.answer, ![who].set = r.set]
           /\ door' = Crossed(door, who, c.kind # "csrf" /\ r.set # 0)
           /\ UNCHANGED jar
  BY <1>d DEF Serve
<1> DEFINE c == asked[who]
           p == IF who \in Submits THEN door.tries[who].password ELSE "wrong"
<1>1. PICK r : r = Served(c, p)
  OBVIOUS
<1> DEFINE b == [c EXCEPT !.served = TRUE, !.answer = r.answer, !.set = r.set]
           moved == c.kind # "csrf" /\ r.set # 0
           d == Crossed(door, who, moved)
           a == [asked EXCEPT ![who] = b]
           n == Len(vault)
           w == r.vault
<1>p. p \in Passwords /\ (who \in Submits => p = door.tries[who].password)
  BY SignParts DEF TryRec, Passwords
<1>c. /\ ReplyFits(n, c) /\ c \in AskRec /\ n \in Nat /\ asked \in [Callers -> AskRec]
  BY SignParts
<1>2. c.kind # "none" /\ ~c.served /\ Len(w) <= MaxSessions /\ vault' = w /\ door' = d /\ jar' = jar
  BY <1>0, <1>1
<1>3. asked' = a
  BY <1>0, <1>1, <1>c DEF AskRec
<1> HIDE DEF p
<1>4. /\ Later(vault, w) /\ r.answer \in Nat
      /\ r.set \in 0 .. Len(w) \/ (r.set = ClearCookie /\ c.kind = "logout")
      /\ c.kind = "csrf" \/ r.set = 0 => Stable(vault, w)
      /\ c.kind = "csrf" => r.answer \in 1 .. Len(w)
  BY <1>1, <1>2, <1>c, <1>p, ServedIs
<1>5. VaultFits(w) /\ Len(w) \in Nat /\ n <= Len(w)
  BY <1>2, <1>4 DEF Later
<1>6. moved \in BOOLEAN /\ (~moved => Stable(vault, w))
  BY <1>4
<1>7. r.set \in Nat
  <2>1. ClearCookie \in Nat
    BY SignInAssumption DEF ClearCookie
  <2> QED
    BY <1>4, <2>1
<1> HIDE DEF moved, d
<1>8. /\ b \in AskRec /\ b.kind = c.kind /\ b.cookie = c.cookie /\ b.token = c.token /\ b.served = TRUE
      /\ b.answer = r.answer /\ b.set = r.set
  <2>1. PICK x \in AskRec : x = c
    BY <1>c
  <2>2. PICK y \in Nat, z \in Nat : y = r.answer /\ z = r.set
    BY <1>4, <1>7
  <2>3. b = [x EXCEPT !.served = TRUE, !.answer = y, !.set = z]
    BY <2>1, <2>2
  <2> HIDE DEF b, c
  <2>4. b \in AskRec /\ b.kind = x.kind /\ b.cookie = x.cookie /\ b.token = x.token /\ b.served = TRUE /\ b.answer = y /\ b.set = z
    BY <2>3 DEF AskRec
  <2> QED
    BY <2>1, <2>2, <2>4
<1> HIDE DEF b
<1>9. ReplyFits(Len(w), c)
  BY <1>5, <1>c, FitsGrow
<1>10. ReplyFits(Len(w), b)
  BY <1>2, <1>4, <1>8, <1>9 DEF ReplyFits
<1>k. (who \in {LoginPage, Provider} => c.kind = "csrf") /\ (who = SignOut => c.kind \in {"csrf", "logout"})
  BY <1>2, SignParts DEF RepliesFit
<1>11. RepliesFit(Len(w), a)
  <2>1. RepliesFit(Len(w), asked)
    BY <1>5, <1>c, SignParts, FitsGrow
  <2> QED
    BY <1>8, <1>10, <1>k, <2>1, CallChanges
<1>12. DoorFits(Len(w), d)
  BY <1>5, <1>6, <1>c, CrossedFits, FitsGrow DEF d
<1>13. jar \in 0 .. Len(w)
  BY <1>5, <1>c, SignParts
<1>a. a[who] = b /\ \A x \in Callers : x # who => a[x] = asked[x]
  BY <1>c
<1> HIDE DEF a
<1>14. TriesFit(w, jar, d, a)
  <2>1. \A i \in Submits : i # who => a[i] = asked[i] /\ d.tries[i] = Crossed(door, who, moved).tries[i]
    BY <1>a, CallersAre DEF d
  <2>2. ASSUME who \in Submits PROVE a[who].kind = KindOf(d.tries[who].phase) /\ (Uncrossed(d.tries[who]) => Healthy(w, jar, d.tries[who], a[who]))
    <3>1. d.tries[who] = door.tries[who]
      BY <1>6, <2>2, SignParts, CrossedIs DEF d
    <3>2. c.kind = KindOf(door.tries[who].phase)
      BY <2>2, SignParts DEF TriesFit
    <3>3. Uncrossed(door.tries[who]) => Healthy(w, jar, door.tries[who], b)
      BY <1>1, <1>2, <1>8, <1>p, <2>2, ServedTry
    <3> QED
      BY <1>8, <1>a, <3>1, <3>2, <3>3
  <2> QED
    BY <1>6, <2>1, <2>2, TriesStep
<1>15. OutFits(w, jar, d, a)
  <2>1. CASE who = SignOut
    <3>1. d.unsure = door.unsure /\ d.page = door.page
      BY <1>6, <2>1, SignParts, CrossedIs DEF d
    <3>2. door.page # "app" => FALSE
      BY <1>2, <2>1, SignParts DEF OutFits
    <3>3. ~door.unsure => Leaving(w, jar, b)
      BY <1>1, <1>2, <1>8, <1>p, <2>1, ServedOut
    <3> QED
      BY <1>a, <2>1, <3>1, <3>2, <3>3 DEF OutFits
  <2>2. CASE who # SignOut
    <3>1. a[SignOut] = asked[SignOut] /\ d.page = door.page
      BY <1>6, <1>a, <2>2, CallersAre, SignParts, CrossedIs DEF d
    <3> QED
      BY <1>6, <2>2, <3>1, OutStep DEF d
  <2> QED
    BY <2>1, <2>2
<1> QED
  BY <1>2, <1>3, <1>5, <1>11, <1>12, <1>13, <1>14, <1>15 DEF SignInv, SignFits

\* The cookie after an answer.
LEMMA JarIs ==
  ASSUME SignInv, NEW w \in Callers
  PROVE  /\ Jar(asked[w].set) \in 0 .. Len(vault)
         /\ asked[w].kind # "logout" => Jar(asked[w].set) = Landed(jar, asked[w]) /\ asked[w].set \in 0 .. Len(vault)
<1> DEFINE c == asked[w]
<1>0. /\ ReplyFits(Len(vault), c) /\ jar \in 0 .. Len(vault) /\ Len(vault) \in Nat /\ Len(vault) <= MaxSessions
  BY SignParts DEF VaultFits
<1>1. c.set \in 0 .. Len(vault) => c.set # ClearCookie
  BY <1>0, SignInAssumption DEF ClearCookie
<1>2. ClearCookie # 0
  BY SignInAssumption DEF ClearCookie
<1>3. c.set \in 0 .. Len(vault) \/ (c.set = ClearCookie /\ c.kind = "logout")
  BY <1>0 DEF ReplyFits
<1>4. CASE c.set \in 0 .. Len(vault)
  BY <1>0, <1>1, <1>4 DEF Jar, Landed
<1>5. CASE c.set = ClearCookie /\ c.kind = "logout"
  <2>1. Jar(c.set) = 0
    BY <1>2, <1>5 DEF Jar, NoCookie
  <2> QED
    BY <1>0, <1>5, <2>1
<1> QED
  BY <1>3, <1>4, <1>5

\* An answer lands, or a call leaves, and the cookie may be another.
LEMMA LandsFit ==
  ASSUME SignInv, NEW who \in Callers, who # SignOut, NEW moved \in BOOLEAN, NEW k \in 0 .. Len(vault), ~moved => k = jar,
         NEW d, DoorFits(Len(vault), d), d.page = door.page, Crossed(door, who, moved).unsure => d.unsure,
         \A i \in Submits : i # who => d.tries[i] = Crossed(door, who, moved).tries[i],
         NEW b, ReplyFits(Len(vault), b), who \in {LoginPage, Provider} => b.kind \in {"none", "csrf"},
         who \in Submits =>
           b.kind = KindOf(d.tries[who].phase) /\ (Uncrossed(d.tries[who]) => Healthy(vault, k, d.tries[who], b))
  PROVE  SignFits(vault, k, d, [asked EXCEPT ![who] = b])
<1> DEFINE a == [asked EXCEPT ![who] = b]
<1>0. VaultFits(vault) /\ RepliesFit(Len(vault), asked) /\ asked \in [Callers -> AskRec] /\ Len(vault) \in Nat
  BY SignParts
<1>1. RepliesFit(Len(vault), a)
  BY <1>0, CallChanges
<1>2. a[who] = b /\ \A x \in Callers : x # who => a[x] = asked[x]
  BY <1>0
<1>3. Stable(vault, vault)
  BY <1>0 DEF Stable
<1> HIDE DEF a
<1>4. TriesFit(vault, k, d, a)
  <2>1. \A i \in Submits : i # who => a[i] = asked[i] /\ d.tries[i] = Crossed(door, who, moved).tries[i]
    BY <1>2, CallersAre
  <2>2. ~moved => k = jar /\ Stable(vault, vault)
    BY <1>3
  <2>3. who \in Submits =>
          a[who].kind = KindOf(d.tries[who].phase) /\ (Uncrossed(d.tries[who]) => Healthy(vault, k, d.tries[who], a[who]))
    BY <1>2
  <2> QED
    BY <2>1, <2>2, <2>3, TriesStep
<1>5. OutFits(vault, k, d, a)
  <2>1. a[SignOut] = asked[SignOut]
    BY <1>2, CallersAre
  <2> QED
    BY <1>3, <2>1, OutStep
<1>6. SignFits(vault, k, d, a)
  BY <1>0, <1>1, <1>4, <1>5 DEF SignFits
<1> QED
  BY <1>6 DEF a

\* Pages are loaded by their address, or for want of a session.
LEMMA VisitStep == SignInv /\ (Visit \/ Bounce) => SignInv'
<1> SUFFICES ASSUME SignInv, Visit \/ Bounce PROVE SignInv'
  OBVIOUS
<1>0. VaultFits(vault) /\ jar \in 0 .. Len(vault) /\ door \in DoorRec
  BY SignParts
<1>1. vault' = vault /\ jar' = jar
  BY DEF Visit, Bounce
<1>2. \E p \in {"login", "app"} : DocumentLoads(p, jar)
  <2>1. \A reached \in BOOLEAN : Gate(jar, reached) \in {"login", "app"}
    BY DEF Gate
  <2> QED
    BY <2>1 DEF Visit, Bounce
<1>3. SignFits(vault, jar, door', asked')
  BY <1>0, <1>2, DocumentFits
<1> QED
  BY <1>1, <1>3 DEF SignInv

\* The token lands, on the page or its provider.
LEMMA TokenStep == SignInv /\ (PageTokenLands \/ ProviderTokenLands) => SignInv'
<1> SUFFICES ASSUME SignInv, PageTokenLands \/ ProviderTokenLands PROVE SignInv'
  OBVIOUS
<1>n. Len(vault) \in Nat /\ ReplyFits(Len(vault), NoCall) /\ NoCall.kind = "none"
  BY SignParts, NoCallIs
<1>1. CASE PageTokenLands
  <2> DEFINE c == asked[LoginPage]
             moved == c.set # 0
             e == Crossed(door, LoginPage, moved)
             d == [e EXCEPT !.held = c.answer]
             k == Jar(c.set)
  <2>1. c.served /\ jar' = k /\ door' = d /\ asked' = [asked EXCEPT ![LoginPage] = NoCall] /\ vault' = vault
    BY <1>1 DEF PageTokenLands
  <2>2. ReplyFits(Len(vault), c) /\ c.kind \in {"none", "csrf"}
    BY SignParts, CallersAre DEF RepliesFit
  <2>3. c.answer \in 1 .. Len(vault) /\ c.kind = "csrf"
    BY <2>1, <2>2 DEF ReplyFits
  <2>4. k \in 0 .. Len(vault) /\ k = Landed(jar, c) /\ moved \in BOOLEAN /\ (~moved => k = jar)
    BY <2>3, CallersAre, JarIs DEF Landed
  <2>5. DoorFits(Len(vault), e) /\ e.page = door.page /\ e \in DoorRec
    BY <2>4, CrossedFits, CrossedIs, SignParts
  <2>6. c.answer \in Nat /\ c.answer \in 0 .. Len(vault)
    BY <1>n, <2>3
  <2> HIDE DEF e, k, moved, c
  <2>7. d \in DoorRec /\ d.page = e.page /\ d.unsure = e.unsure /\ d.tries = e.tries /\ d.held = c.answer /\ d.provider = e.provider
    BY <2>5, <2>6 DEF DoorRec
  <2> HIDE DEF d
  <2>8. DoorFits(Len(vault), d)
    BY <2>5, <2>6, <2>7 DEF DoorFits
  <2>9. SignFits(vault, k, d, [asked EXCEPT ![LoginPage] = NoCall])
    BY <1>n, <2>4, <2>5, <2>7, <2>8, CallersAre, LandsFit DEF e
  <2> QED
    BY <2>1, <2>9 DEF SignInv
<1>2. CASE ProviderTokenLands
  <2> DEFINE c == asked[Provider]
             moved == c.set # 0
             e == Crossed(door, Provider, moved)
             d == [e EXCEPT !.provider = c.answer]
             k == Jar(c.set)
  <2>1. c.served /\ jar' = k /\ door' = d /\ asked' = [asked EXCEPT ![Provider] = NoCall] /\ vault' = vault
    BY <1>2 DEF ProviderTokenLands
  <2>2. ReplyFits(Len(vault), c) /\ c.kind \in {"none", "csrf"}
    BY SignParts, CallersAre DEF RepliesFit
  <2>3. c.answer \in 1 .. Len(vault) /\ c.kind = "csrf"
    BY <2>1, <2>2 DEF ReplyFits
  <2>4. k \in 0 .. Len(vault) /\ k = Landed(jar, c) /\ moved \in BOOLEAN /\ (~moved => k = jar)
    BY <2>3, CallersAre, JarIs DEF Landed
  <2>5. DoorFits(Len(vault), e) /\ e.page = door.page /\ e \in DoorRec
    BY <2>4, CrossedFits, CrossedIs, SignParts
  <2>6. c.answer \in Nat /\ c.answer \in 0 .. Len(vault)
    BY <1>n, <2>3
  <2> HIDE DEF e, k, moved, c
  <2>7. d \in DoorRec /\ d.page = e.page /\ d.unsure = e.unsure /\ d.tries = e.tries /\ d.held = e.held /\ d.provider = c.answer
    BY <2>5, <2>6 DEF DoorRec
  <2> HIDE DEF d
  <2>8. DoorFits(Len(vault), d)
    BY <2>5, <2>6, <2>7 DEF DoorFits
  <2>9. SignFits(vault, k, d, [asked EXCEPT ![Provider] = NoCall])
    BY <1>n, <2>4, <2>5, <2>7, <2>8, CallersAre, LandsFit DEF e
  <2> QED
    BY <2>1, <2>9 DEF SignInv
<1> QED
  BY <1>1, <1>2

\* The token's call is lost, and the provider asks once more.
LEMMA LostTokenStep == SignInv /\ TokenLost => SignInv'
<1> SUFFICES ASSUME SignInv, TokenLost PROVE SignInv'
  OBVIOUS
<1>0. Len(vault) \in Nat /\ jar \in 0 .. Len(vault) /\ door \in DoorRec /\ DoorFits(Len(vault), door) /\ 0 \in 0 .. Len(vault)
  BY SignParts
<1>1. PICK who \in {LoginPage, Provider} :
        /\ asked[who].kind # "none"
        /\ LET again == who = Provider /\ ~door.retried
           IN /\ asked' = [asked EXCEPT ![who] = IF again THEN Leaves("csrf", 0) ELSE NoCall]
              /\ door' = [door EXCEPT !.retried = @ \/ again]
        /\ UNCHANGED <<vault, jar>>
  BY DEF TokenLost
<1> DEFINE again == who = Provider /\ ~door.retried
           b == IF again THEN PutCall("csrf", jar, 0) ELSE NoCall
           f == door.retried \/ again
           d == [door EXCEPT !.retried = f]
<1>2. asked' = [asked EXCEPT ![who] = b] /\ door' = d /\ vault' = vault /\ jar' = jar
  BY <1>0, <1>1 DEF Leaves, PutCall, DoorRec
<1>3. ReplyFits(Len(vault), b) /\ b.kind \in {"none", "csrf"}
  BY <1>0, PutCallIs, NoCallIs
<1>4. f \in BOOLEAN
  BY <1>0 DEF DoorRec
<1> HIDE DEF b, f, again
<1>5. d \in DoorRec /\ d.page = door.page /\ d.unsure = door.unsure /\ d.tries = door.tries /\ d.held = door.held /\ d.provider = door.provider
  BY <1>0, <1>4 DEF DoorRec
<1> HIDE DEF d
<1>6. DoorFits(Len(vault), d)
  BY <1>0, <1>5 DEF DoorFits
<1>7. Crossed(door, who, FALSE) = door
  BY DEF Crossed
<1>8. who \in Callers /\ who # SignOut /\ who \notin Submits
  BY CallersAre
<1>9. SignFits(vault, jar, d, [asked EXCEPT ![who] = b])
  BY <1>0, <1>3, <1>5, <1>6, <1>7, <1>8, LandsFit
<1> QED
  BY <1>2, <1>9 DEF SignInv

\* The door with the submission t in place i, holding the token h.
WithTry(e, i, t, h) == [e EXCEPT !.tries[i] = t, !.held = h]

\* A submission changes.
LEMMA TryChanges ==
  ASSUME NEW n, NEW e, DoorFits(n, e), e.page = "login", NEW i \in Submits, NEW t \in TryRec, t.token \in 0 .. n, NEW h \in 0 .. n
  PROVE  /\ DoorFits(n, WithTry(e, i, t, h)) /\ WithTry(e, i, t, h).page = e.page
         /\ WithTry(e, i, t, h).unsure = e.unsure /\ WithTry(e, i, t, h).tries[i] = t
         /\ \A x \in Submits : x # i => WithTry(e, i, t, h).tries[x] = e.tries[x]
<1> DEFINE tr == [e.tries EXCEPT ![i] = t]
           d == [e EXCEPT !.tries = tr, !.held = h]
<1>0. e \in DoorRec /\ e.tries \in [Submits -> TryRec] /\ h \in Nat
  BY DEF DoorFits, DoorRec
<1>1. WithTry(e, i, t, h) = d
  BY <1>0 DEF DoorRec, WithTry
<1>2. tr \in [Submits -> TryRec] /\ tr[i] = t /\ \A x \in Submits : x # i => tr[x] = e.tries[x]
  BY <1>0
<1> HIDE DEF tr
<1>3. d \in DoorRec /\ d.page = e.page /\ d.unsure = e.unsure /\ d.tries = tr /\ d.held = h /\ d.provider = e.provider
  BY <1>0, <1>2 DEF DoorRec
<1> HIDE DEF d
<1>4. DoorFits(n, d)
  BY <1>2, <1>3 DEF DoorFits
<1>5. /\ DoorFits(n, d) /\ d.page = e.page /\ d.unsure = e.unsure /\ d.tries[i] = t
      /\ \A x \in Submits : x # i => d.tries[x] = e.tries[x]
  BY <1>2, <1>3, <1>4
<1> QED
  BY <1>1, <1>5

\* A submission has its own call only, and the cookie of its answer.
LEMMA TryFits ==
  ASSUME SignInv, door.page = "login", NEW i \in Submits, NEW moved \in BOOLEAN, NEW k \in 0 .. Len(vault), ~moved => k = jar,
         NEW t \in TryRec, t.token \in 0 .. Len(vault), NEW h \in 0 .. Len(vault),
         NEW b, ReplyFits(Len(vault), b), b.kind = KindOf(t.phase), Uncrossed(t) => Healthy(vault, k, t, b),
         NEW d, d = WithTry(Crossed(door, i, moved), i, t, h)
  PROVE  SignFits(vault, k, d, [asked EXCEPT ![i] = b])
<1> DEFINE e == Crossed(door, i, moved)
<1>0. DoorFits(Len(vault), e) /\ e.page = door.page
  BY CrossedFits, CrossedIs, SignParts
<1> HIDE DEF e
<1>1. /\ DoorFits(Len(vault), d) /\ d.page = e.page /\ d.unsure = e.unsure /\ d.tries[i] = t
      /\ \A x \in Submits : x # i => d.tries[x] = e.tries[x]
  <2>1. d = WithTry(e, i, t, h)
    BY DEF e
  <2>2. e.page = "login"
    BY <1>0
  <2> QED
    BY <1>0, <2>1, <2>2, TryChanges
<1>2. i \in Callers /\ i # SignOut /\ i \notin {LoginPage, Provider}
  BY CallersAre
<1>3. Crossed(door, i, moved).unsure => d.unsure
  BY <1>1 DEF e
<1>4. \A x \in Submits : x # i => d.tries[x] = Crossed(door, i, moved).tries[x]
  BY <1>1 DEF e
<1>5. d.page = door.page
  BY <1>0, <1>1
<1>6. b.kind = KindOf(d.tries[i].phase) /\ (Uncrossed(d.tries[i]) => Healthy(vault, k, d.tries[i], b))
  BY <1>1
<1>7. DoorFits(Len(vault), d)
  BY <1>1
<1> HIDE <1>1
<1> QED
  BY <1>2, <1>3, <1>4, <1>5, <1>6, <1>7, LandsFit

\* The same submission, in another phase.
SameUser(t, u) ==
  u \in TryRec /\ u.password = t.password /\ u.crossed = t.crossed /\ u.failed = t.failed

\* The answer to keep.
LEMMA VerdictIs ==
  ASSUME NEW t \in TryRec, NEW status \in Nat
  PROVE  /\ SameUser(t, Verdict(t, status)) /\ Verdict(t, status).token = t.token
         /\ Verdict(t, status).phase = IF status = 200 THEN "key" ELSE "who"
<1>1. PICK f \in {"key", "who"} : f = IF status = 200 THEN "key" ELSE "who"
  OBVIOUS
<1>2. Verdict(t, status) = [t EXCEPT !.status = status, !.phase = f]
  BY <1>1 DEF Verdict
<1> DEFINE u == [t EXCEPT !.status = status, !.phase = f]
<1>3. u \in TryRec
  BY DEF TryRec
<1>4. u.password = t.password /\ u.crossed = t.crossed /\ u.failed = t.failed /\ u.token = t.token /\ u.phase = f
  BY DEF TryRec
<1> QED
  BY <1>1, <1>2, <1>3, <1>4 DEF SameUser

\* The end of a submission.
LEMMA OverIs ==
  ASSUME NEW t \in TryRec, NEW said \in {"expired", "blocked", "wrong", "keyfailed", "cancelled", "network"}
  PROVE  SameUser(t, Over(t, said)) /\ Over(t, said).token = t.token /\ Over(t, said).phase = "over" /\ Over(t, said).said = said
<1> DEFINE u == [t EXCEPT !.phase = "over", !.said = said]
<1>1. u \in TryRec
  BY DEF TryRec
<1>2. u.password = t.password /\ u.crossed = t.crossed /\ u.failed = t.failed /\ u.token = t.token /\ u.phase = "over" /\ u.said = said
  BY DEF TryRec
<1> QED
  BY <1>1, <1>2 DEF SameUser, Over

\* The call that follows, with the cookie the answer left.
LEMMA NextCallIs ==
  ASSUME NEW n \in Nat, NEW t, t.token \in 0 .. n, NEW k \in 0 .. n, t.phase \in {"fresh", "again", "who", "key", "over"}
  PROVE  /\ ReplyFits(n, NextCall(t, k)) /\ NextCall(t, k).kind = KindOf(t.phase) /\ ~NextCall(t, k).served
         /\ t.phase \in {"fresh", "again", "who"} => NextCall(t, k).cookie = k /\ NextCall(t, k).token = t.token
<1>1. CASE t.phase = "fresh"
  <2>1. NextCall(t, k) = PutCall("csrf", k, t.token) /\ KindOf(t.phase) = "csrf"
    BY <1>1 DEF NextCall, PutCall, KindOf
  <2> QED
    BY <2>1, PutCallIs
<1>2. CASE t.phase = "again"
  <2>1. NextCall(t, k) = PutCall("login", k, t.token) /\ KindOf(t.phase) = "login"
    BY <1>2 DEF NextCall, PutCall, KindOf
  <2> QED
    BY <2>1, PutCallIs
<1>3. CASE t.phase = "who"
  <2>1. NextCall(t, k) = PutCall("whoami", k, t.token) /\ KindOf(t.phase) = "whoami"
    BY <1>3 DEF NextCall, PutCall, KindOf
  <2> QED
    BY <2>1, PutCallIs
<1>4. CASE t.phase \in {"key", "over"}
  <2>1. NextCall(t, k) = NoCall /\ KindOf(t.phase) = "none"
    BY <1>4 DEF NextCall, KindOf
  <2> QED
    BY <1>4, <2>1, NoCallIs
<1> QED
  BY <1>1, <1>2, <1>3, <1>4

\* An answer that lands moves the submission on; with a right password, to where
\* it should be.
LEMMA AdvancedIs ==
  ASSUME NEW n \in Nat, NEW t \in TryRec, t.token \in 0 .. n, NEW answer \in Nat,
         t.phase \in {"post", "fresh", "again", "who", "verify"}, t.phase = "fresh" => answer \in 0 .. n
  PROVE  /\ SameUser(t, Advanced(t, answer)) /\ Advanced(t, answer).token \in 0 .. n
         /\ Advanced(t, answer).phase \in {"fresh", "again", "who", "key", "over"}
         /\ t.phase = "post" /\ answer = 400 => Advanced(t, answer).phase = "fresh" /\ Advanced(t, answer).token = t.token
         /\ (t.phase = "post" /\ answer # 400) \/ t.phase = "again" =>
              Advanced(t, answer).phase = (IF answer = 200 THEN "key" ELSE "who") /\ Advanced(t, answer).token = t.token
         /\ t.phase = "fresh" /\ answer # t.token => Advanced(t, answer).phase = "again" /\ Advanced(t, answer).token = answer
<1> DEFINE u == Advanced(t, answer)
<1>1. CASE t.phase = "post" /\ answer = 400
  <2>1. u = [t EXCEPT !.phase = "fresh"]
    BY <1>1 DEF Advanced, AfterPost
  <2> HIDE DEF u
  <2>2. u \in TryRec
    BY <2>1 DEF TryRec
  <2>3. u.password = t.password /\ u.crossed = t.crossed /\ u.failed = t.failed /\ u.token = t.token /\ u.phase = "fresh"
    BY <2>1 DEF TryRec
  <2> QED
    BY <1>1, <2>2, <2>3 DEF SameUser, u
<1>2. CASE (t.phase = "post" /\ answer # 400) \/ t.phase = "again"
  <2>1. u = Verdict(t, answer)
    BY <1>2 DEF Advanced, AfterPost
  <2> HIDE DEF u
  <2> QED
    BY <1>2, <2>1, VerdictIs DEF u
<1>3. CASE t.phase = "fresh" /\ answer # t.token
  <2>1. u = [t EXCEPT !.token = answer, !.phase = "again"]
    BY <1>3 DEF Advanced, Freshened
  <2> HIDE DEF u
  <2>2. u \in TryRec
    BY <2>1 DEF TryRec
  <2>3. u.password = t.password /\ u.crossed = t.crossed /\ u.failed = t.failed /\ u.token = answer /\ u.phase = "again"
    BY <2>1 DEF TryRec
  <2> QED
    BY <1>3, <2>2, <2>3 DEF SameUser, u
<1>4. CASE t.phase = "fresh" /\ answer = t.token
  <2>1. u = Verdict(t, 400)
    BY <1>4 DEF Advanced, Freshened
  <2> HIDE DEF u
  <2> QED
    BY <1>4, <2>1, VerdictIs DEF u
<1>5. CASE t.phase \in {"who", "verify"}
  <2>1. \E said \in {"expired", "blocked", "wrong", "keyfailed", "cancelled", "network"} : u = Over(t, said)
    <3>1. LoginError(t.status) \in {"expired", "blocked", "wrong"}
      BY DEF LoginError
    <3> QED
      BY <1>5, <3>1 DEF Advanced
  <2> HIDE DEF u
  <2> QED
    BY <1>5, <2>1, OverIs DEF u
<1> QED
  BY <1>1, <1>2, <1>3, <1>4, <1>5

\* Try, in the words of TryFits.
LEMMA TryIs ==
  ASSUME SignInv, NEW i \in Submits, NEW t, NEW c, Try(i, t, c)
  PROVE  /\ door' = WithTry(Crossed(door, i, FALSE), i, t, door.held) /\ asked' = [asked EXCEPT ![i] = c]
         /\ door.held \in 0 .. Len(vault)
<1>1. Crossed(door, i, FALSE) = door
  BY DEF Crossed
<1>2. door \in DoorRec /\ door.held \in 0 .. Len(vault)
  BY SignParts DEF DoorFits
<1>3. [door EXCEPT !.tries[i] = t] = [door EXCEPT !.tries[i] = t, !.held = door.held]
  BY <1>2 DEF DoorRec
<1> QED
  BY <1>1, <1>2, <1>3 DEF Try, WithTry

\* Only the login page has submissions.
LEMMA TryingIs ==
  ASSUME SignInv, NEW i \in Submits, asked[i].kind # "none" \/ door.tries[i].phase = "key"
  PROVE  door.page = "login" /\ door.tries[i].phase # "none"
         /\ (asked[i].kind # "none" => door.tries[i].phase \in {"post", "fresh", "again", "who", "verify"})
<1>1. asked[i].kind = KindOf(door.tries[i].phase) /\ door.tries[i] \in TryRec
  BY SignParts DEF TriesFit
<1>2. asked[i].kind # "none" => door.tries[i].phase \in {"post", "fresh", "again", "who", "verify"}
  BY <1>1 DEF KindOf, TryRec
<1>3. door.tries[i].phase # "none"
  BY <1>2
<1>4. door.page = "login"
  BY <1>3, SignParts DEF DoorFits
<1> QED
  BY <1>2, <1>3, <1>4

\* A submission leaves.
LEMMA SubmitStep == SignInv /\ SubmitLogin => SignInv'
<1> SUFFICES ASSUME SignInv, SubmitLogin PROVE SignInv'
  OBVIOUS
<1>1. PICK i \in Submits, password \in Passwords :
        /\ door.page = "login" /\ door.held # 0
        /\ door.tries[i].phase = "none" /\ \A j \in 1..i - 1 : door.tries[j].phase # "none"
        /\ Try(i, [NoTry EXCEPT !.phase = "post", !.token = door.held, !.password = password], Leaves("login", door.held))
        /\ UNCHANGED <<vault, jar>>
  BY DEF SubmitLogin
<1> DEFINE h == door.held
           t == [NoTry EXCEPT !.phase = "post", !.token = h, !.password = password]
           b == PutCall("login", jar, h)
<1>2. h \in 0 .. Len(vault) /\ h \in Nat /\ Len(vault) \in Nat /\ jar \in 0 .. Len(vault)
  BY SignParts DEF DoorFits
<1>3. Try(i, t, b)
  BY <1>1 DEF Leaves, PutCall
<1> HIDE DEF h, b
<1>4. t \in TryRec
  BY <1>2 DEF NoTry, TryRec, Passwords
<1>5. t.phase = "post" /\ t.token = h
  BY DEF NoTry
<1> HIDE DEF t
<1>6. ReplyFits(Len(vault), b) /\ b.kind = "login" /\ b.cookie = jar /\ b.token = h /\ ~b.served
  BY <1>2, PutCallIs DEF b
<1>7. KindOf(t.phase) = "login"
  BY <1>5 DEF KindOf
<1>8. Healthy(vault, jar, t, b)
  BY <1>5, <1>6 DEF Healthy
<1>9. door' = WithTry(Crossed(door, i, FALSE), i, t, door.held) /\ asked' = [asked EXCEPT ![i] = b] /\ door.held \in 0 .. Len(vault)
  BY <1>3, TryIs
<1>10. SignFits(vault, jar, door', [asked EXCEPT ![i] = b])
  BY <1>1, <1>2, <1>4, <1>5, <1>6, <1>7, <1>8, <1>9, TryFits
<1> QED
  BY <1>1, <1>9, <1>10 DEF SignInv

\* The network fails a submission.
LEMMA LostTryStep == SignInv /\ SubmitLost => SignInv'
<1> SUFFICES ASSUME SignInv, SubmitLost PROVE SignInv'
  OBVIOUS
<1>1. PICK i \in Submits :
        LET t == [door.tries[i] EXCEPT !.failed = TRUE]
            next == IF t.phase = "fresh" THEN Verdict(t, 400) ELSE Over(t, "network")
        IN /\ asked[i].kind # "none"
           /\ Try(i, next, NextCall(next, jar))
           /\ UNCHANGED <<vault, jar>>
  BY DEF SubmitLost
<1>2. PICK t : t = [door.tries[i] EXCEPT !.failed = TRUE]
  OBVIOUS
<1>3. PICK next : next = IF t.phase = "fresh" THEN Verdict(t, 400) ELSE Over(t, "network")
  OBVIOUS
<1>4. Try(i, next, NextCall(next, jar)) /\ vault' = vault /\ jar' = jar /\ door.page = "login"
  BY <1>1, <1>2, <1>3, TryingIs
<1>5. door.tries[i] \in TryRec /\ door.tries[i].token \in 0 .. Len(vault) /\ Len(vault) \in Nat /\ jar \in 0 .. Len(vault)
  BY SignParts
<1>6. t \in TryRec /\ t.token = door.tries[i].token /\ t.failed = TRUE
  BY <1>2, <1>5 DEF TryRec
<1>7. SameUser(t, next) /\ next.token = t.token /\ next.phase \in {"who", "over"}
  BY <1>3, <1>6, VerdictIs, OverIs
<1>8. next \in TryRec /\ ~Uncrossed(next) /\ next.token \in 0 .. Len(vault)
  BY <1>5, <1>6, <1>7 DEF SameUser, Uncrossed
<1>9. ReplyFits(Len(vault), NextCall(next, jar)) /\ NextCall(next, jar).kind = KindOf(next.phase)
  BY <1>5, <1>7, <1>8, NextCallIs
<1>10. /\ door' = WithTry(Crossed(door, i, FALSE), i, next, door.held) /\ asked' = [asked EXCEPT ![i] = NextCall(next, jar)]
       /\ door.held \in 0 .. Len(vault)
  BY <1>4, TryIs
<1>11. SignFits(vault, jar, door', [asked EXCEPT ![i] = NextCall(next, jar)])
  BY <1>4, <1>5, <1>8, <1>9, <1>10, TryFits
<1> QED
  BY <1>4, <1>10, <1>11 DEF SignInv

\* The passkey answers or is cancelled.
LEMMA TouchStep == SignInv /\ TouchKey => SignInv'
<1> SUFFICES ASSUME SignInv, TouchKey PROVE SignInv'
  OBVIOUS
<1>1. PICK i \in Submits, cancelled \in BOOLEAN :
        LET t == door.tries[i]
        IN /\ t.phase = "key"
           /\ IF cancelled THEN Try(i, Over(t, "cancelled"), NoCall)
              ELSE Try(i, [t EXCEPT !.phase = "verify"], Leaves("verify", t.token))
           /\ UNCHANGED <<vault, jar>>
  BY DEF TouchKey
<1>2. PICK t : t = door.tries[i]
  OBVIOUS
<1>3. vault' = vault /\ jar' = jar /\ door.page = "login" /\ t.phase = "key"
  BY <1>1, <1>2, TryingIs
<1>4. t \in TryRec /\ t.token \in 0 .. Len(vault) /\ Len(vault) \in Nat /\ jar \in 0 .. Len(vault)
  BY <1>2, SignParts
<1>5. Uncrossed(t) => Healthy(vault, jar, t, asked[i])
  BY <1>2, SignParts DEF TriesFit
<1>6. CASE cancelled
  <2> DEFINE u == Over(t, "cancelled")
  <2>1. Try(i, u, NoCall)
    BY <1>1, <1>2, <1>6
  <2>2. SameUser(t, u) /\ u.token = t.token /\ u.phase = "over" /\ u.said = "cancelled"
    BY <1>4, OverIs
  <2> HIDE DEF u
  <2>3. ReplyFits(Len(vault), NoCall) /\ NoCall.kind = KindOf(u.phase)
    BY <1>4, <2>2, NoCallIs DEF KindOf
  <2>4. u \in TryRec /\ u.token \in 0 .. Len(vault) /\ Healthy(vault, jar, u, NoCall)
    BY <1>4, <2>2 DEF SameUser, Healthy
  <2>5. /\ door' = WithTry(Crossed(door, i, FALSE), i, u, door.held) /\ asked' = [asked EXCEPT ![i] = NoCall]
        /\ door.held \in 0 .. Len(vault)
    BY <2>1, TryIs
  <2>6. SignFits(vault, jar, door', [asked EXCEPT ![i] = NoCall])
    BY <1>3, <1>4, <2>3, <2>4, <2>5, TryFits
  <2> QED
    BY <1>3, <2>5, <2>6 DEF SignInv
<1>7. CASE ~cancelled
  <2> DEFINE u == [t EXCEPT !.phase = "verify"]
             b == PutCall("verify", jar, t.token)
  <2>1. Try(i, u, b)
    BY <1>1, <1>2, <1>7 DEF Leaves, PutCall
  <2>2. u \in TryRec
    BY <1>4 DEF TryRec
  <2>3. u.password = t.password /\ u.crossed = t.crossed /\ u.failed = t.failed /\ u.token = t.token /\ u.phase = "verify"
    BY <1>4 DEF TryRec
  <2>4. ReplyFits(Len(vault), b) /\ b.kind = "verify" /\ b.cookie = jar /\ b.token = t.token /\ ~b.served
    BY <1>4, PutCallIs
  <2> HIDE DEF u, b
  <2>5. b.kind = KindOf(u.phase)
    BY <2>3, <2>4 DEF KindOf
  <2>6. Uncrossed(u) => Healthy(vault, jar, u, b)
    <3>1. Uncrossed(u) => TokenIn(vault, jar, t.token)
      BY <1>3, <1>5, <2>3 DEF Uncrossed, Healthy
    <3> QED
      BY <2>3, <2>4, <3>1 DEF Healthy
  <2>7. /\ door' = WithTry(Crossed(door, i, FALSE), i, u, door.held) /\ asked' = [asked EXCEPT ![i] = b]
        /\ door.held \in 0 .. Len(vault)
    BY <2>1, TryIs
  <2>8. SignFits(vault, jar, door', [asked EXCEPT ![i] = b])
    BY <1>3, <1>4, <2>2, <2>3, <2>4, <2>5, <2>6, <2>7, TryFits
  <2> QED
    BY <1>3, <2>7, <2>8 DEF SignInv
<1> QED
  BY <1>6, <1>7

\* An answer of a submission lands.
LEMMA SubmitLandsStep == SignInv /\ SubmitLands => SignInv'
<1> SUFFICES ASSUME SignInv, SubmitLands PROVE SignInv'
  OBVIOUS
<1>1. PICK i \in Submits :
        LET c == asked[i]
            t == door.tries[i]
            next == Advanced(t, c.answer)
        IN /\ c.served
           /\ jar' = Jar(c.set)
           /\ IF t.phase \in {"who", "verify"} /\ c.answer = 200
              THEN DocumentLoads(Gate(jar', TRUE), jar')
              ELSE /\ door' = [Crossed(door, i, c.set # 0) EXCEPT
                                 !.tries[i] = next,
                                 !.held = IF t.phase = "fresh" THEN next.token ELSE @]
                   /\ asked' = [asked EXCEPT ![i] = NextCall(next, jar')]
           /\ UNCHANGED vault
  BY DEF SubmitLands
<1>2. PICK c, t, k : c = asked[i] /\ t = door.tries[i] /\ k = Jar(c.set)
  OBVIOUS
<1>3. PICK next : next = Advanced(t, c.answer)
  OBVIOUS
<1>4. c.served /\ jar' = k /\ vault' = vault
  BY <1>1, <1>2
<1>5. /\ ReplyFits(Len(vault), c) /\ c \in AskRec /\ c.kind = KindOf(t.phase) /\ t \in TryRec /\ t.token \in 0 .. Len(vault)
      /\ Len(vault) \in Nat /\ (Uncrossed(t) => Healthy(vault, jar, t, c)) /\ VaultFits(vault) /\ door \in DoorRec
  BY <1>2, SignParts, CallersAre DEF TriesFit
<1>6. c.kind # "none" /\ c.answer \in Nat /\ t.phase \in {"post", "fresh", "again", "who", "verify"} /\ door.page = "login"
  <2>1. c.kind # "none"
    BY <1>4, <1>5 DEF ReplyFits
  <2>2. c.answer \in Nat
    BY <1>5 DEF AskRec
  <2> QED
    BY <1>2, <2>1, <2>2, TryingIs
<1>7. c.kind # "logout" /\ (t.phase = "fresh" => c.answer \in 0 .. Len(vault))
  <2>1. (t.phase = "fresh" => c.kind = "csrf") /\ c.kind # "logout"
    BY <1>5, <1>6 DEF KindOf
  <2> QED
    BY <1>4, <1>5, <2>1 DEF ReplyFits
<1>8. k = Landed(jar, c) /\ k \in 0 .. Len(vault)
  BY <1>2, <1>7, CallersAre, JarIs
<1>9. CASE t.phase \in {"who", "verify"} /\ c.answer = 200
  <2>1. DocumentLoads(Gate(k, TRUE), k)
    BY <1>1, <1>2, <1>4, <1>9
  <2>2. Gate(k, TRUE) \in {"login", "app"}
    BY DEF Gate
  <2>3. SignFits(vault, k, door', asked')
    BY <1>5, <1>8, <2>1, <2>2, DocumentFits
  <2> QED
    BY <1>4, <2>3 DEF SignInv
<1>10. CASE ~(t.phase \in {"who", "verify"} /\ c.answer = 200)
  <2> DEFINE moved == c.set # 0
             e == Crossed(door, i, moved)
             h == IF t.phase = "fresh" THEN next.token ELSE e.held
             b == NextCall(next, k)
  <2>1. asked' = [asked EXCEPT ![i] = b]
    BY <1>1, <1>2, <1>3, <1>4, <1>10
  <2>2. door' = [e EXCEPT !.tries[i] = next, !.held = IF t.phase = "fresh" THEN next.token ELSE @]
    BY <1>1, <1>2, <1>3, <1>10
  <2>3. moved \in BOOLEAN /\ (~moved => k = jar)
    BY <1>8 DEF Landed
  <2>4. e \in DoorRec /\ e.held = door.held /\ door.held \in 0 .. Len(vault)
    BY <1>5, <2>3, SignParts, CrossedIs DEF DoorFits
  <2>5. /\ SameUser(t, next) /\ next.token \in 0 .. Len(vault) /\ next.phase \in {"fresh", "again", "who", "key", "over"}
        /\ t.phase = "post" /\ c.answer = 400 => next.phase = "fresh" /\ next.token = t.token
        /\ (t.phase = "post" /\ c.answer # 400) \/ t.phase = "again" =>
             next.phase = (IF c.answer = 200 THEN "key" ELSE "who") /\ next.token = t.token
        /\ t.phase = "fresh" /\ c.answer # t.token => next.phase = "again" /\ next.token = c.answer
    BY <1>3, <1>5, <1>6, <1>7, AdvancedIs
  <2>6. h \in 0 .. Len(vault)
    BY <2>4, <2>5
  <2>7. door' = WithTry(e, i, next, h)
    <3> HIDE DEF e
    <3> QED
      BY <2>2, <2>4 DEF WithTry, DoorRec
  <2>8. ReplyFits(Len(vault), b) /\ b.kind = KindOf(next.phase) /\ ~b.served
        /\ (next.phase \in {"fresh", "again", "who"} => b.cookie = k /\ b.token = next.token)
    BY <1>5, <1>8, <2>5, NextCallIs
  <2> HIDE DEF b, h, moved
  <2>9. ASSUME Uncrossed(next) PROVE Healthy(vault, k, next, b)
    <3>1. Healthy(vault, jar, t, c)
      BY <1>5, <2>5, <2>9 DEF SameUser, Uncrossed
    <3>2. t.phase \in {"post", "fresh", "again"}
      BY <1>4, <1>6, <1>10, <3>1 DEF Healthy
    <3>3. CASE t.phase = "post" /\ c.answer = 400
      <4>1. c.set = 0 /\ ~TokenIn(vault, jar, t.token)
        BY <1>4, <3>1, <3>3 DEF Healthy, LetIn
      <4>2. k = jar
        BY <1>8, <4>1 DEF Landed
      <4> QED
        BY <2>5, <2>8, <3>3, <4>1, <4>2 DEF Healthy
    <3>4. CASE (t.phase = "post" /\ c.answer # 400) \/ t.phase = "again"
      <4>1. LetIn(vault, jar, t, c)
        BY <1>4, <3>1, <3>4 DEF Healthy
      <4>2. CASE c.answer = 302 /\ UserIn(vault, Landed(jar, c))
        <5>1. next.phase = "who" /\ UserIn(vault, k)
          BY <1>8, <2>5, <3>4, <4>2
        <5> QED
          BY <2>8, <5>1 DEF Healthy
      <4>3. CASE c.answer = 200 /\ c.set = 0 /\ TokenIn(vault, jar, t.token)
        <5>1. next.phase = "key" /\ TokenIn(vault, k, next.token)
          BY <1>8, <2>5, <3>4, <4>3 DEF Landed
        <5> QED
          BY <5>1 DEF Healthy
      <4> QED
        BY <4>1, <4>2, <4>3 DEF LetIn
    <3>5. CASE t.phase = "fresh"
      <4>1. TokenIn(vault, Landed(jar, c), c.answer) /\ c.answer # t.token
        BY <1>4, <3>1, <3>5 DEF Healthy
      <4>2. next.phase = "again" /\ TokenIn(vault, k, next.token)
        BY <1>8, <2>5, <3>5, <4>1
      <4> QED
        BY <2>8, <4>2 DEF Healthy
    <3> QED
      BY <3>2, <3>3, <3>4, <3>5
  <2>10. next \in TryRec
    BY <2>5 DEF SameUser
  <2>11. SignFits(vault, k, door', [asked EXCEPT ![i] = b])
    BY <1>6, <1>8, <2>3, <2>5, <2>6, <2>7, <2>8, <2>9, <2>10, TryFits
  <2> QED
    BY <1>4, <2>1, <2>11 DEF SignInv
<1> QED
  BY <1>9, <1>10

\* On a page of the portal nothing is submitted.
LEMMA OutsideLogin ==
  ASSUME SignInv, NEW v, NEW k, NEW d, NEW b, d.tries = door.tries, door.page = "app"
  PROVE  TriesFit(v, k, d, [asked EXCEPT ![SignOut] = b])
<1>0. asked \in [Callers -> AskRec] /\ \A i \in Submits : door.tries[i].phase = "none" /\ asked[i].kind = KindOf(door.tries[i].phase)
  BY SignParts DEF DoorFits, TriesFit
<1>1. \A i \in Submits : [asked EXCEPT ![SignOut] = b][i] = asked[i]
  BY <1>0, CallersAre
<1> QED
  BY <1>0, <1>1 DEF TriesFit, Healthy

\* The sign-out asks for the token.
LEMMA LogoutStep == SignInv /\ Logout => SignInv'
<1> SUFFICES ASSUME SignInv, Logout PROVE SignInv'
  OBVIOUS
<1> DEFINE b == PutCall("csrf", jar, 0)
           a == [asked EXCEPT ![SignOut] = b]
<1>1. door.page = "app" /\ asked' = a /\ vault' = vault /\ jar' = jar /\ door' = door
  BY DEF Logout, Leaves, PutCall
<1>0. /\ VaultFits(vault) /\ Len(vault) \in Nat /\ jar \in 0 .. Len(vault) /\ 0 \in 0 .. Len(vault) /\ DoorFits(Len(vault), door)
      /\ RepliesFit(Len(vault), asked) /\ asked \in [Callers -> AskRec]
  BY SignParts
<1>2. ReplyFits(Len(vault), b) /\ b.kind = "csrf" /\ b.cookie = jar /\ ~b.served
  BY <1>0, PutCallIs
<1> HIDE DEF b
<1>3. RepliesFit(Len(vault), a)
  BY <1>0, <1>2, CallersAre, CallChanges
<1>4. TriesFit(vault, jar, door, a)
  BY <1>1, OutsideLogin
<1>5. a[SignOut] = b
  BY <1>0, CallersAre
<1>6. OutFits(vault, jar, door, a)
  BY <1>1, <1>2, <1>5 DEF OutFits, Leaving
<1> QED
  BY <1>0, <1>1, <1>3, <1>4, <1>6 DEF SignInv, SignFits

\* The sign-out's form is sent.
LEMMA RefreshedStep == SignInv /\ LogoutRefreshed => SignInv'
<1> SUFFICES ASSUME SignInv, LogoutRefreshed PROVE SignInv'
  OBVIOUS
<1>1. PICK failed \in BOOLEAN :
        LET c == asked[SignOut]
            token == IF failed THEN door.provider ELSE c.answer
            cookie == IF failed THEN jar ELSE Jar(c.set)
        IN /\ c.kind = "csrf" /\ (c.served \/ failed)
           /\ jar' = cookie
           /\ door' = [door EXCEPT !.provider = token, !.unsure = @ \/ failed]
           /\ asked' = [asked EXCEPT ![SignOut] =
                          [NoCall EXCEPT !.kind = "logout", !.cookie = cookie, !.token = token]]
           /\ UNCHANGED vault
  BY DEF LogoutRefreshed
<1> DEFINE c == asked[SignOut]
<1>2. PICK token, k : token = (IF failed THEN door.provider ELSE c.answer) /\ k = (IF failed THEN jar ELSE Jar(c.set))
  OBVIOUS
<1> DEFINE b == PutCall("logout", k, token)
           a == [asked EXCEPT ![SignOut] = b]
           u == door.unsure \/ failed
           d == [door EXCEPT !.provider = token, !.unsure = u]
<1>0. /\ VaultFits(vault) /\ Len(vault) \in Nat /\ jar \in 0 .. Len(vault) /\ DoorFits(Len(vault), door)
      /\ RepliesFit(Len(vault), asked) /\ asked \in [Callers -> AskRec] /\ ReplyFits(Len(vault), c) /\ door \in DoorRec
      /\ door.provider \in 0 .. Len(vault) /\ OutFits(vault, jar, door, asked)
  BY SignParts, CallersAre DEF DoorFits
<1>3. c.kind = "csrf" /\ (c.served \/ failed) /\ jar' = k /\ asked' = a /\ vault' = vault
  BY <1>1, <1>2 DEF PutCall
<1>4. door' = d
  BY <1>0, <1>1, <1>2 DEF DoorRec
<1>5. door.page = "app"
  BY <1>0, <1>3 DEF OutFits
<1>6. c.served => c.answer \in 0 .. Len(vault)
  BY <1>0, <1>3 DEF ReplyFits
<1>7. token \in 0 .. Len(vault) /\ token \in Nat
  BY <1>0, <1>2, <1>3, <1>6
<1>8. k \in 0 .. Len(vault) /\ (~failed => k = Landed(jar, c))
  BY <1>0, <1>2, <1>3, CallersAre, JarIs
<1>9. ReplyFits(Len(vault), b) /\ b.kind = "logout" /\ b.cookie = k /\ b.token = token /\ ~b.served
  BY <1>0, <1>7, <1>8, PutCallIs
<1>10. u \in BOOLEAN /\ (~u => ~door.unsure /\ ~failed)
  BY <1>0 DEF DoorRec
<1> HIDE DEF b, u, c
<1>11. /\ d \in DoorRec /\ d.page = door.page /\ d.tries = door.tries /\ d.held = door.held /\ d.provider = token /\ d.unsure = u
  BY <1>0, <1>7, <1>10 DEF DoorRec
<1> HIDE DEF d
<1>12. DoorFits(Len(vault), d)
  BY <1>0, <1>5, <1>7, <1>11 DEF DoorFits
<1>13. RepliesFit(Len(vault), a)
  BY <1>0, <1>9, CallersAre, CallChanges
<1>14. TriesFit(vault, k, d, a)
  BY <1>5, <1>11, OutsideLogin
<1>15. a[SignOut] = b
  BY <1>0, CallersAre
<1>16. ~u => TokenIn(vault, k, token)
  BY <1>0, <1>2, <1>3, <1>8, <1>10 DEF OutFits, Leaving, c
<1>17. OutFits(vault, k, d, a)
  BY <1>5, <1>9, <1>11, <1>15, <1>16 DEF OutFits, Leaving
<1> QED
  BY <1>0, <1>3, <1>4, <1>8, <1>12, <1>13, <1>14, <1>17 DEF SignInv, SignFits

\* The browser follows the answer of the sign-out.
LEMMA LeftStep == SignInv /\ LogoutLands => SignInv'
<1> SUFFICES ASSUME SignInv, LogoutLands PROVE SignInv'
  OBVIOUS
<1> DEFINE c == asked[SignOut]
<1>1. c.kind = "logout" /\ c.served /\ jar' = Jar(c.set) /\ vault' = vault
  BY DEF LogoutLands
<1>0. /\ VaultFits(vault) /\ Len(vault) \in Nat /\ door \in DoorRec /\ DoorFits(Len(vault), door)
      /\ OutFits(vault, jar, door, asked)
  BY SignParts
<1>2. PICK k : k = Jar(c.set)
  OBVIOUS
<1>3. k \in 0 .. Len(vault) /\ jar' = k
  BY <1>1, <1>2, CallersAre, JarIs
<1>4. CASE c.answer = 302
  <2>1. DocumentLoads("login", k)
    BY <1>1, <1>2, <1>4 DEF LogoutLands
  <2>2. SignFits(vault, k, door', asked')
    BY <1>0, <1>3, <2>1, DocumentFits
  <2> QED
    BY <1>1, <1>3, <2>2 DEF SignInv
<1>5. CASE c.answer # 302
  <2> DEFINE d == [door EXCEPT !.page = "refused"]
  <2>1. door' = d /\ asked' = NoCalls
    BY <1>5 DEF LogoutLands
  <2>2. door.page = "app" /\ door.unsure
    BY <1>0, <1>1, <1>5 DEF OutFits, Leaving
  <2>3. /\ d \in DoorRec
    BY <1>0 DEF DoorRec
  <2>4. d.page = "refused" /\ d.tries = door.tries /\ d.held = door.held /\ d.provider = door.provider /\ d.unsure = door.unsure
    BY <1>0 DEF DoorRec
  <2> HIDE DEF d
  <2>5. DoorFits(Len(vault), d) /\ \A i \in Submits : d.tries[i].phase = "none"
    BY <1>0, <2>2, <2>3, <2>4 DEF DoorFits
  <2>6. NoCall \in AskRec /\ ReplyFits(Len(vault), NoCall) /\ NoCall.kind = "none"
    BY <1>0, NoCallIs
  <2>7. NoCalls \in [Callers -> AskRec] /\ \A w \in Callers : NoCalls[w] = NoCall
    BY <2>6 DEF NoCalls, Callers
  <2>8. RepliesFit(Len(vault), NoCalls)
    BY <2>6, <2>7, CallersAre DEF RepliesFit
  <2>9. TriesFit(vault, k, d, NoCalls)
    <3>1. KindOf("none") = "none"
      BY DEF KindOf
    <3> QED
      BY <2>5, <2>6, <2>7, <3>1, CallersAre DEF TriesFit, Healthy
  <2>10. OutFits(vault, k, d, NoCalls)
    BY <2>6, <2>7, CallersAre DEF OutFits, Leaving
  <2> QED
    BY <1>0, <1>1, <1>3, <2>1, <2>5, <2>8, <2>9, <2>10 DEF SignInv, SignFits
<1> QED
  BY <1>4, <1>5

\* The session moves under the page.
LEMMA MovesFit ==
  ASSUME SignInv, NEW v, NEW k, Later(vault, v), CookieMoves(v, k), k \in 0 .. Len(v)
  PROVE  SignInv'
<1> DEFINE e == Crossed(door, 0, TRUE)
           m == e.moves + 1
           d == [e EXCEPT !.moves = m]
<1>0. /\ VaultFits(v) /\ Len(v) \in Nat /\ Len(vault) \in Nat /\ Len(vault) <= Len(v)
  BY SignParts DEF CookieMoves, Later
<1>1. vault' = v /\ jar' = k /\ asked' = asked /\ door' = [e EXCEPT !.moves = @ + 1]
  BY DEF CookieMoves
<1>2. DoorFits(Len(vault), e) /\ e \in DoorRec /\ e.page = door.page
  BY CrossedFits, CrossedIs, SignParts
<1>3. door' = d /\ m \in Nat
  <2> HIDE DEF e
  <2> QED
    BY <1>1, <1>2 DEF DoorRec
<1> HIDE DEF e, m
<1>4. d \in DoorRec /\ d.page = e.page /\ d.tries = e.tries /\ d.held = e.held /\ d.provider = e.provider /\ d.unsure = e.unsure
  BY <1>2, <1>3 DEF DoorRec
<1> HIDE DEF d
<1>5. DoorFits(Len(v), d)
  <2>1. DoorFits(Len(v), e)
    BY <1>0, <1>2, FitsGrow
  <2> QED
    BY <1>4, <2>1 DEF DoorFits
<1>6. RepliesFit(Len(v), asked)
  BY <1>0, SignParts, FitsGrow
<1>7. TriesFit(v, k, d, asked)
  <2>1. \A i \in Submits : d.tries[i] = Crossed(door, 0, TRUE).tries[i]
    BY <1>4 DEF e
  <2> QED
    BY <2>1, CallersAre, TriesStep
<1>8. OutFits(v, k, d, asked)
  <2>1. d.page = door.page /\ (Crossed(door, 0, TRUE).unsure => d.unsure)
    BY <1>2, <1>4 DEF e
  <2> QED
    BY <2>1, CallersAre, OutStep
<1> QED
  BY <1>0, <1>1, <1>3, <1>5, <1>6, <1>7, <1>8 DEF SignInv, SignFits

\* Other tabs, and the clock.
LEMMA ElsewhereStep == SignInv /\ (OtherTab \/ Expires) => SignInv'
<1> SUFFICES ASSUME SignInv, OtherTab \/ Expires PROVE SignInv'
  OBVIOUS
<1>0. VaultFits(vault) /\ Len(vault) \in Nat
  BY SignParts
<1>1. ASSUME Live(jar) PROVE Later(vault, Dropped(vault, jar)) /\ Len(Dropped(vault, jar)) = Len(vault) /\ jar \in 0 .. Len(vault)
  <2>1. jar \in 1 .. Len(vault) /\ jar \in 0 .. Len(vault)
    BY <1>1, PortalSays, SignParts
  <2> QED
    BY <1>0, <2>1, DroppedIs DEF Later
<1>2. CASE SignedIn(jar) /\ CookieMoves(Dropped(vault, jar), NoCookie)
  <2>1. Later(vault, Dropped(vault, jar)) /\ NoCookie \in 0 .. Len(Dropped(vault, jar))
    BY <1>0, <1>1, <1>2 DEF SignedIn, NoCookie
  <2> QED
    BY <1>2, <2>1, MovesFit
<1>3. CASE CookieMoves(Append(vault, [csrf |-> Len(vault) + 1, user |-> TRUE, live |-> TRUE]), Len(vault) + 1)
  <2> DEFINE m == Len(vault) + 1
             v == Append(vault, [csrf |-> m, user |-> TRUE, live |-> TRUE])
  <2>1. m \in 1 .. Len(vault) + 1 /\ m \in Nat
    BY <1>0
  <2>2. Later(vault, v) /\ Len(v) = m
    BY <1>0, <2>1, AddedIs
  <2>3. CookieMoves(v, m)
    BY <1>3
  <2> HIDE DEF m, v
  <2>4. m \in 0 .. Len(v)
    BY <2>1, <2>2
  <2> QED
    BY <2>2, <2>3, <2>4, MovesFit
<1>4. CASE Expires
  <2>1. Live(jar) /\ CookieMoves(Dropped(vault, jar), jar)
    BY <1>4 DEF Expires
  <2>2. Later(vault, Dropped(vault, jar)) /\ jar \in 0 .. Len(Dropped(vault, jar))
    BY <1>1, <2>1
  <2> QED
    BY <2>1, <2>2, MovesFit
<1> QED
  BY <1>2, <1>3, <1>4 DEF OtherTab

\* Every step of signing in and out keeps the invariant.
LEMMA SignStep == SignInv /\ [SignInNext]_signVars => SignInv'
<1> SUFFICES ASSUME SignInv, [SignInNext]_signVars PROVE SignInv'
  OBVIOUS
<1>1. CASE UNCHANGED signVars
  BY <1>1 DEF signVars, SignInv
<1>2. CASE SignInNext
  BY <1>2, ServeStep, VisitStep, TokenStep, LostTokenStep, SubmitStep, SubmitLandsStep, LostTryStep, TouchStep,
     LogoutStep, RefreshedStep, LeftStep, ElsewhereStep DEF SignInNext
<1> QED
  BY <1>1, <1>2

\* The invariant says what the runs check of signing in and out.
LEMMA SignIs == SignInv => SignInSound /\ SignInTypeOK
<1> SUFFICES ASSUME SignInv PROVE SignInSound /\ SignInTypeOK
  OBVIOUS
<1>1. RightPasswordEnters
  BY SignParts DEF RightPasswordEnters, TriesFit, Uncrossed, Healthy
<1>2. SignOutWorks
  BY SignParts DEF SignOutWorks, DoorFits
<1>3. \A s \in DOMAIN vault : vault[s] \in [csrf : 1..MaxSessions, user : BOOLEAN, live : BOOLEAN]
  <2> SUFFICES ASSUME NEW s \in DOMAIN vault PROVE vault[s] \in [csrf : 1..MaxSessions, user : BOOLEAN, live : BOOLEAN]
    OBVIOUS
  <2>1. s \in 1 .. Len(vault) /\ vault[s] \in SessionRec
    BY SignParts, LenProperties, ElementOfSeq
  <2>2. vault[s].csrf \in 1 .. MaxSessions
    BY <2>1, SignParts, SignInAssumption DEF VaultFits
  <2> QED
    BY <2>1, <2>2 DEF SessionRec
<1>4. Len(vault) <= MaxSessions /\ jar \in 0 .. Len(vault) /\ door.page \in {"login", "app", "refused"}
      /\ {door.held, door.provider} \subseteq 0 .. Len(vault)
  BY SignParts DEF VaultFits, DoorFits, DoorRec
<1>5. \A i \in Submits : door.tries[i].phase \in {"none", "post", "fresh", "again", "key", "verify", "who", "over"}
  BY SignParts DEF TryRec
<1> QED
  BY <1>1, <1>2, <1>3, <1>4, <1>5 DEF SignInSound, SignInTypeOK

-----------------------------------------------------------------------------
(***************************************************************************)
(* The pages together: the component shown moves by its own steps and the  *)
(* others stand still, so each component's invariant is one of the portal  *)
(* while it is mounted.                                                    *)
(***************************************************************************)

\* The inductive invariant of the portal: the one of the component shown.
PagesInv ==
  /\ mounted \in Components
  /\ mounted = "dictation" => DictInv
  /\ mounted = "studio" => StudioInv
  /\ mounted = "clone" => CloneInv
  /\ mounted = "bench" => BenchInv
  /\ mounted = "preferences" => PrefInv
  /\ mounted = "composer" => BoxInv
  /\ mounted = "panel" => PanelInv
  /\ mounted = "logs" => LogsInv
  /\ mounted = "console" => ConsoleInv
  /\ mounted = "users" => UsersInv
  /\ mounted = "lookups" => LookInv
  /\ mounted = "account" => PanesInv
  /\ mounted = "support" => DeskInv
  /\ mounted = "signin" => SignInv
  /\ mounted = "thread" => ThreadInv
  /\ mounted = "text" => TextInv
  /\ mounted = "scan" => ScanInv

\* A portal starts as the component it shows does (PortalInit).
LEMMA InitOfPart ==
  ASSUME PortalInit
  PROVE  /\ mounted \in Components
         /\ mounted = "dictation" => DictInit
         /\ mounted = "studio" => StudioInit
         /\ mounted = "clone" => CloneInit
         /\ mounted = "bench" => BenchInit
         /\ mounted = "preferences" => PrefInit
         /\ mounted = "composer" => ComposerInit
         /\ mounted = "panel" => PanelInit
         /\ mounted = "logs" => AdminLogsInit
         /\ mounted = "console" => ConsoleInit
         /\ mounted = "users" => UsersInit
         /\ mounted = "lookups" => LookupsInit
         /\ mounted = "account" => PanesInit
         /\ mounted = "support" => SupportInit
         /\ mounted = "signin" => SignInInit
         /\ mounted = "thread" => ThreadInit
         /\ mounted = "text" => TextInit
         /\ mounted = "scan" => ScanInit
  BY DEF PortalInit

\* A step of the portal is a step of the component shown, or leaves it alone
\* (PortalNext, Elsewhere): React remounts nothing under it.
LEMMA StepOfPart ==
  ASSUME [PortalNext]_portalVars
  PROVE  /\ mounted' = mounted
         /\ mounted = "dictation" => [DictNext]_dictVars
         /\ mounted = "studio" => [StudioNext]_studioVars
         /\ mounted = "clone" => [CloneNext]_cloneVars
         /\ mounted = "bench" => [BenchNext]_benchVars
         /\ mounted = "preferences" => [PrefNext]_prefVars
         /\ mounted = "composer" => [ComposerNext]_box
         /\ mounted = "panel" => [PanelNext]_panelVars
         /\ mounted = "logs" => [AdminLogsNext]_adminLogVars
         /\ mounted = "console" => [ConsoleNext]_consoleVars
         /\ mounted = "users" => [UsersNext]_userVars
         /\ mounted = "lookups" => [LookupsNext]_lookVars
         /\ mounted = "account" => [PanesNext]_paneVars
         /\ mounted = "support" => [SupportNext]_supportVars
         /\ mounted = "signin" => [SignInNext]_signVars
         /\ mounted = "thread" => [ThreadNext]_threadVars
         /\ mounted = "text" => [TextNext]_textVars
         /\ mounted = "scan" => [ScanNext]_scanVars
<1>1. mounted' = mounted
  BY DEF PortalNext, Elsewhere, portalVars
<1> USE DEF PortalNext, portalVars
<1>2. mounted = "dictation" => [DictNext]_dictVars
  OBVIOUS
<1>3. mounted = "studio" => [StudioNext]_studioVars
  OBVIOUS
<1>4. mounted = "clone" => [CloneNext]_cloneVars
  OBVIOUS
<1>5. mounted = "bench" => [BenchNext]_benchVars
  OBVIOUS
<1>6. mounted = "preferences" => [PrefNext]_prefVars
  OBVIOUS
<1>7. mounted = "composer" => [ComposerNext]_box
  OBVIOUS
<1>8. mounted = "panel" => [PanelNext]_panelVars
  OBVIOUS
<1>9. mounted = "logs" => [AdminLogsNext]_adminLogVars
  OBVIOUS
<1>10. mounted = "console" => [ConsoleNext]_consoleVars
  OBVIOUS
<1>11. mounted = "users" => [UsersNext]_userVars
  OBVIOUS
<1>12. mounted = "lookups" => [LookupsNext]_lookVars
  OBVIOUS
<1>13. mounted = "account" => [PanesNext]_paneVars
  OBVIOUS
<1>14. mounted = "support" => [SupportNext]_supportVars
  OBVIOUS
<1>15. mounted = "signin" => [SignInNext]_signVars
  OBVIOUS
<1>16. mounted = "thread" => [ThreadNext]_threadVars
  OBVIOUS
<1>17. mounted = "text" => [TextNext]_textVars
  OBVIOUS
<1>18. mounted = "scan" => [ScanNext]_scanVars
  OBVIOUS
<1> QED
  BY <1>1, <1>2, <1>3, <1>4, <1>5, <1>6, <1>7, <1>8, <1>9, <1>10, <1>11, <1>12, <1>13, <1>14, <1>15, <1>16, <1>17, <1>18

\* Whatever component the portal shows, it starts within its invariant.
LEMMA PagesInitInv == PortalInit => PagesInv
  BY InitOfPart, DictInitInv, StudioInitInv, CloneInitInv, BenchInitInv, PrefInitInv, BoxInitInv, PanelInitInv, LogsInitInv, ConsoleInitInv, UsersInitInv, LookInitInv, PanesInitInv, DeskInitInv, SignInitInv, ThreadInitInv, TextInitInv, ScanInitInv DEF PagesInv

\* Whatever component the portal shows, a step keeps its invariant.
LEMMA PagesStep == PagesInv /\ [PortalNext]_portalVars => PagesInv'
<1> SUFFICES ASSUME PagesInv, [PortalNext]_portalVars PROVE PagesInv'
  OBVIOUS
<1>0. mounted' = mounted /\ mounted \in Components
  BY StepOfPart DEF PagesInv
<1>1. ASSUME mounted = "dictation" PROVE DictInv'
  <2>1. DictInv /\ [DictNext]_dictVars
    BY <1>1, StepOfPart DEF PagesInv
  <2> QED
    BY <2>1, DictStep
<1>2. ASSUME mounted = "studio" PROVE StudioInv'
  <2>1. StudioInv /\ [StudioNext]_studioVars
    BY <1>2, StepOfPart DEF PagesInv
  <2> QED
    BY <2>1, StudioStep
<1>3. ASSUME mounted = "clone" PROVE CloneInv'
  <2>1. CloneInv /\ [CloneNext]_cloneVars
    BY <1>3, StepOfPart DEF PagesInv
  <2> QED
    BY <2>1, CloneStep
<1>4. ASSUME mounted = "bench" PROVE BenchInv'
  <2>1. BenchInv /\ [BenchNext]_benchVars
    BY <1>4, StepOfPart DEF PagesInv
  <2> QED
    BY <2>1, BenchStep
<1>5. ASSUME mounted = "preferences" PROVE PrefInv'
  <2>1. PrefInv /\ [PrefNext]_prefVars
    BY <1>5, StepOfPart DEF PagesInv
  <2> QED
    BY <2>1, PrefStep
<1>6. ASSUME mounted = "composer" PROVE BoxInv'
  <2>1. BoxInv /\ [ComposerNext]_box
    BY <1>6, StepOfPart DEF PagesInv
  <2> QED
    BY <2>1, BoxStep
<1>7. ASSUME mounted = "panel" PROVE PanelInv'
  <2>1. PanelInv /\ [PanelNext]_panelVars
    BY <1>7, StepOfPart DEF PagesInv
  <2> QED
    BY <2>1, PanelStep
<1>8. ASSUME mounted = "logs" PROVE LogsInv'
  <2>1. LogsInv /\ [AdminLogsNext]_adminLogVars
    BY <1>8, StepOfPart DEF PagesInv
  <2> QED
    BY <2>1, LogsStep
<1>9. ASSUME mounted = "console" PROVE ConsoleInv'
  <2>1. ConsoleInv /\ [ConsoleNext]_consoleVars
    BY <1>9, StepOfPart DEF PagesInv
  <2> QED
    BY <2>1, ConsoleStep
<1>10. ASSUME mounted = "users" PROVE UsersInv'
  <2>1. UsersInv /\ [UsersNext]_userVars
    BY <1>10, StepOfPart DEF PagesInv
  <2> QED
    BY <2>1, UsersStep
<1>11. ASSUME mounted = "lookups" PROVE LookInv'
  <2>1. LookInv /\ [LookupsNext]_lookVars
    BY <1>11, StepOfPart DEF PagesInv
  <2> QED
    BY <2>1, LookStep
<1>12. ASSUME mounted = "account" PROVE PanesInv'
  <2>1. PanesInv /\ [PanesNext]_paneVars
    BY <1>12, StepOfPart DEF PagesInv
  <2> QED
    BY <2>1, PanesStep
<1>13. ASSUME mounted = "support" PROVE DeskInv'
  <2>1. DeskInv /\ [SupportNext]_supportVars
    BY <1>13, StepOfPart DEF PagesInv
  <2> QED
    BY <2>1, DeskStep
<1>14. ASSUME mounted = "signin" PROVE SignInv'
  <2>1. SignInv /\ [SignInNext]_signVars
    BY <1>14, StepOfPart DEF PagesInv
  <2> QED
    BY <2>1, SignStep
<1>15. ASSUME mounted = "thread" PROVE ThreadInv'
  <2>1. ThreadInv /\ [ThreadNext]_threadVars
    BY <1>15, StepOfPart DEF PagesInv
  <2> QED
    BY <2>1, ThreadStep
<1>16. ASSUME mounted = "text" PROVE TextInv'
  <2>1. TextInv /\ [TextNext]_textVars
    BY <1>16, StepOfPart DEF PagesInv
  <2> QED
    BY <2>1, TextStep
<1>17. ASSUME mounted = "scan" PROVE ScanInv'
  <2>1. ScanInv /\ [ScanNext]_scanVars
    BY <1>17, StepOfPart DEF PagesInv
  <2> QED
    BY <2>1, ScanStep
<1> QED
  BY <1>0, <1>1, <1>2, <1>3, <1>4, <1>5, <1>6, <1>7, <1>8, <1>9, <1>10, <1>11, <1>12, <1>13, <1>14, <1>15, <1>16, <1>17 DEF PagesInv

\* THEOREM: every component of the portal keeps its inductive invariant in every
\* behaviour, for every value of the bounds.
THEOREM PagesKeepTheirInvariants == PortalSpec => []PagesInv
<1>1. PortalInit => PagesInv
  BY PagesInitInv
<1>2. PagesInv /\ [PortalNext]_portalVars => PagesInv'
  BY PagesStep
<1> QED
  BY <1>1, <1>2, PTL DEF PortalSpec

\* THEOREM: nothing of a message that was sent comes back into the dictated field,
\* however late a transcription answers (settle and the passes of
\* useDictation.ts).
THEOREM DictationLeavesSentHolds == PortalSpec => []DictationLeavesSent
<1>1. PagesInv => DictationLeavesSent
  BY DictIs DEF PagesInv, DictationLeavesSent
<1> QED
  BY <1>1, PagesKeepTheirInvariants, PTL

\* THEOREM: an image or video page that says a generation is under way waits for
\* something that will end it (generate, stopPolling, the interval of a job).
THEOREM BusyIsWatchedHolds == PortalSpec => []BusyIsWatched
<1>1. PagesInv => BusyIsWatched
  BY StudioIs DEF PagesInv, BusyIsWatched
<1> QED
  BY <1>1, PagesKeepTheirInvariants, PTL

\* THEOREM: what the forms of the voice page and of the decisions page let go, their
\* servers accept (MIN_SECONDS of VoicePage.tsx, validatePayload against validate).
THEOREM FormsAreAcceptedHolds == PortalSpec => []FormsAreAccepted
<1>1. PagesInv => FormsAreAccepted
  BY CloneIs, BenchIs DEF PagesInv, FormsAreAccepted
<1> QED
  BY <1>1, PagesKeepTheirInvariants, PTL

\* THEOREM: a password, a word DELETE or a reason reaches the account whose dialog it
\* was typed in, whatever answers come late (UsersSection.tsx).
THEOREM TypedReachesItsAccountHolds == PortalSpec => []TypedReachesItsAccount
<1>1. PagesInv => TypedReachesItsAccount
  BY UsersAre DEF PagesInv, TypedReachesItsAccount
<1> QED
  BY <1>1, PagesKeepTheirInvariants, PTL

\* THEOREM: a reload of the playground finds the settings and lists the screen had,
\* and the preview runs the document the panel names (SETTINGS_KEY,
\* ArtifactPanel.tsx).
THEOREM PlaygroundKeepsHolds == PortalSpec => []PlaygroundKeeps
<1>1. PagesInv => PlaygroundKeeps
  BY PrefIs, PanelIs DEF PagesInv, PlaygroundKeeps
<1> QED
  BY <1>1, PagesKeepTheirInvariants, PTL

\* THEOREM: no key destroys a written message, and no answer takes away what an
\* admin is typing (onMenuKeyRef; the forms of the administration page).
THEOREM TypedStandsHolds == PortalSpec => TypedStands
<1>1. PagesInv /\ [PortalNext]_portalVars =>
        [/\ mounted = "composer" => KeepsDraft
         /\ mounted = "console" => KeepsKeystrokes]_portalVars
  <2> SUFFICES ASSUME PagesInv, [PortalNext]_portalVars
               PROVE  /\ mounted = "composer" => KeepsDraft
                      /\ mounted = "console" => KeepsKeystrokes
    OBVIOUS
  <2>1. ASSUME mounted = "composer" PROVE KeepsDraft
    <3>1. BoxInv /\ [ComposerNext]_box
      BY <2>1, StepOfPart DEF PagesInv
    <3> QED
      BY <3>1, BoxStep
  <2>2. ASSUME mounted = "console" PROVE KeepsKeystrokes
    <3>1. ConsoleInv /\ [ConsoleNext]_consoleVars
      BY <2>2, StepOfPart DEF PagesInv
    <3> QED
      BY <3>1, ConsoleStep
  <2> QED
    BY <2>1, <2>2
<1> QED
  BY <1>1, PagesKeepTheirInvariants, PTL DEF PortalSpec, TypedStands

\* THEOREM: no answer of a support turn that ended stays empty, and an answer is
\* counted one vote at most unless a lost vote crossed it (patch, sendFeedback of
\* SupportPage.tsx).
THEOREM SupportIsSoundHolds == PortalSpec => []SupportIsSound
<1>1. PagesInv => SupportIsSound
  BY DeskIs DEF PagesInv, SupportIsSound
<1> QED
  BY <1>1, PagesKeepTheirInvariants, PTL

\* THEOREM: nothing in flight, the account's panes, the log panel, the administration
\* page, the search, the ranking and the home page show what the portal holds and what
\* was asked last, and the login page accuses nobody whose password was right
\* (KeysPage.tsx, AdminLogs, ModelsSection.tsx, LoginPage.tsx, useSearch).
THEOREM ScreensAreTruthfulHolds == PortalSpec => []ScreensAreTruthful
<1>1. PagesInv => ScreensAreTruthful
  BY PanesAre, LogsIs, ConsoleIs, SignIs, LookIs DEF PagesInv, ScreensAreTruthful
<1> QED
  BY <1>1, PagesKeepTheirInvariants, PTL

\* THEOREM: a continuation the model writes is glued to a file that a cut really left
\* open, in a conversation of any length and whatever the model wrote before
\* (filesUntil of playground-thread.ts); and the text of the OCR page was read in
\* the image beside it (extract, setResultImage, the rows of the history).
THEOREM PiecesFitHolds == PortalSpec => []PiecesFit
<1>1. PagesInv => PiecesFit
  BY ThreadIs, ScanIs DEF PagesInv, PiecesFit
<1> QED
  BY <1>1, PagesKeepTheirInvariants, PTL

\* THEOREM: no turn of a conversation makes a file vanish or leaves less than a
\* quarter of it (filesUntil and its guard on fragments).
THEOREM FilesStandHolds == PortalSpec => FilesStand
<1>1. PagesInv /\ [PortalNext]_portalVars => [mounted = "thread" => KeepsFiles]_portalVars
  <2> SUFFICES ASSUME PagesInv, [PortalNext]_portalVars, mounted = "thread" PROVE KeepsFiles
    OBVIOUS
  <2>1. ThreadInv /\ [ThreadNext]_threadVars
    BY StepOfPart DEF PagesInv
  <2> QED
    BY <2>1, ThreadStep
<1> QED
  BY <1>1, PagesKeepTheirInvariants, PTL DEF PortalSpec, FilesStand

\* THEOREM: the state of the component shown has its type: every page stays within
\* what its code can put there.
THEOREM PagesTypesHold == PortalSpec => []PagesTypeOK
<1>1. PagesInv => PagesTypeOK
  BY DictIs, ThreadIs, WrittenTypes, StudioIs, ScanIs, CloneIs, DeskIs, BenchIs, PanesAre,
     PrefIs, BoxIs, PanelIs, LogsIs, ConsoleIs, UsersAre, SignIs, LookIs DEF PagesInv, PagesTypeOK
<1> QED
  BY <1>1, PagesKeepTheirInvariants, PTL
=============================================================================
