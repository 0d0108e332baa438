---------------------------- MODULE VoiceProofs -----------------------------
(***************************************************************************)
(* The voice mode implements SpokenAnswer: what the listener hears is one  *)
(* answer after another, each in its order, however the barge-ins pause,   *)
(* resume and cut it.  For every number of sentences, utterances and       *)
(* failures.                                                               *)
(*                                                                         *)
(* The invariant is stated of a record r, the state of the mode, and of    *)
(* the conversation c, so that it can be followed through the steps of a   *)
(* handler.                                                                *)
(***************************************************************************)
EXTENDS VoiceMode, WellFoundedInduction, TLAPS

-----------------------------------------------------------------------------
(* The least and the greatest of a set of numbers *)

\* A set of natural numbers has a least element, which Min chooses.
LEMMA MinIs ==
    ASSUME NEW S \in SUBSET Nat, S # {}
    PROVE  Min(S) \in S /\ \A y \in S : Min(S) <= y
<1>1. PICK x \in S : \A y \in S : ~(<<y, x>> \in OpToRel(<, Nat))
  BY NatLessThanWellFounded, WFMin
<1>2. \A y \in S : ~(y < x)
  <2> SUFFICES ASSUME NEW y \in S, y < x PROVE FALSE
    OBVIOUS
  <2>1. <<y, x>> \in OpToRel(<, Nat)
    BY DEF OpToRel
  <2> QED
    BY <1>1, <2>1
<1>3. \A y \in S : x <= y
  BY <1>2
<1> QED
  BY <1>3 DEF Min

\* A set of natural numbers with an upper bound has a greatest element.
LEMMA MaxIs ==
    ASSUME NEW k \in Nat, NEW S \in SUBSET (0 .. k), S # {}
    PROVE  Max(S) \in S /\ \A y \in S : y <= Max(S)
<1> DEFINE T == {k - x : x \in S}
<1>1. T \in SUBSET Nat /\ T # {}
  <2>1. \A x \in S : k - x \in Nat /\ k - x \in T
    OBVIOUS
  <2> QED
    BY <2>1
<1>2. Min(T) \in T /\ \A y \in T : Min(T) <= y
  BY <1>1, MinIs
<1>3. PICK x \in S : Min(T) = k - x
  BY <1>2
<1>4. \A y \in S : y <= x
  <2> SUFFICES ASSUME NEW y \in S PROVE y <= x
    OBVIOUS
  <2>1. Min(T) <= k - y
    BY <1>2
  <2>2. x \in 0 .. k /\ y \in 0 .. k
    OBVIOUS
  <2> HIDE DEF T
  <2> QED
    BY <1>3, <2>1, <2>2
<1> QED
  BY <1>4 DEF Max

\* The elements of a sequence
LEMMA Elements ==
    ASSUME NEW S, NEW t \in Seq(S)
    PROVE  /\ Len(t) \in Nat /\ \A j \in 1 .. Len(t) : t[j] \in S
           /\ Len(t) > 0 <=> t # <<>>
  OBVIOUS

-----------------------------------------------------------------------------
(* The invariant *)

Pos == Nat \ {0}
SegmentStates == {"asked", "arriving", "done"}

VoiceRec ==
    [open : BOOLEAN, phase : Phases, speakerOn : BOOLEAN, voiceOk : BOOLEAN,
     failures : Nat, barge : BOOLEAN, ducked : BOOLEAN, awaiting : BOOLEAN,
     index : Nat, cut : Nat, queue : Seq(Pos), given : SUBSET Pos,
     pumping : BOOLEAN, paused : BOOLEAN, resumeAt : Nat, aborted : BOOLEAN,
     segments : Seq([s : Pos, st : SegmentStates]),
     play : Seq([answer : Nat, s : Pos]),
     heard : [answer : Nat, s : Nat], marred : BOOLEAN]

ChatRec == [n : Nat, len : Nat, streaming : BOOLEAN, isError : BOOLEAN, stopped : BOOLEAN]

\* How many sentences of the answer are complete
Avail(c) == IF c.streaming THEN c.len - 1 ELSE c.len

\* The answer under way is the one last heard
Now(r) == r.heard.answer = r.index

LastS(r) == r.segments[Len(r.segments)].s

\* What is scheduled is of the answer under way, in its order, after what was
\* heard, and was handed to the player.
PlayInOrder(r) ==
    \A j \in 1 .. Len(r.play) :
       /\ r.index # 0 /\ r.play[j].answer = r.index
       /\ Now(r) => r.heard.s <= r.play[j].s
       /\ \E i \in 1 .. Len(r.segments) : r.segments[i].s = r.play[j].s
       /\ \A i \in 1 .. Len(r.play) : i < j => r.play[i].s < r.play[j].s

\* Sentences are handed over in order; only the last one can be arriving.
SegmentsInOrder(r) ==
    \A j \in 1 .. Len(r.segments) :
       /\ j < Len(r.segments) \/ ~r.pumping => r.segments[j].st = "done"
       /\ \A i \in 1 .. Len(r.segments) : i < j => r.segments[i].s < r.segments[j].s

\* A pump that waits, waits for the last sentence, of which nothing is scheduled
\* before its sound arrives.
PumpWaits(r) ==
    r.pumping =>
      /\ r.open /\ r.voiceOk /\ r.index # 0 /\ ~r.paused
      /\ r.segments[Len(r.segments)].st = "asked" =>
           \A j \in 1 .. Len(r.play) : r.play[j].s < LastS(r)

\* A paused answer holds nothing.
PausedIsSilent(r) ==
    r.paused => r.index # 0 /\ r.segments = <<>> /\ r.play = <<>> /\ r.queue = <<>>

\* What waits comes after what was handed over and what was heard.
QueueFollows(r) ==
    /\ \A j \in 1 .. Len(r.queue) :
         /\ r.queue[j] <= r.cut
         /\ r.segments # <<>> => LastS(r) < r.queue[j]
         /\ Now(r) => r.heard.s <= r.queue[j]
         /\ \A i \in 1 .. Len(r.queue) : i < j => r.queue[i] < r.queue[j]
    /\ r.segments # <<>> => /\ LastS(r) <= r.cut
                            /\ Now(r) => r.heard.s <= LastS(r)

\* What was given is complete, and everything handed over was given.
GivenIsComplete(r, c) ==
    /\ \A g \in r.given : g <= Avail(c)
    /\ r.cut = 0 \/ r.cut <= Avail(c)
    /\ \A i \in 1 .. Len(r.segments) : r.segments[i].s \in r.given

\* A paused answer resumes at a complete sentence, not before the one last heard.
ResumePoint(r, c) ==
    r.paused => /\ r.resumeAt = 0 \/ r.resumeAt + 1 <= Avail(c)
                /\ Now(r) /\ ~c.isError => /\ r.heard.s <= r.resumeAt + 1
                                           /\ r.resumeAt + 1 <= Avail(c)

\* An answer that has been heard, and is not paused, has handed something over.
Begun(r, c) == Now(r) /\ ~c.isError /\ ~r.paused => r.segments # <<>>

\* Whatever happens
Shaped(r, c) ==
    /\ r \in VoiceRec /\ c \in ChatRec
    /\ ~r.awaiting /\ r.index \in {0, c.n}
    /\ r.pumping => r.segments # <<>> /\ r.segments[Len(r.segments)].st # "done"
    /\ c.streaming => ~c.isError

\* While the voice is neither switched off nor cut off
Ordered(r, c) ==
    /\ r.speakerOn /\ r.heard.answer <= c.n
    /\ PlayInOrder(r) /\ SegmentsInOrder(r) /\ PumpWaits(r) /\ PausedIsSilent(r)

\* And while there is more to say, but for the sentence that a pump will take now
Following(r, c) ==
    r.open /\ r.voiceOk /\ r.index # 0 =>
      QueueFollows(r) /\ GivenIsComplete(r, c) /\ ResumePoint(r, c)

\* The same, at rest
Resting(r, c) == r.open /\ r.voiceOk /\ r.index # 0 => Begun(r, c)

Good(r, c) ==
    /\ Shaped(r, c) /\ ~r.aborted
    /\ ~r.marred => Ordered(r, c) /\ Following(r, c) /\ Resting(r, c)

VoiceInv == Good(voice, chat)

\* What a step other than Hear leaves to the listener
Kept(r, q) == q.heard = r.heard /\ q.marred = r.marred

\* The fields that the invariant is about are the same in q.
Alike(r, q) ==
    /\ q.open = r.open /\ q.speakerOn = r.speakerOn /\ q.voiceOk = r.voiceOk
    /\ q.awaiting = r.awaiting /\ q.index = r.index /\ q.cut = r.cut
    /\ q.queue = r.queue /\ q.given = r.given /\ q.pumping = r.pumping
    /\ q.paused = r.paused /\ q.resumeAt = r.resumeAt /\ q.aborted = r.aborted
    /\ q.segments = r.segments /\ q.play = r.play /\ q.heard = r.heard
    /\ q.marred = r.marred

\* The types of a record's fields and of the elements of its sequences
LEMMA Fields ==
    ASSUME NEW r \in VoiceRec
    PROVE  /\ r.queue \in Seq(Pos) /\ r.segments \in Seq([s : Pos, st : SegmentStates])
           /\ r.play \in Seq([answer : Nat, s : Pos]) /\ r.given \in SUBSET Pos
           /\ r.cut \in Nat /\ r.index \in Nat /\ r.resumeAt \in Nat
           /\ r.heard.s \in Nat /\ r.heard.answer \in Nat
           /\ Len(r.queue) \in Nat /\ Len(r.segments) \in Nat /\ Len(r.play) \in Nat
           /\ Len(r.queue) > 0 <=> r.queue # <<>>
           /\ Len(r.segments) > 0 <=> r.segments # <<>>
           /\ Len(r.play) > 0 <=> r.play # <<>>
           /\ \A j \in 1 .. Len(r.queue) : r.queue[j] \in Pos
           /\ \A j \in 1 .. Len(r.segments) :
                r.segments[j] \in [s : Pos, st : SegmentStates] /\ r.segments[j].s \in Pos
           /\ \A j \in 1 .. Len(r.play) :
                /\ r.play[j] \in [answer : Nat, s : Pos]
                /\ r.play[j].s \in Pos /\ r.play[j].answer \in Nat
<1>1. /\ r.queue \in Seq(Pos) /\ r.segments \in Seq([s : Pos, st : SegmentStates])
      /\ r.play \in Seq([answer : Nat, s : Pos]) /\ r.given \in SUBSET Pos
      /\ r.cut \in Nat /\ r.index \in Nat /\ r.resumeAt \in Nat
      /\ r.heard \in [answer : Nat, s : Nat]
  BY DEF VoiceRec
<1>2. /\ Len(r.queue) \in Nat /\ \A j \in 1 .. Len(r.queue) : r.queue[j] \in Pos
      /\ Len(r.queue) > 0 <=> r.queue # <<>>
  BY ONLY <1>1, Elements
<1>3. /\ Len(r.segments) \in Nat
      /\ \A j \in 1 .. Len(r.segments) : r.segments[j] \in [s : Pos, st : SegmentStates]
      /\ Len(r.segments) > 0 <=> r.segments # <<>>
  BY ONLY <1>1, Elements
<1>4. /\ Len(r.play) \in Nat
      /\ \A j \in 1 .. Len(r.play) : r.play[j] \in [answer : Nat, s : Pos]
      /\ Len(r.play) > 0 <=> r.play # <<>>
  BY ONLY <1>1, Elements
<1>5. \A j \in 1 .. Len(r.segments) : r.segments[j].s \in Pos
  BY <1>3
<1>6. \A j \in 1 .. Len(r.play) : r.play[j].s \in Pos /\ r.play[j].answer \in Nat
  BY <1>4
<1>7. r.heard.s \in Nat /\ r.heard.answer \in Nat
  BY <1>1
<1> QED
  BY ONLY <1>1, <1>2, <1>3, <1>4, <1>5, <1>6, <1>7

\* The phase, the failures, the barge-in and the volume do not matter to it.
LEMMA AlikeGood ==
    ASSUME NEW r, NEW c, NEW q \in VoiceRec, Good(r, c), Alike(r, q)
    PROVE  Good(q, c) /\ Kept(r, q)
  BY DEF Good, Alike, Kept, Shaped, Ordered, Following, Resting, PlayInOrder,
         SegmentsInOrder, PumpWaits, PausedIsSilent, QueueFollows, GivenIsComplete,
         ResumePoint, Begun, Now, LastS

-----------------------------------------------------------------------------
(* The steps of the handlers *)

\* Before a pump: it rests, or has something to take
Ready(r, c) ==
    /\ Shaped(r, c) /\ ~r.aborted
    /\ ~r.marred => /\ Ordered(r, c) /\ Following(r, c)
                    /\ Resting(r, c) \/ (r.queue # <<>> /\ ~r.pumping)
                    /\ r.index # 0

\* A sentence is taken off the queue
Taken(r) ==
    [r EXCEPT !.pumping = TRUE, !.queue = Tail(@), !.given = @ \cup {Head(r.queue)},
              !.segments = Append(@, Segment(Head(r.queue)))]

\* The fields of a record after a sentence is taken
LEMMA PumpTakes ==
    ASSUME NEW r \in VoiceRec, r.queue # <<>>
    PROVE  /\ Taken(r) \in VoiceRec
           /\ Taken(r).pumping = TRUE /\ Taken(r).queue = Tail(r.queue)
           /\ Taken(r).given = r.given \cup {Head(r.queue)}
           /\ Taken(r).segments = Append(r.segments, Segment(Head(r.queue)))
           /\ \A f \in DOMAIN r \ {"pumping", "queue", "given", "segments"} : Taken(r)[f] = r[f]
<1>1. /\ r.queue \in Seq(Pos) /\ r.given \in SUBSET Pos
      /\ r.segments \in Seq([s : Pos, st : SegmentStates])
  BY DEF VoiceRec
<1>2. Head(r.queue) \in Pos /\ Tail(r.queue) \in Seq(Pos)
  BY <1>1
<1>3. Segment(Head(r.queue)) \in [s : Pos, st : SegmentStates]
  BY <1>2 DEF Segment, SegmentStates
<1>4. Append(r.segments, Segment(Head(r.queue))) \in Seq([s : Pos, st : SegmentStates])
  BY <1>1, <1>3
<1>5. r.given \cup {Head(r.queue)} \in SUBSET Pos
  BY <1>1, <1>2
<1> DEFINE Q == Tail(r.queue)
           G == r.given \cup {Head(r.queue)}
           T == Append(r.segments, Segment(Head(r.queue)))
<1>6. Taken(r) = [r EXCEPT !.pumping = TRUE, !.queue = Q, !.given = G, !.segments = T]
  BY DEF Taken
<1>7. Q \in Seq(Pos) /\ G \in SUBSET Pos /\ T \in Seq([s : Pos, st : SegmentStates])
  BY <1>2, <1>4, <1>5
<1> HIDE DEF Q, G, T
<1>8. Taken(r) \in VoiceRec
  BY <1>6, <1>7 DEF VoiceRec
<1>9. Taken(r).pumping = TRUE /\ Taken(r).queue = Q /\ Taken(r).given = G /\ Taken(r).segments = T
  BY <1>6 DEF VoiceRec
<1>10. \A f \in DOMAIN r \ {"pumping", "queue", "given", "segments"} : Taken(r)[f] = r[f]
  BY <1>6
<1> QED
  BY <1>8, <1>9, <1>10 DEF Q, G, T

\* The next sentence is handed over after those before it.
LEMMA TakenGood ==
    ASSUME NEW r, NEW c, Ready(r, c), r.queue # <<>>, ~r.pumping, r.open, r.voiceOk
    PROVE  Good(Taken(r), c) /\ Kept(r, Taken(r))
<1> DEFINE q == Taken(r)
           n == Len(r.segments)
           h == Head(r.queue)
<1>1. r \in VoiceRec /\ c \in ChatRec /\ Shaped(r, c) /\ ~r.aborted
  BY DEF Ready, Shaped
<1>2. /\ q \in VoiceRec
      /\ q.pumping = TRUE /\ q.queue = Tail(r.queue) /\ q.given = r.given \cup {h}
      /\ q.segments = Append(r.segments, Segment(h))
      /\ \A f \in DOMAIN r \ {"pumping", "queue", "given", "segments"} : q[f] = r[f]
  BY <1>1, PumpTakes
<1>3. /\ q.open = r.open /\ q.speakerOn = r.speakerOn /\ q.voiceOk = r.voiceOk
      /\ q.awaiting = r.awaiting /\ q.index = r.index /\ q.cut = r.cut
      /\ q.paused = r.paused /\ q.resumeAt = r.resumeAt /\ q.aborted = r.aborted
      /\ q.play = r.play /\ q.heard = r.heard /\ q.marred = r.marred
  BY <1>1, <1>2, ZenonT(60) DEF VoiceRec
<1>4. /\ r.queue \in Seq(Pos) /\ r.segments \in Seq([s : Pos, st : SegmentStates])
      /\ r.play \in Seq([answer : Nat, s : Pos]) /\ r.given \in SUBSET Pos
      /\ r.cut \in Nat /\ r.index \in Nat /\ r.heard \in [answer : Nat, s : Nat]
      /\ c.len \in Nat
  BY <1>1 DEF VoiceRec, ChatRec
<1>5. /\ h = r.queue[1] /\ h \in Pos /\ Len(r.queue) \in Nat \ {0}
      /\ Len(q.queue) = Len(r.queue) - 1
      /\ \A j \in 1 .. Len(q.queue) : q.queue[j] = r.queue[j + 1]
  BY <1>2, <1>4
<1>6. /\ n \in Nat /\ Len(q.segments) = n + 1
      /\ \A j \in 1 .. n : q.segments[j] = r.segments[j]
      /\ q.segments[n + 1] = Segment(h)
      /\ q.segments # <<>>
  <2> DEFINE G == Segment(h)
             S == [s : Pos, st : SegmentStates]
  <2>1. G \in S /\ r.segments \in Seq(S) /\ q.segments = Append(r.segments, G)
    BY <1>2, <1>4, <1>5 DEF Segment, SegmentStates
  <2> HIDE DEF G, S, q, h
  <2> QED
    BY <2>1 DEF G
<1>7. Segment(h).s = h /\ Segment(h).st = "asked"
  BY DEF Segment
<1>8. /\ \A j \in 1 .. n : r.segments[j].s \in Pos
      /\ \A j \in 1 .. Len(r.play) : r.play[j].s \in Pos
      /\ \A j \in 1 .. Len(r.queue) : r.queue[j] \in Pos
      /\ Len(r.play) \in Nat /\ r.heard.s \in Nat /\ r.heard.answer \in Nat
      /\ n > 0 <=> r.segments # <<>>
  <2>1. /\ n \in Nat /\ \A j \in 1 .. n : r.segments[j] \in [s : Pos, st : SegmentStates]
        /\ n > 0 <=> r.segments # <<>>
    BY ONLY <1>4, Elements DEF n
  <2>2. Len(r.play) \in Nat /\ \A j \in 1 .. Len(r.play) : r.play[j] \in [answer : Nat, s : Pos]
    BY ONLY <1>4, Elements
  <2>3. \A j \in 1 .. Len(r.queue) : r.queue[j] \in Pos
    BY ONLY <1>4, Elements
  <2> HIDE DEF q, n, h
  <2> QED
    BY <1>4, <2>1, <2>2, <2>3
<1> HIDE DEF q, n, h
<1>9. Shaped(q, c) /\ ~q.aborted /\ Kept(r, q)
  BY <1>1, <1>2, <1>3, <1>6, <1>7 DEF Shaped, Kept
<1>10. ASSUME ~q.marred
       PROVE  Ordered(q, c) /\ Following(q, c) /\ Resting(q, c)
  <2>1. /\ r.speakerOn /\ PlayInOrder(r) /\ SegmentsInOrder(r) /\ PausedIsSilent(r)
        /\ r.index # 0 /\ QueueFollows(r) /\ GivenIsComplete(r, c) /\ ~r.paused
        /\ r.heard.answer <= c.n
    BY <1>3, <1>10 DEF Ready, Ordered, Following, PausedIsSilent
  <2>2. n > 0 => /\ LastS(r) = r.segments[n].s /\ LastS(r) < h
    BY <1>5, <1>8, <2>1 DEF QueueFollows, LastS, n
  <2>3. LastS(q) = h
    BY <1>6, <1>7 DEF LastS
  <2>4. \A j \in 1 .. n : r.segments[j].s < h
    <3> SUFFICES ASSUME NEW j \in 1 .. n PROVE r.segments[j].s < h
      OBVIOUS
    <3>1. r.segments[n].s \in Pos /\ r.segments[j].s \in Pos /\ n \in 1 .. n
      BY <1>6, <1>8
    <3>2. j < n => r.segments[j].s < r.segments[n].s
      BY <2>1, <1>6 DEF SegmentsInOrder, n
    <3> QED
      BY <3>1, <3>2, <2>2, <1>5, <1>6 DEF Pos
  <2>5. PlayInOrder(q)
    <3>1. \A j \in 1 .. Len(r.play) : \E i \in 1 .. Len(q.segments) : q.segments[i].s = r.play[j].s
      <4> SUFFICES ASSUME NEW j \in 1 .. Len(r.play)
                   PROVE  \E i \in 1 .. Len(q.segments) : q.segments[i].s = r.play[j].s
        OBVIOUS
      <4>1. PICK i \in 1 .. n : r.segments[i].s = r.play[j].s
        BY <2>1 DEF PlayInOrder, n
      <4>2. i \in 1 .. Len(q.segments) /\ q.segments[i].s = r.play[j].s
        BY <1>6, <4>1
      <4> QED
        BY <4>2
    <3> QED
      BY <1>3, <2>1, <3>1 DEF PlayInOrder, Now
  <2>6. SegmentsInOrder(q)
    <3>1. ASSUME NEW j \in 1 .. n PROVE r.segments[j].st = "done"
      BY <2>1, <1>6 DEF SegmentsInOrder, n
    <3>2. \A i, j \in 1 .. n : i < j => r.segments[i].s < r.segments[j].s
      BY <2>1 DEF SegmentsInOrder, n
    <3> QED
      BY <1>2, <1>6, <1>7, <2>4, <3>1, <3>2 DEF SegmentsInOrder
  <2>7. PumpWaits(q)
    <3>1. \A j \in 1 .. Len(q.play) : q.play[j].s < LastS(q)
      BY <1>3, <2>1, <2>3, <2>4 DEF PlayInOrder, n
    <3> QED
      BY <1>3, <2>1, <3>1 DEF PumpWaits
  <2>8. QueueFollows(q)
    <3>1. h <= r.cut /\ (Now(r) => r.heard.s <= h)
      BY <1>5, <2>1 DEF QueueFollows
    <3>2. ASSUME NEW j \in 1 .. Len(q.queue)
          PROVE  /\ q.queue[j] <= q.cut /\ h < q.queue[j]
                 /\ Now(q) => q.heard.s <= q.queue[j]
                 /\ \A i \in 1 .. Len(q.queue) : i < j => q.queue[i] < q.queue[j]
      <4>1. j + 1 \in 1 .. Len(r.queue) /\ 1 < j + 1 /\ 1 \in 1 .. Len(r.queue)
        BY <1>5
      <4>2. \A i \in 1 .. Len(q.queue) : i + 1 \in 1 .. Len(r.queue) /\ (i < j => i + 1 < j + 1)
        BY <1>5
      <4> QED
        BY <1>3, <1>5, <2>1, <4>1, <4>2 DEF QueueFollows, Now
    <3> QED
      BY <1>3, <2>3, <3>1, <3>2 DEF QueueFollows, Now
  <2>9. GivenIsComplete(q, c)
    <3>1. h <= r.cut /\ (r.cut = 0 \/ r.cut <= Avail(c))
      BY <1>5, <2>1 DEF QueueFollows, GivenIsComplete
    <3>2. Avail(c) \in Int
      BY <1>4 DEF Avail
    <3>3. h <= Avail(c)
      BY <1>4, <1>5, <3>1, <3>2 DEF Pos
    <3> QED
      BY <1>2, <1>3, <1>6, <1>7, <2>1, <3>3 DEF GivenIsComplete, n
  <2> QED
    BY <1>3, <1>6, <2>1, <2>5, <2>6, <2>7, <2>8, <2>9
    DEF Ordered, Following, Resting, ResumePoint, Begun, PausedIsSilent
<1> QED
  BY <1>9, <1>10 DEF Good, q

\* pump keeps the invariant.
LEMMA PumpGood ==
    ASSUME NEW r, NEW c, Ready(r, c)
    PROVE  Good(Pump(r), c) /\ Kept(r, Pump(r))
<1>1. r \in VoiceRec /\ Shaped(r, c) /\ ~r.aborted
  BY DEF Ready, Shaped
<1>2. CASE r.pumping \/ ~r.open \/ r.queue = <<>>
  <2>1. Pump(r) = r
    BY <1>2 DEF Pump
  <2>2. ~r.marred => Resting(r, c)
    BY <1>2 DEF Ready, Resting
  <2> QED
    BY <1>1, <2>1, <2>2 DEF Ready, Good, Kept
<1>3. CASE ~(r.pumping \/ ~r.open \/ r.queue = <<>>) /\ (~r.speakerOn \/ ~r.voiceOk)
  <2> DEFINE G == r.given \cup ToSet(r.queue)
             q == [r EXCEPT !.given = G, !.queue = <<>>]
  <2>1. Pump(r) = q
    BY <1>3 DEF Pump
  <2>2. G \in SUBSET Pos
    <3>1. r.queue \in Seq(Pos) /\ r.given \in SUBSET Pos
      BY <1>1, Fields
    <3>2. ToSet(r.queue) \in SUBSET Pos
      BY ONLY <3>1, DOMAIN r.queue = 1 .. Len(r.queue), Elements DEF ToSet
    <3> QED
      BY <3>1, <3>2
  <2> HIDE DEF G
  <2>3. q \in VoiceRec
    <3>1. ASSUME NEW Q \in Seq(Pos) PROVE [r EXCEPT !.given = G, !.queue = Q] \in VoiceRec
      BY <1>1, <2>2 DEF VoiceRec
    <3>2. <<>> \in Seq(Pos)
      OBVIOUS
    <3> QED
      BY <3>1, <3>2
  <2>4. /\ q.open = r.open /\ q.speakerOn = r.speakerOn /\ q.voiceOk = r.voiceOk
        /\ q.awaiting = r.awaiting /\ q.index = r.index /\ q.queue = <<>>
        /\ q.pumping = r.pumping /\ q.paused = r.paused /\ q.aborted = r.aborted
        /\ q.segments = r.segments /\ q.play = r.play /\ q.heard = r.heard
        /\ q.marred = r.marred
    BY <1>1 DEF VoiceRec
  <2> HIDE DEF q
  <2>5. Shaped(q, c) /\ ~q.aborted /\ Kept(r, q)
    BY <1>1, <2>3, <2>4 DEF Shaped, Kept
  <2>6. ASSUME ~q.marred PROVE Ordered(q, c) /\ Following(q, c) /\ Resting(q, c)
    <3>1. Ordered(r, c) /\ ~q.voiceOk
      BY <1>3, <2>4, <2>6 DEF Ready, Ordered
    <3>2. Ordered(q, c)
      BY <2>4, <3>1
      DEF Ordered, PlayInOrder, SegmentsInOrder, PumpWaits, PausedIsSilent, Now, LastS
    <3> QED
      BY <3>1, <3>2 DEF Following, Resting
  <2> QED
    BY <2>1, <2>5, <2>6 DEF Good
<1>4. CASE ~(r.pumping \/ ~r.open \/ r.queue = <<>>) /\ ~(~r.speakerOn \/ ~r.voiceOk)
  <2>1. Pump(r) = Taken(r)
    BY <1>4 DEF Pump, Taken
  <2> QED
    BY <1>4, <2>1, TakenGood
<1> QED
  BY <1>2, <1>3, <1>4

-----------------------------------------------------------------------------
(* New text *)

\* The complete sentences of an answer after from
Complete(from, c) ==
    [i \in 1 .. (IF Avail(c) > from THEN Avail(c) - from ELSE 0) |-> from + i]

QueuedIs(r, c) ==
    IF Complete(r.cut, c) = <<>> THEN r
    ELSE Pump([r EXCEPT !.cut = Complete(r.cut, c)[Len(Complete(r.cut, c))],
                        !.queue = @ \o Complete(r.cut, c)])

\* What nextSentences finds in the answer under way
LEMMA QueuedReads ==
    ASSUME NEW r, r.index = chat'.n
    PROVE  Queued(r, ~chat'.streaming \/ r.index # chat'.n) = QueuedIs(r, chat')
<1> DEFINE final == ~chat'.streaming \/ r.index # chat'.n
<1>1. (IF final THEN chat'.len ELSE chat'.len - 1) = Avail(chat')
  BY DEF Avail
<1>2. nextSentences(r.cut, final) = Complete(r.cut, chat')
  BY <1>1 DEF nextSentences, Complete
<1> HIDE DEF final
<1> QED
  BY <1>2 DEF Queued, QueuedIs, final

\* Before new text is queued: the answer goes on, or is taken up again at cut
TakesUp(r, c) ==
    /\ Shaped(r, c) /\ ~r.aborted /\ r.index = c.n /\ r.index # 0 /\ ~r.paused /\ ~c.isError
    /\ ~r.marred =>
         /\ Ordered(r, c) /\ Following(r, c)
         /\ \/ Resting(r, c)
            \/ /\ ~r.pumping /\ r.segments = <<>> /\ r.queue = <<>>
               /\ r.cut < Avail(c) /\ (Now(r) => r.heard.s <= r.cut + 1)

\* What Complete returns
LEMMA CompleteIs ==
    ASSUME NEW from \in Nat, NEW c \in ChatRec
    PROVE  /\ Avail(c) \in Int
           /\ ~(from < Avail(c)) => Complete(from, c) = <<>>
           /\ from < Avail(c) =>
                /\ Complete(from, c) \in Seq(Pos)
                /\ Len(Complete(from, c)) = Avail(c) - from /\ Avail(c) - from \in Pos
                /\ \A i \in 1 .. Avail(c) - from : Complete(from, c)[i] = from + i
                /\ Complete(from, c) # <<>>
<1>1. Avail(c) \in Int
  BY DEF Avail, ChatRec
<1>2. CASE ~(from < Avail(c))
  BY <1>1, <1>2 DEF Complete
<1>3. CASE from < Avail(c)
  <2> DEFINE k == Avail(c) - from
             t == Complete(from, c)
  <2>1. k \in Nat /\ k > 0 /\ t = [i \in 1 .. k |-> from + i]
    BY <1>1, <1>3 DEF Complete
  <2> HIDE DEF k, t
  <2>2. t \in Seq(Pos)
    BY <2>1 DEF Pos
  <2>3. Len(t) = k /\ \A i \in 1 .. k : t[i] = from + i
    BY <2>1
  <2>4. t # <<>>
    BY <2>1, <2>2, <2>3
  <2> QED
    BY <1>1, <1>3, <2>1, <2>2, <2>3, <2>4 DEF k, t, Pos
<1> QED
  BY <1>2, <1>3

\* Complete sentences are queued in their order, after those before them.
LEMMA QueuedGood ==
    ASSUME NEW r, NEW c, TakesUp(r, c)
    PROVE  Good(QueuedIs(r, c), c) /\ Kept(r, QueuedIs(r, c))
<1> DEFINE new == Complete(r.cut, c)
           k == Avail(c) - r.cut
           q == [r EXCEPT !.cut = new[Len(new)], !.queue = @ \o new]
<1>1. /\ r \in VoiceRec /\ c \in ChatRec /\ Shaped(r, c) /\ ~r.aborted
      /\ r.index = c.n /\ r.index # 0 /\ ~r.paused
  BY DEF TakesUp, Shaped
<1>2. r.cut \in Nat /\ Avail(c) \in Int
  BY <1>1, Fields, CompleteIs
<1>3. CASE ~(r.cut < Avail(c))
  <2>1. QueuedIs(r, c) = r
    BY <1>1, <1>2, <1>3, CompleteIs DEF QueuedIs
  <2>2. ~r.marred => Resting(r, c)
    BY <1>3 DEF TakesUp
  <2> QED
    BY <1>1, <2>1, <2>2 DEF TakesUp, Good, Kept
<1>4. CASE r.cut < Avail(c)
  <2>1. /\ new \in Seq(Pos) /\ Len(new) = k /\ k \in Pos /\ new # <<>>
        /\ \A i \in 1 .. k : new[i] = r.cut + i
    BY <1>1, <1>2, <1>4, CompleteIs
  <2>2. QueuedIs(r, c) = Pump(q)
    BY <2>1 DEF QueuedIs
  <2>3. new[Len(new)] = Avail(c)
    BY <1>2, <2>1 DEF Pos
  <2> HIDE DEF new
  <2>4. q = [r EXCEPT !.cut = Avail(c), !.queue = r.queue \o new]
    BY <2>3
  <2> DEFINE Q == r.queue \o new
  <2>5. Q \in Seq(Pos) /\ Avail(c) \in Nat
    BY <1>1, <1>2, <1>4, <2>1, Fields
  <2>6. /\ Len(Q) = Len(r.queue) + k /\ Q # <<>>
        /\ \A j \in 1 .. Len(r.queue) : Q[j] = r.queue[j]
        /\ \A j \in 1 .. k : Q[Len(r.queue) + j] = r.cut + j
    <3>1. r.queue \in Seq(Pos) /\ Len(r.queue) \in Nat
      BY <1>1, Fields
    <3> HIDE DEF k
    <3>2. Len(Q) = Len(r.queue) + k
      BY <2>1, <3>1
    <3>3. \A j \in 1 .. Len(r.queue) : Q[j] = r.queue[j]
      BY <2>1, <3>1
    <3>4. \A j \in 1 .. k : Q[Len(r.queue) + j] = r.cut + j
      BY <2>1, <3>1 DEF Pos
    <3>5. Q # <<>>
      BY <2>1, <2>5, <3>1, <3>2 DEF Pos
    <3> QED
      BY <3>2, <3>3, <3>4, <3>5
  <2> HIDE DEF Q
  <2>7. q \in VoiceRec
    BY <1>1, <2>4, <2>5 DEF VoiceRec, Q
  <2>8. /\ q.cut = Avail(c) /\ q.queue = Q
        /\ q.open = r.open /\ q.speakerOn = r.speakerOn /\ q.voiceOk = r.voiceOk
        /\ q.awaiting = r.awaiting /\ q.index = r.index
        /\ q.given = r.given /\ q.pumping = r.pumping
        /\ q.paused = r.paused /\ q.resumeAt = r.resumeAt /\ q.aborted = r.aborted
        /\ q.segments = r.segments /\ q.play = r.play /\ q.heard = r.heard
        /\ q.marred = r.marred
    BY <1>1, <2>4 DEF VoiceRec, Q
  <2> HIDE DEF q
  <2>9. Shaped(q, c) /\ ~q.aborted
    BY <1>1, <2>7, <2>8 DEF Shaped
  <2>10. ASSUME ~q.marred
         PROVE  /\ Ordered(q, c) /\ Following(q, c) /\ q.index # 0
                /\ Resting(q, c) \/ (q.queue # <<>> /\ ~q.pumping)
    <3>1. /\ Ordered(r, c) /\ Following(r, c)
          /\ \/ Resting(r, c)
             \/ /\ ~r.pumping /\ r.segments = <<>> /\ r.queue = <<>>
                /\ Now(r) => r.heard.s <= r.cut + 1
      BY <2>8, <2>10 DEF TakesUp
    <3>2. Ordered(q, c)
      BY <1>1, <2>8, <3>1
      DEF Ordered, PlayInOrder, SegmentsInOrder, PumpWaits, PausedIsSilent, Now, LastS
    <3>3. Resting(q, c) \/ (q.queue # <<>> /\ ~q.pumping)
      BY <2>6, <2>8, <3>1 DEF Resting, Begun, Now
    <3>4. ASSUME r.open, r.voiceOk PROVE QueueFollows(q)
      <4>1. QueueFollows(r) /\ GivenIsComplete(r, c)
        BY <1>1, <3>1, <3>4 DEF Following
      <4>2. /\ r.segments # <<>> => LastS(r) \in Pos
            /\ r.heard.s \in Nat /\ Len(r.queue) \in Nat
            /\ \A j \in 1 .. Len(r.queue) : r.queue[j] \in Pos
        <5>1. r.segments # <<>> => Len(r.segments) \in 1 .. Len(r.segments)
          BY <1>1, Fields
        <5> QED
          BY <1>1, <5>1, Fields DEF LastS
      <4>3. Now(r) => r.heard.s <= r.cut + 1
        <5>1. CASE Resting(r, c)
          <6>1. Now(r) => r.segments # <<>>
            BY <1>1, <3>4, <5>1 DEF Resting, Begun, TakesUp
          <6> QED
            BY <1>2, <4>1, <4>2, <6>1 DEF QueueFollows, Pos
        <5> QED
          BY <3>1, <5>1
      <4>4. ASSUME NEW j \in 1 .. Len(Q)
            PROVE  \/ j \in 1 .. Len(r.queue) /\ Q[j] = r.queue[j] /\ Q[j] <= r.cut
                   \/ /\ j - Len(r.queue) \in 1 .. k
                      /\ Q[j] = r.cut + (j - Len(r.queue))
        <5>1. CASE j <= Len(r.queue)
          BY <2>6, <4>1, <4>2, <5>1 DEF QueueFollows
        <5>2. CASE j > Len(r.queue)
          <6>1. j - Len(r.queue) \in 1 .. k
            BY <2>1, <2>6, <4>2, <5>2 DEF Pos
          <6>2. Len(r.queue) + (j - Len(r.queue)) = j
            BY <4>2
          <6> QED
            BY <2>6, <6>1, <6>2
        <5> QED
          BY <4>2, <5>1, <5>2
      <4>5. ASSUME NEW j \in 1 .. Len(Q)
            PROVE  /\ Q[j] <= Avail(c)
                   /\ r.segments # <<>> => LastS(r) < Q[j]
                   /\ Now(r) => r.heard.s <= Q[j]
                   /\ \A i \in 1 .. Len(Q) : i < j => Q[i] < Q[j]
        <5>1. CASE j \in 1 .. Len(r.queue) /\ Q[j] = r.queue[j] /\ Q[j] <= r.cut
          <6>1. \A i \in 1 .. Len(Q) : i < j => i \in 1 .. Len(r.queue) /\ Q[i] = r.queue[i]
            BY <2>6, <4>2, <5>1
          <6>2. \A i \in 1 .. Len(r.queue) : i < j => r.queue[i] < r.queue[j]
            BY <4>1, <5>1 DEF QueueFollows
          <6>3. /\ r.segments # <<>> => LastS(r) < r.queue[j]
                /\ Now(r) => r.heard.s <= r.queue[j]
            BY <4>1, <5>1 DEF QueueFollows
          <6>4. Q[j] <= Avail(c)
            BY <1>2, <1>4, <4>2, <5>1 DEF Pos
          <6> QED
            BY <5>1, <6>1, <6>2, <6>3, <6>4
        <5>2. CASE /\ j - Len(r.queue) \in 1 .. k
                   /\ Q[j] = r.cut + (j - Len(r.queue))
          <6>1. \A i \in 1 .. Len(Q) : i < j => Q[i] < Q[j]
            <7> SUFFICES ASSUME NEW i \in 1 .. Len(Q), i < j PROVE Q[i] < Q[j]
              OBVIOUS
            <7>1. CASE i \in 1 .. Len(r.queue) /\ Q[i] = r.queue[i] /\ Q[i] <= r.cut
              BY <1>2, <4>2, <5>2, <7>1 DEF Pos
            <7>2. CASE Q[i] = r.cut + (i - Len(r.queue))
              BY <1>2, <4>2, <5>2, <7>2
            <7> QED
              BY <4>4, <7>1, <7>2
          <6>2. r.segments # <<>> => LastS(r) <= r.cut
            BY <4>1 DEF QueueFollows
          <6> QED
            BY <1>2, <4>2, <4>3, <5>2, <6>1, <6>2 DEF Pos
        <5> QED
          BY <4>4, <5>1, <5>2
      <4>6. r.segments # <<>> => /\ LastS(r) <= Avail(c)
                                 /\ Now(r) => r.heard.s <= LastS(r)
        BY <1>2, <1>4, <4>1, <4>2 DEF QueueFollows, Pos
      <4> QED
        BY <2>8, <4>5, <4>6 DEF QueueFollows, Now, LastS
    <3>5. ASSUME r.open, r.voiceOk PROVE GivenIsComplete(q, c) /\ ResumePoint(q, c)
      <4>1. GivenIsComplete(r, c)
        BY <1>1, <3>1, <3>5 DEF Following
      <4> QED
        BY <1>1, <1>2, <2>8, <4>1 DEF GivenIsComplete, ResumePoint
    <3> QED
      BY <1>1, <2>8, <3>2, <3>3, <3>4, <3>5 DEF Following
  <2>11. Ready(q, c)
    BY <2>9, <2>10 DEF Ready
  <2> QED
    BY <2>2, <2>8, <2>11, PumpGood DEF Kept
<1> QED
  BY <1>2, <1>3, <1>4

\* The text has grown, or ended, or ended in an error: the answer goes on.
LEMMA NewTextGood ==
    ASSUME NEW r, NEW c, Good(r, c), chat' \in ChatRec, c.streaming,
           chat'.n = c.n, Avail(c) <= Avail(chat'), chat'.streaming => ~chat'.isError
    PROVE  Good(NewText(r), chat') /\ Kept(r, NewText(r))
<1>1. /\ r \in VoiceRec /\ c \in ChatRec /\ Shaped(r, c) /\ ~r.aborted /\ ~r.awaiting
      /\ ~c.isError
  BY DEF Good, Shaped
<1>2. Avail(c) \in Int /\ Avail(chat') \in Int
  BY <1>1 DEF Avail, ChatRec
<1>3. Shaped(r, chat')
  BY <1>1 DEF Shaped
<1>4. ASSUME ~r.marred
      PROVE  Ordered(r, chat') /\ Following(r, chat') /\ Resting(r, chat')
  <2>1. Ordered(r, c) /\ Following(r, c) /\ Resting(r, c)
    BY <1>4 DEF Good
  <2>2. Ordered(r, chat')
    BY <2>1 DEF Ordered
  <2>3. Resting(r, chat')
    BY <1>1, <2>1 DEF Resting, Begun
  <2>4. ASSUME r.open, r.voiceOk, r.index # 0
        PROVE  QueueFollows(r) /\ GivenIsComplete(r, chat') /\ ResumePoint(r, chat')
    <3>1. QueueFollows(r) /\ GivenIsComplete(r, c) /\ ResumePoint(r, c)
      BY <2>1, <2>4 DEF Following
    <3>2. \A g \in r.given : g \in Nat
      BY <1>1, Fields DEF Pos
    <3>3. GivenIsComplete(r, chat')
      BY <1>1, <1>2, <3>1, <3>2, Fields DEF GivenIsComplete
    <3>4. ResumePoint(r, chat')
      BY <1>1, <1>2, <3>1, Fields DEF ResumePoint
    <3> QED
      BY <3>1, <3>3, <3>4
  <2> QED
    BY <2>2, <2>3, <2>4 DEF Following
<1>5. CASE r.index = 0 \/ r.paused \/ chat'.isError
  <2>1. NewText(r) = r
    BY <1>1, <1>5 DEF NewText
  <2> QED
    BY <1>1, <1>3, <1>4, <2>1 DEF Good, Kept
<1>6. CASE ~(r.index = 0 \/ r.paused \/ chat'.isError)
  <2>1. r.index = chat'.n
    BY <1>3, <1>6 DEF Shaped
  <2>2. NewText(r) = Queued(r, ~chat'.streaming \/ r.index # chat'.n)
    BY <1>1, <1>6 DEF NewText
  <2>3. NewText(r) = QueuedIs(r, chat')
    BY <2>1, <2>2, QueuedReads
  <2>4. TakesUp(r, chat')
    BY <1>1, <1>3, <1>4, <1>6, <2>1 DEF TakesUp
  <2> QED
    BY <2>3, <2>4, QueuedGood
<1> QED
  BY <1>5, <1>6

\* The player is silent, and the request under way will be aborted.
LEMMA StopIs ==
    ASSUME NEW r \in VoiceRec
    PROVE  LET q == StopPlayer(r)
           IN  /\ q \in VoiceRec
               /\ q.aborted = r.pumping /\ q.segments = <<>> /\ q.play = <<>>
               /\ q.open = r.open /\ q.speakerOn = r.speakerOn /\ q.voiceOk = r.voiceOk
               /\ q.awaiting = r.awaiting /\ q.index = r.index /\ q.cut = r.cut
               /\ q.queue = r.queue /\ q.given = r.given /\ q.pumping = r.pumping
               /\ q.paused = r.paused /\ q.resumeAt = r.resumeAt
               /\ q.heard = r.heard /\ q.marred = r.marred
<1> DEFINE q == StopPlayer(r)
           S == <<>>
           P == <<>>
<1>1. S \in Seq([s : Pos, st : SegmentStates]) /\ P \in Seq([answer : Nat, s : Pos])
  OBVIOUS
<1>2. q = [r EXCEPT !.ducked = FALSE, !.aborted = r.pumping, !.segments = S, !.play = P]
  BY DEF StopPlayer
<1> HIDE DEF q, S, P
<1>3. q \in VoiceRec
  BY <1>1, <1>2 DEF VoiceRec
<1>4. /\ q.aborted = r.pumping /\ q.segments = S /\ q.play = P
      /\ q.open = r.open /\ q.speakerOn = r.speakerOn /\ q.voiceOk = r.voiceOk
      /\ q.awaiting = r.awaiting /\ q.index = r.index /\ q.cut = r.cut
      /\ q.queue = r.queue /\ q.given = r.given /\ q.pumping = r.pumping
      /\ q.paused = r.paused /\ q.resumeAt = r.resumeAt
      /\ q.heard = r.heard /\ q.marred = r.marred
  BY <1>2 DEF VoiceRec
<1> QED
  BY <1>3, <1>4 DEF q, S, P

\* An aborted pump has broken off.
LEMMA BreaksIs ==
    ASSUME NEW r \in VoiceRec
    PROVE  LET q == PumpBreaks(r)
           IN  /\ q \in VoiceRec
               /\ q.aborted = FALSE /\ q.pumping = (r.pumping /\ ~r.aborted)
               /\ q.open = r.open /\ q.speakerOn = r.speakerOn /\ q.voiceOk = r.voiceOk
               /\ q.awaiting = r.awaiting /\ q.index = r.index /\ q.cut = r.cut
               /\ q.queue = r.queue /\ q.given = r.given
               /\ q.paused = r.paused /\ q.resumeAt = r.resumeAt
               /\ q.segments = r.segments /\ q.play = r.play
               /\ q.heard = r.heard /\ q.marred = r.marred
<1>1. r.aborted \in BOOLEAN /\ r.pumping \in BOOLEAN
  BY DEF VoiceRec
<1>2. CASE r.aborted
  <2> DEFINE q == [r EXCEPT !.pumping = FALSE, !.aborted = FALSE]
  <2>1. PumpBreaks(r) = q
    BY <1>2 DEF PumpBreaks
  <2>2. q \in VoiceRec
    BY DEF VoiceRec
  <2>3. /\ q.aborted = FALSE /\ q.pumping = FALSE
        /\ q.open = r.open /\ q.speakerOn = r.speakerOn /\ q.voiceOk = r.voiceOk
        /\ q.awaiting = r.awaiting /\ q.index = r.index /\ q.cut = r.cut
        /\ q.queue = r.queue /\ q.given = r.given
        /\ q.paused = r.paused /\ q.resumeAt = r.resumeAt
        /\ q.segments = r.segments /\ q.play = r.play
        /\ q.heard = r.heard /\ q.marred = r.marred
    BY DEF VoiceRec
  <2> HIDE DEF q
  <2> QED
    BY <1>1, <1>2, <2>1, <2>2, <2>3
<1>3. CASE ~r.aborted
  <2>1. PumpBreaks(r) = r
    BY <1>3 DEF PumpBreaks
  <2> QED
    BY <1>1, <1>3, <2>1
<1> QED
  BY <1>2, <1>3

\* A silent player with nothing queued, and an answer not yet heard, or none
LEMMA SilentGood ==
    ASSUME NEW r, NEW c, NEW q \in VoiceRec, NEW d \in ChatRec, Good(r, c),
           c.n <= d.n, d.streaming => ~d.isError,
           q.speakerOn = r.speakerOn, q.heard = r.heard, q.marred = r.marred,
           ~q.awaiting, ~q.aborted, ~q.pumping, ~q.paused,
           q.queue = <<>>, q.segments = <<>>, q.play = <<>>,
           q.index = 0 \/ (q.index = d.n /\ c.n < d.n /\ q.cut = 0 /\ q.given = {})
    PROVE  Good(q, d) /\ Kept(r, q)
<1>1. r \in VoiceRec /\ c \in ChatRec /\ c.n \in Nat /\ d.n \in Nat
  BY DEF Good, Shaped, ChatRec
<1>2. Shaped(q, d) /\ Kept(r, q)
  BY DEF Shaped, Kept
<1>3. ASSUME ~q.marred PROVE Ordered(q, d) /\ Following(q, d) /\ Resting(q, d)
  <2>1. r.heard.answer \in Nat /\ r.heard.answer <= c.n /\ r.speakerOn
    BY <1>1, <1>3, Fields DEF Good, Ordered
  <2>2. Ordered(q, d)
    BY <1>1, <2>1 DEF Ordered, PlayInOrder, SegmentsInOrder, PumpWaits, PausedIsSilent
  <2>3. q.index # 0 => ~Now(q)
    BY <1>1, <2>1 DEF Now
  <2>4. q.index # 0 => QueueFollows(q) /\ GivenIsComplete(q, d)
    BY DEF QueueFollows, GivenIsComplete
  <2> QED
    BY <2>2, <2>3, <2>4 DEF Following, Resting, ResumePoint, Begun
<1> QED
  BY <1>2, <1>3 DEF Good

\* The next answer is taken up: the player is silent and nothing is queued yet.
LEMMA NextAnswerGood ==
    ASSUME NEW r, NEW c, Good(r, c), chat' \in ChatRec,
           chat'.n = c.n + 1, chat'.len = 0, chat'.streaming, ~chat'.isError
    PROVE  LET q == PumpBreaks(NewText([r EXCEPT !.awaiting = TRUE]))
           IN  Good(q, chat') /\ Kept(r, q)
<1> DEFINE w == [r EXCEPT !.awaiting = TRUE]
           mine == [StopPlayer(w) EXCEPT !.awaiting = FALSE, !.index = chat'.n, !.cut = 0,
                                         !.queue = <<>>, !.given = {}, !.paused = FALSE]
           q == PumpBreaks(mine)
<1>1. r \in VoiceRec /\ c \in ChatRec /\ ~r.aborted /\ c.n \in Nat /\ chat'.n \in Nat
  BY DEF Good, Shaped, ChatRec
<1>2. w.awaiting
  BY <1>1 DEF VoiceRec
<1>3. mine.index = chat'.n /\ mine.cut = 0 /\ mine.paused = FALSE
  BY <1>1 DEF StopPlayer, VoiceRec
<1>4. NewText(w) = mine
  <2>1. NewText(w) = IF mine.index = 0 \/ mine.paused \/ chat'.isError THEN mine
                     ELSE Queued(mine, ~chat'.streaming \/ mine.index # chat'.n)
    BY <1>2 DEF NewText
  <2> HIDE DEF mine
  <2>2. Queued(mine, ~chat'.streaming \/ mine.index # chat'.n) = QueuedIs(mine, chat')
    BY <1>3, QueuedReads
  <2>3. ~(0 < Avail(chat'))
    BY DEF Avail
  <2>4. QueuedIs(mine, chat') = mine
    BY <1>3, <2>3, CompleteIs DEF QueuedIs
  <2> QED
    BY <2>1, <2>2, <2>4
<1>5. w \in VoiceRec
  BY <1>1 DEF VoiceRec
<1>6. /\ w.open = r.open /\ w.speakerOn = r.speakerOn /\ w.pumping = r.pumping
      /\ w.heard = r.heard /\ w.marred = r.marred
  BY <1>1 DEF VoiceRec
<1> DEFINE p == StopPlayer(w)
<1>7. /\ p \in VoiceRec /\ p.aborted = p.pumping /\ p.segments = <<>> /\ p.play = <<>>
      /\ p.speakerOn = r.speakerOn /\ p.heard = r.heard /\ p.marred = r.marred
  BY <1>5, <1>6, StopIs
<1>8. mine = [p EXCEPT !.awaiting = FALSE, !.index = chat'.n, !.cut = 0,
                       !.queue = <<>>, !.given = {}, !.paused = FALSE]
  OBVIOUS
<1> HIDE DEF p, w, mine
<1>9. mine \in VoiceRec
  <2>1. ASSUME NEW Q \in Seq(Pos), NEW N \in Nat
        PROVE  [p EXCEPT !.awaiting = FALSE, !.index = N, !.cut = 0,
                         !.queue = Q, !.given = {}, !.paused = FALSE] \in VoiceRec
    BY <1>7 DEF VoiceRec
  <2>2. <<>> \in Seq(Pos)
    OBVIOUS
  <2> QED
    BY <1>1, <1>8, <2>1, <2>2
<1>10. /\ mine.aborted = mine.pumping /\ mine.segments = <<>> /\ mine.play = <<>>
       /\ mine.speakerOn = r.speakerOn /\ mine.heard = r.heard /\ mine.marred = r.marred
       /\ mine.awaiting = FALSE /\ mine.queue = <<>> /\ mine.given = {}
  BY <1>7, <1>8 DEF VoiceRec
<1>11. /\ q \in VoiceRec /\ ~q.aborted /\ ~q.pumping
       /\ q.segments = <<>> /\ q.play = <<>>
       /\ q.speakerOn = r.speakerOn /\ q.heard = r.heard /\ q.marred = r.marred
       /\ ~q.awaiting /\ q.queue = <<>> /\ q.given = {}
       /\ q.index = chat'.n /\ q.cut = 0 /\ ~q.paused
  BY <1>3, <1>9, <1>10, BreaksIs
<1> HIDE DEF q
<1>12. c.n < chat'.n /\ c.n <= chat'.n
  BY <1>1
<1>13. Good(q, chat') /\ Kept(r, q)
  BY <1>11, <1>12, SilentGood
<1> QED
  BY <1>4, <1>13 DEF q, w

-----------------------------------------------------------------------------
(* Barge-ins *)

\* interrupt cuts the answer for good.
LEMMA InterruptGood ==
    ASSUME NEW r, NEW c, Good(r, c), NEW d \in ChatRec, c.n = d.n, d.streaming => ~d.isError
    PROVE  LET q == PumpBreaks(Interrupt(r))
           IN  Good(q, d) /\ Kept(r, q)
<1> DEFINE p == StopPlayer(r)
           Q == <<>>
           m == Interrupt(r)
           q == PumpBreaks(m)
<1>1. r \in VoiceRec /\ c \in ChatRec /\ ~r.awaiting /\ c.n \in Nat
  BY DEF Good, Shaped, ChatRec
<1>2. /\ p \in VoiceRec /\ p.aborted = p.pumping /\ p.segments = <<>> /\ p.play = <<>>
      /\ p.speakerOn = r.speakerOn /\ p.heard = r.heard /\ p.marred = r.marred
      /\ p.awaiting = r.awaiting
  BY <1>1, StopIs
<1>3. m = [p EXCEPT !.queue = Q, !.paused = FALSE, !.index = 0] /\ Q \in Seq(Pos)
  BY DEF Interrupt
<1> HIDE DEF p, Q, m
<1>4. m \in VoiceRec
  BY <1>2, <1>3 DEF VoiceRec
<1>5. /\ m.aborted = m.pumping /\ m.segments = <<>> /\ m.play = <<>>
      /\ m.speakerOn = r.speakerOn /\ m.heard = r.heard /\ m.marred = r.marred
      /\ m.awaiting = r.awaiting /\ m.queue = Q /\ m.paused = FALSE /\ m.index = 0
  BY <1>2, <1>3 DEF VoiceRec
<1>6. /\ q \in VoiceRec /\ ~q.aborted /\ ~q.pumping
      /\ q.segments = <<>> /\ q.play = <<>>
      /\ q.speakerOn = r.speakerOn /\ q.heard = r.heard /\ q.marred = r.marred
      /\ ~q.awaiting /\ q.queue = <<>> /\ q.index = 0 /\ ~q.paused
  BY <1>1, <1>4, <1>5, BreaksIs DEF Q
<1> HIDE DEF q
<1>7. c.n <= d.n
  BY <1>1
<1>8. Good(q, d) /\ Kept(r, q)
  BY <1>6, <1>7, SilentGood
<1> QED
  BY <1>8 DEF q, m

\* The sentence the play head is in, those given up to it, and the one that
\* pauseVoice keeps
Where(r) == IF SpokenAt(r) = 0 THEN 1 ELSE SpokenAt(r)
Before(r) == {s \in r.given : s <= Where(r)}
At(r) == IF Before(r) = {} THEN 0 ELSE Max(Before(r)) - 1

\* The sentence the play head is in, and the one the answer resumes after, are
\* numbers of sentences.
LEMMA ResumeAtType ==
    ASSUME NEW r \in VoiceRec
    PROVE  /\ Where(r) \in Pos /\ At(r) \in Nat
           /\ Before(r) \in SUBSET Pos /\ Before(r) \in SUBSET r.given
           /\ Before(r) # {} => Max(Before(r)) \in Before(r) /\ \A y \in Before(r) : y <= Max(Before(r))
<1>2. /\ Len(r.segments) \in Nat /\ Len(r.segments) > 0 <=> r.segments # <<>>
      /\ \A j \in 1 .. Len(r.segments) : r.segments[j].s \in Pos
      /\ Len(r.play) \in Nat
      /\ \A j \in 1 .. Len(r.play) : r.play[j].s \in Pos
      /\ r.given \in SUBSET Pos /\ r.heard.s \in Nat
      /\ DOMAIN r.segments = 1 .. Len(r.segments) /\ DOMAIN r.play = 1 .. Len(r.play)
  BY Fields, SMTT(30)
<1>3. Unheard(r) \in SUBSET Nat
  BY <1>2 DEF Unheard
<1>4. Where(r) \in Pos
  <2>1. CASE r.segments = <<>>
    BY <2>1 DEF SpokenAt, Pos, Where
  <2>2. CASE r.segments # <<>> /\ Unheard(r) # {}
    <3>1. Min(Unheard(r)) \in Unheard(r)
      BY <1>3, <2>2, MinIs
    <3>2. Min(Unheard(r)) \in 1 .. Len(r.segments)
      BY <1>2, <3>1 DEF Unheard
    <3>3. SpokenAt(r) = r.segments[Min(Unheard(r))].s
      BY <2>2 DEF SpokenAt
    <3> QED
      BY <1>2, <3>2, <3>3 DEF Pos, Where
  <2>3. CASE r.segments # <<>> /\ Unheard(r) = {}
    <3>1. Len(r.segments) \in 1 .. Len(r.segments)
      BY <1>2, <2>3
    <3>2. SpokenAt(r) = r.segments[Len(r.segments)].s + 1
      BY <2>3 DEF SpokenAt
    <3> QED
      BY <1>2, <3>1, <3>2 DEF Pos, Where
  <2> QED
    BY <2>1, <2>2, <2>3
<1>5. Before(r) \in SUBSET (0 .. Where(r)) /\ Before(r) \in SUBSET Pos /\ Before(r) \in SUBSET r.given
  BY <1>2, <1>4 DEF Pos, Before
<1>6. Before(r) # {} => Max(Before(r)) \in Before(r) /\ \A y \in Before(r) : y <= Max(Before(r))
  BY <1>4, <1>5, MaxIs DEF Pos
<1>7. At(r) \in Nat
  <2>1. CASE Before(r) # {}
    <3>1. Max(Before(r)) \in Pos /\ At(r) = Max(Before(r)) - 1
      BY <1>5, <1>6, <2>1 DEF At
    <3> QED
      BY <3>1 DEF Pos
  <2> QED
    BY <2>1 DEF At
<1> QED
  BY <1>4, <1>5, <1>6, <1>7

\* Where the answer resumes: at a sentence that was given, not before the one
\* the play head is in, and none of it was heard beyond.
LEMMA ResumeAtIs ==
    ASSUME NEW r, NEW c, Good(r, c), ~r.marred, r.open, r.voiceOk, r.index # 0, ~r.paused
    PROVE  /\ At(r) \in Nat
           /\ At(r) = 0 \/ At(r) + 1 <= Avail(c)
           /\ Now(r) /\ ~c.isError => r.heard.s <= At(r) + 1 /\ At(r) + 1 <= Avail(c)
<1>1. /\ r \in VoiceRec /\ c \in ChatRec
      /\ PlayInOrder(r) /\ SegmentsInOrder(r)
      /\ QueueFollows(r) /\ GivenIsComplete(r, c) /\ Begun(r, c)
  BY DEF Good, Shaped, Ordered, Following, Resting
<1>2. /\ Len(r.segments) \in Nat /\ Len(r.segments) > 0 <=> r.segments # <<>>
      /\ \A j \in 1 .. Len(r.segments) : r.segments[j].s \in Pos
      /\ Len(r.play) \in Nat
      /\ \A j \in 1 .. Len(r.play) : r.play[j].s \in Pos
      /\ r.given \in SUBSET Pos /\ r.heard.s \in Nat
      /\ DOMAIN r.segments = 1 .. Len(r.segments) /\ DOMAIN r.play = 1 .. Len(r.play)
  BY <1>1, Fields
<1>3. Unheard(r) \in SUBSET Nat
  BY <1>2 DEF Unheard
<1>4. /\ Where(r) \in Pos /\ Before(r) \in SUBSET Pos /\ Before(r) \in SUBSET r.given
      /\ Before(r) # {} => Max(Before(r)) \in Before(r) /\ \A y \in Before(r) : y <= Max(Before(r))
  BY <1>1, ResumeAtType
<1>7. Avail(c) \in Int
  BY <1>1 DEF Avail, ChatRec
<1>8. At(r) \in Nat /\ (At(r) = 0 \/ At(r) + 1 <= Avail(c))
  <2>1. CASE Before(r) = {}
    BY <2>1 DEF At
  <2>2. CASE Before(r) # {}
    <3>1. Max(Before(r)) \in Pos /\ Max(Before(r)) <= Avail(c) /\ At(r) = Max(Before(r)) - 1
      BY <1>1, <1>4, <2>2 DEF GivenIsComplete, At
    <3> QED
      BY <1>7, <3>1 DEF Pos
  <2> QED
    BY <2>1, <2>2
<1>9. ASSUME Now(r), ~c.isError
      PROVE  r.heard.s <= At(r) + 1 /\ At(r) + 1 <= Avail(c)
  <2>1. r.segments # <<>> /\ Len(r.segments) \in 1 .. Len(r.segments)
    BY <1>1, <1>2, <1>9 DEF Begun
  \* a given sentence, no later than Where(r), that nothing heard is beyond
  <2>2. \E g \in Before(r) : r.heard.s <= g
    <3>1. CASE Unheard(r) # {}
      <4> DEFINE m == Min(Unheard(r))
      <4>1. m \in Unheard(r) /\ \A y \in Unheard(r) : m <= y
        BY <1>3, <3>1, MinIs
      <4>2. m \in 1 .. Len(r.segments)
        BY <1>2, <4>1 DEF Unheard
      <4>3. SpokenAt(r) = r.segments[m].s
        BY <2>1, <3>1 DEF SpokenAt
      <4> HIDE DEF m
      <4>4. r.segments[m].s \in Before(r)
        BY <1>1, <1>2, <4>2, <4>3 DEF GivenIsComplete, Pos, Before, Where
      <4>5. r.heard.s <= r.segments[m].s
        <5>1. CASE r.segments[m].st # "done"
          <6>1. m = Len(r.segments)
            BY <1>1, <1>2, <4>2, <5>1 DEF SegmentsInOrder
          <6> QED
            BY <1>1, <1>9, <2>1, <6>1 DEF QueueFollows, LastS
        <5>2. CASE \E j \in DOMAIN r.play : r.play[j].s = r.segments[m].s
          BY <1>1, <1>2, <1>9, <5>2 DEF PlayInOrder
        <5> QED
          BY <4>1, <5>1, <5>2 DEF Unheard
      <4> QED
        BY <4>4, <4>5
    <3>2. CASE Unheard(r) = {}
      <4>1. SpokenAt(r) = r.segments[Len(r.segments)].s + 1
        BY <2>1, <3>2 DEF SpokenAt
      <4>2. LastS(r) \in Pos /\ LastS(r) \in r.given /\ LastS(r) = r.segments[Len(r.segments)].s
        BY <1>1, <1>2, <2>1 DEF GivenIsComplete, LastS
      <4>3. LastS(r) \in Before(r)
        BY <4>1, <4>2 DEF Pos, Before, Where
      <4>4. r.heard.s <= LastS(r)
        BY <1>1, <1>9, <2>1 DEF QueueFollows
      <4> QED
        BY <4>3, <4>4
    <3> QED
      BY <3>1, <3>2
  <2>3. PICK g \in Before(r) : r.heard.s <= g
    BY <2>2
  <2>4. Max(Before(r)) \in Before(r) /\ g <= Max(Before(r)) /\ At(r) = Max(Before(r)) - 1
    BY <1>4, <2>3 DEF At
  <2>5. Max(Before(r)) \in Pos /\ g \in Pos /\ Max(Before(r)) <= Avail(c)
    BY <1>1, <1>4, <2>4 DEF GivenIsComplete
  <2> QED
    BY <1>2, <1>7, <2>3, <2>4, <2>5 DEF Pos
<1> QED
  BY <1>8, <1>9

\* pauseVoice keeps where the answer stopped.
LEMMA PauseGood ==
    ASSUME NEW r, NEW c, Good(r, c), r.open
    PROVE  LET q == PumpBreaks(PauseVoice(r))
           IN  Good(q, c) /\ Kept(r, q)
<1> DEFINE p == StopPlayer(r)
           Q == <<>>
           m == PauseVoice(r)
           q == PumpBreaks(m)
<1>1. r \in VoiceRec /\ c \in ChatRec /\ Shaped(r, c) /\ ~r.aborted
  BY DEF Good, Shaped
<1>2. CASE r.index = 0 \/ r.paused
  <2>1. q = r
    BY <1>1, <1>2 DEF PauseVoice, PumpBreaks
  <2> QED
    BY <2>1 DEF Kept
<1>3. CASE ~(r.index = 0 \/ r.paused)
  <2>1. m = [p EXCEPT !.resumeAt = At(r), !.paused = TRUE, !.queue = Q]
    BY <1>3 DEF PauseVoice, At, Before, Where
  <2>2. /\ ~r.marred /\ r.voiceOk =>
             /\ At(r) \in Nat
             /\ At(r) = 0 \/ At(r) + 1 <= Avail(c)
             /\ Now(r) /\ ~c.isError => r.heard.s <= At(r) + 1 /\ At(r) + 1 <= Avail(c)
    BY <1>3, ResumeAtIs
  <2>3. At(r) \in Nat
    BY <1>1, ResumeAtType
  <2>4. /\ p \in VoiceRec
        /\ p.aborted = r.pumping /\ p.segments = <<>> /\ p.play = <<>>
        /\ p.open = r.open /\ p.speakerOn = r.speakerOn /\ p.voiceOk = r.voiceOk
        /\ p.awaiting = r.awaiting /\ p.index = r.index /\ p.cut = r.cut
        /\ p.given = r.given /\ p.pumping = r.pumping
        /\ p.heard = r.heard /\ p.marred = r.marred
    BY <1>1, StopIs
  <2>5. Q \in Seq(Pos)
    OBVIOUS
  <2> HIDE DEF p, Q, m
  <2>6. m \in VoiceRec
    BY <2>1, <2>3, <2>4, <2>5 DEF VoiceRec
  <2>7. /\ m.aborted = r.pumping /\ m.segments = <<>> /\ m.play = <<>>
        /\ m.open = r.open /\ m.speakerOn = r.speakerOn /\ m.voiceOk = r.voiceOk
        /\ m.awaiting = r.awaiting /\ m.index = r.index /\ m.cut = r.cut
        /\ m.given = r.given /\ m.pumping = r.pumping
        /\ m.heard = r.heard /\ m.marred = r.marred
        /\ m.resumeAt = At(r) /\ m.paused = TRUE /\ m.queue = Q
    BY <2>1, <2>4 DEF VoiceRec
  <2>8. /\ q \in VoiceRec /\ q.aborted = FALSE /\ ~q.pumping
        /\ q.segments = <<>> /\ q.play = <<>>
        /\ q.open = r.open /\ q.speakerOn = r.speakerOn /\ q.voiceOk = r.voiceOk
        /\ q.awaiting = r.awaiting /\ q.index = r.index /\ q.cut = r.cut
        /\ q.given = r.given /\ q.heard = r.heard /\ q.marred = r.marred
        /\ q.resumeAt = At(r) /\ q.paused = TRUE /\ q.queue = <<>>
    BY <2>6, <2>7, BreaksIs, ZenonT(60) DEF Q
  <2> HIDE DEF q
  <2>9. Shaped(q, c) /\ Kept(r, q)
    BY <1>1, <2>8 DEF Shaped, Kept
  <2>10. ASSUME ~q.marred PROVE Ordered(q, c) /\ Following(q, c) /\ Resting(q, c)
    <3>1. Ordered(r, c) /\ Following(r, c) /\ ~r.marred
      BY <2>8, <2>10 DEF Good
    <3>2. Ordered(q, c)
      BY <1>3, <2>8, <3>1
      DEF Ordered, PlayInOrder, SegmentsInOrder, PumpWaits, PausedIsSilent
    <3>3. q.voiceOk => QueueFollows(q) /\ GivenIsComplete(q, c)
      BY <1>3, <2>8, <3>1 DEF Following, QueueFollows, GivenIsComplete
    <3>4. q.voiceOk => ResumePoint(q, c)
      BY <2>2, <2>8, <3>1 DEF ResumePoint, Now
    <3> QED
      BY <2>8, <3>2, <3>3, <3>4 DEF Following, Resting, Begun
  <2> QED
    BY <2>8, <2>9, <2>10 DEF Good, q, m
<1> QED
  BY <1>2, <1>3

\* resumeVoice goes on where the voice stopped.
LEMMA ResumeGood ==
    ASSUME NEW r, Good(r, chat')
    PROVE  Good(ResumeVoice(r), chat') /\ Kept(r, ResumeVoice(r))
<1> DEFINE c == chat'
           back == [r EXCEPT !.paused = FALSE, !.cut = r.resumeAt, !.given = {}]
<1>1. r \in VoiceRec /\ c \in ChatRec /\ Shaped(r, c) /\ ~r.aborted
  BY DEF Good, Shaped
<1>2. CASE ~Resumes(r)
  <2> DEFINE q == [r EXCEPT !.paused = FALSE]
  <2>1. ResumeVoice(r) = q
    BY <1>2 DEF ResumeVoice
  <2>2. q \in VoiceRec
    BY <1>1 DEF VoiceRec
  <2>3. /\ q.open = r.open /\ q.speakerOn = r.speakerOn /\ q.voiceOk = r.voiceOk
        /\ q.awaiting = r.awaiting /\ q.index = r.index /\ q.cut = r.cut
        /\ q.queue = r.queue /\ q.given = r.given /\ q.pumping = r.pumping
        /\ q.paused = FALSE /\ q.resumeAt = r.resumeAt /\ q.aborted = r.aborted
        /\ q.segments = r.segments /\ q.play = r.play /\ q.heard = r.heard
        /\ q.marred = r.marred
    BY <1>1 DEF VoiceRec
  <2> HIDE DEF q
  <2>4. Shaped(q, c) /\ ~q.aborted /\ Kept(r, q)
    BY <1>1, <2>2, <2>3 DEF Shaped, Kept
  <2>5. ASSUME ~q.marred PROVE Alike(r, q)
    <3>1. ~r.paused
      BY <1>2, <2>3, <2>5 DEF Good, Ordered, PausedIsSilent, Resumes
    <3>2. r.paused = FALSE
      BY <1>1, <3>1 DEF VoiceRec
    <3> QED
      BY <2>3, <3>2 DEF Alike
  <2>6. Good(q, c)
    <3>1. CASE ~q.marred
      BY <2>2, <2>5, <3>1, AlikeGood
    <3>2. CASE q.marred
      BY <2>4, <3>2 DEF Good
    <3> QED
      BY <3>1, <3>2
  <2> QED
    BY <2>1, <2>4, <2>6
<1>3. CASE Resumes(r)
  <2>1. r.paused /\ r.index # 0 /\ r.index = c.n
    BY <1>1, <1>3 DEF Resumes, Shaped
  <2>2. back \in VoiceRec
    BY <1>1 DEF VoiceRec
  <2>3. /\ back.open = r.open /\ back.speakerOn = r.speakerOn /\ back.voiceOk = r.voiceOk
        /\ back.awaiting = r.awaiting /\ back.index = r.index /\ back.cut = r.resumeAt
        /\ back.queue = r.queue /\ back.given = {} /\ back.pumping = r.pumping
        /\ back.paused = FALSE /\ back.aborted = r.aborted
        /\ back.segments = r.segments /\ back.play = r.play /\ back.heard = r.heard
        /\ back.marred = r.marred
    BY <1>1 DEF VoiceRec
  <2>4. ResumeVoice(r) = IF c.isError THEN back
                         ELSE Queued(back, ~c.streaming \/ r.index # c.n)
    BY <1>3 DEF ResumeVoice
  <2> HIDE DEF back
  <2>5. Shaped(back, c) /\ ~back.aborted /\ Kept(r, back)
    BY <1>1, <2>2, <2>3 DEF Shaped, Kept
  <2>6. ASSUME ~back.marred
        PROVE  /\ Ordered(back, c) /\ Following(back, c)
               /\ ~back.pumping /\ back.segments = <<>> /\ back.queue = <<>>
               /\ back.open /\ back.voiceOk /\ Now(back) /\ ~c.isError
                     => back.cut < Avail(c) /\ back.heard.s <= back.cut + 1
    <3>1. /\ Ordered(r, c) /\ Following(r, c) /\ ~r.pumping
          /\ r.segments = <<>> /\ r.play = <<>> /\ r.queue = <<>>
      BY <2>1, <2>3, <2>6 DEF Good, Ordered, PumpWaits, PausedIsSilent
    <3>2. Ordered(back, c)
      BY <2>3, <3>1 DEF Ordered, PlayInOrder, SegmentsInOrder, PumpWaits, PausedIsSilent
    <3>3. r.resumeAt \in Nat /\ Avail(c) \in Int /\ r.heard.s \in Nat
      BY <1>1, Fields DEF Avail, ChatRec
    <3>4. r.open /\ r.voiceOk => ResumePoint(r, c)
      BY <2>1, <3>1 DEF Following
    <3>5. r.open /\ r.voiceOk => QueueFollows(back) /\ GivenIsComplete(back, c) /\ ResumePoint(back, c)
      BY <2>1, <2>3, <3>1, <3>3, <3>4 DEF QueueFollows, GivenIsComplete, ResumePoint
    <3>6. back.open /\ back.voiceOk /\ Now(back) /\ ~c.isError
             => back.cut < Avail(c) /\ back.heard.s <= back.cut + 1
      BY <2>1, <2>3, <3>3, <3>4 DEF ResumePoint, Now
    <3> QED
      BY <2>3, <3>1, <3>2, <3>5, <3>6 DEF Following
  <2>7. CASE c.isError
    <3>1. ~back.marred => Resting(back, c)
      BY <2>7 DEF Resting, Begun
    <3> QED
      BY <2>4, <2>5, <2>6, <2>7, <3>1 DEF Good
  <2>8. CASE ~c.isError
    <3>1. ResumeVoice(r) = QueuedIs(back, c)
      BY <2>1, <2>3, <2>4, <2>8, QueuedReads
    <3>2. ~back.marred =>
             \/ Resting(back, c)
             \/ /\ ~back.pumping /\ back.segments = <<>> /\ back.queue = <<>>
                /\ back.cut < Avail(c) /\ (Now(back) => back.heard.s <= back.cut + 1)
      BY <2>6, <2>8 DEF Resting, Begun
    <3>3. TakesUp(back, c)
      BY <2>1, <2>3, <2>5, <2>6, <2>8, <3>2 DEF TakesUp
    <3>4. Good(QueuedIs(back, c), c) /\ Kept(back, QueuedIs(back, c))
      BY <3>3, QueuedGood
    <3> QED
      BY <2>5, <3>1, <3>4 DEF Kept
  <2> QED
    BY <2>7, <2>8
<1> QED
  BY <1>2, <1>3

-----------------------------------------------------------------------------
(* The sound *)

\* The last sentence handed over changes state, and nothing else does.
LEMMA LastChanges ==
    ASSUME NEW r \in VoiceRec, r.segments # <<>>, NEW st \in SegmentStates
    PROVE  LET n == Len(r.segments)
               t == [r.segments EXCEPT ![n].st = st]
           IN  /\ n \in 1 .. n /\ t \in Seq([s : Pos, st : SegmentStates]) /\ Len(t) = n
               /\ t # <<>> /\ \A j \in 1 .. n : t[j].s = r.segments[j].s
               /\ t[n].st = st /\ \A j \in 1 .. n : j < n => t[j].st = r.segments[j].st
<1> DEFINE n == Len(r.segments)
           S == [s : Pos, st : SegmentStates]
           e == [r.segments[n] EXCEPT !.st = st]
           t == [r.segments EXCEPT ![n] = e]
<1>1. /\ r.segments \in Seq(S) /\ n \in Nat /\ n \in 1 .. n
      /\ \A j \in 1 .. n : r.segments[j] \in S
  <2>1. /\ r.segments \in Seq(S) /\ n \in Nat /\ n > 0
        /\ \A j \in 1 .. n : r.segments[j] \in S
    BY ONLY r \in VoiceRec, r.segments # <<>>, Fields DEF n, S
  <2>2. n \in 1 .. n
    BY <2>1
  <2> QED
    BY ONLY <2>1, <2>2
<1>2. e \in S /\ e.s = r.segments[n].s /\ e.st = st
  BY <1>1
<1> HIDE DEF e, S
<1>3. t \in Seq(S) /\ Len(t) = n /\ t[n] = e /\ \A j \in 1 .. n : j # n => t[j] = r.segments[j]
  BY <1>1, <1>2
<1>4. t = [r.segments EXCEPT ![n].st = st]
  BY DEF e
<1> HIDE DEF t
<1>5. t # <<>>
  BY <1>1, <1>3
<1>6. /\ \A j \in 1 .. n : t[j].s = r.segments[j].s
      /\ t[n].st = st /\ \A j \in 1 .. n : j < n => t[j].st = r.segments[j].st
  BY <1>1, <1>2, <1>3
<1> QED
  BY <1>1, <1>3, <1>4, <1>5, <1>6 DEF S

\* Sound arrives for the sentence that pump waits for: it is the next to play.
LEMMA ArrivesGood ==
    ASSUME NEW r, NEW c, Good(r, c), r.pumping, r.segments[Len(r.segments)].st = "asked",
           NEW q, q = [r EXCEPT !.segments[Len(r.segments)].st = "arriving",
                                !.play = Append(@, Sound(r.index, r.segments[Len(r.segments)].s))]
    PROVE  Good(q, c) /\ Kept(r, q)
<1> DEFINE n == Len(r.segments)
           m == Len(r.play)
           t == [r.segments EXCEPT ![n].st = "arriving"]
           e == Sound(r.index, r.segments[n].s)
           P == Append(r.play, e)
<1>1. r \in VoiceRec /\ c \in ChatRec /\ Shaped(r, c) /\ ~r.aborted /\ r.segments # <<>>
  BY DEF Good, Shaped
<1>2. /\ n \in 1 .. n /\ t \in Seq([s : Pos, st : SegmentStates]) /\ Len(t) = n
      /\ t # <<>> /\ \A j \in 1 .. n : t[j].s = r.segments[j].s
      /\ t[n].st = "arriving" /\ \A j \in 1 .. n : j < n => t[j].st = r.segments[j].st
  BY <1>1, LastChanges DEF SegmentStates
<1>3. q = [r EXCEPT !.segments = t, !.play = P]
  BY <1>1 DEF VoiceRec
<1>4. /\ n \in Nat /\ r.index \in Nat /\ r.heard.s \in Nat
      /\ \A j \in 1 .. n : r.segments[j].s \in Pos
      /\ r.play \in Seq([answer : Nat, s : Pos]) /\ m \in Nat
      /\ \A j \in 1 .. m : r.play[j].s \in Pos
  BY <1>1, Fields
<1>5. e \in [answer : Nat, s : Pos] /\ e.answer = r.index /\ e.s = r.segments[n].s
  BY <1>2, <1>4 DEF Sound
<1> HIDE DEF t, e
<1>6. /\ P \in Seq([answer : Nat, s : Pos]) /\ Len(P) = m + 1
      /\ \A j \in 1 .. m : P[j] = r.play[j]
      /\ P[m + 1] = e
  BY <1>4, <1>5
<1> HIDE DEF P, m
<1>7. q \in VoiceRec
  BY <1>1, <1>2, <1>3, <1>6, ZenonT(60) DEF VoiceRec
<1>8. /\ q.open = r.open /\ q.speakerOn = r.speakerOn /\ q.voiceOk = r.voiceOk
      /\ q.awaiting = r.awaiting /\ q.index = r.index /\ q.cut = r.cut
      /\ q.queue = r.queue /\ q.given = r.given /\ q.pumping = r.pumping
      /\ q.paused = r.paused /\ q.resumeAt = r.resumeAt /\ q.aborted = r.aborted
      /\ q.segments = t /\ q.play = P /\ q.heard = r.heard /\ q.marred = r.marred
  BY <1>1, <1>3 DEF VoiceRec
<1>9. Shaped(q, c) /\ ~q.aborted /\ Kept(r, q)
  BY <1>1, <1>2, <1>7, <1>8 DEF Shaped, Kept
<1>10. ASSUME ~q.marred PROVE Ordered(q, c) /\ Following(q, c) /\ Resting(q, c)
  <2>1. /\ r.speakerOn /\ r.heard.answer <= c.n
        /\ PlayInOrder(r) /\ SegmentsInOrder(r) /\ PumpWaits(r) /\ PausedIsSilent(r)
        /\ Following(r, c) /\ Resting(r, c)
    BY <1>8, <1>10 DEF Good, Ordered
  <2>2. /\ r.open /\ r.voiceOk /\ r.index # 0 /\ ~r.paused
        /\ \A j \in 1 .. m : r.play[j].s < LastS(r)
        /\ LastS(r) = r.segments[n].s /\ LastS(q) = LastS(r)
    BY <1>2, <1>8, <2>1 DEF PumpWaits, LastS, m
  <2>3. QueueFollows(r) /\ GivenIsComplete(r, c)
    BY <2>1, <2>2 DEF Following
  <2>4. PlayInOrder(q)
    <3> DEFINE InPlay(j) == /\ P[j].answer = r.index
                            /\ Now(r) => r.heard.s <= P[j].s
                            /\ \E i \in 1 .. n : t[i].s = P[j].s
                            /\ \A i \in 1 .. m + 1 : i < j => P[i].s < P[j].s
    <3> SUFFICES ASSUME NEW j \in 1 .. m + 1 PROVE InPlay(j)
      <4>1. q.index # 0 /\ (Now(q) <=> Now(r))
        BY <1>8, <2>2 DEF Now
      <4>2. Len(q.play) = m + 1 /\ Len(q.segments) = n
        BY <1>2, <1>6, <1>8
      <4>3. \A j \in 1 .. m + 1 : InPlay(j)
        OBVIOUS
      <4>4. q.play = P /\ q.segments = t /\ q.index = r.index /\ q.heard = r.heard
        BY <1>8
      <4> HIDE DEF n
      <4> QED
        BY ONLY <4>1, <4>2, <4>3, <4>4 DEF PlayInOrder
    <3>1. CASE j \in 1 .. m
      <4>1. P[j] = r.play[j] /\ \A i \in 1 .. m + 1 : i < j => i \in 1 .. m /\ P[i] = r.play[i]
        BY <1>4, <1>6, <3>1, SMTT(30)
      <4>2. /\ r.play[j].answer = r.index
            /\ Now(r) => r.heard.s <= r.play[j].s
            /\ \E i \in 1 .. n : r.segments[i].s = r.play[j].s
            /\ \A i \in 1 .. m : i < j => r.play[i].s < r.play[j].s
        BY <2>1, <3>1 DEF PlayInOrder, m
      <4> QED
        BY <1>2, <4>1, <4>2
    <3>2. CASE j = m + 1
      <4>1. P[j].answer = r.index /\ P[j].s = LastS(r)
        BY <1>5, <1>6, <2>2, <3>2
      <4>2. \A i \in 1 .. m + 1 : i < j => i \in 1 .. m /\ P[i] = r.play[i]
        BY <1>4, <1>6, <3>2 DEF m
      <4>3. Now(r) => r.heard.s <= LastS(r)
        BY <1>1, <2>3 DEF QueueFollows
      <4>4. t[n].s = LastS(r)
        BY <1>2, <2>2
      <4> QED
        BY <1>2, <2>2, <4>1, <4>2, <4>3, <4>4
    <3> QED
      BY <1>4, <3>1, <3>2 DEF m
  <2>5. SegmentsInOrder(q)
    <3>1. \A j \in 1 .. n : j < n => r.segments[j].st = "done"
      BY <2>1 DEF SegmentsInOrder
    <3>2. \A i, j \in 1 .. n : i < j => r.segments[i].s < r.segments[j].s
      BY <2>1 DEF SegmentsInOrder
    <3> QED
      BY <1>2, <1>8, <3>1, <3>2 DEF SegmentsInOrder
  <2>6. PumpWaits(q) /\ PausedIsSilent(q)
    BY <1>2, <1>8, <2>2 DEF PumpWaits, PausedIsSilent
  <2>7. QueueFollows(q)
    BY <1>1, <1>2, <1>8, <2>2, <2>3 DEF QueueFollows, Now
  <2>8. GivenIsComplete(q, c)
    BY <1>2, <1>8, <2>3 DEF GivenIsComplete
  <2> QED
    BY <1>2, <1>8, <2>1, <2>2, <2>4, <2>5, <2>6, <2>7, <2>8
    DEF Ordered, Following, Resting, ResumePoint, Begun
<1> QED
  BY <1>9, <1>10 DEF Good

\* The sentence that pump waits for is over, heard or refused: the next one is
\* taken, unless the voice is given up.
LEMMA OverGood ==
    ASSUME NEW r, NEW c, Good(r, c), r.pumping, NEW f \in Nat, NEW ok \in BOOLEAN, ok => r.voiceOk,
           NEW q, q = [r EXCEPT !.segments[Len(r.segments)].st = "done", !.failures = f,
                                !.voiceOk = ok, !.pumping = FALSE]
    PROVE  Good(Pump(q), c) /\ Kept(r, Pump(q))
<1> DEFINE n == Len(r.segments)
           t == [r.segments EXCEPT ![n].st = "done"]
<1>1. r \in VoiceRec /\ c \in ChatRec /\ Shaped(r, c) /\ ~r.aborted /\ r.segments # <<>>
  BY DEF Good, Shaped
<1>2. /\ n \in 1 .. n /\ t \in Seq([s : Pos, st : SegmentStates]) /\ Len(t) = n
      /\ t # <<>> /\ \A j \in 1 .. n : t[j].s = r.segments[j].s
      /\ t[n].st = "done" /\ \A j \in 1 .. n : j < n => t[j].st = r.segments[j].st
  BY <1>1, LastChanges DEF SegmentStates
<1>3. q = [r EXCEPT !.segments = t, !.failures = f, !.voiceOk = ok, !.pumping = FALSE]
  BY <1>1 DEF VoiceRec
<1> HIDE DEF t
<1>4. q \in VoiceRec
  BY <1>1, <1>2, <1>3, ZenonT(60) DEF VoiceRec
<1>5. /\ q.open = r.open /\ q.speakerOn = r.speakerOn /\ q.voiceOk = ok
      /\ q.awaiting = r.awaiting /\ q.index = r.index /\ q.cut = r.cut
      /\ q.queue = r.queue /\ q.given = r.given /\ q.pumping = FALSE
      /\ q.paused = r.paused /\ q.resumeAt = r.resumeAt /\ q.aborted = r.aborted
      /\ q.segments = t /\ q.play = r.play /\ q.heard = r.heard /\ q.marred = r.marred
  BY <1>1, <1>3 DEF VoiceRec
<1>6. Shaped(q, c) /\ ~q.aborted /\ Kept(r, q)
  BY <1>1, <1>4, <1>5 DEF Shaped, Kept
<1>7. ASSUME ~q.marred
      PROVE  Ordered(q, c) /\ Following(q, c) /\ Resting(q, c) /\ q.index # 0
  <2>1. /\ r.speakerOn /\ r.heard.answer <= c.n
        /\ PlayInOrder(r) /\ SegmentsInOrder(r) /\ PumpWaits(r) /\ PausedIsSilent(r)
        /\ Following(r, c) /\ Resting(r, c)
    BY <1>5, <1>7 DEF Good, Ordered
  <2>2. r.open /\ r.voiceOk /\ r.index # 0 /\ ~r.paused /\ LastS(q) = LastS(r)
    BY <1>2, <1>5, <2>1 DEF PumpWaits, LastS
  <2>3. QueueFollows(r) /\ GivenIsComplete(r, c)
    BY <2>1, <2>2 DEF Following
  <2>4. PlayInOrder(q)
    <3>1. \A j \in 1 .. Len(r.play) : \E i \in 1 .. n : t[i].s = r.play[j].s
      BY <1>2, <2>1 DEF PlayInOrder
    <3> QED
      BY <1>2, <1>5, <2>1, <3>1 DEF PlayInOrder, Now
  <2>5. SegmentsInOrder(q)
    <3>1. \A j \in 1 .. n : j < n => r.segments[j].st = "done"
      BY <2>1 DEF SegmentsInOrder
    <3>2. \A i, j \in 1 .. n : i < j => r.segments[i].s < r.segments[j].s
      BY <2>1 DEF SegmentsInOrder
    <3>3. \A j \in 1 .. n : t[j].st = "done"
      BY <1>2, <3>1
    <3> QED
      BY <1>2, <1>5, <3>2, <3>3 DEF SegmentsInOrder
  <2>6. PumpWaits(q) /\ PausedIsSilent(q)
    BY <1>5, <2>2 DEF PumpWaits, PausedIsSilent
  <2>7. QueueFollows(q)
    BY <1>1, <1>2, <1>5, <2>2, <2>3 DEF QueueFollows, Now
  <2>8. GivenIsComplete(q, c)
    BY <1>2, <1>5, <2>3 DEF GivenIsComplete
  <2> QED
    BY <1>2, <1>5, <2>1, <2>2, <2>4, <2>5, <2>6, <2>7, <2>8
    DEF Ordered, Following, Resting, ResumePoint, Begun
<1>8. Ready(q, c)
  BY <1>6, <1>7 DEF Ready
<1> QED
  BY <1>6, <1>8, PumpGood DEF Kept

\* What the listener may notice of a step
Onward(r, q) ==
    \/ Kept(r, q)
    \/ q.marred
    \/ /\ q.marred = r.marred /\ q.heard.answer = r.heard.answer /\ q.heard.s >= r.heard.s
    \/ /\ q.marred = r.marred /\ q.heard.answer > r.heard.answer /\ q.heard.s \in Pos

\* What is heard next is a sentence of the same answer, the same or a later one,
\* or of a later answer.
LEMMA HearGood ==
    ASSUME NEW r, NEW c, Good(r, c), r.play # <<>>,
           NEW q, q = [r EXCEPT !.play = Tail(@), !.heard = Head(r.play)]
    PROVE  Good(q, c) /\ Onward(r, q)
<1> DEFINE m == Len(r.play)
           h == Head(r.play)
           P == Tail(r.play)
<1>1. r \in VoiceRec /\ c \in ChatRec /\ Shaped(r, c) /\ ~r.aborted
  BY DEF Good, Shaped
<1>2. /\ r.play \in Seq([answer : Nat, s : Pos]) /\ m \in Nat /\ m > 0
      /\ \A j \in 1 .. m : r.play[j] \in [answer : Nat, s : Pos]
  BY ONLY <1>1, r.play # <<>>, Fields
<1>3. /\ h = r.play[1] /\ h \in [answer : Nat, s : Pos]
      /\ P \in Seq([answer : Nat, s : Pos]) /\ Len(P) = m - 1
      /\ \A j \in 1 .. m - 1 : P[j] = r.play[j + 1]
  BY <1>2
<1>4. h \in [answer : Nat, s : Nat]
  BY <1>3 DEF Pos
<1>5. q = [r EXCEPT !.play = P, !.heard = h]
  OBVIOUS
<1> HIDE DEF m, h, P
<1>6. q \in VoiceRec
  BY <1>1, <1>3, <1>4, <1>5 DEF VoiceRec
<1>7. /\ q.open = r.open /\ q.speakerOn = r.speakerOn /\ q.voiceOk = r.voiceOk
      /\ q.awaiting = r.awaiting /\ q.index = r.index /\ q.cut = r.cut
      /\ q.queue = r.queue /\ q.given = r.given /\ q.pumping = r.pumping
      /\ q.paused = r.paused /\ q.resumeAt = r.resumeAt /\ q.aborted = r.aborted
      /\ q.segments = r.segments /\ q.play = P /\ q.heard = h /\ q.marred = r.marred
  BY <1>1, <1>5 DEF VoiceRec
<1>8. Shaped(q, c) /\ ~q.aborted
  BY <1>1, <1>6, <1>7 DEF Shaped
<1>9. r.index \in Nat /\ c.n \in Nat /\ r.heard.answer \in Nat /\ r.heard.s \in Nat
  BY <1>1, Fields DEF ChatRec
<1>10. CASE r.marred
  BY <1>7, <1>8, <1>10 DEF Good, Onward
<1>11. CASE ~r.marred
  <2>1. /\ r.speakerOn /\ r.heard.answer <= c.n
        /\ PlayInOrder(r) /\ SegmentsInOrder(r) /\ PumpWaits(r) /\ PausedIsSilent(r)
        /\ Following(r, c) /\ Resting(r, c)
    BY <1>11 DEF Good, Ordered
  <2>2. /\ r.index # 0 /\ h.answer = r.index /\ (Now(r) => r.heard.s <= h.s)
        /\ \E i \in 1 .. Len(r.segments) : r.segments[i].s = h.s
        /\ 1 \in 1 .. m
    <3>1. 1 \in 1 .. m
      BY <1>2
    <3> QED
      BY <1>3, <2>1, <3>1 DEF PlayInOrder, m
  <2>3. r.index = c.n /\ ~r.paused
    BY <1>1, <1>2, <2>1, <2>2 DEF Shaped, PausedIsSilent, m
  <2>4. Onward(r, q)
    <3>1. CASE Now(r)
      BY <1>3, <1>7, <1>9, <2>2, <3>1 DEF Onward, Now, Pos
    <3>2. CASE ~Now(r)
      <4>1. h.answer > r.heard.answer
        BY <1>9, <2>1, <2>2, <2>3, <3>2 DEF Now
      <4> QED
        BY <1>3, <1>7, <4>1 DEF Onward
    <3> QED
      BY <3>1, <3>2
  <2>5. PlayInOrder(q)
    <3> DEFINE InPlay(j) == /\ P[j].answer = r.index /\ h.s <= P[j].s
                            /\ \E i \in 1 .. Len(r.segments) : r.segments[i].s = P[j].s
                            /\ \A i \in 1 .. m - 1 : i < j => P[i].s < P[j].s
    <3> SUFFICES ASSUME NEW j \in 1 .. m - 1 PROVE InPlay(j)
      <4>1. \A j \in 1 .. m - 1 : InPlay(j)
        OBVIOUS
      <4>2. q.play = P /\ q.segments = r.segments /\ q.index = r.index /\ q.heard = h
        BY <1>7
      <4> QED
        BY ONLY <1>3, <2>2, <4>1, <4>2 DEF PlayInOrder
    <3>1. j + 1 \in 1 .. m /\ 1 < j + 1 /\ P[j] = r.play[j + 1]
      BY <1>2, <1>3
    <3>2. \A i \in 1 .. m - 1 : i < j => i + 1 \in 1 .. m /\ i + 1 < j + 1 /\ P[i] = r.play[i + 1]
      <4>1. \A i \in 1 .. m - 1 : i < j => i + 1 \in 1 .. m /\ i + 1 < j + 1
        BY ONLY <1>2, j \in 1 .. m - 1
      <4> QED
        BY ONLY <1>3, <4>1
    <3>3. /\ r.play[j + 1].answer = r.index
          /\ \E i \in 1 .. Len(r.segments) : r.segments[i].s = r.play[j + 1].s
          /\ \A i \in 1 .. m : i < j + 1 => r.play[i].s < r.play[j + 1].s
      BY <2>1, <3>1 DEF PlayInOrder, m
    <3>4. h.s < P[j].s /\ h.s \in Nat /\ P[j].s \in Nat
      BY <1>2, <1>3, <2>2, <3>1, <3>3 DEF Pos
    <3> QED
      BY <3>1, <3>2, <3>3, <3>4
  <2>6. SegmentsInOrder(q)
    BY <1>7, <2>1 DEF SegmentsInOrder
  <2>7. PumpWaits(q)
    <3>1. LastS(q) = LastS(r)
      BY <1>7 DEF LastS
    <3>2. \A j \in 1 .. m - 1 : j + 1 \in 1 .. m
      BY <1>2
    <3> QED
      BY <1>3, <1>7, <2>1, <3>1, <3>2 DEF PumpWaits, m
  <2>8. ASSUME r.open, r.voiceOk
        PROVE  QueueFollows(q) /\ GivenIsComplete(q, c) /\ Begun(q, c)
    <3>1. QueueFollows(r) /\ GivenIsComplete(r, c)
      BY <2>1, <2>2, <2>8 DEF Following
    <3>2. /\ Len(r.segments) \in Nat /\ \A j \in 1 .. Len(r.segments) : r.segments[j].s \in Pos
          /\ \A j \in 1 .. Len(r.queue) : r.queue[j] \in Pos
          /\ Len(r.segments) > 0 <=> r.segments # <<>>
      BY <1>1, Fields
    <3>3. PICK i \in 1 .. Len(r.segments) : r.segments[i].s = h.s
      BY <2>2
    <3>4. r.segments # <<>> /\ Len(r.segments) \in 1 .. Len(r.segments)
      BY <3>2, <3>3
    <3>5. h.s <= LastS(r) /\ h.s \in Nat /\ LastS(r) \in Nat
      <4>1. i < Len(r.segments) => r.segments[i].s < r.segments[Len(r.segments)].s
        BY <2>1, <3>3, <3>4 DEF SegmentsInOrder
      <4> QED
        BY <3>2, <3>3, <3>4, <4>1 DEF LastS, Pos
    <3>6. LastS(q) = LastS(r)
      BY <1>7 DEF LastS
    <3>7. \A j \in 1 .. Len(r.queue) : h.s <= r.queue[j]
      BY <3>1, <3>2, <3>4, <3>5 DEF QueueFollows, Pos
    <3>8. QueueFollows(q)
      BY <1>7, <3>1, <3>4, <3>5, <3>6, <3>7 DEF QueueFollows
    <3> QED
      BY <1>7, <3>1, <3>4, <3>8 DEF GivenIsComplete, Begun
  <2>9. Ordered(q, c)
    BY <1>7, <1>9, <2>1, <2>2, <2>3, <2>5, <2>6, <2>7 DEF Ordered, PausedIsSilent
  <2>10. Following(q, c) /\ Resting(q, c)
    BY <1>7, <2>3, <2>8 DEF Following, Resting, ResumePoint
  <2> QED
    BY <1>8, <2>4, <2>9, <2>10 DEF Good
<1> QED
  BY <1>10, <1>11

-----------------------------------------------------------------------------
(* The steps of the mode *)

\* The microphone's callbacks
LEMMA MicSteps ==
    ASSUME VoiceInv, MicOpens \/ SpeechStart \/ SpeechConfirmed \/ SpeechEnd \/ toggleMic
    PROVE  VoiceInv' /\ Onward(voice, voice')
<1> SUFFICES Good(voice', chat) /\ Kept(voice, voice')
  BY DEF VoiceInv, Onward, MicOpens, SpeechStart, SpeechConfirmed, SpeechEnd, toggleMic
<1>1. Good(voice, chat) /\ voice \in VoiceRec
  BY DEF VoiceInv, Good, Shaped
<1>2. ASSUME NEW r, Good(r, chat), Kept(voice, r), voice' \in VoiceRec, Alike(r, voice')
      PROVE  Good(voice', chat) /\ Kept(voice, voice')
  BY <1>2, AlikeGood DEF Kept
<1>3. Kept(voice, voice)
  BY DEF Kept
<1>4. CASE MicOpens
  <2>1. voice' \in VoiceRec /\ Alike(voice, voice')
    BY <1>1, <1>4 DEF MicOpens, VoiceRec, Alike, Phases
  <2> QED
    BY <1>1, <1>2, <1>3, <2>1
<1>5. CASE SpeechStart
  <2>1. voice' \in VoiceRec /\ Alike(voice, voice')
    BY <1>1, <1>5, ZenonT(60) DEF SpeechStart, VoiceRec, Alike, Phases
  <2> QED
    BY <1>1, <1>2, <1>3, <2>1
<1>6. CASE SpeechConfirmed
  <2>1. CASE voice.barge
    <3> DEFINE p == PumpBreaks(PauseVoice(voice))
    <3>1. voice.open /\ voice' = [p EXCEPT !.barge = FALSE, !.phase = "hearing"]
      BY <1>6, <2>1 DEF SpeechConfirmed
    <3>2. Good(p, chat) /\ Kept(voice, p)
      BY <1>1, <3>1, PauseGood
    <3> HIDE DEF p
    <3>3. p \in VoiceRec
      BY <3>2 DEF Good, Shaped
    <3>4. voice' \in VoiceRec /\ Alike(p, voice')
      BY <3>1, <3>3 DEF VoiceRec, Alike, Phases
    <3> QED
      BY <1>2, <3>2, <3>4
  <2>2. CASE ~voice.barge
    BY <1>1, <1>6, <2>2 DEF SpeechConfirmed, Kept
  <2> QED
    BY <2>1, <2>2
<1>7. CASE SpeechEnd
  <2>1. voice' \in VoiceRec /\ Alike(voice, voice')
    <3>1. \/ voice' = [voice EXCEPT !.barge = FALSE, !.ducked = FALSE]
          \/ voice' = [voice EXCEPT !.phase = "thinking"]
      BY <1>7 DEF SpeechEnd
    <3>2. CASE voice' = [voice EXCEPT !.barge = FALSE, !.ducked = FALSE]
      BY <1>1, <3>2 DEF VoiceRec, Alike, Phases
    <3>3. CASE voice' = [voice EXCEPT !.phase = "thinking"]
      BY <1>1, <3>3 DEF VoiceRec, Alike, Phases
    <3> QED
      BY <3>1, <3>2, <3>3
  <2> QED
    BY <1>1, <1>2, <1>3, <2>1
<1>8. CASE toggleMic
  <2>1. voice' \in VoiceRec /\ Alike(voice, voice')
    BY <1>1, <1>8 DEF toggleMic, VoiceRec, Alike, Phases
  <2> QED
    BY <1>1, <1>2, <1>3, <2>1
<1> QED
  BY <1>4, <1>5, <1>6, <1>7, <1>8

\* The transcription
LEMMA ScriptSteps ==
    ASSUME VoiceInv, NEW u \in 1 .. MaxUtterances,
           NotWords(u) \/ Words(u) \/ WoundDown(u) \/ SpokenTurn(u)
    PROVE  VoiceInv' /\ Onward(voice, voice')
<1> SUFFICES Good(voice', chat') /\ Kept(voice, voice')
  BY DEF VoiceInv, Onward
<1>1. Good(voice, chat) /\ voice \in VoiceRec /\ chat \in ChatRec /\ (chat.streaming => ~chat.isError)
  BY DEF VoiceInv, Good, Shaped
<1>2. CASE NotWords(u)
  <2> DEFINE p == ResumeVoice(voice)
  <2>1. chat' = chat
    BY <1>2 DEF NotWords
  <2>2. Good(p, chat') /\ Kept(voice, p)
    BY <1>1, <2>1, ResumeGood
  <2>3. voice' = p \/ voice' = [p EXCEPT !.phase = "listening"]
    BY <1>2 DEF NotWords
  <2> HIDE DEF p
  <2>4. p \in VoiceRec
    BY <2>2 DEF Good, Shaped
  <2>5. voice' \in VoiceRec /\ Alike(p, voice')
    <3>1. CASE voice' = p
      BY <2>4, <3>1 DEF Alike
    <3>2. CASE voice' = [p EXCEPT !.phase = "listening"]
      BY <2>4, <3>2 DEF VoiceRec, Alike, Phases
    <3> QED
      BY <2>3, <3>1, <3>2
  <2>6. Good(voice', chat') /\ Kept(p, voice')
    BY <2>2, <2>5, AlikeGood
  <2> QED
    BY <2>2, <2>6 DEF Kept
<1>3. CASE Words(u)
  <2>1. CASE voice.paused
    <3>1. voice' = PumpBreaks(Interrupt(voice)) /\ chat' = [chat EXCEPT !.stopped = chat.streaming]
      BY <1>3, <2>1 DEF Words
    <3>2. /\ chat' \in ChatRec /\ chat'.n = chat.n
          /\ chat'.streaming = chat.streaming /\ chat'.isError = chat.isError
      BY <1>1, <3>1 DEF ChatRec
    <3> QED
      BY <1>1, <3>1, <3>2, InterruptGood
  <2>2. CASE ~voice.paused
    BY <1>1, <1>3, <2>2 DEF Words, Kept
  <2> QED
    BY <2>1, <2>2
<1>4. CASE WoundDown(u)
  BY <1>1, <1>4 DEF WoundDown, Kept
<1>5. CASE SpokenTurn(u)
  <2>1. CASE chat.streaming
    <3>1. voice' = [voice EXCEPT !.phase = "listening"] /\ chat' = chat
      BY <1>5, <2>1 DEF SpokenTurn
    <3>2. voice' \in VoiceRec /\ Alike(voice, voice')
      BY <1>1, <3>1 DEF VoiceRec, Alike, Phases
    <3> QED
      BY <1>1, <3>1, <3>2, AlikeGood
  <2>2. CASE ~chat.streaming
    <3>1. /\ chat' = [n |-> chat.n + 1, len |-> 0, streaming |-> TRUE,
                      isError |-> FALSE, stopped |-> FALSE]
          /\ voice' = PumpBreaks(NewText([voice EXCEPT !.awaiting = TRUE]))
      BY <1>5, <2>2 DEF SpokenTurn
    <3>2. /\ chat' \in ChatRec /\ chat'.n = chat.n + 1 /\ chat'.len = 0
          /\ chat'.streaming /\ ~chat'.isError
      BY <1>1, <3>1 DEF ChatRec
    <3>3. Good(PumpBreaks(NewText([voice EXCEPT !.awaiting = TRUE])), chat')
          /\ Kept(voice, PumpBreaks(NewText([voice EXCEPT !.awaiting = TRUE])))
      BY <1>1, <3>2, NextAnswerGood
    <3> QED
      BY <3>1, <3>3
  <2> QED
    BY <2>1, <2>2
<1> QED
  BY <1>2, <1>3, <1>4, <1>5

\* The answer is written.
LEMMA AnswerSteps ==
    ASSUME VoiceInv, AnswerGrows \/ AnswerEnds(TRUE) \/ AnswerEnds(FALSE)
    PROVE  VoiceInv' /\ Onward(voice, voice')
<1>1. Good(voice, chat) /\ voice \in VoiceRec /\ chat \in ChatRec /\ chat.streaming
  BY DEF VoiceInv, Good, Shaped, AnswerGrows, AnswerEnds
<1>2. voice' = PumpBreaks(NewText(voice))
  BY DEF AnswerGrows, AnswerEnds
<1>3. /\ chat' \in ChatRec /\ chat'.n = chat.n /\ Avail(chat) <= Avail(chat')
      /\ chat'.streaming => ~chat'.isError
  <2>1. ~chat.isError /\ chat.len \in Nat
    BY <1>1 DEF VoiceInv, Good, Shaped, ChatRec
  <2>2. CASE AnswerGrows
    <3>1. chat' = [chat EXCEPT !.len = chat.len + 1]
      BY <2>2 DEF AnswerGrows
    <3> QED
      BY <1>1, <2>1, <3>1 DEF ChatRec, Avail
  <2>3. ASSUME NEW e \in BOOLEAN, AnswerEnds(e)
        PROVE  /\ chat' \in ChatRec /\ chat'.n = chat.n /\ Avail(chat) <= Avail(chat')
               /\ chat'.streaming => ~chat'.isError
    <3>1. chat' = [chat EXCEPT !.streaming = FALSE, !.isError = e]
      BY <2>3 DEF AnswerEnds
    <3>2. /\ chat' \in ChatRec /\ chat'.n = chat.n /\ chat'.len = chat.len
          /\ chat'.streaming = FALSE
      BY <1>1, <3>1 DEF ChatRec
    <3> QED
      BY <1>1, <2>1, <3>2 DEF Avail
  <2> QED
    BY <2>2, <2>3
<1>4. Good(NewText(voice), chat') /\ Kept(voice, NewText(voice))
  BY <1>1, <1>3, NewTextGood
<1>5. voice' = NewText(voice)
  BY <1>2, <1>4 DEF Good, PumpBreaks
<1> QED
  BY <1>4, <1>5 DEF VoiceInv, Onward

\* The sound arrives, fails, and is heard; the loop that ends the turn; the
\* speaker, and closing the mode.
LEMMA SoundSteps ==
    ASSUME VoiceInv,
           \/ SoundArrives \/ SoundComplete \/ SoundRefused \/ SoundLost
           \/ Hear \/ Tick \/ toggleSpeaker \/ CloseVoice
    PROVE  VoiceInv' /\ Onward(voice, voice')
<1>1. Good(voice, chat) /\ voice \in VoiceRec /\ chat \in ChatRec /\ Shaped(voice, chat) /\ ~voice.aborted
  BY DEF VoiceInv, Good, Shaped
<1>2. chat' = chat
  BY DEF SoundArrives, SoundComplete, SoundRefused, SoundLost, Hear, Tick, toggleSpeaker, CloseVoice
<1> SUFFICES Good(voice', chat) /\ Onward(voice, voice')
  BY <1>2 DEF VoiceInv
<1>3. \A q : Kept(voice, q) => Onward(voice, q)
  BY DEF Onward
<1>4. voice.failures \in Nat /\ voice.voiceOk \in BOOLEAN /\ MaxVoiceFailures \in Nat
  BY <1>1, VoiceAssumption DEF VoiceRec
<1>5. CASE SoundArrives
  <2>1. /\ voice.pumping /\ voice.segments[Len(voice.segments)].st = "asked"
        /\ voice' = [voice EXCEPT !.segments[Len(voice.segments)].st = "arriving",
                       !.play = Append(@, Sound(voice.index, voice.segments[Len(voice.segments)].s))]
    BY <1>5 DEF SoundArrives, Asking, LastSeg
  <2> QED
    BY <1>1, <1>3, <2>1, ArrivesGood
<1>6. CASE SoundComplete
  <2> DEFINE q == [voice EXCEPT !.segments[Len(voice.segments)].st = "done", !.failures = 0,
                                !.voiceOk = voice.voiceOk, !.pumping = FALSE]
  <2>1. voice.pumping /\ voice' = Pump([voice EXCEPT !.segments[Len(voice.segments)].st = "done",
                                                     !.failures = 0, !.pumping = FALSE])
    BY <1>6 DEF SoundComplete, Asking, LastSeg
  <2>2. q = [voice EXCEPT !.segments[Len(voice.segments)].st = "done", !.failures = 0, !.pumping = FALSE]
    BY <1>1 DEF VoiceRec
  <2>3. Good(Pump(q), chat) /\ Kept(voice, Pump(q))
    <3> HIDE DEF q
    <3> QED
      BY <1>1, <1>4, <2>1, OverGood DEF q
  <2> QED
    BY <1>3, <2>1, <2>2, <2>3
<1>7. CASE SoundRefused
  <2> DEFINE f == voice.failures + 1
             ok == voice.voiceOk /\ f < MaxVoiceFailures
             q == [voice EXCEPT !.segments[Len(voice.segments)].st = "done", !.failures = f,
                                !.voiceOk = ok, !.pumping = FALSE]
             r == [voice EXCEPT !.segments[Len(voice.segments)].st = "done"]
  <2>1. voice.pumping /\ voice' = Failed(r)
    BY <1>7 DEF SoundRefused, Asking, LastSeg
  <2>2. r.failures = voice.failures /\ r.voiceOk = voice.voiceOk
    BY <1>1 DEF VoiceRec
  <2>3. Failed(r) = Pump([r EXCEPT !.failures = f, !.voiceOk = ok, !.pumping = FALSE])
    BY <2>2 DEF Failed
  <2>4. [r EXCEPT !.failures = f, !.voiceOk = ok, !.pumping = FALSE] = q
    OBVIOUS
  <2>5. f \in Nat /\ ok \in BOOLEAN /\ (ok => voice.voiceOk)
    BY <1>4
  <2>6. Good(Pump(q), chat) /\ Kept(voice, Pump(q))
    <3> HIDE DEF q, f, ok
    <3> QED
      BY <1>1, <2>1, <2>5, OverGood DEF q
  <2> QED
    BY <1>3, <2>1, <2>3, <2>4, <2>6
<1>8. CASE SoundLost
  <2> DEFINE f == voice.failures + 1
             ok == voice.voiceOk /\ f < MaxVoiceFailures
             r == [voice EXCEPT !.marred = TRUE]
             q == [r EXCEPT !.failures = f, !.voiceOk = ok, !.pumping = FALSE]
  <2>1. voice' = Failed(r)
    BY <1>8 DEF SoundLost
  <2>2. r.failures = voice.failures /\ r.voiceOk = voice.voiceOk /\ r \in VoiceRec
    BY <1>1 DEF VoiceRec
  <2>3. Failed(r) = Pump(q)
    BY <2>2 DEF Failed
  <2>4. f \in Nat /\ ok \in BOOLEAN
    BY <1>4
  <2>5. /\ r.awaiting = voice.awaiting /\ r.index = voice.index /\ r.aborted = voice.aborted
        /\ r.marred = TRUE
    BY <1>1 DEF VoiceRec
  <2> HIDE DEF f, ok, r
  <2>6. q \in VoiceRec
    BY <2>2, <2>4 DEF VoiceRec
  <2>7. /\ q.awaiting = voice.awaiting /\ q.index = voice.index /\ q.aborted = voice.aborted
        /\ q.marred = TRUE /\ q.pumping = FALSE
    BY <2>2, <2>5 DEF VoiceRec
  <2> HIDE DEF q
  <2>8. Ready(q, chat)
    BY <1>1, <2>6, <2>7 DEF Ready, Shaped
  <2>9. Good(Pump(q), chat) /\ Pump(q).marred
    BY <2>7, <2>8, PumpGood DEF Kept
  <2> QED
    BY <2>1, <2>3, <2>9 DEF Onward
<1>9. CASE Hear
  BY <1>1, <1>9, HearGood DEF Hear
<1>10. CASE Tick
  <2>1. CASE voice' = [voice EXCEPT !.phase = "speaking"]
    <3>1. voice' \in VoiceRec /\ Alike(voice, voice')
      BY <1>1, <2>1 DEF VoiceRec, Alike, Phases
    <3> QED
      BY <1>1, <1>3, <3>1, AlikeGood
  <2>2. CASE /\ voice' = [voice EXCEPT !.index = 0, !.phase = "listening"]
             /\ voice.queue = <<>> /\ ~voice.pumping /\ Idle(voice) /\ ~voice.paused
    <3> DEFINE q == [voice EXCEPT !.index = 0, !.phase = "listening"]
    <3>1. q \in VoiceRec
      BY <1>1 DEF VoiceRec, Phases
    <3>2. /\ q.open = voice.open /\ q.speakerOn = voice.speakerOn /\ q.voiceOk = voice.voiceOk
          /\ q.awaiting = voice.awaiting /\ q.index = 0
          /\ q.pumping = voice.pumping /\ q.paused = voice.paused /\ q.aborted = voice.aborted
          /\ q.segments = voice.segments /\ q.play = voice.play /\ q.heard = voice.heard
          /\ q.marred = voice.marred
      BY <1>1 DEF VoiceRec
    <3> HIDE DEF q
    <3>3. q.play = <<>> /\ ~q.pumping /\ ~q.paused
      BY <2>2, <3>2 DEF Idle
    <3>4. Shaped(q, chat) /\ ~q.aborted /\ Kept(voice, q)
      BY <1>1, <3>1, <3>2, <3>3 DEF Shaped, Kept
    <3>5. ~q.marred => Ordered(q, chat)
      BY <1>1, <3>2, <3>3
      DEF Good, Ordered, PlayInOrder, SegmentsInOrder, PumpWaits, PausedIsSilent
    <3>6. Following(q, chat) /\ Resting(q, chat)
      BY <3>2 DEF Following, Resting
    <3> QED
      BY <1>3, <2>2, <3>4, <3>5, <3>6 DEF Good, q
  <2> QED
    BY <1>10, <2>1, <2>2 DEF Tick
<1>11. CASE toggleSpeaker
  <2>1. voice' = [voice EXCEPT !.speakerOn = ~voice.speakerOn, !.marred = TRUE]
    BY <1>11 DEF toggleSpeaker
  <2>2. voice' \in VoiceRec
    BY <1>1, <2>1 DEF VoiceRec
  <2>3. /\ voice'.awaiting = voice.awaiting /\ voice'.index = voice.index
        /\ voice'.aborted = voice.aborted /\ voice'.pumping = voice.pumping
        /\ voice'.segments = voice.segments /\ voice'.marred = TRUE
    BY <1>1, <2>1 DEF VoiceRec
  <2> QED
    BY <1>1, <2>2, <2>3 DEF Good, Shaped, Onward
<1>12. CASE CloseVoice
  <2> DEFINE p == StopPlayer(voice)
             m == PumpBreaks(p)
             q == [m EXCEPT !.open = FALSE]
  <2>1. voice' = q
    BY <1>12 DEF CloseVoice
  <2>2. /\ p \in VoiceRec
        /\ p.aborted = p.pumping /\ p.segments = <<>> /\ p.play = <<>>
        /\ p.speakerOn = voice.speakerOn /\ p.voiceOk = voice.voiceOk
        /\ p.awaiting = voice.awaiting /\ p.index = voice.index /\ p.queue = voice.queue
        /\ p.paused = voice.paused /\ p.heard = voice.heard /\ p.marred = voice.marred
    BY <1>1, StopIs
  <2> HIDE DEF p
  <2>3. /\ m \in VoiceRec
        /\ m.aborted = FALSE /\ ~m.pumping /\ m.segments = <<>> /\ m.play = <<>>
        /\ m.speakerOn = voice.speakerOn /\ m.voiceOk = voice.voiceOk
        /\ m.awaiting = voice.awaiting /\ m.index = voice.index /\ m.queue = voice.queue
        /\ m.paused = voice.paused /\ m.heard = voice.heard /\ m.marred = voice.marred
    BY <2>2, BreaksIs
  <2> HIDE DEF m
  <2>4. q \in VoiceRec
    BY <2>3 DEF VoiceRec
  <2>5. /\ q.open = FALSE /\ q.aborted = FALSE /\ ~q.pumping /\ q.segments = <<>> /\ q.play = <<>>
        /\ q.speakerOn = voice.speakerOn /\ q.voiceOk = voice.voiceOk
        /\ q.awaiting = voice.awaiting /\ q.index = voice.index /\ q.queue = voice.queue
        /\ q.paused = voice.paused /\ q.heard = voice.heard /\ q.marred = voice.marred
    BY <2>3 DEF VoiceRec
  <2> HIDE DEF q
  <2>6. Shaped(q, chat) /\ Kept(voice, q)
    BY <1>1, <2>4, <2>5 DEF Shaped, Kept
  <2>7. ~q.marred => Ordered(q, chat)
    BY <1>1, <2>5
    DEF Good, Ordered, PlayInOrder, SegmentsInOrder, PumpWaits, PausedIsSilent
  <2>8. Following(q, chat) /\ Resting(q, chat)
    BY <2>5 DEF Following, Resting
  <2> QED
    BY <1>3, <2>1, <2>5, <2>6, <2>7, <2>8 DEF Good
<1> QED
  BY <1>5, <1>6, <1>7, <1>8, <1>9, <1>10, <1>11, <1>12

-----------------------------------------------------------------------------
(* The theorem *)

\* The mode starts with nothing said, open or closed.
LEMMA VoiceInitInv ==
    ASSUME NEW open \in BOOLEAN, VoiceStarts(open)
    PROVE  VoiceInv /\ Spoken!SpokenInit
<1>1. <<>> \in Seq(Pos) /\ <<>> \in Seq([s : Pos, st : SegmentStates])
      /\ <<>> \in Seq([answer : Nat, s : Pos])
  OBVIOUS
<1>2. voice \in VoiceRec /\ chat \in ChatRec
  <2>1. ASSUME NEW Q \in Seq(Pos), NEW S \in Seq([s : Pos, st : SegmentStates]),
               NEW P \in Seq([answer : Nat, s : Pos])
        PROVE  [open |-> open, phase |-> "preparing", speakerOn |-> TRUE,
                voiceOk |-> TRUE, failures |-> 0, barge |-> FALSE, ducked |-> FALSE,
                awaiting |-> FALSE, index |-> 0, cut |-> 0, queue |-> Q,
                given |-> {}, pumping |-> FALSE, paused |-> FALSE, resumeAt |-> 0,
                aborted |-> FALSE, segments |-> S, play |-> P,
                heard |-> Sound(0, 0), marred |-> FALSE] \in VoiceRec
    BY DEF VoiceRec, Phases, Sound
  <2>2. voice \in VoiceRec
    BY <1>1, <2>1 DEF VoiceStarts
  <2>3. chat \in ChatRec
    BY DEF VoiceStarts, ChatRec
  <2> QED
    BY <2>2, <2>3
<1>3. /\ voice.speakerOn = TRUE /\ voice.awaiting = FALSE /\ voice.index = 0
      /\ voice.pumping = FALSE /\ voice.paused = FALSE /\ voice.aborted = FALSE
      /\ voice.segments = <<>> /\ voice.play = <<>> /\ voice.heard = Sound(0, 0)
      /\ voice.marred = FALSE
      /\ chat.n = 0 /\ chat.streaming = FALSE
  BY DEF VoiceStarts
<1>4. voice.heard.answer = 0 /\ voice.heard.s = 0
  BY <1>3 DEF Sound
<1>5. Shaped(voice, chat) /\ Ordered(voice, chat)
  BY <1>2, <1>3, <1>4
  DEF Shaped, Ordered, PlayInOrder, SegmentsInOrder, PumpWaits, PausedIsSilent
<1>6. Following(voice, chat) /\ Resting(voice, chat)
  BY <1>3 DEF Following, Resting
<1> QED
  BY <1>3, <1>4, <1>5, <1>6 DEF VoiceInv, Good, Spoken!SpokenInit

\* A step of the mode keeps the invariant and is one the listener may notice.
LEMMA VoiceStep ==
    ASSUME VoiceInv, [VoiceNext]_voiceVars
    PROVE  /\ VoiceInv'
           /\ [Spoken!Continue \/ Spoken!Begin \/ Spoken!SwitchOff]_
                  <<voice.heard.answer, voice.heard.s, voice.marred>>
<1>1. CASE VoiceNext
  <2>1. VoiceInv' /\ Onward(voice, voice')
    BY <1>1, MicSteps, ScriptSteps, AnswerSteps, SoundSteps DEF VoiceNext
  <2>2. /\ voice.heard.answer \in Nat /\ voice.heard.s \in Nat
        /\ voice'.heard.answer \in Nat /\ voice'.heard.s \in Nat
    BY <2>1, Fields DEF VoiceInv, Good, Shaped
  <2> QED
    BY <2>1, <2>2
    DEF Onward, Kept, Pos, Spoken!Continue, Spoken!Begin, Spoken!SwitchOff
<1>2. CASE UNCHANGED voiceVars
  BY <1>2 DEF voiceVars, VoiceInv
<1> QED
  BY <1>1, <1>2

\* What the listener hears (SpokenAnswer): the voice mode, whatever is said over
\* it, refused, paused, resumed or cut, reads one answer after another, each in
\* its order, and goes back at most to the sentence that was cut.
THEOREM VoiceRefines == VoiceSpec => VoiceImplementsSpoken
<1>1. VoiceInit => VoiceInv /\ Spoken!SpokenInit
  BY VoiceInitInv DEF VoiceInit
<1>2. VoiceInv /\ [VoiceNext]_voiceVars =>
        /\ VoiceInv'
        /\ [Spoken!Continue \/ Spoken!Begin \/ Spoken!SwitchOff]_
               <<voice.heard.answer, voice.heard.s, voice.marred>>
  BY VoiceStep
<1> QED
  BY <1>1, <1>2, PTL DEF VoiceSpec, VoiceImplementsSpoken, Spoken!SpokenSpec

=============================================================================
