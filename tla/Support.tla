------------------------------- MODULE Support ------------------------------
(***************************************************************************)
(* The support assistant (support/SupportPage.tsx): a thread, one stream   *)
(* at a time writing into its last message, cards that ask to confirm a    *)
(* sensitive action, and votes on the answers.                             *)
(*                                                                         *)
(* `desk' is the page; `line' is what is under way with the portal: the    *)
(* stream, the confirmations and the votes.  A message has the words it    *)
(* shows (`text'), whose they are (`of': a turn, or the token of a          *)
(* confirmation) and the token of its card (0: none).                      *)
(***************************************************************************)
EXTENDS Naturals, Sequences, FiniteSets

CONSTANTS
  MaxTurns,    \* streams started
  MaxTokens,   \* actions the model proposes
  MaxConfirms, \* confirmations sent
  MaxVotes     \* votes sent

ASSUME SupportAssumption == {MaxTurns, MaxTokens, MaxConfirms, MaxVotes} \subseteq Nat

VARIABLES desk, line

supportVars == <<desk, line>>

Message(who, text, of) ==
  [who |-> who, text |-> text, of |-> of, card |-> 0]

Welcome == Message("assistant", "welcome", 0)
NoVote == [busy |-> FALSE, sent |-> FALSE]
Texts == {"welcome", "empty", "words", "notice", "none", "result", "question", "earlier"}

DropLast(s) == SubSeq(s, 1, Len(s) - 1)
EndOf(s) == s[Len(s)]

-----------------------------------------------------------------------------
(* What the page offers                                                    *)

\* The composer, the suggestions and send() want no stream under way; the
\* suggestions and "Reprendre" an empty thread.
Shown == IF desk.thread = <<>> THEN <<Welcome>> ELSE desk.thread

\* A confirmation under way disables the buttons of every card.
CardsOpen == desk.confirming = 0

\* Only a finished answer of the thread can be voted on, and once.
VoteOf(i) == IF i \in DOMAIN desk.votes THEN desk.votes[i] ELSE NoVote

CanVote(i) ==
  LET m == desk.thread[i]
  IN  /\ m.who = "assistant" /\ m.text # "empty" /\ ~VoteOf(i).sent /\ ~VoteOf(i).busy
      /\ ~(desk.sending /\ i = Len(desk.thread))

\* "Régénérer" is on the last answer; regenerate() goes back to the question
\* before it, and does nothing when there is none.
RegenerateBase ==
  IF desk.thread # <<>> /\ EndOf(desk.thread).who = "assistant"
  THEN DropLast(desk.thread) ELSE desk.thread

CanRegenerate ==
  /\ ~desk.sending /\ RegenerateBase # <<>>
  /\ EndOf(RegenerateBase).who = "user"

-----------------------------------------------------------------------------
(* The stream                                                              *)

SupportInit ==
  /\ desk = [thread |-> <<>>, sending |-> FALSE, confirming |-> 0, votes |-> <<>>,
             earlier |-> "loading", raced |-> FALSE]
  /\ line = [turn |-> 0, acc |-> FALSE, reason |-> FALSE, notice |-> FALSE, tokens |-> 0,
             confirms |-> {}, asked |-> 0, ballots |-> {}, cast |-> 0, counted |-> <<>>,
             crossed |-> FALSE]

\* GET /api/support/thread, at mount: kept aside, never applied by itself,
\* and offered again whenever the thread is empty.
EarlierLoads ==
  /\ desk.earlier = "loading"
  /\ \E found \in {"kept", "none"} : desk' = [desk EXCEPT !.earlier = found]
  /\ UNCHANGED line

ResumeEarlier ==
  /\ desk.earlier = "kept" /\ desk.thread = <<>>
  /\ desk' = [desk EXCEPT !.earlier = "none",
       !.thread = <<Message("user", "question", 0), Message("assistant", "earlier", 0)>>]
  /\ UNCHANGED line

\* runStream(): the answer starts empty at the end of the thread, and its
\* vote starts over.
VotesReset(votes, i) ==
  [j \in DOMAIN votes \cup {i} |-> IF j = i THEN NoVote ELSE votes[j]]

Streaming(d, msgs) ==
  [d EXCEPT !.thread = Append(msgs, Message("assistant", "empty", line.turn + 1)),
            !.votes = VotesReset(d.votes, Len(msgs) + 1),
            !.sending = TRUE, !.raced = FALSE]

NewTurn ==
  [line EXCEPT !.turn = @ + 1, !.acc = FALSE, !.reason = FALSE, !.notice = FALSE]

\* send(): the composer or a suggestion; the files attached travel inside
\* the question, and the welcome on screen becomes part of the thread.
SendQuestion ==
  /\ ~desk.sending /\ line.turn < MaxTurns
  /\ desk' = Streaming(desk, Append(Shown, Message("user", "question", line.turn + 1)))
  /\ line' = NewTurn

Regenerate ==
  /\ CanRegenerate /\ line.turn < MaxTurns
  /\ desk' = Streaming(desk, RegenerateBase)
  /\ line' = NewTurn

\* updateLast(): whatever message is last by now takes the stream's words.
WithLast(d, text) ==
  IF d.thread = <<>> THEN d
  ELSE [d EXCEPT !.thread[Len(d.thread)].text = text,
                 !.thread[Len(d.thread)].of = line.turn]

Words == IF line.acc THEN "words" ELSE "empty"

\* A notice is the last event of its stream (chat/support.rs).
Speaking == desk.sending /\ ~line.notice

Piece ==
  /\ Speaking /\ ~line.acc
  /\ line' = [line EXCEPT !.acc = TRUE]
  /\ desk' = WithLast(desk, "words")

\* Reasoning and tool calls rewrite the last message with the text so far.
Thought ==
  /\ Speaking
  /\ desk' = WithLast(desk, Words)
  /\ line' = [line EXCEPT !.reason = TRUE]

ToolCall ==
  /\ Speaking
  /\ desk' = WithLast(desk, Words)
  /\ UNCHANGED line

Refusal ==
  /\ Speaking
  /\ line' = [line EXCEPT !.notice = TRUE]
  /\ desk' = WithLast(desk, "notice")

\* dgx_confirm: the card goes on the last message.
CardArrives ==
  /\ Speaking /\ line.tokens < MaxTokens
  /\ line' = [line EXCEPT !.tokens = @ + 1]
  /\ desk' = IF desk.thread = <<>> \/ EndOf(desk.thread).who # "assistant" THEN desk
              ELSE [desk EXCEPT !.thread[Len(desk.thread)].card = line.tokens + 1]

Ended(d) == [d EXCEPT !.sending = FALSE]

\* The end of the stream writes the text once more when there was a thought
\* (for its duration), then says so if nothing came.
StreamEndsWell ==
  /\ desk.sending
  /\ LET timed == IF line.reason THEN WithLast(desk, Words) ELSE desk
     IN  desk' = Ended(IF ~line.acc /\ ~line.notice THEN WithLast(timed, "none") ELSE timed)
  /\ UNCHANGED line

StreamBreaks ==
  /\ desk.sending
  /\ desk' = Ended(WithLast(desk, "none"))
  /\ UNCHANGED line

\* Mutant: the message of a stopped answer is kept, text or not.
AbortedKept(d) == Ended(IF line.acc THEN WithLast(d, "words") ELSE d)

\* AbortError: the text that arrived stays; with no text the last
\* message is removed.
Aborted(d) ==
  Ended(IF line.acc
        THEN WithLast(d, "words")
        ELSE [d EXCEPT !.thread = IF @ = <<>> THEN @ ELSE DropLast(@)])

StopAnswer ==
  /\ desk.sending
  /\ desk' = Aborted(desk)
  /\ UNCHANGED line

\* newConversation(): the stream is cut and the thread emptied; requests
\* under way are not.
Emptied(d) == [d EXCEPT !.thread = <<>>, !.votes = <<>>, !.confirming = 0, !.raced = FALSE]

NewConversation ==
  /\ desk.thread # <<>>
  /\ desk' = IF desk.sending THEN Aborted(Emptied(desk)) ELSE Emptied(desk)
  /\ UNCHANGED line

-----------------------------------------------------------------------------
(* Confirmations and votes                                                 *)

\* handleConfirm(): one request per click, the cards closed meanwhile.
Confirm(i) ==
  /\ CardsOpen /\ desk.thread[i].card # 0 /\ line.asked < MaxConfirms
  /\ desk' = [desk EXCEPT !.confirming = desk.thread[i].card]
  /\ line' = [line EXCEPT !.confirms = @ \cup {desk.thread[i].card}, !.asked = @ + 1]

\* appendConfirmResult(): the card is removed (kept when the server did not
\* answer) and the result becomes the last message.
WithResult(d, token, keep) ==
  LET stripped == [i \in DOMAIN d.thread |->
                     IF ~keep /\ d.thread[i].card = token
                     THEN [d.thread[i] EXCEPT !.card = 0] ELSE d.thread[i]]
  IN  [d EXCEPT !.thread = Append(stripped, Message("assistant", "result", token)),
                !.confirming = 0, !.raced = @ \/ d.sending]

ConfirmAnswers(token) ==
  /\ \E keep \in BOOLEAN : desk' = WithResult(desk, token, keep)
  /\ line' = [line EXCEPT !.confirms = @ \ {token}]

\* sendFeedback(): by the place of the answer in the thread.
VotesWith(d, i, v) ==
  [d EXCEPT !.votes = [j \in DOMAIN @ \cup {i} |-> IF j = i THEN v ELSE @[j]]]

Vote(i) ==
  /\ CanVote(i) /\ line.cast < MaxVotes
  /\ desk' = VotesWith(desk, i, [busy |-> TRUE, sent |-> FALSE])
  /\ line' = [line EXCEPT !.cast = @ + 1,
       !.ballots = @ \cup {[at |-> i, nr |-> line.cast + 1,
                           of |-> IF desk.thread[i].text = "result" THEN 0
                                  ELSE desk.thread[i].of]}]

VoteCounts(b) ==
  /\ desk' = VotesWith(desk, b.at, [busy |-> FALSE, sent |-> TRUE])
  /\ line' = [line EXCEPT !.ballots = @ \ {b}, !.counted = Append(@, [at |-> b.at, of |-> b.of])]

\* Ghost `crossed': a vote was lost while another, of the answer that took its
\* place, was travelling; the buttons of that one are usable again.
VoteLost(b) ==
  /\ desk' = VotesWith(desk, b.at, [VoteOf(b.at) EXCEPT !.busy = FALSE])
  /\ line' = [line EXCEPT !.ballots = @ \ {b},
                          !.crossed = @ \/ \E x \in line.ballots \ {b} : x.at = b.at]

SupportNext ==
  \/ EarlierLoads
  \/ ResumeEarlier
  \/ SendQuestion
  \/ Regenerate
  \/ Piece
  \/ Thought
  \/ ToolCall
  \/ Refusal
  \/ CardArrives
  \/ StreamEndsWell
  \/ StreamBreaks
  \/ StopAnswer
  \/ NewConversation
  \/ \E i \in DOMAIN desk.thread : Confirm(i)
  \/ \E token \in line.confirms : ConfirmAnswers(token)
  \/ \E i \in DOMAIN desk.thread : Vote(i)
  \/ \E b \in line.ballots : VoteCounts(b)
  \/ \E b \in line.ballots : VoteLost(b)

SupportSpec == SupportInit /\ [][SupportNext]_supportVars

-----------------------------------------------------------------------------
(* Properties                                                              *)

\* The page and its requests hold what the code can put there.
SupportTypeOK ==
  /\ \A i \in DOMAIN desk.thread :
       desk.thread[i].text \in Texts /\ desk.thread[i].card \in 0..MaxTokens
  /\ desk.confirming \in 0..MaxTokens /\ line.confirms \subseteq 1..MaxTokens
  /\ line.turn \in 0..MaxTurns /\ line.cast \in 0..MaxVotes

\* Once no stream is under way the answer of the last one is not empty: a stop "removes the
\* empty message rather than leave a ghost answer", an end without text says
\* so.  Excepted: a thread into which the result of a confirmation came
\* while the stream was writing, since both mean the last message; and a
\* notice after a thought (RefusalStays).
NoGhostAnswer ==
  (~desk.sending /\ ~desk.raced /\ ~(line.notice /\ line.reason)) =>
    \A i \in DOMAIN desk.thread :
      desk.thread[i].of = line.turn => desk.thread[i].text # "empty"

\* An answer is counted at most one vote (canVote: "only on a finished answer
\* [...] and only once"), whatever is regenerated, stopped or begun anew while
\* a vote travels.  Not so: the lost vote of an answer that was regenerated
\* frees the buttons of the one in its place (sendFeedback's catch).
OneVotePerAnswer ==
  \A i, j \in DOMAIN line.counted :
    (i # j /\ line.counted[i].of > 0) => line.counted[i] # line.counted[j]

\* It holds as long as no vote was lost over another's.
OneVoteUnlessCrossed == ~line.crossed => OneVotePerAnswer

\* The thread of the support page stays sound.
SupportSound == NoGhostAnswer /\ OneVoteUnlessCrossed

\* A refusal of the server is what the answer says when its stream is over
\* ("we display the reason as-is", onNotice in runStream).
RefusalStays ==
  [][(StreamEndsWell /\ line.notice /\ ~desk.raced) =>
       EndOf(desk'.thread).text = "notice"]_supportVars

\* The result of a confirmation, once shown, is not taken away by anything
\* but a new conversation or the earlier thread (handleConfirm: "we display
\* the server message and remove the card").
ResultStays ==
  [][desk'.thread # <<>> =>
       \A i \in DOMAIN desk.thread : desk.thread[i].text = "result" =>
         \E j \in DOMAIN desk'.thread :
           desk'.thread[j].text = "result" /\ desk'.thread[j].of = desk.thread[i].of]_supportVars
=============================================================================
