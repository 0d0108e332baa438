----------------------------- MODULE Playground -----------------------------
(***************************************************************************)
(* The playground page: one chat turn (runStream) with its checkpoints,    *)
(* its automatic resumes and its queue, the history, the tabs, and a page  *)
(* that is left while its answer is still being written.                   *)
(*                                                                         *)
(* JavaScript runs one task at a time: an action is what a task does       *)
(* between two awaits.  A handler reads the state of the render that made  *)
(* it, so a turn carries the conversation (cid), the tab and the page it   *)
(* was started with; refs are read when they are used.  A page that was    *)
(* left keeps its refs, and nothing it paints is seen.                     *)
(***************************************************************************)
EXTENDS Naturals, Sequences, SequencesExt, FiniteSets

CONSTANTS
    MaxTurns,       \* bound on the generations of a behaviour
    MaxTyped,       \* bound on the messages the user writes
    MaxChunks,      \* fragments of one answer
    MaxResumes,     \* MAX_AUTO_RESUMES
    MaxMounts,      \* times the page is opened
    MaxTabs,        \* conversation tabs
    MaxPolls,       \* PENDING_MAX_POLLS
    MaxNet,         \* bound on the requests under way
    OldConvs,       \* conversations saved before the behaviour begins
    Modes           \* the sets of liberties a behaviour may take, one is chosen:
                    \*   "fresh"   a conversation that has no name yet is continued
                    \*   "busy"    the history is used while an answer is written
                    \*   "net"     a request is lost or overtakes another
                    \*   "omits"   the list comes without the messages
                    \*   "titles"  titles are generated, conversations renamed
                    \*   "tabs"    a second tab is opened
                    \*   "leaves"  the page is left and opened again

ASSUME PlaygroundAssumption ==
    /\ MaxTurns \in Nat /\ MaxTyped \in Nat /\ MaxChunks \in Nat
    /\ MaxResumes \in Nat /\ MaxMounts \in Nat \ {0} /\ MaxTabs \in Nat \ {0}
    /\ MaxPolls \in Nat /\ MaxNet \in Nat /\ OldConvs \in Nat
    /\ Modes \subseteq SUBSET {"fresh", "busy", "net", "omits", "titles", "tabs", "leaves"}

VARIABLES
    mode,       \* the liberties of this behaviour
    server,     \* the saved messages of each conversation, <<>> when there is none
    gone,       \* history: conversations the user deleted
    net,        \* saves and deletions under way, oldest first
    reads,      \* conversations being fetched
    titling,    \* titles being generated
    turns,      \* the generations
    nturn,      \* how many were started
    typed,      \* how many messages the user wrote
    live,       \* liveTurn: the generation outside the page, 0 when there is none
    pg,         \* the pages opened so far
    opened,     \* how many there are
    mount       \* the page on screen, 0 when the user is elsewhere

pgVars == <<mode, server, gone, net, reads, titling, turns, nturn, typed, live, pg, opened, mount>>

(***************************************************************************)
(* Identifiers.  A conversation created by a turn is named after it        *)
(* (String(Date.now()) is fresh); a thread is named after the message that *)
(* opened it, an old one after its conversation.                           *)
(***************************************************************************)
Old == (MaxTurns + MaxTyped + 1)..(MaxTurns + MaxTyped + OldConvs)
ConvId == (1..MaxTurns) \cup Old
Pages == 1..MaxMounts
Tabs == 1..MaxTabs

\* ChatMsg.  k is the message the user typed (0: written by the page) or the
\* turn that answered; th, the thread it is about, stands for its content.
Msg(role, k, th, len, pending) ==
    [role |-> role, k |-> k, th |-> th, len |-> len, pending |-> pending]

Typed(k, th) == Msg("user", k, th, 0, FALSE)

\* continuation: the request a resume adds to the thread, hidden
Hidden(th) == Msg("user", 0, th, 0, FALSE)

\* The notice shown when no answer came
Note(th) == Msg("assistant", 0, th, 0, FALSE)

IsNote(m) == m.role = "assistant" /\ m.k = 0 /\ m.len = 0

OldThread(c) == <<Msg("user", 0, c, 0, FALSE), Msg("assistant", 0, c, 1, FALSE)>>

NoEntry == [in |-> FALSE, msgs |-> <<>>, omitted |-> FALSE]

Snapshot(open, messages, currentId, th) ==
    [open |-> open, messages |-> messages, currentId |-> currentId, th |-> th]

NoTab == Snapshot(FALSE, <<>>, 0, 0)
EmptyTab == Snapshot(TRUE, <<>>, 0, 0)

\* The page as it is mounted: an empty thread in a first tab; the titles that
\* came with the page, their messages left out (page.tsx)
FreshPage ==
    [messages |-> <<>>, currentId |-> 0, th |-> 0, streaming |-> FALSE,
     queued |-> <<>>, abort |-> 0, editing |-> 0, resumes |-> 0,
     answerNow |-> FALSE, follow |-> 0, polls |-> MaxPolls, armed |-> FALSE,
     loaded |-> FALSE, model |-> FALSE, fromUrl |-> FALSE,
     list |-> [c \in ConvId |->
                 IF "omits" \in mode /\ server[c] # <<>>
                 THEN [in |-> TRUE, msgs |-> <<>>, omitted |-> TRUE] ELSE NoEntry],
     tabs |-> [i \in Tabs |-> IF i = 1 THEN EmptyTab ELSE NoTab], tab |-> 1]

NoTurn ==
    [st |-> "none", page |-> 0, tab |-> 0, cid |-> 0, base |-> <<>>, th |-> 0,
     got |-> 0, liveId |-> 0, aborted |-> FALSE, voice |-> FALSE,
     retried |-> FALSE, auto |-> 0]

PlaygroundInit ==
    /\ mode \in Modes
    /\ server = [c \in ConvId |-> IF c \in Old THEN OldThread(c) ELSE <<>>]
    /\ gone = {} /\ net = <<>> /\ reads = {} /\ titling = {}
    /\ turns = [n \in 1..MaxTurns |-> NoTurn]
    /\ nturn = 0 /\ typed = 0 /\ live = 0
    /\ pg = [p \in Pages |-> FreshPage]
    /\ opened = 1 /\ mount = 1

-----------------------------------------------------------------------------
(***************************************************************************)
(* Requests.                                                               *)
(***************************************************************************)

\* forSave: everything of a message that is modelled is kept
Saved(msgs) == msgs

\* fromSaved: everything the server kept comes back
FromSaved(msgs) == msgs

\* persistConversation, not awaited by its callers; why: what the save is for
SaveRequest(id, msgs, why) == [op |-> "save", id |-> id, msgs |-> Saved(msgs), why |-> why]

\* removeConversation
DeleteRequest(id) == [op |-> "delete", id |-> id, msgs |-> <<>>, why |-> "delete"]

\* The bound on requests keeps a place for the last save of a turn
CanSave == Len(net) < MaxNet
CanRequest == Len(net) + 1 < MaxNet

\* The requests that may be served now
Servable == IF "net" \in mode THEN DOMAIN net ELSE DOMAIN net \cap {1}

\* The server's side of a save (an upsert) and of a deletion
RequestServed(i) ==
    /\ i \in Servable
    /\ server' = [server EXCEPT ![net[i].id] = net[i].msgs]
    /\ net' = RemoveAt(net, i)
    /\ UNCHANGED <<gone, reads, titling, turns, nturn, typed, live, pg, opened, mount, mode>>

\* A request that fails is only told to the user
RequestLost(i) ==
    /\ "net" \in mode /\ i \in Servable
    /\ net' = RemoveAt(net, i)
    /\ UNCHANGED <<server, gone, reads, titling, turns, nturn, typed, live, pg, opened, mount, mode>>

-----------------------------------------------------------------------------
(***************************************************************************)
(* Painting.                                                               *)
(***************************************************************************)

P == pg[mount]
OnPage == mount # 0
Mounted(p) == p = mount

Running == {n \in 1..MaxTurns : turns[n].st = "run"}

Quiet == Running = {} /\ net = <<>> /\ reads = {} /\ titling = {}

LastOf(msgs) == msgs[Len(msgs)]
LastPending(msgs) == msgs # <<>> /\ LastOf(msgs).pending

\* copy[copy.length - 1] = ...: an empty thread has no last message to replace
ReplaceLast(msgs, m) == IF msgs = <<>> THEN msgs ELSE [msgs EXCEPT ![Len(msgs)] = m]

\* usePendingFollow, first effect: a page that shows the conversation of the
\* live turn, and is not streaming itself, takes the turn over
Adopting(rec, conv) ==
    IF ~rec.streaming /\ rec.currentId # 0 /\ conv = rec.currentId
    THEN [rec EXCEPT !.abort = live, !.streaming = TRUE, !.follow = live]
    ELSE rec

\* Mutant: a checkpoint left behind is read for ever
PollingForever(rec, conv) ==
    IF ~LastPending(rec.messages) \/ rec.currentId = 0
    THEN [rec EXCEPT !.polls = MaxPolls, !.armed = FALSE]
    ELSE IF conv = rec.currentId THEN [rec EXCEPT !.armed = FALSE]
    ELSE [rec EXCEPT !.polls = @ - 1, !.armed = TRUE]

\* Second effect: a checkpoint that no stream of this page follows is read again
Polling(rec, conv) ==
    IF ~LastPending(rec.messages) \/ rec.currentId = 0
    THEN [rec EXCEPT !.polls = MaxPolls, !.armed = FALSE]
    ELSE IF conv = rec.currentId \/ rec.polls = 0 THEN [rec EXCEPT !.armed = FALSE]
    ELSE [rec EXCEPT !.polls = @ - 1, !.armed = TRUE]

\* The two effects after a render, each when what it depends on changed.  conv:
\* the conversation of the live turn.
Adopted(old, new, conv) ==
    IF old.streaming # new.streaming \/ old.currentId # new.currentId
    THEN Adopting([new EXCEPT !.follow = 0], conv) ELSE new

Rendered(old, new, conv) ==
    LET a == Adopted(old, new, conv)
    IN  IF old.messages # new.messages \/ old.currentId # new.currentId
        THEN Polling(a, conv) ELSE a

LiveConv == IF live = 0 THEN 0 ELSE turns[live].liveId

\* A page that is gone has nothing to show
Blank == [FreshPage EXCEPT !.list = [c \in ConvId |-> NoEntry], !.loaded = TRUE]

\* What is left of an update once the page is gone: setState does nothing,
\* the refs are written
Painted(p, new, conv) ==
    IF Mounted(p) THEN Rendered(pg[p], new, conv)
    ELSE [Blank EXCEPT !.currentId = pg[p].currentId, !.queued = new.queued, !.resumes = new.resumes,
                       !.answerNow = new.answerNow]

Paint(new) == pg' = [pg EXCEPT ![mount] = Painted(mount, new, LiveConv)]

\* A thread that was read is a new array, even when it says the same
Repaint(new) == pg' = [pg EXCEPT ![mount] = Polling(Adopted(P, new, LiveConv), LiveConv)]

-----------------------------------------------------------------------------
(***************************************************************************)
(* A turn.                                                                 *)
(***************************************************************************)

\* Generations promised to queues and to quick answers: the bound keeps a
\* place for each, so that no turn ends without its continuation
Reserved == Cardinality({p \in Pages : pg[p].queued # <<>>})
            + Cardinality({p \in Pages : pg[p].answerNow})
Room == nturn + Reserved < MaxTurns

\* runStream up to its first await.  ask: what the closure captured.
TurnOf(ask) ==
    [NoTurn EXCEPT !.st = "run", !.page = ask.page, !.tab = ask.tab, !.cid = ask.cid,
                   !.base = ask.base, !.th = ask.th, !.liveId = ask.cid,
                   !.voice = ask.voice, !.retried = ask.retried, !.auto = ask.auto]

\* Mutant: the page is not marked as streaming
StartTurnUnmarked(rec, ask) ==
    LET n == nturn + 1 IN
    /\ nturn' = n
    /\ turns' = [turns EXCEPT ![n] = TurnOf(ask)]
    /\ live' = n
    /\ pg' = [pg EXCEPT ![ask.page] = Painted(ask.page,
                [rec EXCEPT !.abort = n, !.messages = ask.base], ask.cid)]

\* Mutant: the controller of the turn is not kept
StartTurnUnstoppable(rec, ask) ==
    LET n == nturn + 1 IN
    /\ nturn' = n
    /\ turns' = [turns EXCEPT ![n] = TurnOf(ask)]
    /\ live' = n
    /\ pg' = [pg EXCEPT ![ask.page] = Painted(ask.page,
                [rec EXCEPT !.streaming = TRUE, !.messages = ask.base], ask.cid)]

StartTurn(rec, ask) ==
    LET n == nturn + 1 IN
    /\ nturn' = n
    /\ turns' = [turns EXCEPT ![n] = TurnOf(ask)]
    /\ live' = n
    /\ pg' = [pg EXCEPT ![ask.page] = Painted(ask.page,
                [rec EXCEPT !.streaming = TRUE, !.abort = n,
                            !.messages = Append(ask.base, Msg("assistant", n, ask.th, 0, FALSE))],
                ask.cid)]

\* The model is missing: a notice on screen, nothing is sent nor saved
runStream(rec, ask) ==
    \/ rec.model /\ StartTurn(rec, ask)
    \/ /\ ~rec.model
       /\ \A i \in DOMAIN rec.messages : ~IsNote(rec.messages[i])     \* a bound: one notice
       /\ Paint([rec EXCEPT !.messages = Append(ask.base, Note(ask.th))])
       /\ UNCHANGED <<nturn, turns, live>>

\* What a handler of the page on screen captures
Ask(rec, base, voice) ==
    [page |-> mount, tab |-> rec.tab, cid |-> rec.currentId, base |-> base,
     th |-> rec.th, voice |-> voice, retried |-> FALSE, auto |-> 0]

\* A new message names the thread when there is none
WithThread(rec, k) == [rec EXCEPT !.th = IF @ = 0 THEN MaxTurns + k ELSE @]

OnlyTurn == UNCHANGED <<server, gone, net, reads, titling, opened, mount, mode>>

\* A turn is continued (a queue, a resume, a quick answer, a second try): always,
\* or only in a conversation that had a name when it began
MayChain(cid) == "fresh" \in mode \/ cid # 0

CanAsk == OnPage /\ ~P.streaming /\ Room

\* send: what the user typed goes out, after the edited message if there is one
Send ==
    /\ CanAsk /\ typed < MaxTyped
    /\ typed' = typed + 1
    /\ LET rec == [WithThread(P, typed') EXCEPT !.editing = 0]
           kept == IF P.editing \in DOMAIN P.messages THEN SubSeq(P.messages, 1, P.editing - 1)
                   ELSE P.messages      \* slice: past the end, all of it
       IN  runStream(rec, Ask(rec, Append(kept, Typed(typed', rec.th)), FALSE))
    /\ OnlyTurn

\* send, while an answer is being written: the message is queued
SendQueued ==
    /\ OnPage /\ P.streaming /\ MayChain(P.currentId) /\ typed < MaxTyped
    /\ P.queued # <<>> \/ Room
    /\ typed' = typed + 1
    /\ Paint([P EXCEPT !.queued = Append(@, typed')])
    /\ UNCHANGED <<nturn, turns, live>> /\ OnlyTurn

\* sendVoice
sendVoice ==
    /\ CanAsk /\ typed < MaxTyped /\ MayChain(P.currentId)
    /\ typed' = typed + 1
    /\ LET rec == WithThread(P, typed')
       IN  runStream(rec, Ask(rec, Append(P.messages, Typed(typed', rec.th)), TRUE))
    /\ OnlyTurn

\* answer, requestFullFile, continueTurn, redoFile, fixError: a hidden request
\* about what is on screen
AskHidden ==
    /\ CanAsk /\ P.messages # <<>>
    /\ runStream(P, Ask(P, Append(P.messages, Hidden(P.th)), FALSE))
    /\ UNCHANGED typed /\ OnlyTurn

\* regenerate
regenerate ==
    /\ CanAsk /\ P.messages # <<>>
    /\ LET base == IF LastOf(P.messages).role = "assistant" THEN Front(P.messages) ELSE P.messages
       IN  /\ base # <<>> /\ LastOf(base).role = "user"
           /\ runStream(P, Ask(P, base, FALSE))
    /\ UNCHANGED typed /\ OnlyTurn

\* editMessage
editMessage(i) ==
    /\ OnPage /\ ~P.streaming /\ i \in DOMAIN P.messages /\ P.messages[i].role = "user"
    /\ P.editing # i /\ typed < MaxTyped
    /\ Paint([P EXCEPT !.editing = i])
    /\ UNCHANGED <<server, gone, net, reads, titling, turns, nturn, typed, live, opened, mount, mode>>

\* What a fragment shows, through updateLast: the last message of the thread on
\* screen, whichever it is
Delta(n) ==
    /\ n \in Running /\ ~turns[n].aborted /\ turns[n].got < MaxChunks
    /\ turns' = [turns EXCEPT ![n].got = @ + 1]
    /\ LET p == turns[n].page
           m == Msg("assistant", n, turns[n].th, turns'[n].got, FALSE)
       IN  pg' = [pg EXCEPT ![p] =
                    Painted(p, [pg[p] EXCEPT !.messages = ReplaceLast(@, m)], LiveConv)]
    /\ UNCHANGED <<server, gone, net, reads, titling, nturn, typed, live, opened, mount, mode>>

ConvOf(n) == IF turns[n].liveId # 0 THEN turns[n].liveId ELSE n

\* The timer of the checkpoint: the answer so far is saved as pending
Checkpoint(n) ==
    /\ n \in Running /\ turns[n].got > 0 /\ CanRequest
    /\ turns' = [turns EXCEPT ![n].liveId = ConvOf(n)]
    /\ net' = Append(net, SaveRequest(ConvOf(n),
                Append(turns[n].base, Msg("assistant", n, turns[n].th, turns[n].got, TRUE)), "checkpoint"))
    /\ UNCHANGED <<server, gone, reads, titling, nturn, typed, live, pg, opened, mount, mode>>

\* stop, and the abort of a generation that repeats itself
stop ==
    /\ OnPage /\ P.streaming /\ P.abort \in Running /\ ~turns[P.abort].aborted
    /\ turns' = [turns EXCEPT ![P.abort].aborted = TRUE]
    /\ UNCHANGED <<server, gone, net, reads, titling, nturn, typed, live, pg, opened, mount, mode>>

\* answerNow: stop, then ask the same again without thinking
answerNow ==
    /\ OnPage /\ P.streaming /\ ~P.answerNow /\ MayChain(P.currentId) /\ P.abort \in Running /\ Room
    /\ turns' = [turns EXCEPT ![P.abort].aborted = TRUE]
    /\ Paint([P EXCEPT !.answerNow = TRUE])
    /\ UNCHANGED <<server, gone, net, reads, titling, nturn, typed, live, opened, mount, mode>>

\* sendQueuedNow: to the head of the queue, and the current answer is cut short
\* or the queue goes out at once
sendQueuedNow(i) ==
    /\ OnPage /\ i \in DOMAIN P.queued
    /\ LET q == <<P.queued[i]>> \o RemoveAt(P.queued, i) IN
       \/ /\ P.streaming
          /\ Paint([P EXCEPT !.queued = q])
          /\ turns' = IF P.abort \in Running THEN [turns EXCEPT ![P.abort].aborted = TRUE] ELSE turns
          /\ UNCHANGED <<nturn, live>>
       \/ /\ ~P.streaming
          /\ LET rec == [P EXCEPT !.queued = <<>>]
             IN  runStream(rec, Ask(rec, P.messages \o [j \in DOMAIN q |-> Typed(q[j], P.th)], FALSE))
    /\ UNCHANGED typed /\ OnlyTurn

\* editQueued and discardQueued: a message leaves the queue
discardQueued(i) ==
    /\ OnPage /\ i \in DOMAIN P.queued
    /\ Paint([P EXCEPT !.queued = RemoveAt(@, i)])
    /\ UNCHANGED <<server, gone, net, reads, titling, turns, nturn, typed, live, opened, mount, mode>>

(***************************************************************************)
(* The end of a turn.                                                      *)
(***************************************************************************)

\* How an answer ends.  announced (abortedTurn): an announcement, and nothing
\* after it; open (fileLeftOpen, abandonDeclare): a file that is not finished
Ends(n) ==
    IF MayChain(turns[n].cid) /\ ~turns[n].aborted /\ turns[n].got > 0 THEN {"done", "announced", "open"} ELSE {"done"}

\* The thread with its answer: a stop before the first word leaves none, any
\* other end without a word leaves an error message
Final(n) ==
    IF turns[n].got > 0 \/ ~turns[n].aborted
    THEN Append(turns[n].base, Msg("assistant", n, turns[n].th, turns[n].got, FALSE))
    ELSE turns[n].base

\* Mutant: the screen is never repainted
SameThreadNever(n) == FALSE

\* The screen is repainted only if it still shows the thread of the turn
SameThread(n) == pg[turns[n].page].currentId = turns[n].cid

\* persist, without the request: the list shows the conversation
Listed(rec, c, msgs) == [rec EXCEPT !.list[c] = [in |-> TRUE, msgs |-> msgs, omitted |-> FALSE]]

\* The page once the answer is there and saved
EndedPage(n) ==
    LET rec == Listed(pg[turns[n].page], ConvOf(n), Final(n))
        tab == turns[n].tab
        off == [rec EXCEPT !.streaming = FALSE, !.abort = 0]
    IN  IF SameThread(n)
        THEN [off EXCEPT !.messages = Final(n), !.currentId = ConvOf(n),
                         !.tabs[tab].currentId = IF rec.tabs[tab].open THEN ConvOf(n) ELSE @]
        ELSE off

\* The continuation of a turn keeps its closure: the same conversation, tab and page
AskAgain(n, base, voice, retried, auto) ==
    [page |-> turns[n].page, tab |-> turns[n].tab, cid |-> turns[n].cid, base |-> base,
     th |-> turns[n].th, voice |-> voice, retried |-> retried, auto |-> auto]

\* Ended turns keep nothing
Over == [NoTurn EXCEPT !.st = "over"]

\* Mutant: the queue is forgotten at the end of the turn
FollowNoQueue(n, how) ==
    LET rec == EndedPage(n) IN
    [go |-> FALSE, rec |-> rec, ask |-> AskAgain(n, Final(n), FALSE, FALSE, 0)]

MayResume(n) == pg[turns[n].page].resumes < MaxResumes

\* What follows the end of turn n: the next question of its closure, if any, and
\* the page's refs
Follow(n, how) ==
    LET rec == EndedPage(n)
        t == turns[n]
        more == [rec EXCEPT !.resumes = @ + 1]
        last == [rec EXCEPT !.resumes = 0, !.queued = <<>>]
        msgs == [j \in DOMAIN rec.queued |-> Typed(rec.queued[j], t.th)]
    IN  IF rec.answerNow
        THEN [go |-> TRUE, rec |-> [rec EXCEPT !.answerNow = FALSE],
              ask |-> AskAgain(n, t.base, FALSE, FALSE, t.auto)]
        ELSE IF t.voice /\ ~t.retried /\ ~t.aborted /\ t.got = 0 /\ Room
        THEN [go |-> TRUE, rec |-> rec, ask |-> AskAgain(n, t.base, TRUE, TRUE, t.auto)]
        ELSE IF how = "announced" /\ MayResume(n)
        THEN [go |-> TRUE, rec |-> more, ask |-> AskAgain(n, t.base, FALSE, FALSE, t.auto + 1)]
        ELSE IF how = "open" /\ MayResume(n)
        THEN [go |-> TRUE, rec |-> more,
              ask |-> AskAgain(n, Append(Final(n), Hidden(t.th)), FALSE, FALSE, t.auto + 1)]
        ELSE [go |-> rec.queued # <<>>, rec |-> last,
              ask |-> AskAgain(n, Final(n) \o msgs, FALSE, FALSE, 0)]

\* Mutant: the answer is saved under a new name whenever it ends
EndElsewhere(n) ==
    /\ n \in Running /\ CanSave
    /\ net' = Append(net, SaveRequest(n, Final(n), "final"))
    /\ turns' = [turns EXCEPT ![n] = Over]
    /\ live' = IF live = n THEN 0 ELSE live
    /\ pg' = [pg EXCEPT ![turns[n].page] = Painted(turns[n].page, EndedPage(n), 0)]
    /\ UNCHANGED <<server, gone, reads, titling, nturn, typed, opened, mount, mode>>

\* Mutant: a stopped turn is not saved, its checkpoint stays
EndUnsaved(n) ==
    /\ n \in Running
    /\ turns' = [turns EXCEPT ![n] = Over]
    /\ live' = IF live = n THEN 0 ELSE live
    /\ pg' = [pg EXCEPT ![turns[n].page] = Painted(turns[n].page, EndedPage(n), 0)]
    /\ UNCHANGED <<server, gone, net, reads, titling, nturn, typed, opened, mount, mode>>

\* The end of runStream: the last save, the page, and what comes next
End(n) ==
    /\ n \in Running /\ CanSave
    /\ net' = Append(net, SaveRequest(ConvOf(n), Final(n), "final"))
    /\ \E how \in Ends(n) :
         LET next == Follow(n, how)
             free == [turns EXCEPT ![n] = Over]
             k == nturn + 1
             page == turns[n].page
         IN  /\ how # "done" /\ MayResume(n) => Room
             /\ IF next.go
                THEN /\ nturn' = k /\ live' = k
                     /\ turns' = [free EXCEPT ![k] = TurnOf(next.ask)]
                     /\ pg' = [pg EXCEPT ![page] = Painted(page,
                          [next.rec EXCEPT !.streaming = TRUE, !.abort = k,
                             !.messages = Append(next.ask.base, Msg("assistant", k, next.ask.th, 0, FALSE))],
                          next.ask.cid)]
                ELSE /\ turns' = free /\ nturn' = nturn
                     /\ live' = IF live = n THEN 0 ELSE live
                     /\ pg' = [pg EXCEPT ![page] = Painted(page, next.rec,
                                 IF live = n THEN 0 ELSE LiveConv)]
    /\ UNCHANGED <<server, gone, reads, titling, typed, opened, mount, mode>>

-----------------------------------------------------------------------------
(***************************************************************************)
(* Tabs and history.                                                       *)
(***************************************************************************)

OnlyPage == UNCHANGED <<server, gone, net, reads, titling, turns, nturn, typed, live, opened, mount, mode>>

\* The active tab's snapshot, frozen when it is left
Frozen(rec) == [rec EXCEPT !.tabs[rec.tab] = Snapshot(TRUE, rec.messages, rec.currentId, rec.th)]

\* The thread of a tab on screen
Restored(rec, i) ==
    [rec EXCEPT !.messages = rec.tabs[i].messages, !.currentId = rec.tabs[i].currentId,
                !.th = rec.tabs[i].th, !.editing = 0, !.queued = <<>>, !.tab = i]

switchTab(i) ==
    /\ OnPage /\ ~P.streaming /\ i # P.tab /\ P.tabs[i].open
    /\ Paint(Restored(Frozen(P), i))
    /\ OnlyPage

newTab(i) ==
    /\ OnPage /\ ~P.streaming /\ ~P.tabs[i].open /\ "tabs" \in mode
    /\ Paint(Restored([Frozen(P) EXCEPT !.tabs[i] = EmptyTab], i))
    /\ OnlyPage

\* autoTitle: the title is asked for the snapshot of the tab, which is the one
\* of the last time the tab was left
autoTitle(snap) == {[page |-> mount, id |-> snap.currentId, msgs |-> snap.messages]}

closeTab(i) ==
    /\ OnPage /\ ~P.streaming /\ P.tabs[i].open
    /\ titling' = titling \cup (IF "titles" \in mode /\ titling = {} /\ P.tabs[i].messages # <<>> /\ P.tabs[i].currentId # 0
                                THEN autoTitle(P.tabs[i]) ELSE {})
    /\ LET left == [P EXCEPT !.tabs[i] = NoTab]
           others == {j \in Tabs : left.tabs[j].open}
       IN  IF i # P.tab THEN Paint(left)
           ELSE IF others = {} THEN Paint(Restored([left EXCEPT !.tabs[i] = EmptyTab], i))
           ELSE \E j \in others : Paint(Restored(left, j))
    /\ UNCHANGED <<server, gone, net, reads, turns, nturn, typed, live, opened, mount, mode>>

\* Mutant: an opened conversation is shown under the name of the one before
AppliedKeepsId(rec, c, msgs) ==
    [rec EXCEPT !.messages = FromSaved(msgs), !.editing = 0, !.queued = <<>>]

\* applyConversation
Applied(rec, c, msgs) ==
    [rec EXCEPT !.messages = FromSaved(msgs), !.currentId = c, !.editing = 0, !.queued = <<>>,
                !.th = IF msgs = <<>> THEN @ ELSE msgs[1].th,
                !.tabs[rec.tab].currentId = c]

\* The history is used while an answer is written, or not
MayBrowse == OnPage /\ ("busy" \in mode \/ ~P.streaming)

\* selectConversation: a conversation without its messages is fetched first
selectConversation(c) ==
    /\ MayBrowse /\ P.list[c].in
    /\ \/ /\ ~P.list[c].omitted
          /\ Repaint(Applied(P, c, P.list[c].msgs))
          /\ UNCHANGED reads
       \/ /\ P.list[c].omitted /\ reads = {}
          /\ reads' = reads \cup {[page |-> mount, id |-> c, why |-> "open"]}
          /\ UNCHANGED pg
    /\ UNCHANGED <<server, gone, net, titling, turns, nturn, typed, live, opened, mount, mode>>

\* Mutant: the thread on screen keeps the name of the conversation it deletes
deleteKeepsId(c) ==
    /\ MayBrowse /\ P.list[c].in /\ CanRequest
    /\ Paint([P EXCEPT !.list[c] = NoEntry])
    /\ net' = Append(net, DeleteRequest(c))
    /\ gone' = gone \cup {c}
    /\ UNCHANGED <<server, reads, titling, turns, nturn, typed, live, opened, mount, mode>>

\* deleteConversation: optimistic on screen
deleteConversation(c) ==
    /\ MayBrowse /\ P.list[c].in /\ CanRequest
    /\ Paint([P EXCEPT !.list[c] = NoEntry, !.currentId = IF @ = c THEN 0 ELSE @])
    /\ net' = Append(net, DeleteRequest(c))
    /\ gone' = gone \cup {c}
    /\ UNCHANGED <<server, reads, titling, turns, nturn, typed, live, opened, mount, mode>>

\* startRename and commitRename: the conversation of the list, renamed
commitRename(c) ==
    /\ "titles" \in mode /\ MayBrowse /\ P.list[c].in /\ CanRequest
    /\ net' = Append(net, SaveRequest(c, P.list[c].msgs, "title"))
    /\ UNCHANGED <<server, gone, reads, titling, turns, nturn, typed, live, pg, opened, mount, mode>>

\* genTitle: one at a time; the conversation of the list as it is now
genTitle ==
    /\ "titles" \in mode /\ OnPage /\ P.messages # <<>> /\ P.currentId # 0 /\ P.list[P.currentId].in
    /\ titling = {}
    /\ titling' = {[page |-> mount, id |-> P.currentId, msgs |-> P.list[P.currentId].msgs]}
    /\ UNCHANGED <<server, gone, net, reads, turns, nturn, typed, live, pg, opened, mount, mode>>

\* The title came, or did not: the conversation is saved with it as it was
TitleArrives(r) ==
    /\ titling' = titling \ {r}
    /\ \/ CanRequest /\ net' = Append(net, SaveRequest(r.id, r.msgs, "title"))
       \/ net' = net
    /\ UNCHANGED <<server, gone, reads, turns, nturn, typed, live, pg, opened, mount, mode>>

\* A conversation that was fetched arrives: for the history, or for the poll of a
\* checkpoint (then only if it is still the one on screen)
ReadArrives(r) ==
    /\ reads' = reads \ {r}
    /\ LET msgs == server[r.id] IN
       IF r.page # mount \/ msgs = <<>> THEN pg' = pg
       ELSE IF r.why = "open" THEN Repaint(Applied(Listed(P, r.id, msgs), r.id, msgs))
       ELSE IF P.currentId = r.id THEN Repaint([P EXCEPT !.messages = FromSaved(msgs)])
       ELSE pg' = pg
    /\ UNCHANGED <<server, gone, net, titling, turns, nturn, typed, live, opened, mount, mode>>

\* The timer of the poll
Poll ==
    /\ OnPage /\ P.armed /\ reads = {}
    /\ pg' = [pg EXCEPT ![mount].armed = FALSE]
    /\ reads' = reads \cup {[page |-> mount, id |-> P.currentId, why |-> "poll"]}
    /\ UNCHANGED <<server, gone, net, titling, turns, nturn, typed, live, opened, mount, mode>>

-----------------------------------------------------------------------------
(***************************************************************************)
(* Loading, leaving, adopting.                                             *)
(***************************************************************************)

\* fetchConversations, after the migration: a failure is an empty history.
\* Without "net" the list is not older than what was saved.
ListArrives ==
    /\ OnPage /\ ~P.loaded /\ ("net" \in mode \/ net = <<>>)
    /\ \E fails \in {"net" \in mode, FALSE}, omit \in {"omits" \in mode, FALSE} :
         Paint([P EXCEPT !.loaded = TRUE,
                  !.list = [c \in ConvId |->
                     IF fails \/ server[c] = <<>> THEN NoEntry
                     ELSE [in |-> TRUE, msgs |-> IF omit THEN <<>> ELSE server[c], omitted |-> omit]]])
    /\ OnlyPage

\* fetchPlaygroundData
ModelsArrive ==
    /\ OnPage /\ ~P.model
    /\ Paint([P EXCEPT !.model = TRUE])
    /\ OnlyPage

\* ?conv=<id>: once the list and the models are there, and only once
OpenFromUrl(c) ==
    /\ "omits" \in mode /\ OnPage /\ P.loaded /\ P.model /\ ~P.fromUrl /\ ~P.streaming /\ P.messages = <<>>
    /\ P.list[c].in
    /\ Paint([P EXCEPT !.fromUrl = TRUE, !.messages = FromSaved(P.list[c].msgs), !.currentId = c,
                       !.th = IF P.list[c].msgs = <<>> THEN @ ELSE P.list[c].msgs[1].th,
                       !.tabs[P.tab].currentId = c])
    /\ OnlyPage

\* The effect that adopted the turn runs again since streaming changed: its
\* cleanup stops the timer it had set
EffectsRerun ==
    /\ OnPage /\ P.follow # 0
    /\ pg' = [pg EXCEPT ![mount].follow = 0]
    /\ OnlyPage

\* The timer of an adopted turn: the words of the stream, or its end
FollowTick ==
    /\ OnPage /\ P.follow # 0
    /\ IF live = P.follow
       THEN /\ LET m == Msg("assistant", live, turns[live].th, turns[live].got, FALSE) IN
               /\ P.messages # <<>> /\ LastOf(P.messages).role = "assistant"
               /\ LastOf(P.messages) # m
               /\ Paint([P EXCEPT !.messages = ReplaceLast(@, m)])
            /\ UNCHANGED reads
       ELSE /\ Paint([P EXCEPT !.follow = 0, !.abort = 0, !.streaming = FALSE])
            /\ reads' = reads \cup {[page |-> mount, id |-> P.currentId, why |-> "poll"]}
    /\ UNCHANGED <<server, gone, net, titling, turns, nturn, typed, live, opened, mount, mode>>

\* The user goes to another page of the portal: the stream goes on, the timers
\* are cleared and what was being read is for nobody
Leave ==
    /\ "leaves" \in mode /\ OnPage /\ opened < MaxMounts
    /\ pg' = [pg EXCEPT ![mount] = [Blank EXCEPT !.currentId = P.currentId, !.queued = P.queued,
                                       !.resumes = P.resumes, !.answerNow = P.answerNow]]
    /\ reads' = {}
    /\ mount' = 0
    /\ UNCHANGED <<server, gone, net, titling, turns, nturn, typed, live, opened, mode>>

Return ==
    /\ ~OnPage
    /\ opened' = opened + 1 /\ mount' = opened + 1
    /\ pg' = [pg EXCEPT ![opened + 1] = FreshPage]
    /\ UNCHANGED <<server, gone, net, reads, titling, turns, nturn, typed, live, mode>>

-----------------------------------------------------------------------------
PlaygroundWorks ==
    \/ \E n \in 1..MaxTurns : Delta(n) \/ Checkpoint(n) \/ End(n)
    \/ \E i \in 1..MaxNet : RequestServed(i) \/ RequestLost(i)
    \/ \E r \in reads : ReadArrives(r)
    \/ \E r \in titling : TitleArrives(r)
    \/ ListArrives \/ ModelsArrive \/ Poll \/ EffectsRerun \/ FollowTick

PlaygroundUser ==
    \/ Send \/ SendQueued \/ sendVoice \/ AskHidden \/ regenerate \/ stop \/ answerNow
    \/ \E i \in 1..(2 * MaxTurns + 2) : editMessage(i)
    \/ \E i \in 1..MaxTyped : sendQueuedNow(i) \/ discardQueued(i)
    \/ \E i \in Tabs : switchTab(i) \/ newTab(i) \/ closeTab(i)
    \/ \E c \in ConvId :
         selectConversation(c) \/ deleteConversation(c) \/ commitRename(c) \/ OpenFromUrl(c)
    \/ genTitle \/ Leave \/ Return

PlaygroundNext == PlaygroundWorks \/ PlaygroundUser

PlaygroundSpec == PlaygroundInit /\ [][PlaygroundNext]_pgVars

\* The stream of a turn ends (the proxy and the portal bound it), requests are
\* served, effects run; nobody makes the user act
PlaygroundFairness ==
    /\ \A n \in 1..MaxTurns : WF_pgVars(End(n))
    /\ WF_pgVars(RequestServed(1))
    /\ WF_pgVars(EffectsRerun)
    /\ WF_pgVars(\E r \in reads : ReadArrives(r))

PlaygroundFairSpec == PlaygroundSpec /\ PlaygroundFairness

-----------------------------------------------------------------------------
(***************************************************************************)
(* Properties.                                                             *)
(***************************************************************************)

\* The shape of the state
PlaygroundTypeOK ==
    /\ mode \in Modes
    /\ DOMAIN server = ConvId /\ gone \subseteq ConvId
    /\ Len(net) <= MaxNet
    /\ nturn \in 0..MaxTurns /\ typed \in 0..MaxTyped /\ live \in 0..MaxTurns
    /\ mount \in 0..opened /\ opened \in Pages
    /\ \A p \in Pages : /\ pg[p].currentId \in ConvId \cup {0}
                        /\ pg[p].resumes \in 0..MaxResumes
                        /\ pg[p].polls \in 0..MaxPolls
                        /\ pg[p].abort \in 0..MaxTurns

\* A page writes one answer at a time: the handlers that start a turn read
\* `streaming`, whatever the history, the tabs, a resume or an adoption did
OneTurnPerPage ==
    \A m, n \in Running : turns[m].page = turns[n].page => m = n

\* The Stop button of the page on screen reaches the turn that page is writing
StopReaches ==
    \A n \in Running : Mounted(turns[n].page) => P.streaming /\ P.abort = n

\* A saved conversation holds the messages of one thread: an answer is never
\* filed under another conversation than the one it was asked in
OneThread ==
    \A c \in ConvId : \A i, j \in DOMAIN server[c] : server[c][i].th = server[c][j].th

\* A thread is saved under one name
OneHome ==
    \A c, d \in ConvId : server[c] # <<>> /\ server[d] # <<>> /\ server[c][1].th = server[d][1].th => c = d

\* Saved conversations and threads correspond one to one: no answer, title,
\* tab or resume files a thread twice or under another (saveCurrent, runStream)
ThreadsHaveOneHome == OneThread /\ OneHome

\* A conversation the user deleted does not come back once the deletion was served
DeletedStaysDeleted ==
    \A c \in gone : server[c] = <<>> \/ \E i \in DOMAIN net : net[i].op = "delete" /\ net[i].id = c

\* With nothing under way, the thread on screen is the saved conversation (or
\* ends with the notice that there is no model, which is not saved)
ScreenIsSaved ==
    Quiet /\ OnPage /\ P.currentId # 0 =>
        \/ P.messages = server[P.currentId]
        \/ \E i \in DOMAIN P.messages : IsNote(P.messages[i])

\* With nothing under way, no saved answer is still marked as being written: the
\* last save of a turn replaces its checkpoint
FinalSurvives == Quiet => \A c \in ConvId : ~LastPending(server[c])

\* A save made for a title loses none of the saved messages
TitleKeepsMessages ==
    [][\A i \in DOMAIN net :
         net[i].why = "title" /\ net' = RemoveAt(net, i) /\ server' # server
           => Len(server'[net[i].id]) >= Len(server[net[i].id])]_pgVars

\* A page that shows an answer being written stops showing it: the end of the
\* stream reaches the page that adopted it
AdoptedEnds ==
    \A p \in Pages : (mount = p /\ pg[p].streaming) ~> (mount # p \/ ~pg[p].streaming \/ Running # {})

\* Messages that wait have an answer of their page to wait for: whatever ends,
\* resumes or cuts a turn, none is left in the queue with nobody to send it
QueueHasTurn ==
    \A p \in Pages : pg[p].queued # <<>> => \E n \in Running : turns[n].page = p

=============================================================================
