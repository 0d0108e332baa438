----------------------------- MODULE AdminLogs -----------------------------
(***************************************************************************)
(* The log panel of the administration (AdminPage.tsx, LogsPanel.tsx and   *)
(* useStickToBottom.ts).                                                   *)
(*                                                                         *)
(* The lines of the chat model come from the runner's event stream, which  *)
(* replays its whole buffer at each connection; the first load of the page *)
(* also brings a snapshot of that buffer (init_logs).  The logs of a       *)
(* sidecar are fetched when its tab is chosen and polled while it is       *)
(* shown.  The view follows the last line until the reader scrolls away.   *)
(***************************************************************************)
EXTENDS Naturals, Sequences

CONSTANTS
  MaxLines,    \* lines the runner writes
  MaxLogLines, \* lines the panel keeps (MAX_LOG_LINES)
  MaxDrops,    \* connections that break
  MaxTailReads \* reads of a sidecar's logs

ASSUME AdminLogsAssumption ==
  {MaxLines, MaxLogLines, MaxDrops, MaxTailReads} \subseteq Nat /\ MaxLines > 0 /\ MaxLogLines > 0

VARIABLES
  runnerLog, \* the runner's side: buffer, number of the next line, pending events
  logs,      \* the page's side of the stream; ghosts: the lines `heard' since it
             \* opened, and whether a snapshot landed on them (primed)
  tails,     \* the sidecars' logs: kind shown, tail shown, reads in flight
  view       \* the scrolled frame; ghost: whether the reader scrolled away

adminLogVars == <<runnerLog, logs, tails, view>>

Sidecars == {"ocr", "asr"}
LogKinds == {"llm"} \cup Sidecars
Clear == 0
Lines == 1..MaxLines
NoTail == [kind |-> "none", nr |-> 0]

-----------------------------------------------------------------------------
(* The page opens                                                          *)

\* A page served with fresh data makes no first load; otherwise the load
\* leaves as the stream connects.  The panel shows the seed's snapshot.
AdminLogsInit ==
  /\ runnerLog = [buffer |-> <<1>>, next |-> 2, events |-> <<>>, drops |-> 0]
  /\ \E served \in BOOLEAN :
       logs = [shown |-> IF served THEN <<1>> ELSE <<>>, open |-> FALSE, forbidden |-> FALSE,
               primer |-> IF served THEN "none" ELSE "sent", snap |-> <<>>, heard |-> <<>>, primed |-> FALSE]
  /\ tails = [kind |-> "llm", shown |-> NoTail, reads |-> {}, made |-> 0]
  /\ view = [far |-> FALSE, stuck |-> TRUE, button |-> FALSE, grown |-> FALSE, frame |-> FALSE, away |-> FALSE]

\* New text makes the view grow under the reader, past the tolerance of 48
\* pixels or not; the effect that follows it runs later (Follow).
Grows(changed) ==
  IF changed THEN view' \in {[view EXCEPT !.grown = TRUE], [view EXCEPT !.frame = TRUE]}
  ELSE UNCHANGED view

-----------------------------------------------------------------------------
(* The runner (external to the page)                                       *)

RunnerWrites ==
  /\ runnerLog.next <= MaxLines
  /\ runnerLog' = [runnerLog EXCEPT !.buffer = Append(@, runnerLog.next), !.next = @ + 1,
                     !.events = IF logs.open THEN Append(@, runnerLog.next) ELSE @]
  /\ UNCHANGED <<logs, tails, view>>

\* A launch empties the buffer and says so on the stream.
RunnerClears ==
  /\ runnerLog.buffer # <<>>
  /\ runnerLog' = [runnerLog EXCEPT !.buffer = <<>>, !.events = IF logs.open THEN Append(@, Clear) ELSE @]
  /\ UNCHANGED <<logs, tails, view>>

-----------------------------------------------------------------------------
(* The stream                                                              *)

\* Mutant: the panel is not emptied when the buffer is replayed.
StreamOpensOver ==
  /\ ~logs.open /\ ~logs.forbidden
  /\ runnerLog' = [runnerLog EXCEPT !.events = runnerLog.buffer]
  /\ logs' = [logs EXCEPT !.open = TRUE, !.heard = <<>>, !.primed = FALSE]
  /\ UNCHANGED <<tails, view>>

\* onopen: the panel is emptied, since the whole buffer is replayed.
StreamOpens ==
  /\ ~logs.open /\ ~logs.forbidden
  /\ runnerLog' = [runnerLog EXCEPT !.events = runnerLog.buffer]
  /\ logs' = [logs EXCEPT !.open = TRUE, !.shown = <<>>, !.heard = <<>>, !.primed = FALSE]
  /\ Grows(tails.kind = "llm" /\ logs.shown # <<>>)
  /\ UNCHANGED tails

\* Mutant: one line too many is kept.
LatestOneMore(s) == SubSeq(s, (IF Len(s) > MaxLogLines THEN Len(s) - MaxLogLines ELSE 1), Len(s))

Latest(s) == SubSeq(s, (IF Len(s) > MaxLogLines THEN Len(s) - MaxLogLines ELSE 0) + 1, Len(s))

\* A line, or the event "clear".
StreamDelivers ==
  /\ logs.open /\ runnerLog.events # <<>>
  /\ LET e == Head(runnerLog.events)
         after(s) == IF e = Clear THEN <<>> ELSE Latest(Append(s, e))
     IN  /\ logs' = [logs EXCEPT !.shown = after(@), !.heard = after(@)]
         /\ Grows(tails.kind = "llm" /\ after(logs.shown) # logs.shown)
  /\ runnerLog' = [runnerLog EXCEPT !.events = Tail(@)]
  /\ UNCHANGED tails

\* EventSource connects again by itself.
StreamDrops ==
  /\ logs.open /\ runnerLog.drops < MaxDrops
  /\ runnerLog' = [runnerLog EXCEPT !.events = <<>>, !.drops = @ + 1]
  /\ logs' = [logs EXCEPT !.open = FALSE]
  /\ UNCHANGED <<tails, view>>

\* The first load: its snapshot is taken when the portal answers and shown
\* when the answer is handled, whatever the stream brought meanwhile.
PrimerAnswered ==
  /\ logs.primer = "sent"
  /\ logs' = [logs EXCEPT !.primer = "back", !.snap = runnerLog.buffer]
  /\ UNCHANGED <<runnerLog, tails, view>>

PrimerLands ==
  /\ logs.primer = "back"
  /\ logs' = [logs EXCEPT !.primer = "none", !.snap = <<>>, !.shown = logs.snap, !.primed = logs.open]
  /\ Grows(tails.kind = "llm" /\ logs.snap # logs.shown)
  /\ UNCHANGED <<runnerLog, tails>>

PrimerFails ==
  /\ logs.primer # "none"
  /\ logs' = [logs EXCEPT !.primer = "none", !.snap = <<>>]
  /\ UNCHANGED <<runnerLog, tails, view>>

\* A load is answered 403: the stream is closed, the polls stop, and the page
\* says that access is reserved.
BecomesForbidden ==
  /\ ~logs.forbidden
  /\ logs' = [logs EXCEPT !.forbidden = TRUE, !.open = FALSE]
  /\ runnerLog' = [runnerLog EXCEPT !.events = <<>>]
  /\ tails' = [tails EXCEPT !.reads = {[r EXCEPT !.alive = FALSE] : r \in @}]
  /\ UNCHANGED view

-----------------------------------------------------------------------------
(* The logs of a sidecar                                                   *)

Read(kind, nr) == [kind |-> kind, nr |-> nr, alive |-> TRUE]

\* The tab's old tail is dropped; the effect of the old kind is cleaned up
\* (its reads no longer count) and the new one reads at once.
onLogKindChange(kind) ==
  /\ ~logs.forbidden
  /\ kind # tails.kind
  /\ tails.made < MaxTailReads
  /\ tails' = [kind |-> kind, shown |-> NoTail, made |-> tails.made + 1,
               reads |-> {[r EXCEPT !.alive = FALSE] : r \in tails.reads}
                           \cup (IF kind = "llm" THEN {} ELSE {Read(kind, tails.made + 1)})]
  /\ Grows(TRUE)
  /\ UNCHANGED <<runnerLog, logs>>

PollTail ==
  /\ tails.kind # "llm" /\ ~logs.forbidden /\ tails.made < MaxTailReads
  /\ tails' = [tails EXCEPT !.made = @ + 1, !.reads = @ \cup {Read(tails.kind, tails.made + 1)}]
  /\ UNCHANGED <<runnerLog, logs, view>>

\* Mutant: a read of the kind shown before is not dropped.
TailLandsAnyway(r) ==
  /\ \E tail \in {NoTail, [kind |-> r.kind, nr |-> r.nr]} :
       /\ tails' = [tails EXCEPT !.reads = @ \ {r}, !.shown = tail]
       /\ Grows(tail # tails.shown)
  /\ UNCHANGED <<runnerLog, logs>>

\* An answer, or a failure that shows no line.
TailLands(r) ==
  /\ \E tail \in {NoTail, [kind |-> r.kind, nr |-> r.nr]} :
       LET shown == IF r.alive THEN tail ELSE tails.shown
       IN  /\ tails' = [tails EXCEPT !.reads = @ \ {r}, !.shown = shown]
           /\ Grows(shown # tails.shown)
  /\ UNCHANGED <<runnerLog, logs>>

-----------------------------------------------------------------------------
(* The view                                                                *)

\* The effect on new text: a view still stuck goes to the bottom, and is
\* measured at the next frame.
Follow ==
  /\ view.grown
  /\ view' = [view EXCEPT !.grown = FALSE, !.far = IF view.stuck THEN FALSE ELSE @, !.frame = TRUE]
  /\ UNCHANGED <<runnerLog, logs, tails>>

\* Text that grew since and was not followed yet leaves the bottom out of sight.
OutOfSight == view.far \/ view.grown

measure ==
  /\ view.frame
  /\ view' = [view EXCEPT !.frame = FALSE, !.far = OutOfSight, !.stuck = ~OutOfSight, !.button = OutOfSight]
  /\ UNCHANGED <<runnerLog, logs, tails>>

\* The reader scrolls; the scroll event measures the view.
ScrollAway(away) ==
  /\ view.far # away
  /\ view' = [view EXCEPT !.far = away, !.stuck = ~away, !.button = away, !.away = away]
  /\ UNCHANGED <<runnerLog, logs, tails>>

\* The arrow shown once the bottom is out of sight.
logsJumpDown ==
  /\ view.button
  /\ view' = [view EXCEPT !.far = FALSE, !.stuck = TRUE, !.button = FALSE, !.away = FALSE]
  /\ UNCHANGED <<runnerLog, logs, tails>>

-----------------------------------------------------------------------------
AdminLogsNext ==
  \/ RunnerWrites \/ RunnerClears
  \/ StreamOpens \/ StreamDelivers \/ StreamDrops
  \/ PrimerAnswered \/ PrimerLands \/ PrimerFails \/ BecomesForbidden
  \/ \E kind \in LogKinds : onLogKindChange(kind)
  \/ PollTail
  \/ \E r \in tails.reads : TailLands(r)
  \/ Follow \/ measure \/ logsJumpDown
  \/ \E away \in BOOLEAN : ScrollAway(away)

-----------------------------------------------------------------------------
(* Properties                                                              *)

AdminLogsTypeOK ==
  /\ runnerLog \in [buffer : Seq(Lines), next : 1..MaxLines + 1, events : Seq(Lines \cup {Clear}),
                    drops : 0..MaxDrops]
  /\ logs \in [shown : Seq(Lines), open : BOOLEAN, forbidden : BOOLEAN, primer : {"none", "sent", "back"},
               snap : Seq(Lines), heard : Seq(Lines), primed : BOOLEAN]
  /\ Len(logs.heard) <= MaxLogLines
  /\ tails.kind \in LogKinds /\ tails.made \in 0..MaxTailReads
  /\ tails.reads \subseteq [kind : Sidecars, nr : 1..MaxTailReads, alive : BOOLEAN]
  /\ tails.shown \in {NoTail} \cup [kind : Sidecars, nr : 1..MaxTailReads]
  /\ view \in [far : BOOLEAN, stuck : BOOLEAN, button : BOOLEAN, grown : BOOLEAN, frame : BOOLEAN, away : BOOLEAN]

\* The logs under a sidecar's name are that sidecar's, whichever reads are
\* still in flight when the tab changes; and once the stream is open the panel
\* shows the lines it brought since, each once, unless the first load's
\* snapshot landed on them (AdminPage.tsx, onopen and the sidecar effect).
LogPanelFaithful ==
  /\ tails.shown.kind \in {"none", tails.kind}
  /\ logs.open /\ ~logs.primed => logs.shown = logs.heard

\* AdminPage.tsx says of the first load: "The stream is the source of truth
\* once open; init_logs only fills the panel before its first line".
StreamIsTruth == logs.open /\ logs.heard # <<>> => logs.shown = logs.heard

\* LogsPanel.tsx: "stick to the bottom as long as the admin has not scrolled
\* up".  A frame that measures new text before its effect ran unsticks it.
FollowsUntilScrolled == ~view.away => view.stuck

AdminLogsSpec == AdminLogsInit /\ [][AdminLogsNext]_adminLogVars
=============================================================================
