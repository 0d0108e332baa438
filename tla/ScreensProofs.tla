---------------------------- MODULE ScreensProofs ---------------------------
(*****************************************************************************)
(* The invariants of the pages that show what the portal holds: the log      *)
(* panel, the administration page, the search, the ranking and the home      *)
(* page, and the panes of an account. Each holds when the page is mounted    *)
(* (...InitInv) and is kept by each of its steps (...Step).                  *)
(*****************************************************************************)
EXTENDS AdminLogs, AdminConsole, Lookups, AccountPanes, FiniteSetTheorems,
        SequenceTheorems, TLAPS

-----------------------------------------------------------------------------
(* The log panel of the administration                                     *)

\* The runner's buffer, the stream, the tails and the scroll of the panel.
LogReadRec == [kind : Sidecars, nr : 1 .. MaxTailReads, alive : BOOLEAN]
TailRec == {NoTail} \cup [kind : Sidecars, nr : 1 .. MaxTailReads]
ViewRec == [far : BOOLEAN, stuck : BOOLEAN, button : BOOLEAN, grown : BOOLEAN, frame : BOOLEAN, away : BOOLEAN]
RunnerRec == [buffer : Seq(Lines), next : 1 .. MaxLines + 1, events : Seq(Lines \cup {Clear}), drops : 0 .. MaxDrops]
StreamRec ==
  [shown : Seq(Lines), open : BOOLEAN, forbidden : BOOLEAN, primer : {"none", "sent", "back"},
   snap : Seq(Lines), heard : Seq(Lines), primed : BOOLEAN]
TailsRec == [kind : LogKinds, shown : TailRec, reads : SUBSET LogReadRec, made : 0 .. MaxTailReads]

\* A read that still counts is of the kind shown.
TailsFit(t) ==
  /\ t \in TailsRec
  /\ t.shown.kind \in {"none", t.kind}
  /\ \A r \in t.reads : r.alive => r.kind = t.kind

\* Until a snapshot primed it, the panel shows the lines it heard.
StreamFits(l) ==
  /\ l \in StreamRec /\ Len(l.heard) <= MaxLogLines
  /\ l.open /\ ~l.primed => l.shown = l.heard

\* The inductive invariant: the stream and the tails each fit what is shown.
LogsInv == runnerLog \in RunnerRec /\ StreamFits(logs) /\ TailsFit(tails) /\ view \in ViewRec

\* Lines that arrive change only the scroll.
LEMMA GrowsIs == ASSUME NEW changed, view \in ViewRec, Grows(changed) PROVE view' \in ViewRec
<1>1. [view EXCEPT !.grown = TRUE] \in ViewRec /\ [view EXCEPT !.frame = TRUE] \in ViewRec
  BY DEF ViewRec
<1> QED
  BY <1>1 DEF Grows

\* The latest lines are lines, within the limit (slice(-MAX_LOG_LINES)).
LEMMA LatestIs ==
  ASSUME NEW s \in Seq(Lines) PROVE Latest(s) \in Seq(Lines) /\ Len(Latest(s)) <= MaxLogLines
<1> USE AdminLogsAssumption
<1> DEFINE n == Len(s)
           m == (IF n > MaxLogLines THEN n - MaxLogLines ELSE 0) + 1
<1>1. n \in Nat
  BY LenProperties
<1>2. Latest(s) = SubSeq(s, m, n)
  BY DEF Latest
<1>3. m \in 1 .. n + 1 /\ m \in Nat /\ n - m + 1 <= MaxLogLines /\ MaxLogLines \in Nat
  BY <1>1
<1>4. SubSeq(s, m, n) \in Seq(Lines)
  <2>1. \A i \in m .. n : s[i] \in Lines
    BY <1>1, <1>3, ElementOfSeq
  <2> HIDE DEF m, n
  <2> QED
    BY <1>1, <1>3, <2>1, SubSeqProperties
<1>5. Len(SubSeq(s, m, n)) = IF m <= n THEN n - m + 1 ELSE 0
  <2> HIDE DEF m
  <2> QED
    BY <1>1, <1>3, SubSeqProperties
<1> HIDE DEF m, n
<1> QED
  BY <1>1, <1>2, <1>3, <1>4, <1>5

\* The panel opens with an empty stream.
LEMMA LogsInitInv == AdminLogsInit => LogsInv
<1> SUFFICES ASSUME AdminLogsInit PROVE LogsInv
  OBVIOUS
<1> USE AdminLogsAssumption
<1>1. 1 \in Lines /\ 2 \in 1 .. MaxLines + 1 /\ 0 \in 0 .. MaxDrops /\ 0 \in 0 .. MaxTailReads
  BY DEF Lines
<1>2. <<1>> \in Seq(Lines) /\ <<>> \in Seq(Lines) /\ <<>> \in Seq(Lines \cup {Clear}) /\ Len(<<>>) <= MaxLogLines
  BY <1>1
<1>3. runnerLog \in RunnerRec
  BY <1>1, <1>2 DEF AdminLogsInit, RunnerRec
<1>4. StreamFits(logs)
  <2>1. PICK served \in BOOLEAN :
          logs = [shown |-> IF served THEN <<1>> ELSE <<>>, open |-> FALSE, forbidden |-> FALSE,
               primer |-> IF served THEN "none" ELSE "sent", snap |-> <<>>, heard |-> <<>>, primed |-> FALSE]
    BY DEF AdminLogsInit
  <2> DEFINE s == IF served THEN <<1>> ELSE <<>>
             p == IF served THEN "none" ELSE "sent"
  <2>2. s \in Seq(Lines) /\ p \in {"none", "sent", "back"}
    BY <1>2
  <2>3. logs = [shown |-> s, open |-> FALSE, forbidden |-> FALSE, primer |-> p, snap |-> <<>>, heard |-> <<>>, primed |-> FALSE]
    BY <2>1
  <2> HIDE DEF s, p
  <2> QED
    BY <1>2, <2>2, <2>3 DEF StreamFits, StreamRec
<1>5. TailsFit(tails)
  BY <1>1 DEF AdminLogsInit, TailsFit, TailsRec, LogKinds, TailRec, NoTail
<1>6. view \in ViewRec
  BY DEF AdminLogsInit, ViewRec
<1> QED
  BY <1>3, <1>4, <1>5, <1>6 DEF LogsInv

\* Every step of the panel and of the runner keeps the invariant.
LEMMA LogsStep == LogsInv /\ [AdminLogsNext]_adminLogVars => LogsInv'
<1> SUFFICES ASSUME LogsInv, [AdminLogsNext]_adminLogVars PROVE LogsInv'
  OBVIOUS
<1> USE AdminLogsAssumption
<1>0. /\ runnerLog \in RunnerRec /\ StreamFits(logs) /\ TailsFit(tails) /\ view \in ViewRec
      /\ logs \in StreamRec /\ tails \in TailsRec
  BY DEF LogsInv, StreamFits, TailsFit
<1>e. <<>> \in Seq(Lines) /\ <<>> \in Seq(Lines \cup {Clear}) /\ Len(<<>>) = 0 /\ 0 <= MaxLogLines
  OBVIOUS
<1>1. ASSUME RunnerWrites PROVE LogsInv'
  <2> DEFINE k == runnerLog.next
             b == Append(runnerLog.buffer, k)
             n == k + 1
             v == IF logs.open THEN Append(runnerLog.events, k) ELSE runnerLog.events
  <2>1. runnerLog' = [runnerLog EXCEPT !.buffer = b, !.next = n, !.events = v] /\ k <= MaxLines
        /\ logs' = logs /\ tails' = tails /\ view' = view
    BY <1>0, <1>1 DEF RunnerWrites, RunnerRec
  <2>2. k \in Lines /\ n \in 1 .. MaxLines + 1
    BY <1>0, <2>1 DEF RunnerRec, Lines
  <2> HIDE DEF k
  <2>3. b \in Seq(Lines) /\ v \in Seq(Lines \cup {Clear})
    <3>1. k \in Lines \cup {Clear}
      BY <2>2
    <3> QED
      BY <1>0, <2>2, <3>1, AppendProperties DEF RunnerRec
  <2> HIDE DEF b, n, v
  <2>4. runnerLog' \in RunnerRec
    BY <1>0, <2>1, <2>2, <2>3 DEF RunnerRec
  <2> QED
    BY <1>0, <2>1, <2>4 DEF LogsInv
<1>2. ASSUME RunnerClears PROVE LogsInv'
  <2> DEFINE v == IF logs.open THEN Append(runnerLog.events, Clear) ELSE runnerLog.events
  <2>1. runnerLog' = [runnerLog EXCEPT !.buffer = <<>>, !.events = v] /\ logs' = logs /\ tails' = tails /\ view' = view
    BY <1>0, <1>2 DEF RunnerClears, RunnerRec
  <2>3. v \in Seq(Lines \cup {Clear})
    <3>1. Clear \in Lines \cup {Clear}
      OBVIOUS
    <3> QED
      BY <1>0, <3>1, AppendProperties DEF RunnerRec
  <2> HIDE DEF v
  <2>4. runnerLog' \in RunnerRec
    BY <1>0, <1>e, <2>1, <2>3 DEF RunnerRec
  <2> QED
    BY <1>0, <2>1, <2>4 DEF LogsInv
<1>3. ASSUME StreamOpens PROVE LogsInv'
  <2>1. /\ runnerLog' = [runnerLog EXCEPT !.events = runnerLog.buffer]
        /\ logs' = [logs EXCEPT !.open = TRUE, !.shown = <<>>, !.heard = <<>>, !.primed = FALSE]
        /\ Grows(tails.kind = "llm" /\ logs.shown # <<>>) /\ tails' = tails
    BY <1>3 DEF StreamOpens
  <2>2. runnerLog.buffer \in Seq(Lines \cup {Clear})
    <3>1. runnerLog.buffer \in Seq(Lines) /\ Lines \subseteq Lines \cup {Clear}
      BY <1>0 DEF RunnerRec
    <3> QED
      BY <3>1
  <2>3. runnerLog' \in RunnerRec
    BY <1>0, <2>1, <2>2 DEF RunnerRec
  <2>4. StreamFits(logs')
    BY <1>0, <1>e, <2>1 DEF StreamFits, StreamRec
  <2>5. view' \in ViewRec
    BY <1>0, <2>1, GrowsIs
  <2> QED
    BY <1>0, <2>1, <2>3, <2>4, <2>5 DEF LogsInv
<1>4. ASSUME StreamDelivers PROVE LogsInv'
  <2> DEFINE e == Head(runnerLog.events)
             after(s) == IF e = Clear THEN <<>> ELSE Latest(Append(s, e))
             x == after(logs.shown)
             y == after(logs.heard)
             v == Tail(runnerLog.events)
  <2>1. /\ runnerLog.events # <<>> /\ logs' = [logs EXCEPT !.shown = x, !.heard = y]
        /\ Grows(tails.kind = "llm" /\ x # logs.shown)
        /\ runnerLog' = [runnerLog EXCEPT !.events = v] /\ tails' = tails
    BY <1>0, <1>4 DEF StreamDelivers, StreamRec, RunnerRec
  <2>2. e \in Lines \cup {Clear} /\ v \in Seq(Lines \cup {Clear})
    BY <1>0, <2>1, HeadTailProperties DEF RunnerRec
  <2>3. \A s \in Seq(Lines) : after(s) \in Seq(Lines) /\ Len(after(s)) <= MaxLogLines
    <3> SUFFICES ASSUME NEW s \in Seq(Lines) PROVE after(s) \in Seq(Lines) /\ Len(after(s)) <= MaxLogLines
      OBVIOUS
    <3>1. CASE e = Clear
      BY <1>e, <3>1
    <3>2. CASE e # Clear
      <4>1. Append(s, e) \in Seq(Lines)
        BY <2>2, <3>2, AppendProperties
      <4> QED
        BY <3>2, <4>1, LatestIs
    <3> QED
      BY <3>1, <3>2
  <2>4. x \in Seq(Lines) /\ y \in Seq(Lines) /\ Len(y) <= MaxLogLines
    BY <1>0, <2>3 DEF StreamRec
  <2>5. logs.shown = logs.heard => x = y
    OBVIOUS
  <2> HIDE DEF e, after, x, y, v
  <2>6. runnerLog' \in RunnerRec
    BY <1>0, <2>1, <2>2 DEF RunnerRec
  <2>7. StreamFits(logs')
    BY <1>0, <2>1, <2>4, <2>5 DEF StreamFits, StreamRec
  <2>8. view' \in ViewRec
    BY <1>0, <2>1, GrowsIs
  <2> QED
    BY <1>0, <2>1, <2>6, <2>7, <2>8 DEF LogsInv
<1>5. ASSUME StreamDrops PROVE LogsInv'
  <2> DEFINE d == runnerLog.drops + 1
  <2>1. /\ runnerLog' = [runnerLog EXCEPT !.events = <<>>, !.drops = d] /\ runnerLog.drops < MaxDrops
        /\ logs' = [logs EXCEPT !.open = FALSE] /\ tails' = tails /\ view' = view
    BY <1>0, <1>5 DEF StreamDrops, RunnerRec
  <2>2. d \in 0 .. MaxDrops
    BY <1>0, <2>1 DEF RunnerRec
  <2> HIDE DEF d
  <2>3. runnerLog' \in RunnerRec
    BY <1>0, <1>e, <2>1, <2>2 DEF RunnerRec
  <2>4. StreamFits(logs')
    BY <1>0, <2>1 DEF StreamFits, StreamRec
  <2> QED
    BY <1>0, <2>1, <2>3, <2>4 DEF LogsInv
<1>6. ASSUME PrimerAnswered PROVE LogsInv'
  <2>1. logs' = [logs EXCEPT !.primer = "back", !.snap = runnerLog.buffer] /\ runnerLog' = runnerLog /\ tails' = tails /\ view' = view
    BY <1>6 DEF PrimerAnswered
  <2>2. runnerLog.buffer \in Seq(Lines)
    BY <1>0 DEF RunnerRec
  <2>4. StreamFits(logs')
    BY <1>0, <2>1, <2>2 DEF StreamFits, StreamRec
  <2> QED
    BY <1>0, <2>1, <2>4 DEF LogsInv
<1>7. ASSUME PrimerLands PROVE LogsInv'
  <2>1. /\ logs' = [logs EXCEPT !.primer = "none", !.snap = <<>>, !.shown = logs.snap, !.primed = logs.open]
        /\ Grows(tails.kind = "llm" /\ logs.snap # logs.shown)
        /\ runnerLog' = runnerLog /\ tails' = tails
    BY <1>7 DEF PrimerLands
  <2>4. StreamFits(logs')
    BY <1>0, <1>e, <2>1 DEF StreamFits, StreamRec
  <2>5. view' \in ViewRec
    BY <1>0, <2>1, GrowsIs
  <2> QED
    BY <1>0, <2>1, <2>4, <2>5 DEF LogsInv
<1>8. ASSUME PrimerFails PROVE LogsInv'
  <2>1. logs' = [logs EXCEPT !.primer = "none", !.snap = <<>>] /\ runnerLog' = runnerLog /\ tails' = tails /\ view' = view
    BY <1>8 DEF PrimerFails
  <2>4. StreamFits(logs')
    BY <1>0, <1>e, <2>1 DEF StreamFits, StreamRec
  <2> QED
    BY <1>0, <2>1, <2>4 DEF LogsInv
\* A read that no longer counts.
<1>v. ASSUME NEW R, R = {[r EXCEPT !.alive = FALSE] : r \in tails.reads} PROVE R \in SUBSET LogReadRec /\ \A r \in R : ~r.alive
  <2> SUFFICES ASSUME NEW x \in R PROVE x \in LogReadRec /\ ~x.alive
    OBVIOUS
  <2>1. PICK r \in tails.reads : x = [r EXCEPT !.alive = FALSE]
    BY <1>v
  <2>2. r \in LogReadRec
    BY <1>0 DEF TailsRec
  <2> QED
    BY <2>1, <2>2 DEF LogReadRec
<1>9. ASSUME BecomesForbidden PROVE LogsInv'
  <2> DEFINE R == {[r EXCEPT !.alive = FALSE] : r \in tails.reads}
  <2>1. /\ logs' = [logs EXCEPT !.forbidden = TRUE, !.open = FALSE]
        /\ runnerLog' = [runnerLog EXCEPT !.events = <<>>]
        /\ tails' = [tails EXCEPT !.reads = R] /\ view' = view
    BY <1>0, <1>9 DEF BecomesForbidden, TailsRec
  <2>2. R \in SUBSET LogReadRec /\ \A r \in R : ~r.alive
    BY <1>v
  <2> HIDE DEF R
  <2>3. runnerLog' \in RunnerRec
    BY <1>0, <1>e, <2>1 DEF RunnerRec
  <2>4. StreamFits(logs')
    BY <1>0, <2>1 DEF StreamFits, StreamRec
  <2>5. TailsFit(tails')
    BY <1>0, <2>1, <2>2 DEF TailsFit, TailsRec
  <2> QED
    BY <1>0, <2>1, <2>3, <2>4, <2>5 DEF LogsInv
<1>r. \A kind \in Sidecars, nr \in 1 .. MaxTailReads :
        Read(kind, nr) \in LogReadRec /\ Read(kind, nr).kind = kind
  BY DEF Read, LogReadRec
<1>10. ASSUME NEW kind \in LogKinds, onLogKindChange(kind) PROVE LogsInv'
  <2> DEFINE R == {[r EXCEPT !.alive = FALSE] : r \in tails.reads}
             n == tails.made + 1
             S == IF kind = "llm" THEN {} ELSE {Read(kind, n)}
  <2>1. /\ tails' = [kind |-> kind, shown |-> NoTail, made |-> n, reads |-> R \cup S]
        /\ tails.made < MaxTailReads /\ Grows(TRUE) /\ logs' = logs /\ runnerLog' = runnerLog
    BY <1>10 DEF onLogKindChange
  <2>2. R \in SUBSET LogReadRec /\ \A r \in R : ~r.alive
    BY <1>v
  <2>3. n \in 0 .. MaxTailReads /\ n \in 1 .. MaxTailReads
    BY <1>0, <2>1 DEF TailsRec
  <2>4. S \in SUBSET LogReadRec /\ \A r \in S : r.kind = kind
    BY <1>r, <2>3 DEF LogKinds
  <2> HIDE DEF R, S, n
  <2>5. TailsFit(tails')
    BY <2>1, <2>2, <2>3, <2>4 DEF TailsFit, TailsRec, TailRec, NoTail
  <2>6. view' \in ViewRec
    BY <1>0, <2>1, GrowsIs
  <2> QED
    BY <1>0, <2>1, <2>5, <2>6 DEF LogsInv
<1>11. ASSUME PollTail PROVE LogsInv'
  <2> DEFINE n == tails.made + 1
             R == tails.reads \cup {Read(tails.kind, n)}
  <2>1. /\ tails.kind # "llm" /\ tails.made < MaxTailReads
        /\ tails' = [tails EXCEPT !.made = n, !.reads = R] /\ logs' = logs /\ runnerLog' = runnerLog /\ view' = view
    BY <1>0, <1>11 DEF PollTail, TailsRec
  <2>2. n \in 0 .. MaxTailReads /\ n \in 1 .. MaxTailReads
    BY <1>0, <2>1 DEF TailsRec
  <2>3. tails.kind \in Sidecars
    BY <1>0, <2>1 DEF TailsRec, LogKinds
  <2>4. R \in SUBSET LogReadRec /\ \A r \in R : r.alive => r.kind = tails.kind
    BY <1>0, <1>r, <2>2, <2>3 DEF TailsFit, TailsRec
  <2> HIDE DEF R, n
  <2>5. TailsFit(tails')
    BY <1>0, <2>1, <2>2, <2>4 DEF TailsFit, TailsRec
  <2> QED
    BY <1>0, <2>1, <2>5 DEF LogsInv
<1>12. ASSUME NEW r \in tails.reads, TailLands(r) PROVE LogsInv'
  <2>1. PICK tail \in {NoTail, [kind |-> r.kind, nr |-> r.nr]} :
         /\ tails' = [tails EXCEPT !.reads = @ \ {r}, !.shown = IF r.alive THEN tail ELSE tails.shown]
         /\ Grows((IF r.alive THEN tail ELSE tails.shown) # tails.shown)
    BY <1>12 DEF TailLands
  <2>2. r \in LogReadRec /\ logs' = logs /\ runnerLog' = runnerLog
    BY <1>0, <1>12 DEF TailsRec, TailLands
  <2> DEFINE s == IF r.alive THEN tail ELSE tails.shown
  <2>3. tail \in TailRec /\ tail.kind \in {"none", r.kind}
    BY <2>2 DEF TailRec, NoTail, LogReadRec
  <2>4. s \in TailRec /\ s.kind \in {"none", tails.kind}
    BY <1>0, <2>3 DEF TailsFit, TailsRec
  <2>5. tails' = [tails EXCEPT !.reads = @ \ {r}, !.shown = s] /\ Grows(s # tails.shown)
    BY <2>1
  <2> HIDE DEF s
  <2>6. TailsFit(tails')
    BY <1>0, <2>4, <2>5 DEF TailsFit, TailsRec
  <2>7. view' \in ViewRec
    BY <1>0, <2>5, GrowsIs
  <2> QED
    BY <1>0, <2>2, <2>6, <2>7 DEF LogsInv
\* The view alone moves.
<1>13. ASSUME view' \in ViewRec, runnerLog' = runnerLog, logs' = logs, tails' = tails PROVE LogsInv'
  BY <1>0, <1>13 DEF LogsInv
<1>14. ASSUME Follow PROVE LogsInv'
  <2> DEFINE f == IF view.stuck THEN FALSE ELSE view.far
  <2>1. view' = [view EXCEPT !.grown = FALSE, !.far = f, !.frame = TRUE] /\ runnerLog' = runnerLog /\ logs' = logs /\ tails' = tails
    BY <1>0, <1>14 DEF Follow, ViewRec
  <2>2. f \in BOOLEAN
    BY <1>0 DEF ViewRec
  <2> HIDE DEF f
  <2>3. view' \in ViewRec
    BY <1>0, <2>1, <2>2 DEF ViewRec
  <2> QED
    BY <1>13, <2>1, <2>3
<1>15. ASSUME measure PROVE LogsInv'
  <2> DEFINE o == OutOfSight
             p == ~OutOfSight
  <2>1. view' = [view EXCEPT !.frame = FALSE, !.far = o, !.stuck = p, !.button = o] /\ runnerLog' = runnerLog /\ logs' = logs /\ tails' = tails
    BY <1>15 DEF measure
  <2>2. o \in BOOLEAN /\ p \in BOOLEAN
    BY DEF OutOfSight
  <2> HIDE DEF o, p
  <2>3. view' \in ViewRec
    BY <1>0, <2>1, <2>2 DEF ViewRec
  <2> QED
    BY <1>13, <2>1, <2>3
<1>16. ASSUME NEW away \in BOOLEAN, ScrollAway(away) PROVE LogsInv'
  <2> DEFINE p == ~away
  <2>1. view' = [view EXCEPT !.far = away, !.stuck = p, !.button = away, !.away = away] /\ runnerLog' = runnerLog /\ logs' = logs /\ tails' = tails
    BY <1>16 DEF ScrollAway
  <2>2. p \in BOOLEAN
    OBVIOUS
  <2> HIDE DEF p
  <2>3. view' \in ViewRec
    BY <1>0, <2>1, <2>2 DEF ViewRec
  <2> QED
    BY <1>13, <2>1, <2>3
<1>17. ASSUME logsJumpDown PROVE LogsInv'
  <2>1. view' = [view EXCEPT !.far = FALSE, !.stuck = TRUE, !.button = FALSE, !.away = FALSE] /\ runnerLog' = runnerLog /\ logs' = logs /\ tails' = tails
    BY <1>17 DEF logsJumpDown
  <2>3. view' \in ViewRec
    BY <1>0, <2>1 DEF ViewRec
  <2> QED
    BY <1>13, <2>1, <2>3
<1>18. ASSUME UNCHANGED adminLogVars PROVE LogsInv'
  BY <1>0, <1>13, <1>18 DEF adminLogVars
<1> QED
  BY <1>1, <1>2, <1>3, <1>4, <1>5, <1>6, <1>7, <1>8, <1>9, <1>10, <1>11, <1>12, <1>14, <1>15, <1>16, <1>17, <1>18
  DEF AdminLogsNext

\* The invariant gives the property the runs check, and the type.
LEMMA LogsIs == LogsInv => LogPanelFaithful /\ AdminLogsTypeOK
<1> SUFFICES ASSUME LogsInv PROVE LogPanelFaithful /\ AdminLogsTypeOK
  OBVIOUS
<1>1. runnerLog \in RunnerRec /\ StreamFits(logs) /\ TailsFit(tails) /\ view \in ViewRec
  BY DEF LogsInv
<1>2. LogPanelFaithful
  BY <1>1 DEF LogPanelFaithful, StreamFits, TailsFit
<1>3. logs \in StreamRec /\ Len(logs.heard) <= MaxLogLines /\ tails \in TailsRec
  BY <1>1 DEF StreamFits, TailsFit
<1>4. tails.kind \in LogKinds /\ tails.made \in 0..MaxTailReads /\ tails.reads \subseteq LogReadRec /\ tails.shown \in TailRec
  BY <1>3 DEF TailsRec
<1> QED
  BY <1>1, <1>2, <1>3, <1>4 DEF AdminLogsTypeOK, RunnerRec, StreamRec, LogReadRec, TailRec, ViewRec

-----------------------------------------------------------------------------
(* The administration page                                                 *)

\* The actions of the page, its dialogs, and the state of its sections.
ActKinds == {"start", "stop", "launch", "delete", "download", "edit", "add", "catalog", "maintenance",
             "approve", "reject", "row", "settings", "announce"}

Confirms == {NoConfirm} \cup [kind : {"stop", "launch", "delete", "maintenance"}, arg : 0 .. MaxEntries]

PageRec ==
  [backend : Backends, tab : Tabs, data : SUBSET Plants, forbidden : BOOLEAN, busy : BOOLEAN,
   confirm : Confirms, made : Nat, alone : BOOLEAN]

BodyRec ==
  [open : {"none", "args", "add", "approve"}, subject : 0 .. MaxEntries, fetching : BOOLEAN,
   setting : BOOLEAN, filled : BOOLEAN, text : AdminTexts]

\* The lock is held while an action travels, and there is one at most.
LockFits(busy, m) ==
  /\ busy <=> \E c \in m : c.kind \notin Direct
  /\ \A c, d \in m : c.kind \notin Direct /\ d.kind \notin Direct => c = d

\* The forms that an answer empties are of tabs without a dialog.
FormsFit(tab, backend, open, m) ==
  /\ \A c \in m : c.live /\ c.kind = "announce" => tab = "system"
  /\ \A c \in m : c.live /\ c.kind = "catalog" => tab = "models" /\ backend # "llm"
  /\ open # "none" => (tab = "models" /\ backend = "llm") \/ tab = "requests"

\* Requests sent one at a time since a load: a load in flight will bring what
\* the portal holds, no action travels with it, and what was read is true
\* once neither is left.
ReadsFit(pl, data, m) ==
  /\ (\A c \in m : c.kind \in Direct) => (\E c \in m : c.kind = "load") \/ data \subseteq {pl}
  /\ \A c \in m : c.kind = "load" /\ c.stage = "back" /\ c.says = "ok" => c.saw = pl
  /\ \A c, d \in m : c.kind = "load" => d.kind \in Direct

\* The inductive invariant: at most one action is under way, its forms fit the
\* tab, and a page that alone changed the plant will read it again.
ConsoleInv ==
  /\ plant \in Plants /\ page \in PageRec /\ body \in BodyRec /\ mail \in SUBSET Letters
  /\ \A d, e \in page.data : d = e
  /\ LockFits(page.busy, mail)
  /\ FormsFit(page.tab, page.backend, body.open, mail)
  /\ page.alone => ReadsFit(plant, page.data, mail)

\* A request that leaves, and the plant nobody has read yet.
LEMMA ConsoleSets ==
  /\ PlantUnread \in Plants
  /\ \A kind \in ActKinds \cup Direct, arg \in 0 .. MaxEntries, nr \in Nat :
       /\ Letter(kind, arg, nr) \in Letters
       /\ Letter(kind, arg, nr).kind = kind /\ Letter(kind, arg, nr).stage = "sent"
       /\ Letter(kind, arg, nr).live
  /\ \A kind \in ActKinds : kind \notin Direct /\ kind # "load"
  /\ 0 \in 0 .. MaxEntries /\ \A e \in Entries : e \in 0 .. MaxEntries
<1> USE ConsoleAssumption
<1>1. PlantUnread \in Plants
  <2>1. 1 \in 1 .. MaxEntries + 1
    OBVIOUS
  <2> QED
    BY <2>1 DEF PlantUnread, Plants, Statuses, RowStates, AdminTexts
<1>2. ASSUME NEW kind \in ActKinds \cup Direct, NEW arg \in 0 .. MaxEntries, NEW nr \in Nat
      PROVE  /\ Letter(kind, arg, nr) \in Letters
             /\ Letter(kind, arg, nr).kind = kind /\ Letter(kind, arg, nr).stage = "sent"
             /\ Letter(kind, arg, nr).live
  BY <1>1 DEF Letter, Letters, ActKinds, Direct, Reads
<1>3. \A kind \in ActKinds : kind \notin Direct /\ kind # "load"
  BY DEF ActKinds, Direct, Reads
<1>4. 0 \in 0 .. MaxEntries /\ \A e \in Entries : e \in 0 .. MaxEntries
  BY DEF Entries
<1> QED
  BY <1>1, <1>2, <1>3, <1>4

\* A section that mounts has nothing open.
LEMMA MountedIs ==
  ASSUME NEW tab, NEW data PROVE Mounted(tab, data) \in BodyRec /\ Mounted(tab, data).open = "none"
<1> DEFINE b == tab = "users" /\ data # {}
           t == IF b THEN "served" ELSE "empty"
<1>1. b \in BOOLEAN /\ t \in AdminTexts
  BY DEF AdminTexts
<1>2. Mounted(tab, data) = [open |-> "none", subject |-> 0, fetching |-> FALSE, setting |-> FALSE, filled |-> b, text |-> t]
  BY DEF Mounted
<1> HIDE DEF b, t
<1> QED
  BY <1>1, <1>2, ConsoleSets DEF BodyRec

\* What a request does to the portal.
LEMMA ActOutcomeIs ==
  ASSUME NEW c \in Letters, plant \in Plants, ~Impossible(plant, c)
  PROVE  Outcome(plant, c) \in Plants /\ (c.kind \in Direct => Outcome(plant, c) = plant)
<1> USE ConsoleAssumption
<1>1. CASE c.kind \in {"start", "launch"}
  <2>1. Outcome(plant, c) = [plant EXCEPT !.status = "starting"]
    BY <1>1 DEF Outcome
  <2> QED
    BY <1>1, <2>1 DEF Plants, Statuses, Direct, Reads
<1>2. CASE c.kind = "stop"
  <2>1. Outcome(plant, c) = [plant EXCEPT !.status = "stopped"]
    BY <1>2 DEF Outcome
  <2> QED
    BY <1>2, <2>1 DEF Plants, Statuses, Direct, Reads
<1>3. CASE c.kind \in {"add", "catalog"}
  <2> DEFINE n == plant.next + 1
             e == plant.entries \cup {plant.next}
  <2>1. Outcome(plant, c) = [plant EXCEPT !.entries = e, !.next = n]
    BY <1>3 DEF Outcome, Plants
  <2>2. n \in 1 .. MaxEntries + 1 /\ e \in SUBSET Entries
    BY <1>3 DEF Plants, Impossible, Entries
  <2> HIDE DEF n, e
  <2> QED
    BY <1>3, <2>1, <2>2 DEF Plants, Direct, Reads
<1>4. CASE c.kind = "delete"
  <2>1. Outcome(plant, c) = [plant EXCEPT !.entries = @ \ {c.arg}, !.edited = @ \ {c.arg}]
    BY <1>4 DEF Outcome
  <2> QED
    BY <1>4, <2>1 DEF Plants, Direct, Reads
<1>5. CASE c.kind = "edit"
  <2>1. Outcome(plant, c) = [plant EXCEPT !.edited = @ \cup ({c.arg} \cap plant.entries)]
    BY <1>5 DEF Outcome
  <2> QED
    BY <1>5, <2>1 DEF Plants, Direct, Reads
<1>6. CASE c.kind = "download"
  <2>1. Outcome(plant, c) = [plant EXCEPT !.fetching = TRUE]
    BY <1>6 DEF Outcome
  <2> QED
    BY <1>6, <2>1 DEF Plants, Direct, Reads
<1>7. CASE c.kind = "maintenance"
  <2>1. Outcome(plant, c) = [plant EXCEPT !.maintenance = ~plant.maintenance]
    BY <1>7 DEF Outcome, Plants
  <2> DEFINE m == ~plant.maintenance
  <2>2. m \in BOOLEAN
    OBVIOUS
  <2>3. Outcome(plant, c) = [plant EXCEPT !.maintenance = m]
    BY <2>1
  <2> HIDE DEF m
  <2> QED
    BY <1>7, <2>2, <2>3 DEF Plants, Direct, Reads
<1>8. CASE c.kind = "approve"
  <2>1. Outcome(plant, c) = [plant EXCEPT !.row = "done"]
    BY <1>8 DEF Outcome
  <2> QED
    BY <1>8, <2>1 DEF Plants, RowStates, Direct, Reads
<1>9. CASE c.kind = "reject"
  <2>1. Outcome(plant, c) = [plant EXCEPT !.row = "rejected"]
    BY <1>9 DEF Outcome
  <2> QED
    BY <1>9, <2>1 DEF Plants, RowStates, Direct, Reads
<1>10. CASE c.kind = "row"
  <2>1. Outcome(plant, c) = [plant EXCEPT !.row = "none"]
    BY <1>10 DEF Outcome
  <2> QED
    BY <1>10, <2>1 DEF Plants, RowStates, Direct, Reads
<1>11. CASE c.kind = "settings"
  <2>1. Outcome(plant, c) = [plant EXCEPT !.quota = "served"]
    BY <1>11 DEF Outcome
  <2> QED
    BY <1>11, <2>1 DEF Plants, AdminTexts, Direct, Reads
<1>12. CASE c.kind \in {"load", "fetch", "budget", "announce"}
  <2>1. Outcome(plant, c) = plant
    BY <1>12 DEF Outcome
  <2> QED
    BY <2>1
<1> QED
  BY <1>1, <1>2, <1>3, <1>4, <1>5, <1>6, <1>7, <1>8, <1>9, <1>10, <1>11, <1>12 DEF Letters

\* The page opens with its first read under way.
LEMMA ConsoleInitInv == ConsoleInit => ConsoleInv
<1> SUFFICES ASSUME ConsoleInit PROVE ConsoleInv
  OBVIOUS
<1> USE ConsoleAssumption
<1>1. PICK s \in {"running", "failed", "stopped"}, backend \in Backends, row \in {"none", "pending"},
        tab \in Tabs, served \in BOOLEAN, installed \in BOOLEAN :
       /\ tab # "models" => backend = "llm" /\ s = "running"
       /\ tab = "models" => served
       /\ s = "failed" => backend = "asr"
       /\ tab = "requests" \/ row = "none"
       /\ installed \/ (backend = "decisions" /\ s = "stopped")
       /\ plant = [PlantUnread EXCEPT !.status = s, !.enabled = installed,
                     !.row = row, !.entries = {1} \cap Entries, !.next = 2]
       /\ page = [backend |-> backend, tab |-> tab, data |-> IF served THEN {plant} ELSE {}, forbidden |-> FALSE,
                  busy |-> FALSE, confirm |-> NoConfirm, made |-> IF served THEN 0 ELSE 1, alone |-> TRUE]
       /\ body = Mounted(tab, page.data)
       /\ mail = IF served THEN {} ELSE {Letter("load", 0, 1)}
  BY DEF ConsoleInit
<1>2. plant \in Plants
  <2>1. 2 \in 1 .. MaxEntries + 1 /\ {1} \cap Entries \in SUBSET Entries
    OBVIOUS
  <2> QED
    BY <1>1, <2>1, ConsoleSets DEF Plants, Statuses, RowStates
<1>3. page \in PageRec
  <2> DEFINE d == IF served THEN {plant} ELSE {}
             n == IF served THEN 0 ELSE 1
  <2>1. d \in SUBSET Plants /\ n \in Nat
    BY <1>2
  <2>2. page = [backend |-> backend, tab |-> tab, data |-> d, forbidden |-> FALSE,
                  busy |-> FALSE, confirm |-> NoConfirm, made |-> n, alone |-> TRUE]
    BY <1>1
  <2> HIDE DEF d, n
  <2> QED
    BY <2>1, <2>2 DEF PageRec, Confirms
<1>4. body \in BodyRec /\ body.open = "none"
  BY <1>1, MountedIs
<1>5. \A c \in mail : c \in Letters /\ c.kind = "load" /\ c.stage = "sent"
  BY <1>1, ConsoleSets DEF Direct, Reads
<1>6. page.data \subseteq {plant} /\ ~page.busy /\ page.tab = tab /\ page.backend = backend
  BY <1>1
<1>7. LockFits(page.busy, mail)
  BY <1>5, <1>6 DEF LockFits, Direct, Reads
<1>8. FormsFit(page.tab, page.backend, body.open, mail)
  BY <1>4, <1>5 DEF FormsFit
<1>9. ReadsFit(plant, page.data, mail)
  BY <1>5, <1>6 DEF ReadsFit, Direct, Reads
<1> QED
  BY <1>2, <1>3, <1>4, <1>5, <1>6, <1>7, <1>8, <1>9 DEF ConsoleInv

\* A request that leaves: an action, under the lock, or one beside it.
LEMMA PostedIs ==
  ASSUME ConsoleInv, NEW kind, NEW d, d \in PageRec, d.made = page.made, d.alone = page.alone
  PROVE  /\ Posted(d, kind) \in PageRec
         /\ Posted(d, kind).tab = d.tab /\ Posted(d, kind).backend = d.backend
         /\ Posted(d, kind).data = d.data /\ Posted(d, kind).busy = d.busy
         /\ Posted(d, kind).alone => mail = {} /\ (kind = "load" \/ page.alone)
         /\ page.made + 1 \in Nat
<1> DEFINE n == d.made + 1
           a == mail = {} /\ (kind = "load" \/ d.alone)
<1>1. Posted(d, kind) = [d EXCEPT !.made = n, !.alone = a]
  BY DEF Posted, PageRec
<1>2. n \in Nat /\ a \in BOOLEAN /\ page.made + 1 \in Nat
  BY DEF ConsoleInv, PageRec
<1>3. a => mail = {} /\ (kind = "load" \/ page.alone)
  OBVIOUS
<1> HIDE DEF n, a
<1>4. [d EXCEPT !.made = n, !.alone = a] \in PageRec
  BY <1>2 DEF PageRec
<1> QED
  BY <1>1, <1>2, <1>3, <1>4 DEF PageRec

\* act() posts one action and marks the page busy.
LEMMA ActKeeps ==
  ASSUME ConsoleInv, NEW k \in Confirms, NEW d, d = [page EXCEPT !.confirm = k],
         NEW p \in BodyRec, p.open # "none" => body.open # "none",
         NEW kind \in ActKinds, NEW arg \in 0 .. MaxEntries,
         kind = "announce" => page.tab = "system",
         kind = "catalog" => page.tab = "models" /\ page.backend # "llm",
         act(d, p, kind, arg)
  PROVE  ConsoleInv' /\ KeepsKeystrokes
<1> DEFINE e == [d EXCEPT !.busy = TRUE]
           c == Letter(kind, arg, page.made + 1)
<1>0. page \in PageRec
  BY DEF ConsoleInv
<1>1. page' = Posted(e, kind) /\ body' = p /\ mail' = mail \cup {c} /\ plant' = plant /\ ~page.busy
  BY DEF act, actionDisabled
<1>2. /\ e \in PageRec /\ e.made = page.made /\ e.alone = page.alone
      /\ e.tab = page.tab /\ e.backend = page.backend /\ e.data = page.data /\ e.busy
  BY <1>0 DEF PageRec
<1> HIDE DEF e
<1>3. /\ page' \in PageRec /\ page'.tab = page.tab /\ page'.backend = page.backend /\ page'.data = page.data
      /\ page'.busy /\ (page'.alone => mail = {} /\ (kind = "load" \/ page.alone)) /\ page.made + 1 \in Nat
  BY <1>1, <1>2, PostedIs
<1>4. c \in Letters /\ c.kind = kind /\ c.kind \notin Direct /\ c.kind # "load"
  BY <1>3, ConsoleSets
<1> HIDE DEF c
<1>5. LockFits(page'.busy, mail')
  BY <1>1, <1>3, <1>4 DEF ConsoleInv, LockFits
<1>6. FormsFit(page'.tab, page'.backend, body'.open, mail')
  BY <1>1, <1>3, <1>4 DEF ConsoleInv, FormsFit
<1>7. page'.alone => ReadsFit(plant', page'.data, mail')
  BY <1>1, <1>3, <1>4 DEF ReadsFit
<1>8. ConsoleInv'
  BY <1>1, <1>3, <1>4, <1>5, <1>6, <1>7 DEF ConsoleInv
<1> QED
  BY <1>1, <1>8 DEF KeepsKeystrokes

\* A request outside act() leaves the sections' forms alone.
LEMMA SideKeeps ==
  ASSUME ConsoleInv, NEW kind \in Direct, NEW p \in BodyRec, p.open = body.open,
         page' = Posted(page, kind), body' = p, plant' = plant,
         mail' = mail \cup {Letter(kind, 0, page.made + 1)}
  PROVE  ConsoleInv' /\ KeepsKeystrokes
<1> DEFINE c == Letter(kind, 0, page.made + 1)
<1>0. page \in PageRec
  BY DEF ConsoleInv
<1>3. /\ page' \in PageRec /\ page'.tab = page.tab /\ page'.backend = page.backend /\ page'.data = page.data
      /\ page'.busy = page.busy /\ (page'.alone => mail = {} /\ (kind = "load" \/ page.alone)) /\ page.made + 1 \in Nat
  BY <1>0, PostedIs
<1>4. c \in Letters /\ c.kind = kind /\ c.kind \in Direct /\ c.stage = "sent" /\ mail' = mail \cup {c}
  BY <1>3, ConsoleSets
<1> HIDE DEF c
<1>5. LockFits(page'.busy, mail')
  BY <1>3, <1>4 DEF ConsoleInv, LockFits
<1>6. FormsFit(page'.tab, page'.backend, body'.open, mail')
  BY <1>3, <1>4 DEF ConsoleInv, FormsFit, Direct, Reads
<1>7. page'.alone => ReadsFit(plant', page'.data, mail')
  BY <1>3, <1>4 DEF ReadsFit, ConsoleInv
<1>8. ConsoleInv'
  BY <1>3, <1>4, <1>5, <1>6, <1>7 DEF ConsoleInv
<1> QED
  BY <1>4, <1>8 DEF KeepsKeystrokes

\* Every step of the page keeps the invariant and every keystroke.
LEMMA ConsoleStep == ConsoleInv /\ [ConsoleNext]_consoleVars => ConsoleInv' /\ KeepsKeystrokes
<1> SUFFICES ASSUME ConsoleInv, [ConsoleNext]_consoleVars PROVE ConsoleInv' /\ KeepsKeystrokes
  OBVIOUS
<1> USE ConsoleAssumption
<1>0. plant \in Plants /\ page \in PageRec /\ body \in BodyRec /\ mail \in SUBSET Letters
  BY DEF ConsoleInv
<1>b. body.open \in {"none", "args", "add", "approve"} /\ page = [page EXCEPT !.confirm = page.confirm] /\ page.confirm \in Confirms
      /\ 0 \in 0 .. MaxEntries
  BY <1>0 DEF BodyRec, PageRec
<1>d. Direct = {"load", "fetch", "budget"}
  BY DEF Direct, Reads
<1>1. ASSUME NEW c \in mail, MailArrives(c) PROVE ConsoleInv' /\ KeepsKeystrokes
  <2>1. PICK says \in {"ok", "refused", "lost"}, done \in BOOLEAN :
       /\ says = "ok" => done
       /\ says = "refused" => ~done
       /\ done => ~Impossible(plant, c)
       /\ plant' = IF done THEN Outcome(plant, c) ELSE plant
       /\ mail' = (mail \ {c}) \cup {[c EXCEPT !.stage = "back", !.says = says, !.saw = IF c.kind \in Reads THEN plant ELSE @]}
    BY <1>1 DEF MailArrives
  <2>2. c \in Letters /\ c.stage = "sent" /\ page' = page /\ body' = body
    BY <1>0, <1>1 DEF MailArrives
  <2> DEFINE v == IF c.kind \in Reads THEN plant ELSE c.saw
             x == [c EXCEPT !.stage = "back", !.says = says, !.saw = v]
  <2>3. mail' = (mail \ {c}) \cup {x}
    BY <2>1, <2>2 DEF Letters
  <2>4. v \in Plants /\ (c.kind \in Reads => v = plant)
    BY <1>0, <2>2 DEF Letters
  <2> HIDE DEF v
  <2>5. x \in Letters /\ x.kind = c.kind /\ x.live = c.live /\ x.saw = v
    BY <2>2, <2>4 DEF Letters
  <2>6. plant' \in Plants /\ (c.kind \in Direct => plant' = plant)
    BY <1>0, <2>1, <2>2, ActOutcomeIs
  <2> HIDE DEF x
  <2>7. LockFits(page'.busy, mail')
    BY <2>2, <2>3, <2>5 DEF ConsoleInv, LockFits
  <2>8. FormsFit(page'.tab, page'.backend, body'.open, mail')
    BY <2>2, <2>3, <2>5 DEF ConsoleInv, FormsFit
  <2>9. page'.alone => ReadsFit(plant', page'.data, mail')
    <3> SUFFICES ASSUME page.alone PROVE ReadsFit(plant', page.data, mail')
      BY <2>2
    <3>1. ReadsFit(plant, page.data, mail)
      BY DEF ConsoleInv
    <3>2. CASE c.kind \in Direct
      <4>1. x.kind = "load" => x.saw = plant'
        BY <2>4, <2>5, <2>6, <3>2 DEF Reads
      <4> QED
        BY <2>3, <2>5, <2>6, <3>1, <3>2, <4>1 DEF ReadsFit
    <3>3. CASE c.kind \notin Direct
      <4>1. \A d \in mail : d.kind # "load"
        BY <3>1, <3>3 DEF ReadsFit
      <4> QED
        BY <1>d, <2>3, <2>5, <3>3, <4>1 DEF ReadsFit
    <3> QED
      BY <3>2, <3>3
  <2>10. ConsoleInv'
    BY <1>0, <2>2, <2>3, <2>5, <2>6, <2>7, <2>8, <2>9 DEF ConsoleInv
  <2>11. KeepsKeystrokes
    BY <2>2, <2>3 DEF KeepsKeystrokes
  <2> QED
    BY <2>10, <2>11
\* An answer handled, or nothing but the page moved.
<1>2. ASSUME NEW c \in mail, LoadLands(c) PROVE ConsoleInv' /\ KeepsKeystrokes
  <2>1. c.kind = "load" /\ c.stage = "back" /\ mail' = mail \ {c} /\ plant' = plant /\ c \in Letters
    BY <1>0, <1>2 DEF LoadLands
  <2>l. LockFits(page.busy, mail')
    BY <1>d, <2>1 DEF ConsoleInv, LockFits
  <2>f. FormsFit(page.tab, page.backend, body.open, mail')
    BY <2>1 DEF ConsoleInv, FormsFit
  <2>2. CASE c.says # "ok"
    <3> DEFINE b == page.forbidden \/ c.says = "refused"
    <3>1. page' = [page EXCEPT !.forbidden = b, !.alone = FALSE] /\ body' = body
      BY <1>0, <1>2, <2>2 DEF LoadLands, PageRec
    <3>2. b \in BOOLEAN
      OBVIOUS
    <3> HIDE DEF b
    <3>3. page' \in PageRec /\ page'.tab = page.tab /\ page'.backend = page.backend /\ page'.data = page.data
          /\ page'.busy = page.busy /\ ~page'.alone
      BY <1>0, <3>1, <3>2 DEF PageRec
    <3>4. ConsoleInv'
      BY <1>0, <2>1, <2>l, <2>f, <3>1, <3>3 DEF ConsoleInv
    <3>5. KeepsKeystrokes
      BY <3>1 DEF KeepsKeystrokes
    <3> QED
      BY <3>4, <3>5
  <2>3. CASE c.says = "ok"
    <3>1. page' = [page EXCEPT !.data = {c.saw}]
          /\ body' = IF page.tab = "users" /\ ~body.filled
                     THEN [body EXCEPT !.filled = TRUE, !.text = "served"] ELSE body
      BY <1>2, <2>3 DEF LoadLands
    <3>2. body' \in BodyRec /\ body'.open = body.open
      BY <1>0, <3>1 DEF BodyRec, AdminTexts
    <3>3. page' \in PageRec /\ page'.tab = page.tab /\ page'.backend = page.backend /\ page'.data = {c.saw}
          /\ page'.busy = page.busy /\ page'.alone = page.alone
      BY <1>0, <2>1, <3>1 DEF PageRec, Letters
    <3>4. page.alone => ReadsFit(plant, {c.saw}, mail')
      BY <2>1, <2>3 DEF ConsoleInv, ReadsFit
    <3>5. ConsoleInv'
      BY <1>0, <2>1, <2>l, <2>f, <3>2, <3>3, <3>4 DEF ConsoleInv
    <3>6. KeepsKeystrokes
      BY <1>0, <3>1, <3>2 DEF KeepsKeystrokes, BodyRec
    <3> QED
      BY <3>5, <3>6
  <2> QED
    BY <2>2, <2>3
<1>3. ASSUME NEW c \in mail, ActLands(c) PROVE ConsoleInv' /\ KeepsKeystrokes
  <2> DEFINE n == page.made + 1
             l == Letter("load", 0, n)
             again == {l}
             fetch == IF c.kind = "download" /\ c.live THEN {Letter("fetch", 0, n)} ELSE {}
             a == page.alone /\ c.says # "lost" /\ mail = {c}
             done == c.says = "ok"
  <2>1. /\ c.kind \notin Direct /\ c.stage = "back"
        /\ mail' = (mail \ {c}) \cup again \cup fetch
        /\ page' = [page EXCEPT !.busy = FALSE, !.made = n, !.alone = a]
        /\ body' = CASE c.live /\ c.kind \in {"add", "edit"} /\ done -> [body EXCEPT !.open = "none"]
                     [] c.live /\ c.kind \in {"catalog", "announce"} -> [body EXCEPT !.text = "empty"]
                     [] OTHER -> body
        /\ plant' = plant
    BY <1>0, <1>3 DEF ActLands, PageRec
  <2>2. n \in Nat /\ a \in BOOLEAN /\ (a => mail = {c} /\ page.alone)
    BY <1>0 DEF PageRec
  <2> HIDE DEF n, a
  <2>3. page' \in PageRec /\ page'.tab = page.tab /\ page'.backend = page.backend /\ page'.data = page.data
          /\ ~page'.busy /\ page'.alone = a
    BY <1>0, <2>1, <2>2 DEF PageRec
  <2>4. /\ l \in Letters /\ l.kind = "load" /\ l.stage = "sent"
        /\ \A d \in fetch : d \in Letters /\ d.kind = "fetch" /\ d.stage = "sent"
    BY <1>d, <2>2, <1>b, ConsoleSets
  <2> HIDE DEF l, fetch
  <2>5. c \in Letters /\ c.kind \in ActKinds
    BY <1>0, <1>d, <2>1 DEF Letters, ActKinds
  <2>6. \A d \in mail' : d \in Letters /\ d.kind \in Direct
    BY <1>0, <1>d, <2>1, <2>4 DEF ConsoleInv, LockFits
  <2>7. LockFits(page'.busy, mail')
    BY <2>3, <2>6 DEF LockFits
  <2>8. \/ body' = [body EXCEPT !.open = "none"] /\ c.kind \in {"add", "edit"} /\ done
        \/ body' = [body EXCEPT !.text = "empty"] /\ c.live /\ c.kind \in {"catalog", "announce"}
        \/ body' = body
    BY <2>1
  <2>9. body' \in BodyRec /\ (body'.open = body.open \/ body'.open = "none")
    BY <1>0, <2>8 DEF BodyRec, AdminTexts
  <2>10. FormsFit(page'.tab, page'.backend, body'.open, mail')
    BY <1>d, <2>3, <2>6, <2>9 DEF ConsoleInv, FormsFit
  <2>11. page'.alone => ReadsFit(plant', page'.data, mail')
    <3> SUFFICES ASSUME page'.alone PROVE ReadsFit(plant', page'.data, mail')
      OBVIOUS
    <3>1. mail' = {l} \cup fetch
      BY <2>1, <2>2, <2>3
    <3> QED
      BY <2>4, <2>6, <3>1 DEF ReadsFit
  <2>12. ConsoleInv'
    BY <1>0, <2>1, <2>3, <2>6, <2>7, <2>9, <2>10, <2>11 DEF ConsoleInv
  <2>13. KeepsKeystrokes
    <3> SUFFICES ASSUME NEW x \in mail \ mail',
                        body.text = "typed", page'.tab = page.tab, body.open # "none" \/ page.tab = "users"
                 PROVE  /\ body'.text = "typed"
                        /\ body'.open # body.open => x.kind \in {"add", "edit"} /\ x.says = "ok"
      BY DEF KeepsKeystrokes
    <3>1. x = c
      BY <2>1
    <3>2. ~(c.live /\ c.kind \in {"catalog", "announce"})
      BY DEF ConsoleInv, FormsFit
    <3> QED
      BY <1>0, <2>8, <3>1, <3>2 DEF BodyRec
  <2> QED
    BY <2>12, <2>13
<1>4. ASSUME NEW c \in mail, FetchLands(c) PROVE ConsoleInv' /\ KeepsKeystrokes
  <2>1. /\ c.kind = "fetch" /\ c.stage = "back" /\ mail' = mail \ {c} /\ plant' = plant /\ page' = page
        /\ body' = IF c.live /\ c.says = "ok" THEN [body EXCEPT !.fetching = c.saw.fetching] ELSE body
        /\ c \in Letters
    BY <1>0, <1>4 DEF FetchLands
  <2>2. c.saw.fetching \in BOOLEAN
    BY <2>1 DEF Letters, Plants
  <2>3. body' \in BodyRec /\ body'.open = body.open /\ body'.text = body.text
    BY <1>0, <2>1, <2>2 DEF BodyRec
  <2>4. LockFits(page'.busy, mail')
    BY <1>d, <2>1 DEF ConsoleInv, LockFits
  <2>5. FormsFit(page'.tab, page'.backend, body'.open, mail')
    BY <2>1, <2>3 DEF ConsoleInv, FormsFit
  <2>6. page'.alone => ReadsFit(plant', page'.data, mail')
    BY <1>d, <2>1 DEF ConsoleInv, ReadsFit
  <2>7. ConsoleInv'
    BY <1>0, <2>1, <2>3, <2>4, <2>5, <2>6 DEF ConsoleInv
  <2>8. KeepsKeystrokes
    BY <2>3 DEF KeepsKeystrokes
  <2> QED
    BY <2>7, <2>8
<1>5. ASSUME NEW c \in mail, BudgetLands(c) PROVE ConsoleInv' /\ KeepsKeystrokes
  <2> DEFINE a == page.alone /\ c.says # "lost"
  <2>1. /\ c.kind = "budget" /\ c.stage = "back" /\ mail' = mail \ {c} /\ plant' = plant
        /\ page' = [page EXCEPT !.alone = a]
        /\ body' = IF c.live THEN [body EXCEPT !.setting = FALSE] ELSE body
    BY <1>0, <1>5 DEF BudgetLands, PageRec
  <2>2. a \in BOOLEAN /\ (a => page.alone)
    OBVIOUS
  <2> HIDE DEF a
  <2>3. body' \in BodyRec /\ body'.open = body.open /\ body'.text = body.text
    BY <1>0, <2>1 DEF BodyRec
  <2>p. /\ page' \in PageRec /\ page'.tab = page.tab /\ page'.backend = page.backend /\ page'.data = page.data
        /\ page'.busy = page.busy /\ page'.alone = a
    BY <1>0, <2>1, <2>2 DEF PageRec
  <2>4. LockFits(page'.busy, mail')
    BY <1>d, <2>1, <2>p DEF ConsoleInv, LockFits
  <2>5. FormsFit(page'.tab, page'.backend, body'.open, mail')
    BY <2>1, <2>3, <2>p DEF ConsoleInv, FormsFit
  <2>6. page'.alone => ReadsFit(plant', page'.data, mail')
    BY <1>d, <2>1, <2>2, <2>p DEF ConsoleInv, ReadsFit
  <2>7. ConsoleInv'
    BY <1>0, <2>1, <2>3, <2>4, <2>5, <2>6, <2>p DEF ConsoleInv
  <2>8. KeepsKeystrokes
    BY <2>3 DEF KeepsKeystrokes
  <2> QED
    BY <2>7, <2>8
<1>6. ASSUME PlantMoves PROVE ConsoleInv' /\ KeepsKeystrokes
  <2> DEFINE T == CASE plant.status = "starting" -> {"running", "failed"}
                    [] plant.status = "running" -> {"stopped"}
                    [] OTHER -> {}
             w == IF plant.row = "none" THEN "pending" ELSE plant.row
  <2>1. /\ page' = [page EXCEPT !.alone = FALSE] /\ mail' = mail /\ body' = body
        /\ plant' \in {[plant EXCEPT !.status = t] : t \in T}
                      \cup {[plant EXCEPT !.fetching = FALSE], [plant EXCEPT !.row = w]}
    BY <1>0, <1>6 DEF PlantMoves, Plants
  <2>2. T \subseteq Statuses /\ w \in RowStates
    BY <1>0 DEF Statuses, RowStates, Plants
  <2> HIDE DEF T, w
  <2>3. plant' \in Plants
    <3>1. ASSUME NEW t \in T PROVE [plant EXCEPT !.status = t] \in Plants
      BY <1>0, <2>2 DEF Plants
    <3>2. [plant EXCEPT !.fetching = FALSE] \in Plants /\ [plant EXCEPT !.row = w] \in Plants
      BY <1>0, <2>2 DEF Plants
    <3> QED
      BY <2>1, <3>1, <3>2
  <2>p. /\ page' \in PageRec /\ page'.tab = page.tab /\ page'.backend = page.backend /\ page'.data = page.data
        /\ page'.busy = page.busy /\ ~page'.alone
    BY <1>0, <2>1 DEF PageRec
  <2>4. ConsoleInv'
    BY <1>0, <2>1, <2>3, <2>p DEF ConsoleInv
  <2> QED
    BY <2>1, <2>4 DEF KeepsKeystrokes
<1>7. ASSUME AdminPoll PROVE ConsoleInv' /\ KeepsKeystrokes
  BY <1>0, <1>7, <1>d, SideKeeps DEF AdminPoll
<1>8. ASSUME refreshDl PROVE ConsoleInv' /\ KeepsKeystrokes
  BY <1>0, <1>8, <1>d, SideKeeps DEF refreshDl
<1>9. ASSUME SetBudget PROVE ConsoleInv' /\ KeepsKeystrokes
  <2> DEFINE p == [body EXCEPT !.setting = TRUE]
  <2>1. p \in BodyRec /\ p.open = body.open
    BY <1>0 DEF BodyRec
  <2>2. body' = p /\ page' = Posted(page, "budget") /\ mail' = mail \cup {Letter("budget", 0, page.made + 1)} /\ plant' = plant
    BY <1>9 DEF SetBudget
  <2> HIDE DEF p
  <2> QED
    BY <1>d, <2>1, <2>2, SideKeeps
<1>10. ASSUME NEW tab \in Tabs, selectTab(tab) PROVE ConsoleInv' /\ KeepsKeystrokes
  <2> DEFINE f(c) == [c EXCEPT !.live = c.kind = "load"]
  <2>1. /\ tab # page.tab /\ page' = [page EXCEPT !.tab = tab] /\ body' = Mounted(tab, page.data)
        /\ mail' = {f(c) : c \in mail} /\ plant' = plant
    BY <1>10 DEF selectTab
  <2>2. body' \in BodyRec /\ body'.open = "none"
    BY <2>1, MountedIs
  <2>p. /\ page' \in PageRec /\ page'.tab = tab /\ page'.backend = page.backend /\ page'.data = page.data
        /\ page'.busy = page.busy /\ page'.alone = page.alone
    BY <1>0, <2>1 DEF PageRec
  <2>3. \A c \in mail : /\ f(c) \in Letters /\ f(c).kind = c.kind /\ f(c).stage = c.stage /\ f(c).says = c.says
                        /\ f(c).saw = c.saw /\ (f(c).live <=> c.kind = "load")
    <3> SUFFICES ASSUME NEW c \in mail
                 PROVE  /\ f(c) \in Letters /\ f(c).kind = c.kind /\ f(c).stage = c.stage /\ f(c).says = c.says
                        /\ f(c).saw = c.saw /\ (f(c).live <=> c.kind = "load")
      OBVIOUS
    <3> DEFINE b == c.kind = "load"
    <3>1. b \in BOOLEAN /\ c \in Letters
      BY <1>0
    <3>2. f(c) = [c EXCEPT !.live = b]
      OBVIOUS
    <3>3. b <=> c.kind = "load"
      OBVIOUS
    <3> HIDE DEF b, f
    <3> QED
      BY <3>1, <3>2, <3>3 DEF Letters
  <2>m. \A x \in mail' : \E c \in mail : x = f(c)
    BY <2>1
  <2>n. \A c \in mail : f(c) \in mail'
    BY <2>1
  <2> HIDE DEF f
  <2>4. mail' \in SUBSET Letters
    BY <2>3, <2>m
  <2>5. LockFits(page'.busy, mail')
    BY <2>3, <2>m, <2>n, <2>p DEF ConsoleInv, LockFits
  <2>6. FormsFit(page'.tab, page'.backend, body'.open, mail')
    BY <2>2, <2>3, <2>m, <2>p DEF FormsFit
  <2>7. page'.alone => ReadsFit(plant', page'.data, mail')
    <3> SUFFICES ASSUME page.alone PROVE ReadsFit(plant, page.data, mail')
      BY <2>1, <2>p
    <3>1. ReadsFit(plant, page.data, mail)
      BY DEF ConsoleInv
    <3>2. (\A x \in mail' : x.kind \in Direct) => (\E x \in mail' : x.kind = "load") \/ page.data \subseteq {plant}
      BY <2>3, <2>m, <2>n, <3>1 DEF ReadsFit
    <3>3. \A x \in mail' : x.kind = "load" /\ x.stage = "back" /\ x.says = "ok" => x.saw = plant
      BY <2>3, <2>m, <3>1 DEF ReadsFit
    <3>4. \A x, y \in mail' : x.kind = "load" => y.kind \in Direct
      BY <2>3, <2>m, <3>1 DEF ReadsFit
    <3> QED
      BY <3>2, <3>3, <3>4 DEF ReadsFit
  <2>8. ConsoleInv'
    BY <1>0, <2>1, <2>2, <2>p, <2>4, <2>5, <2>6, <2>7 DEF ConsoleInv
  <2>9. KeepsKeystrokes
    BY <2>1, <2>p DEF KeepsKeystrokes
  <2> QED
    BY <2>8, <2>9
\* The confirmation alone changes.
<1>11. ASSUME NEW k \in Confirms, page' = [page EXCEPT !.confirm = k], plant' = plant, body' = body, mail' = mail
       PROVE  ConsoleInv' /\ KeepsKeystrokes
  <2>p. /\ page' \in PageRec /\ page'.tab = page.tab /\ page'.backend = page.backend /\ page'.data = page.data
        /\ page'.busy = page.busy /\ page'.alone = page.alone
    BY <1>0, <1>11 DEF PageRec
  <2>1. ConsoleInv'
    BY <1>0, <1>11, <2>p DEF ConsoleInv
  <2> QED
    BY <1>11, <2>1 DEF KeepsKeystrokes
<1>12. ASSUME NEW kind \in {"stop", "launch", "delete", "maintenance"}, NEW arg \in 0 .. MaxEntries, Ask(kind, arg)
       PROVE  ConsoleInv' /\ KeepsKeystrokes
  <2>1. [kind |-> kind, arg |-> arg] \in Confirms
    BY DEF Confirms
  <2> QED
    BY <1>11, <1>12, <2>1 DEF Ask
<1>13. ASSUME CancelConfirm PROVE ConsoleInv' /\ KeepsKeystrokes
  <2>1. NoConfirm \in Confirms
    BY DEF Confirms
  <2> QED
    BY <1>11, <1>13, <2>1 DEF CancelConfirm
<1>14. ASSUME runConfirmedAction PROVE ConsoleInv' /\ KeepsKeystrokes
  <2>1. NoConfirm \in Confirms
    BY DEF Confirms
  <2>2. page.confirm.kind \in {"stop", "launch", "delete", "maintenance"} /\ page.confirm.arg \in 0 .. MaxEntries
    BY <1>b, <1>14 DEF runConfirmedAction, Confirms
  <2> DEFINE d == [page EXCEPT !.confirm = NoConfirm]
             kind == page.confirm.kind
             arg == page.confirm.arg
  <2>3. act(d, body, kind, arg)
    BY <1>14 DEF runConfirmedAction
  <2>4. kind \in ActKinds /\ kind # "announce" /\ kind # "catalog" /\ arg \in 0 .. MaxEntries
    BY <2>2 DEF ActKinds
  <2>5. d = [page EXCEPT !.confirm = NoConfirm]
    OBVIOUS
  <2> HIDE DEF d, kind, arg
  <2> QED
    BY <1>0, <2>1, <2>3, <2>4, <2>5, ActKeeps
\* An action of a tab, with its form as it is.
<1>15. ASSUME NEW kind \in ActKinds, NEW arg \in 0 .. MaxEntries, act(page, body, kind, arg),
              kind = "announce" => page.tab = "system",
              kind = "catalog" => page.tab = "models" /\ page.backend # "llm"
       PROVE  ConsoleInv' /\ KeepsKeystrokes
  BY <1>0, <1>b, <1>15, ActKeeps
<1>k. /\ {"start", "stop", "launch", "delete", "download", "edit", "add", "maintenance", "catalog",
           "approve", "reject", "row", "settings", "announce"} \subseteq ActKinds
      /\ \A e \in Entries : e \in 0 .. MaxEntries
  BY ConsoleSets DEF ActKinds
<1>16. ASSUME AskMaintenance PROVE ConsoleInv' /\ KeepsKeystrokes
  BY <1>b, <1>12, <1>16 DEF AskMaintenance
<1>17. ASSUME StopBackend PROVE ConsoleInv' /\ KeepsKeystrokes
  BY <1>b, <1>12, <1>15, <1>17, <1>k DEF StopBackend
<1>18. ASSUME StartBackend PROVE ConsoleInv' /\ KeepsKeystrokes
  BY <1>b, <1>15, <1>18, <1>k DEF StartBackend
<1>19. ASSUME NEW e \in Entries, LaunchEntry(e) PROVE ConsoleInv' /\ KeepsKeystrokes
  BY <1>12, <1>15, <1>19, <1>k DEF LaunchEntry
<1>20. ASSUME NEW e \in Entries, DeleteEntry(e) PROVE ConsoleInv' /\ KeepsKeystrokes
  BY <1>12, <1>15, <1>20, <1>k DEF DeleteEntry
<1>21. ASSUME NEW e \in Entries, DownloadWeights(e) PROVE ConsoleInv' /\ KeepsKeystrokes
  BY <1>15, <1>21, <1>k DEF DownloadWeights
<1>22. ASSUME SaveArgs PROVE ConsoleInv' /\ KeepsKeystrokes
  <2>1. body.subject \in 0 .. MaxEntries
    BY <1>0 DEF BodyRec
  <2> QED
    BY <1>15, <1>22, <1>k, <2>1 DEF SaveArgs
<1>23. ASSUME SubmitAdd PROVE ConsoleInv' /\ KeepsKeystrokes
  BY <1>b, <1>15, <1>23, <1>k DEF SubmitAdd
<1>24. ASSUME AddToCatalog PROVE ConsoleInv' /\ KeepsKeystrokes
  BY <1>b, <1>15, <1>24, <1>k DEF AddToCatalog, On
<1>25. ASSUME Approve PROVE ConsoleInv' /\ KeepsKeystrokes
  <2> DEFINE p == [body EXCEPT !.open = "none", !.text = "empty"]
  <2>1. p \in BodyRec /\ p.open = "none"
    BY <1>0 DEF BodyRec, AdminTexts
  <2>2. act(page, p, "approve", 0)
    BY <1>25 DEF Approve
  <2>3. "approve" \in ActKinds
    BY <1>k
  <2> HIDE DEF p
  <2> QED
    BY <1>b, <2>1, <2>2, <2>3, ActKeeps
<1>26. ASSUME MarkDone PROVE ConsoleInv' /\ KeepsKeystrokes
  BY <1>b, <1>15, <1>26, <1>k DEF MarkDone
<1>27. ASSUME Reject PROVE ConsoleInv' /\ KeepsKeystrokes
  BY <1>b, <1>15, <1>27, <1>k DEF Reject
<1>28. ASSUME DeleteRow PROVE ConsoleInv' /\ KeepsKeystrokes
  BY <1>b, <1>15, <1>28, <1>k DEF DeleteRow
<1>29. ASSUME ApplySettings PROVE ConsoleInv' /\ KeepsKeystrokes
  BY <1>b, <1>15, <1>29, <1>k DEF ApplySettings
<1>30. ASSUME Announce PROVE ConsoleInv' /\ KeepsKeystrokes
  BY <1>b, <1>15, <1>30, <1>k DEF Announce, On
\* The tab's own state alone changes.
<1>31. ASSUME body' \in BodyRec, page' = page, plant' = plant, mail' = mail,
              body'.open \notin {"none", body.open} => (page.tab = "models" /\ page.backend = "llm") \/ page.tab = "requests"
       PROVE  ConsoleInv' /\ KeepsKeystrokes
  <2>1. FormsFit(page'.tab, page'.backend, body'.open, mail')
    BY <1>31 DEF ConsoleInv, FormsFit
  <2>2. ConsoleInv'
    BY <1>0, <1>31, <2>1 DEF ConsoleInv
  <2> QED
    BY <1>31, <2>2 DEF KeepsKeystrokes
<1>32. ASSUME NEW e \in Entries, OpenArgs(e) PROVE ConsoleInv' /\ KeepsKeystrokes
  <2>1. body' = [body EXCEPT !.open = "args", !.subject = e, !.text = "served"] /\ page' = page /\ plant' = plant /\ mail' = mail
        /\ page.tab = "models" /\ page.backend = "llm"
    BY <1>32 DEF OpenArgs, InCatalog, On
  <2>2. e \in 0 .. MaxEntries
    BY <1>k
  <2>3. body' \in BodyRec
    BY <1>0, <2>1, <2>2 DEF BodyRec, AdminTexts
  <2> QED
    BY <1>31, <2>1, <2>3
<1>33. ASSUME OpenAdd PROVE ConsoleInv' /\ KeepsKeystrokes
  <2>1. body' = [body EXCEPT !.open = "add", !.text = "empty"] /\ page' = page /\ plant' = plant /\ mail' = mail
        /\ page.tab = "models" /\ page.backend = "llm"
    BY <1>33 DEF OpenAdd, On
  <2>3. body' \in BodyRec
    BY <1>0, <2>1 DEF BodyRec, AdminTexts
  <2> QED
    BY <1>31, <2>1, <2>3
<1>34. ASSUME TypeAdminText PROVE ConsoleInv' /\ KeepsKeystrokes
  <2>1. body' = [body EXCEPT !.text = "typed"] /\ page' = page /\ plant' = plant /\ mail' = mail
    BY <1>34 DEF TypeAdminText
  <2>3. body' \in BodyRec /\ body'.open = body.open
    BY <1>0, <2>1 DEF BodyRec, AdminTexts
  <2> QED
    BY <1>31, <2>1, <2>3
<1>35. ASSUME CloseAdminDialog PROVE ConsoleInv' /\ KeepsKeystrokes
  <2>1. body' = [body EXCEPT !.open = "none"] /\ page' = page /\ plant' = plant /\ mail' = mail
    BY <1>35 DEF CloseAdminDialog
  <2>3. body' \in BodyRec /\ body'.open = "none"
    BY <1>0, <2>1 DEF BodyRec
  <2> QED
    BY <1>31, <2>1, <2>3
<1>36. ASSUME OpenApprove PROVE ConsoleInv' /\ KeepsKeystrokes
  <2>1. body' = [body EXCEPT !.open = "approve"] /\ page' = page /\ plant' = plant /\ mail' = mail
        /\ page.tab = "requests"
    BY <1>36 DEF OpenApprove, RowOffered, On
  <2>3. body' \in BodyRec
    BY <1>0, <2>1 DEF BodyRec
  <2> QED
    BY <1>31, <2>1, <2>3
<1>37. ASSUME UNCHANGED consoleVars PROVE ConsoleInv' /\ KeepsKeystrokes
  <2>1. plant' = plant /\ page' = page /\ body' = body /\ mail' = mail
    BY <1>37 DEF consoleVars
  <2> QED
    BY <1>0, <1>31, <2>1
<1> QED
  BY <1>1, <1>2, <1>3, <1>4, <1>5, <1>6, <1>7, <1>8, <1>9, <1>10, <1>13, <1>14, <1>16, <1>17, <1>18, <1>19,
     <1>20, <1>21, <1>22, <1>23, <1>24, <1>25, <1>26, <1>27, <1>28, <1>29, <1>30, <1>32, <1>33, <1>34, <1>35,
     <1>36, <1>37 DEF ConsoleNext

\* The invariant gives the property the runs check, and the type.
LEMMA ConsoleIs == ConsoleInv => ConsoleTruthful /\ ConsoleTypeOK
<1> SUFFICES ASSUME ConsoleInv PROVE ConsoleTruthful /\ ConsoleTypeOK
  OBVIOUS
<1>1. page.alone /\ mail = {} => page.data \subseteq {plant}
  BY DEF ConsoleInv, ReadsFit
<1>2. page.busy <=> \E c \in mail : c.kind \notin Direct
  BY DEF ConsoleInv, LockFits
<1>3. Cardinality(page.data) <= 1
  <2>1. CASE page.data = {}
    BY <2>1, FS_EmptySet
  <2>2. CASE page.data # {}
    <3>1. PICK d : d \in page.data
      BY <2>2
    <3>2. page.data = {d}
      BY <3>1 DEF ConsoleInv
    <3> QED
      BY <3>2, FS_Singleton
  <2> QED
    BY <2>1, <2>2
<1>4. plant \in Plants /\ mail \subseteq Letters /\ body \in BodyRec /\ page \in PageRec
  BY DEF ConsoleInv
<1>5. page.confirm \in Confirms /\ page.tab \in Tabs /\ page.backend \in Backends /\ page.made \in Nat
      /\ page.forbidden \in BOOLEAN /\ page.busy \in BOOLEAN /\ page.alone \in BOOLEAN /\ page.data \in SUBSET Plants
  BY <1>4 DEF PageRec
<1> QED
  BY <1>1, <1>2, <1>3, <1>4, <1>5 DEF ConsoleTruthful, ConsoleTypeOK, Confirms, BodyRec

-----------------------------------------------------------------------------
(* The pages that only read                                                *)

\* The state of a search, and its answers under way.
SearchRec ==
  [query : Queries, timer : BOOLEAN, seq : 0 .. MaxTrips, loading : BOOLEAN, loadingMore : BOOLEAN,
   results : Seq(Queries \X Nat), hasMore : BOOLEAN, error : BOOLEAN, applied : {0} \cup Queries,
   hasty : BOOLEAN]

SearchTrips == [no : 1 .. MaxTrips, query : Queries, skip : 0 .. MaxTrips]

\* The search page l with its questions t: each has a number of its own, the
\* last one asked is known by its indicator and, unless the delay runs, is of
\* the filters on screen; what is listed is of the query applied last.
SearchFits(l, t) ==
  /\ l \in SearchRec /\ t \in SUBSET SearchTrips
  /\ \A c \in t : c.no <= l.seq
  /\ \A c, d \in t : c.no = d.no => c = d
  /\ Len(l.results) <= l.seq
  /\ \A c \in t : c.no = l.seq =>
       /\ Len(l.results) < l.seq
       /\ ~l.timer => c.query = l.query
       /\ c.skip = 0 => l.loading
       /\ c.skip > 0 => /\ l.loadingMore /\ c.skip = Len(l.results)
                        /\ ~l.hasty => c.query = l.applied
  /\ (~l.timer /\ (\A c \in t : c.no # l.seq) /\ ~l.error) => l.applied = l.query
  /\ ~l.hasty => \A i \in 1 .. Len(l.results) : l.results[i] = <<l.applied, i>>

\* The state of the ranking and of the home page.
VisitRec(n) ==
  [view : Queries, shown : {0} \cup Queries, version : 0 .. n, failed : BOOLEAN, since : 1 .. n,
   user : {0} \cup Queries, detail : {0} \cup Queries, asked : 0 .. MaxTrips]

\* The ranking or the home page l with its questions t, the portal's data
\* being of version n: every question is of this visit and of what is chosen,
\* and what is shown with none on the way is too.
VisitFits(kind, l, t, n) ==
  /\ l \in VisitRec(n)
  /\ \A c \in t : /\ c.kind \in {kind, "detail"} /\ c.of \in Queries /\ c.asked \in 1 .. n
                  /\ c.kind = kind => c.asked >= l.since /\ (kind = "ranking" => c.of = l.view)
                  /\ c.kind = "detail" => kind = "ranking" /\ c.of = l.user
  /\ kind = "home" => l.view = 1
  /\ (\A c \in t : c.kind # kind) => l.failed \/ (l.shown = l.view /\ l.version >= l.since)
  /\ l.detail \in {0, l.user}

\* The inductive invariant: what is shown is of the last question, or its answer
\* is still to come.
LookInv ==
  /\ lookup \in {"search", "ranking", "home"} /\ news \in 1 .. MaxNews
  /\ payload \in [data : 0 .. news, claimed : {TRUE}]
  /\ IF lookup = "search" THEN SearchFits(look, trips) ELSE VisitFits(lookup, look, trips, news)

\* A page opens with its first question asked.
LEMMA LookInitInv == LookupsInit => LookInv
<1> SUFFICES ASSUME LookupsInit PROVE LookInv
  OBVIOUS
<1> USE LookupsAssumption
<1>1. /\ lookup \in {"search", "ranking", "home"} /\ news = 1 /\ trips = {}
      /\ payload = [data |-> 1, claimed |-> TRUE]
  BY DEF LookupsInit
<1>2. 1 \in 1 .. MaxNews /\ 1 \in 0 .. 1 /\ 1 \in 1 .. 1 /\ 0 \in 0 .. MaxTrips
  OBVIOUS
<1>3. ASSUME lookup = "search" PROVE SearchFits(look, trips)
  <2>1. look = Search0
    BY <1>3 DEF LookupsInit
  <2>2. <<>> \in Seq(Queries \X Nat) /\ Len(<<>>) = 0
    OBVIOUS
  <2>3. Search0 \in SearchRec
    BY <1>2, <2>2 DEF Search0, SearchRec, Queries
  <2> QED
    BY <1>1, <2>1, <2>2, <2>3 DEF SearchFits, Search0
<1>4. ASSUME lookup # "search" PROVE VisitFits(lookup, look, trips, news)
  <2>1. look = [view |-> 1, shown |-> 1, version |-> 1, failed |-> FALSE, since |-> 1,
                  user |-> 0, detail |-> 0, asked |-> 0]
    BY <1>4 DEF LookupsInit
  <2>2. look \in VisitRec(1)
    BY <1>2, <2>1 DEF VisitRec, Queries
  <2> QED
    BY <1>1, <2>1, <2>2 DEF VisitFits
<1> QED
  BY <1>1, <1>2, <1>3, <1>4 DEF LookInv

\* runSearch: the question asked becomes the last.
LEMMA AskedIs ==
  ASSUME SearchFits(look, trips), NEW l, l \in SearchRec, l.seq = look.seq, l.query = look.query,
         l.results = look.results, l.applied = look.applied, l.error = look.error,
         l.loading = look.loading, l.loadingMore = look.loadingMore,
         ~l.hasty => ~look.hasty,
         NEW skip \in Nat, skip > 0 => skip = Len(look.results) /\ (~l.hasty => l.applied = l.query),
         RunSearch(l, skip)
  PROVE  SearchFits(look', trips')
<1> USE LookupsAssumption
<1> DEFINE n == l.seq + 1
           a == l.loading \/ skip = 0
           b == l.loadingMore \/ skip > 0
           c == [no |-> n, query |-> l.query, skip |-> skip]
<1>1. l.seq < MaxTrips /\ look' = [l EXCEPT !.seq = n, !.loading = a, !.loadingMore = b] /\ trips' = trips \cup {c}
  BY DEF RunSearch, SearchRec
<1>2. a \in BOOLEAN /\ b \in BOOLEAN /\ (skip = 0 => a) /\ (skip > 0 => b)
  OBVIOUS
<1>3. Len(look.results) \in Nat /\ look.seq \in 0 .. MaxTrips /\ look \in SearchRec
      /\ Len(look.results) <= look.seq
  BY LenProperties DEF SearchFits, SearchRec
<1>4. n \in 0 .. MaxTrips /\ n \in 1 .. MaxTrips /\ n > look.seq /\ n \in Nat
  BY <1>1, <1>3
<1>5. skip \in 0 .. MaxTrips
  BY <1>1, <1>3
<1>6. Len(look.results) < n
  BY <1>3, <1>4
<1>7. c \in SearchTrips /\ c.no = n /\ c.query = l.query /\ c.skip = skip
  BY <1>4, <1>5 DEF SearchTrips, SearchRec
<1>8. \A d \in trips : d \in SearchTrips /\ d.no <= look.seq /\ d.no \in Nat
  BY DEF SearchFits, SearchTrips
<1>9. \A d \in trips : d.no # n /\ d.no <= n
  BY <1>3, <1>4, <1>8
<1> HIDE DEF n, a, b, c
<1>10. /\ look' \in SearchRec /\ look'.seq = n /\ look'.loading = a /\ look'.loadingMore = b
       /\ look'.query = l.query /\ look'.timer = l.timer /\ look'.results = l.results
       /\ look'.error = l.error /\ look'.applied = l.applied /\ look'.hasty = l.hasty
  BY <1>1, <1>2, <1>4 DEF SearchRec
<1>11. trips' \in SUBSET SearchTrips
  BY <1>1, <1>7, <1>8
<1>12. \A d \in trips' : d.no <= n
  BY <1>1, <1>4, <1>7, <1>9
<1>13. \A d, e \in trips' : d.no = e.no => d = e
  BY <1>1, <1>7, <1>9 DEF SearchFits
<1>14. \A d \in trips' : d.no = n => d = c
  BY <1>1, <1>9
<1>15. c \in trips' /\ c.no = n
  BY <1>1, <1>7
<1>16. Len(look.results) <= n
  BY <1>6, <1>3, <1>4
<1>17. ~l.hasty => \A i \in 1 .. Len(look.results) : look.results[i] = <<look.applied, i>>
  BY DEF SearchFits
<1>18. \A d \in trips' : d.no = n =>
         /\ Len(look.results) < n
         /\ d.query = l.query
         /\ d.skip = 0 => a
         /\ d.skip > 0 => /\ b /\ d.skip = Len(look.results)
                          /\ ~l.hasty => d.query = l.applied
  BY <1>2, <1>6, <1>7, <1>14
<1> QED
  BY <1>10, <1>11, <1>12, <1>13, <1>15, <1>16, <1>17, <1>18 DEF SearchFits

\* The answer to the last question.
LEMMA ShownIs ==
  ASSUME SearchFits(look, trips), NEW c \in trips, c.no = look.seq
  PROVE  LET l == Rested(ResultsShown(look, c), c)
         IN  SearchFits(l, trips \ {c})
<1> USE LookupsAssumption
<1> DEFINE s == look.results
           n == Len(s)
           pg == IF c.skip < Depth(c.query) THEN <<<<c.query, c.skip + 1>>>> ELSE <<>>
           r == IF c.skip > 0 THEN s \o pg ELSE pg
           m == c.skip + 1 < Depth(c.query)
           h == look.hasty /\ c.skip > 0
           u == IF c.skip > 0 THEN look.loading ELSE FALSE
           v == IF c.skip > 0 THEN FALSE ELSE look.loadingMore
           l == [look EXCEPT !.results = r, !.hasMore = m, !.error = FALSE, !.applied = c.query, !.hasty = h,
                             !.loading = u, !.loadingMore = v]
<1>0. look \in SearchRec /\ s \in Seq(Queries \X Nat) /\ n \in Nat /\ c \in SearchTrips
  BY LenProperties DEF SearchFits, SearchRec
<1>1. Rested(ResultsShown(look, c), c) = l
  BY <1>0 DEF Rested, ResultsShown, SearchRec
<1>2. c.query \in Queries /\ c.skip \in Nat /\ Depth(c.query) \in Nat /\ Depth(c.query) >= 1
  BY <1>0 DEF SearchTrips, Depth
<1>3. pg \in Seq(Queries \X Nat) /\ Len(pg) \in 0 .. 1 /\ (\A i \in 1 .. Len(pg) : i = 1 /\ pg[i] = <<c.query, c.skip + 1>>)
  <2>1. <<c.query, c.skip + 1>> \in Queries \X Nat
    BY <1>2
  <2> DEFINE x == <<c.query, c.skip + 1>>
  <2>2. CASE c.skip < Depth(c.query)
    <3>1. pg = <<x>>
      BY <2>2
    <3>2. x \in Queries \X Nat
      BY <2>1
    <3> HIDE DEF x, pg
    <3>3. pg \in Seq(Queries \X Nat) /\ Len(pg) = 1 /\ pg[1] = x
      BY <3>1, <3>2
    <3> QED
      BY <3>3 DEF x
  <2>3. CASE ~(c.skip < Depth(c.query))
    BY <2>3
  <2> QED
    BY <2>2, <2>3
<1>4. c.skip > 0 => c.skip = n /\ n < look.seq /\ (~look.hasty => c.query = look.applied)
  BY DEF SearchFits
<1>5. n < look.seq /\ look.seq \in Nat /\ (~look.timer => c.query = look.query)
  BY DEF SearchFits, SearchRec
<1>6. m \in BOOLEAN /\ h \in BOOLEAN /\ u \in BOOLEAN /\ v \in BOOLEAN /\ (~h => c.skip = 0 \/ ~look.hasty)
  <2>1. c.skip = 0 \/ c.skip > 0
    BY <1>2
  <2>2. m \in BOOLEAN /\ h \in BOOLEAN
    OBVIOUS
  <2>3. u \in BOOLEAN /\ v \in BOOLEAN
    BY <1>0 DEF SearchRec
  <2> QED
    BY <2>1, <2>2, <2>3
<1>a. c.query \in {0} \cup Queries
  BY <1>2
<1>7. /\ r \in Seq(Queries \X Nat) /\ Len(r) <= look.seq
      /\ ~h => \A i \in 1 .. Len(r) : r[i] = <<c.query, i>>
  <2>1. CASE c.skip = 0
    <3>1. r = pg
      BY <2>1
    <3>2. 1 <= look.seq
      BY <1>0, <1>5
    <3> HIDE DEF pg, r
    <3> QED
      BY <1>3, <1>5, <2>1, <3>1, <3>2
  <2>2. CASE c.skip > 0
    <3>1. r = s \o pg
      BY <2>2
    <3> HIDE DEF pg, r, s, n
    <3>2. /\ r \in Seq(Queries \X Nat) /\ Len(r) = Len(s) + Len(pg)
          /\ \A i \in 1 .. Len(r) : r[i] = IF i <= Len(s) THEN s[i] ELSE pg[i - Len(s)]
      BY <1>0, <1>3, <3>1, ConcatProperties
    <3>3. Len(r) <= look.seq
      BY <1>0, <1>3, <1>4, <1>5, <2>2, <3>2 DEF n
    <3>4. ASSUME ~h, NEW i \in 1 .. Len(r) PROVE r[i] = <<c.query, i>>
      <4>1. ~look.hasty /\ c.query = look.applied /\ c.skip = Len(s)
        BY <1>4, <1>6, <2>2, <3>4 DEF n
      <4>2. CASE i <= Len(s)
        <5>1. i \in 1 .. Len(s) /\ r[i] = s[i]
          BY <3>2, <4>2
        <5> QED
          BY <4>1, <5>1 DEF SearchFits, s
      <4>3. CASE ~(i <= Len(s))
        <5>1. Len(s) \in Nat
          BY <1>0 DEF n
        <5>2. i - Len(s) \in 1 .. Len(pg)
          BY <1>3, <3>2, <4>3, <5>1
        <5>3. i = c.skip + 1
          BY <1>3, <4>1, <5>1, <5>2
        <5> QED
          BY <1>3, <3>2, <4>3, <5>2, <5>3
      <4> QED
        BY <4>2, <4>3
    <3> QED
      BY <3>2, <3>3, <3>4
  <2>3. c.skip = 0 \/ c.skip > 0
    BY <1>2
  <2> QED
    BY <2>1, <2>2, <2>3
<1> HIDE DEF pg, r, m, h, u, v, s, n
<1>8. /\ l \in SearchRec /\ l.seq = look.seq /\ l.results = r /\ l.applied = c.query /\ l.hasty = h
      /\ l.timer = look.timer /\ l.query = look.query
  <2>1. r \in Seq(Queries \X Nat)
    BY <1>7
  <2>2. m \in BOOLEAN /\ h \in BOOLEAN /\ u \in BOOLEAN /\ v \in BOOLEAN /\ look \in SearchRec
    BY <1>0, <1>6
  <2> DEFINE l0 == [look EXCEPT !.results = r, !.hasMore = m, !.error = FALSE, !.applied = c.query]
             l1 == [l0 EXCEPT !.hasty = h, !.loading = u, !.loadingMore = v]
  <2>5. l0 \in SearchRec
    BY <1>a, <2>1, <2>2 DEF SearchRec
  <2>6. l = l1
    BY <2>2 DEF SearchRec
  <2> HIDE DEF l0, l
  <2>3. l \in SearchRec
    BY <2>2, <2>5, <2>6 DEF SearchRec
  <2> USE DEF l
  <2>4. /\ l.seq = look.seq /\ l.results = r /\ l.applied = c.query /\ l.hasty = h
        /\ l.timer = look.timer /\ l.query = look.query
    BY <2>2 DEF SearchRec
  <2> QED
    BY <2>3, <2>4
<1> HIDE DEF l
<1>9. \A d \in trips \ {c} : d.no # look.seq
  BY DEF SearchFits
<1>10. SearchFits(l, trips \ {c})
  BY <1>5, <1>7, <1>8, <1>9 DEF SearchFits
<1> QED
  BY <1>1, <1>10

\* Every step of the search keeps its invariant.
LEMMA SearchStep ==
  ASSUME SearchFits(look, trips), ChangeQuery \/ DelayEnds \/ ClickSearch \/ ClickMore \/ SearchLands
  PROVE  SearchFits(look', trips')
<1>0. look \in SearchRec /\ look.results \in Seq(Queries \X Nat) /\ Len(look.results) \in Nat
  BY LenProperties DEF SearchFits, SearchRec
<1>1. ASSUME ChangeQuery PROVE SearchFits(look', trips')
  <2>1. PICK q \in Queries \ {look.query} : look' = [look EXCEPT !.query = q, !.timer = TRUE] /\ trips' = trips
    BY <1>1 DEF ChangeQuery
  <2>2. /\ look' \in SearchRec /\ look'.timer /\ look'.seq = look.seq /\ look'.results = look.results
        /\ look'.loading = look.loading /\ look'.loadingMore = look.loadingMore
        /\ look'.applied = look.applied /\ look'.hasty = look.hasty
    BY <1>0, <2>1 DEF SearchRec
  <2> QED
    BY <2>1, <2>2 DEF SearchFits
<1>2. ASSUME DelayEnds PROVE SearchFits(look', trips')
  <2> DEFINE l == [look EXCEPT !.timer = FALSE]
  <2>1. RunSearch(l, 0)
    BY <1>2 DEF DelayEnds
  <2>2. /\ l \in SearchRec /\ l.seq = look.seq /\ l.query = look.query
        /\ l.results = look.results /\ l.applied = look.applied /\ l.error = look.error
        /\ l.loading = look.loading /\ l.loadingMore = look.loadingMore /\ l.hasty = look.hasty
    BY <1>0 DEF SearchRec
  <2> HIDE DEF l
  <2> QED
    BY <2>1, <2>2, AskedIs
<1>3. ASSUME ClickSearch PROVE SearchFits(look', trips')
  BY <1>0, <1>3, AskedIs DEF ClickSearch
<1>4. ASSUME ClickMore PROVE SearchFits(look', trips')
  <2> DEFINE h == look.hasty \/ look.timer \/ look.loading \/ look.error
             l == [look EXCEPT !.hasty = h]
             n == Len(look.results)
  <2>1. RunSearch(l, n) /\ ~look.loadingMore
    BY <1>0, <1>4 DEF ClickMore, SearchRec
  <2>2. h \in BOOLEAN /\ (~h => ~look.hasty)
    OBVIOUS
  <2>3. ~h => look.applied = look.query
    <3> SUFFICES ASSUME ~look.hasty, ~look.timer, ~look.loading, ~look.error PROVE look.applied = look.query
      OBVIOUS
    <3>1. \A c \in trips : c.skip = 0 \/ c.skip > 0
      BY DEF SearchFits, SearchTrips
    <3>2. \A c \in trips : c.no # look.seq
      BY <2>1, <3>1 DEF SearchFits
    <3> QED
      BY <3>2 DEF SearchFits
  <2> HIDE DEF h
  <2>4. /\ l \in SearchRec /\ l.seq = look.seq /\ l.query = look.query
        /\ l.results = look.results /\ l.applied = look.applied /\ l.error = look.error
        /\ l.loading = look.loading /\ l.loadingMore = look.loadingMore /\ l.hasty = h
    BY <1>0, <2>2 DEF SearchRec
  <2>5. n \in Nat /\ n = Len(look.results)
    BY <1>0
  <2> HIDE DEF l, n
  <2> QED
    BY <2>1, <2>2, <2>3, <2>4, <2>5, AskedIs
<1>5. ASSUME SearchLands PROVE SearchFits(look', trips')
  <2>1. PICK c \in trips, ok \in BOOLEAN : look' = SearchAnswers(c, ok) /\ trips' = trips \ {c}
    BY <1>5 DEF SearchLands
  <2>2. CASE c.no # look.seq
    <3>1. look' = look
      BY <2>1, <2>2 DEF SearchAnswers
    <3> QED
      BY <2>1, <2>2, <3>1 DEF SearchFits
  <2>3. CASE c.no = look.seq /\ ok
    <3>1. look' = Rested(ResultsShown(look, c), c)
      BY <2>1, <2>3 DEF SearchAnswers
    <3> QED
      BY <2>1, <2>3, <3>1, ShownIs
  <2>4. CASE c.no = look.seq /\ ~ok
    <3> DEFINE u == IF c.skip > 0 THEN look.loading ELSE FALSE
               v == IF c.skip > 0 THEN FALSE ELSE look.loadingMore
    <3>1. look' = [look EXCEPT !.error = TRUE, !.loading = u, !.loadingMore = v]
      BY <1>0, <2>1, <2>4 DEF SearchAnswers, Rested, SearchRec
    <3>2. u \in BOOLEAN /\ v \in BOOLEAN
      BY <1>0 DEF SearchRec
    <3> HIDE DEF u, v
    <3>3. /\ look' \in SearchRec /\ look'.error /\ look'.seq = look.seq /\ look'.results = look.results
          /\ look'.applied = look.applied /\ look'.hasty = look.hasty
      BY <1>0, <3>1, <3>2 DEF SearchRec
    <3>4. \A d \in trips' : d.no # look.seq
      BY <2>1, <2>4 DEF SearchFits
    <3> QED
      BY <2>1, <3>3, <3>4 DEF SearchFits
  <2> QED
    BY <2>2, <2>3, <2>4
<1> QED
  BY <1>1, <1>2, <1>3, <1>4, <1>5

\* A visit: the page is opened again, chooses, asks and is answered.
LEMMA MountFits ==
  ASSUME lookup \in {"ranking", "home"}, news \in 1 .. MaxNews, look.asked \in 0 .. MaxTrips, look.asked < MaxTrips,
         payload \in [data : 0 .. news, claimed : {TRUE}],
         NEW p \in Rendered \cup {payload}, MountWith(p)
  PROVE  VisitFits(lookup, look', trips', news) /\ payload' \in [data : 0 .. news, claimed : {TRUE}]
<1> USE LookupsAssumption
<1>1. p.data \in 0 .. news /\ (fresh(p) => p.data = news) /\ p = [data |-> p.data, claimed |-> p.claimed]
  <2>1. CASE p = payload
    <3>1. p.claimed = TRUE
      BY <2>1
    <3> QED
      BY <2>1, <3>1 DEF fresh
  <2>2. CASE p \in Rendered
    <3>1. PICK d \in {0, news} : p = [data |-> d, claimed |-> FALSE]
      BY <2>2 DEF Rendered
    <3>2. news \in 0 .. news /\ 0 \in 0 .. news
      OBVIOUS
    <3>3. p.data = d /\ p.claimed = FALSE
      BY <3>1
    <3>4. p.data # 0 => p.data = news
      BY <3>3
    <3> QED
      BY <3>1, <3>2, <3>3, <3>4 DEF fresh
  <2> QED
    BY <2>1, <2>2
<1>2. payload' \in [data : 0 .. news, claimed : {TRUE}]
  <2>1. payload' = [p EXCEPT !.claimed = TRUE]
    BY DEF MountWith
  <2> QED
    BY <1>1, <2>1
<1> DEFINE v == IF p.data # 0 THEN 1 ELSE 0
           n == look.asked + 1
           q == Question(lookup, 1)
<1>3. look' = [view |-> 1, shown |-> v, version |-> p.data, failed |-> FALSE, since |-> news, user |-> 0, detail |-> 0, asked |-> n]
  BY DEF MountWith
<1>4. v \in {0} \cup Queries /\ n \in 0 .. MaxTrips /\ (fresh(p) => v = 1)
  BY <1>1 DEF Queries, fresh
<1>5. q.kind = lookup /\ q.of = 1 /\ q.asked = news
  BY DEF Question
<1>6. trips' = IF fresh(p) THEN {} ELSE {q}
  BY DEF MountWith
<1> HIDE DEF v, n, q
<1>7. news \in 1 .. news /\ news >= news
  OBVIOUS
<1>8. look' \in VisitRec(news)
  BY <1>1, <1>3, <1>4, <1>7 DEF VisitRec, Queries
<1>9. /\ look'.view = 1 /\ look'.shown = v /\ look'.version = p.data /\ look'.since = news /\ look'.detail = 0
  BY <1>3
<1>10. VisitFits(lookup, look', trips', news)
  <2>1. CASE fresh(p)
    <3>1. trips' = {} /\ v = 1 /\ p.data = news
      BY <1>1, <1>4, <1>6, <2>1
    <3> QED
      BY <1>7, <1>8, <1>9, <3>1 DEF VisitFits
  <2>2. CASE ~fresh(p)
    <3>1. trips' = {q}
      BY <1>6, <2>2
    <3>2. 1 \in Queries
      BY DEF Queries
    <3> QED
      BY <1>5, <1>7, <1>8, <1>9, <3>1, <3>2 DEF VisitFits
  <2> QED
    BY <2>1, <2>2
<1> QED
  BY <1>2, <1>10

\* Every step of the three pages keeps the invariant.
LEMMA LookStep == LookInv /\ [LookupsNext]_lookVars => LookInv'
<1> SUFFICES ASSUME LookInv, [LookupsNext]_lookVars PROVE LookInv'
  OBVIOUS
<1> USE LookupsAssumption
<1>0. lookup \in {"search", "ranking", "home"} /\ news \in 1 .. MaxNews /\ payload \in [data : 0 .. news, claimed : {TRUE}]
  BY DEF LookInv
<1>1. ASSUME lookup = "search", SearchNext PROVE LookInv'
  <2>1. SearchFits(look, trips) /\ lookup' = lookup /\ news' = news /\ payload' = payload
    BY <1>1 DEF LookInv, SearchNext
  <2>2. SearchFits(look', trips')
    BY <1>1, <2>1, SearchStep DEF SearchNext
  <2> QED
    BY <1>0, <1>1, <2>1, <2>2 DEF LookInv
<1>v. ASSUME lookup # "search"
      PROVE  /\ VisitFits(lookup, look, trips, news) /\ look \in VisitRec(news) /\ look.asked \in 0 .. MaxTrips
             /\ lookup \in {"ranking", "home"} /\ look.since \in 1 .. news
  <2>1. VisitFits(lookup, look, trips, news)
    BY <1>v DEF LookInv
  <2>2. look \in VisitRec(news)
    BY <2>1 DEF VisitFits
  <2> QED
    BY <1>0, <1>v, <2>1, <2>2 DEF VisitRec
\* Everything but the page and its questions stands.
<1>w. ASSUME lookup # "search", VisitFits(lookup, look', trips', news), lookup' = lookup, news' = news, payload' = payload
      PROVE  LookInv'
  BY <1>0, <1>w DEF LookInv
<1>2. ASSUME lookup # "search", OpenPage PROVE LookInv'
  <2>1. PICK p \in Rendered \cup {payload} : MountWith(p)
    BY <1>2 DEF OpenPage
  <2>2. look.asked < MaxTrips /\ lookup' = lookup /\ news' = news
    BY <1>2 DEF OpenPage
  <2>3. VisitFits(lookup, look', trips', news) /\ payload' \in [data : 0 .. news, claimed : {TRUE}]
    BY <1>0, <1>2, <1>v, <2>1, <2>2, MountFits
  <2> QED
    BY <1>0, <1>2, <2>2, <2>3 DEF LookInv
<1>3. ASSUME lookup # "search", NewsCome PROVE LookInv'
  <2> DEFINE n == news + 1
  <2>1. news < MaxNews /\ news' = n /\ lookup' = lookup /\ look' = look /\ trips' = trips /\ payload' = payload
    BY <1>3 DEF NewsCome
  <2>2. n \in 1 .. MaxNews /\ 0 .. news \subseteq 0 .. n /\ 1 .. news \subseteq 1 .. n
    BY <1>0, <2>1
  <2> HIDE DEF n
  <2>3. look \in VisitRec(n)
    BY <1>3, <1>v, <2>2 DEF VisitRec
  <2>4. VisitFits(lookup, look, trips, n)
    BY <1>3, <1>v, <2>2, <2>3 DEF VisitFits
  <2>5. payload \in [data : 0 .. n, claimed : {TRUE}]
    BY <1>0, <2>2
  <2> QED
    BY <1>0, <1>3, <2>1, <2>2, <2>4, <2>5 DEF LookInv
<1>q. ASSUME NEW kind, NEW of PROVE Question(kind, of).kind = kind /\ Question(kind, of).of = of /\ Question(kind, of).asked = news
  BY DEF Question
<1>4. ASSUME lookup = "ranking", ChooseView PROVE LookInv'
  <2>1. PICK v \in Queries \ {look.view} :
    /\ look.asked < MaxTrips
    /\ look' = [look EXCEPT !.view = v, !.asked = @ + 1]
    /\ trips' = {c \in trips : c.kind # "ranking"} \cup {Question("ranking", v)}
    /\ UNCHANGED <<lookup, news, payload>>
    BY <1>4 DEF ChooseView
  <2> DEFINE n == look.asked + 1
             q == Question("ranking", v)
  <2>v. VisitFits("ranking", look, trips, news) /\ look \in VisitRec(news) /\ look.asked \in 0 .. MaxTrips /\ look.since \in 1 .. news
    BY <1>4, <1>v
  <2>2. n \in 0 .. MaxTrips /\ look' = [look EXCEPT !.view = v, !.asked = n]
    BY <2>1, <2>v DEF VisitRec
  <2>3. q.kind = "ranking" /\ q.of = v /\ q.asked = news /\ news \in 1 .. news /\ news >= look.since
    BY <1>0, <1>q, <2>v
  <2>4. trips' = {c \in trips : c.kind # "ranking"} \cup {q}
    BY <2>1
  <2> HIDE DEF n, q
  <2>5. /\ look' \in VisitRec(news) /\ look'.view = v /\ look'.since = look.since /\ look'.user = look.user
        /\ look'.detail = look.detail
    BY <2>1, <2>2, <2>v DEF VisitRec
  <2>6. VisitFits("ranking", look', trips', news)
    BY <2>3, <2>4, <2>5, <2>v DEF VisitFits
  <2> QED
    BY <1>4, <1>w, <2>1, <2>6
<1>5. ASSUME lookup = "ranking", OpenDetail PROVE LookInv'
  <2>1. PICK u \in (Queries \cup {0}) \ {look.user} :
    /\ look.asked < MaxTrips
    /\ look' = [look EXCEPT !.user = u, !.detail = 0, !.asked = @ + 1]
    /\ trips' = {c \in trips : c.kind # "detail"} \cup
                  (IF u = 0 THEN {} ELSE {Question("detail", u)})
    /\ UNCHANGED <<lookup, news, payload>>
    BY <1>5 DEF OpenDetail
  <2> DEFINE n == look.asked + 1
             T == IF u = 0 THEN {} ELSE {Question("detail", u)}
  <2>v. VisitFits("ranking", look, trips, news) /\ look \in VisitRec(news) /\ look.asked \in 0 .. MaxTrips
    BY <1>5, <1>v
  <2>2. n \in 0 .. MaxTrips /\ look' = [look EXCEPT !.user = u, !.detail = 0, !.asked = n]
    BY <2>1, <2>v DEF VisitRec
  <2>n. news \in 1 .. news
    BY <1>0
  <2>3. \A q \in T : q.kind = "detail" /\ q.of = u /\ q.of \in Queries /\ q.asked \in 1 .. news
    BY <1>q, <2>1, <2>n
  <2>4. trips' = {c \in trips : c.kind # "detail"} \cup T
    BY <2>1
  <2> HIDE DEF n, T
  <2>5. /\ look' \in VisitRec(news) /\ look'.view = look.view /\ look'.since = look.since /\ look'.user = u
        /\ look'.detail = 0 /\ look'.shown = look.shown /\ look'.version = look.version /\ look'.failed = look.failed
    BY <2>1, <2>2, <2>v DEF VisitRec
  <2>6. VisitFits("ranking", look', trips', news)
    BY <2>3, <2>4, <2>5, <2>v DEF VisitFits
  <2> QED
    BY <1>5, <1>w, <2>1, <2>6
<1>6. ASSUME lookup = "ranking", RankingLands PROVE LookInv'
  <2>1. PICK c \in trips, ok \in BOOLEAN, version \in 1..news :
    /\ c.asked <= version
    /\ look' = IF c.kind = "detail"
               THEN [look EXCEPT !.detail = IF ok THEN c.of ELSE 0]
               ELSE [look EXCEPT !.shown = IF ok THEN c.of ELSE 0, !.failed = ~ok,
                                 !.version = IF ok THEN version ELSE 0]
    /\ trips' = trips \ {c}
    /\ UNCHANGED <<lookup, news, payload>>
    BY <1>6 DEF RankingLands
  <2>v. VisitFits("ranking", look, trips, news) /\ look \in VisitRec(news) /\ look.since \in 1 .. news
    BY <1>6, <1>v
  <2>c. /\ c.kind \in {"ranking", "detail"} /\ c.of \in Queries /\ c.asked \in 1 .. news
        /\ c.kind = "ranking" => c.asked >= look.since /\ c.of = look.view
        /\ c.kind = "detail" => c.of = look.user
    BY <2>v DEF VisitFits
  <2>2. ASSUME c.kind = "detail" PROVE VisitFits("ranking", look', trips', news)
    <3> DEFINE d == IF ok THEN c.of ELSE 0
    <3>1. look' = [look EXCEPT !.detail = d]
      BY <2>1, <2>2
    <3>2. d \in {0} \cup Queries /\ d \in {0, look.user}
      BY <2>2, <2>c
    <3> HIDE DEF d
    <3>3. /\ look' \in VisitRec(news) /\ look'.view = look.view /\ look'.since = look.since /\ look'.user = look.user
          /\ look'.detail = d /\ look'.shown = look.shown /\ look'.version = look.version /\ look'.failed = look.failed
      BY <2>v, <3>1, <3>2 DEF VisitRec
    <3>4. (\A x \in trips' : x.kind # "ranking") => \A x \in trips : x.kind # "ranking"
      BY <2>1, <2>2
    <3> QED
      BY <2>1, <2>v, <3>2, <3>3, <3>4 DEF VisitFits
  <2>3. ASSUME c.kind = "ranking" PROVE VisitFits("ranking", look', trips', news)
    <3> DEFINE s == IF ok THEN c.of ELSE 0
               f == ~ok
               w == IF ok THEN version ELSE 0
    <3>1. look' = [look EXCEPT !.shown = s, !.failed = f, !.version = w]
      BY <2>1, <2>3
    <3>2. s \in {0} \cup Queries /\ f \in BOOLEAN
      BY <2>c
    <3>5. w \in 0 .. news
      BY <1>0
    <3>6. ASSUME ok PROVE s = look.view /\ w >= look.since
      <4>1. c.asked >= look.since /\ c.of = look.view
        BY <2>c, <2>3
      <4>2. version >= look.since
        BY <1>0, <2>1, <2>v, <2>c, <4>1
      <4> QED
        BY <3>6, <4>1, <4>2
    <3>7. f \/ (s = look.view /\ w >= look.since)
      BY <3>6
    <3> HIDE DEF s, f, w
    <3>3. /\ look' \in VisitRec(news) /\ look'.view = look.view /\ look'.since = look.since /\ look'.user = look.user
          /\ look'.detail = look.detail /\ look'.shown = s /\ look'.version = w /\ look'.failed = f
      BY <2>v, <3>1, <3>2, <3>5 DEF VisitRec
    <3> QED
      BY <2>1, <2>v, <3>3, <3>7 DEF VisitFits
  <2> QED
    BY <1>6, <1>w, <2>1, <2>2, <2>3, <2>c
<1>7. ASSUME lookup = "home", PollHome PROVE LookInv'
  <2> DEFINE n == look.asked + 1
             q == Question("home", 1)
  <2>v. VisitFits("home", look, trips, news) /\ look \in VisitRec(news) /\ look.asked \in 0 .. MaxTrips /\ look.since \in 1 .. news
    BY <1>7, <1>v
  <2>1. /\ look.asked < MaxTrips /\ look' = [look EXCEPT !.asked = n]
        /\ trips' = trips \cup {q} /\ lookup' = lookup /\ news' = news /\ payload' = payload
    BY <1>7, <2>v DEF PollHome, VisitRec
  <2>2. n \in 0 .. MaxTrips
    BY <2>1, <2>v
  <2>3. q.kind = "home" /\ q.of \in Queries /\ q.asked \in 1 .. news /\ q.asked >= look.since
    BY <1>0, <1>q, <2>v DEF Queries
  <2> HIDE DEF n, q
  <2>5. /\ look' \in VisitRec(news) /\ look'.view = look.view /\ look'.since = look.since /\ look'.user = look.user
        /\ look'.detail = look.detail
    BY <2>1, <2>2, <2>v DEF VisitRec
  <2>6. VisitFits("home", look', trips', news)
    BY <2>1, <2>3, <2>5, <2>v DEF VisitFits
  <2> QED
    BY <1>7, <1>w, <2>1, <2>6
<1>8. ASSUME lookup = "home", HomeLands PROVE LookInv'
  <2>1. PICK c \in trips, ok \in BOOLEAN, version \in 1..news :
    /\ c.asked <= version
    /\ look' = IF ok THEN [look EXCEPT !.shown = 1, !.version = version, !.failed = FALSE]
               ELSE [look EXCEPT !.failed = TRUE]
    /\ trips' = trips \ {c}
    /\ UNCHANGED <<lookup, news, payload>>
    BY <1>8 DEF HomeLands
  <2>v. VisitFits("home", look, trips, news) /\ look \in VisitRec(news) /\ look.since \in 1 .. news
    BY <1>8, <1>v
  <2>c. c.asked \in 1 .. news /\ c.asked >= look.since /\ look.view = 1
    BY <2>v DEF VisitFits
  <2>2. ASSUME ok PROVE VisitFits("home", look', trips', news)
    <3>1. look' = [look EXCEPT !.shown = 1, !.version = version, !.failed = FALSE]
      BY <2>1, <2>2
    <3>2. version \in 0 .. news /\ version >= look.since
      BY <1>0, <2>1, <2>v, <2>c
    <3>3. /\ look' \in VisitRec(news) /\ look'.view = look.view /\ look'.since = look.since /\ look'.user = look.user
          /\ look'.detail = look.detail /\ look'.shown = 1 /\ look'.version = version
      BY <2>v, <3>1, <3>2 DEF VisitRec, Queries
    <3> QED
      BY <2>1, <2>v, <2>c, <3>2, <3>3 DEF VisitFits
  <2>3. ASSUME ~ok PROVE VisitFits("home", look', trips', news)
    <3>1. look' = [look EXCEPT !.failed = TRUE]
      BY <2>1, <2>3
    <3>3. /\ look' \in VisitRec(news) /\ look'.view = look.view /\ look'.since = look.since /\ look'.user = look.user
          /\ look'.detail = look.detail /\ look'.failed
      BY <2>v, <3>1 DEF VisitRec
    <3> QED
      BY <2>1, <2>v, <3>3 DEF VisitFits
  <2> QED
    BY <1>8, <1>w, <2>1, <2>2, <2>3
<1>9. ASSUME UNCHANGED lookVars PROVE LookInv'
  <2>1. lookup' = lookup /\ news' = news /\ look' = look /\ trips' = trips /\ payload' = payload
    BY <1>9 DEF lookVars
  <2> QED
    BY <2>1 DEF LookInv
<1> QED
  BY <1>1, <1>2, <1>3, <1>4, <1>5, <1>6, <1>7, <1>8, <1>9 DEF LookupsNext

\* The invariant gives the property the runs check, and the type.
LEMMA LookIs == LookInv => LookupsCurrent /\ LookupsTypeOK
<1> SUFFICES ASSUME LookInv PROVE LookupsCurrent /\ LookupsTypeOK
  OBVIOUS
<1> USE LookupsAssumption
<1>0. lookup \in {"search", "ranking", "home"} /\ news \in 1 .. MaxNews /\ payload \in [data : 0 .. news, claimed : {TRUE}]
  BY DEF LookInv
<1>p. payload \in [data : 0 .. MaxNews, claimed : BOOLEAN]
  <2>1. 0 .. news \subseteq 0 .. MaxNews
    BY <1>0
  <2> QED
    BY <1>0, <2>1
<1>1. ASSUME lookup = "search" PROVE LookupsCurrent /\ LookupsTypeOK
  <2>1. SearchFits(look, trips)
    BY <1>1 DEF LookInv
  <2>2. look \in SearchRec /\ look.results \in Seq(Queries \X Nat)
    BY <2>1 DEF SearchFits, SearchRec
  <2> DEFINE n == Len(look.results)
             q == look.query
  <2>3. n \in Nat /\ DOMAIN look.results = 1 .. n /\ look.results = [i \in 1 .. n |-> look.results[i]]
    BY <2>2, LenProperties
  <2>4. ASSUME ~look.timer, \A c \in trips : c.no # look.seq, ~look.error
        PROVE  /\ look.applied = q
               /\ ~look.hasty => look.results = [i \in 1..n |-> <<q, i>>]
    <3>1. look.applied = q
      BY <2>1, <2>4 DEF SearchFits
    <3>2. ASSUME ~look.hasty PROVE look.results = [i \in 1..n |-> <<q, i>>]
      <4>1. \A i \in 1 .. n : look.results[i] = <<q, i>>
        BY <2>1, <3>1, <3>2 DEF SearchFits
      <4> HIDE DEF n, q
      <4> QED
        BY <2>3, <4>1
    <3> QED
      BY <3>1, <3>2
  <2>5. SearchCurrent
    BY <2>4 DEF SearchCurrent
  <2>6. DOMAIN look = DOMAIN Search0 /\ look.query \in Queries /\ look.seq \in 0..MaxTrips
    BY <2>2 DEF SearchRec, Search0
  <2>7. trips \subseteq [no : 1..MaxTrips, query : Queries, skip : 0..MaxTrips]
    BY <2>1 DEF SearchFits, SearchTrips
  <2> QED
    BY <1>0, <1>1, <1>p, <2>5, <2>6, <2>7 DEF LookupsCurrent, LookupsTypeOK
<1>2. ASSUME lookup # "search" PROVE LookupsCurrent /\ LookupsTypeOK
  <2>1. VisitFits(lookup, look, trips, news)
    BY <1>2 DEF LookInv
  <2>2. look \in VisitRec(news)
    BY <2>1 DEF VisitFits
  <2>3. {look.shown, look.user, look.detail} \subseteq {0} \cup Queries /\ look.version \in 0..news /\ look.asked \in 0..MaxTrips
    BY <2>2 DEF VisitRec
  <2>4. lookup = "ranking" => RankingCurrent
    BY <2>1 DEF VisitFits, RankingCurrent
  <2>5. lookup = "home" => HomeCurrent
    BY <2>1 DEF VisitFits, HomeCurrent
  <2> QED
    BY <1>0, <1>2, <1>p, <2>3, <2>4, <2>5 DEF LookupsCurrent, LookupsTypeOK
<1> QED
  BY <1>1, <1>2

-----------------------------------------------------------------------------
(* The panes of an account                                                 *)

\* The requests of the panes, the dialogs, and what a screen holds.
PaneKinds ==
  {"load", "create", "revoke", "rename", "budget", "unlink", "add", "import", "edit", "forget", "purge",
   "enable", "setting", "begin", "toggle", "remove", "register", "session", "sessions", "password", "delete"}

PaneCallRec ==
  [kind : PaneKinds, arg : Nat, stage : {"sent", "back"}, says : {"ok", "refused", "lost"},
   saw : Holdings, nr : Nat]

DialogRec == {NoDialog} \cup [kind : {"remove", "toggle", "register"}, arg : Nat]

\* The key of the snippet: none, or the one a list gives.
ChosenKeys == {0} \cup {CHOOSE k \in S : \A j \in S : k <= j : S \in SUBSET Items}

ScreenRec ==
  [managed : Managements, data : Holdings, running : BOOLEAN, dialog : DialogRec, pw : BOOLEAN,
   form : BOOLEAN, editing : Nat, sessBusy : Nat, chosen : ChosenKeys, gone : BOOLEAN,
   said : SUBSET [kind : PaneKinds, arg : Nat], made : 0 .. MaxPaneOps, alone : BOOLEAN]

\* A name the portal gave before a's next one, which is never given again.
Older(items, a) == \A i \in items : i < a.next

\* A request for an item names one the portal has given out.
NamesOld(x, a) == x.kind \in {"revoke", "forget", "remove"} => x.arg < a.next

\* What was asked stands in a.
StandsDone(x, a) ==
  /\ x.kind \in {"revoke", "forget", "remove"} => x.arg \notin a.items
  /\ x.kind = "session" => x.arg \notin a.others
  /\ x.kind = "sessions" => a.others = {}
  /\ x.kind = "budget" => a.extra

\* Only the memory has settings, only the keys a budget.
OfPane(x) == (x.kind = "setting" => pane = "memory") /\ (x.kind = "budget" => pane = "keys")

\* The request c, alone on the line between the portal's a and the screen's d.
AloneCall(a, d, c) ==
  /\ c.kind = "load" /\ c.stage = "back" /\ c.says = "ok" => c.saw = a
  /\ c.kind \notin {"load", "setting"} /\ (c.stage = "sent" \/ c.says = "refused") => d = a
  /\ c.kind \in {"begin", "password", "delete"} => d = a
  /\ c.kind = "enable" /\ c.stage = "back" /\ c.says = "ok" => a = [d EXCEPT !.main = (c.arg = 1)]
  /\ c.kind = "setting" =>
       IF c.stage = "back" /\ c.says = "ok" THEN d = a
       ELSE c.says # "lost" => d = [a EXCEPT !.extra = (c.arg = 1)] /\ a.extra = (c.arg # 1)

\* A pane that alone changes its account shows it, or reads it again.
AloneFits(a, d, w) ==
  /\ \A x, y \in w : x = y
  /\ w = {} => d = a
  /\ \A c \in w : AloneCall(a, d, c)

CallFits(c, a) ==
  /\ c \in PaneCallRec /\ Older(c.saw.items, a) /\ NamesOld(c, a) /\ OfPane(c)
  /\ c.stage = "sent" => c.says = "ok"
  /\ c.stage = "back" /\ c.says = "ok" => StandsDone(c, a)

\* A screen and what it said fit the account.
ScreenFits(s, a) ==
  /\ s \in ScreenRec /\ Older(s.data.items, a) /\ NamesOld(s.dialog, a)
  /\ \A x \in s.said : NamesOld(x, a) /\ OfPane(x) /\ StandsDone(x, a)

\* The inductive invariant of the panes.
PanesInv ==
  /\ pane \in PaneNames /\ account \in Holdings /\ Older(account.items, account)
  /\ ScreenFits(screen, account)
  /\ \A c \in wire : CallFits(c, account)
  /\ IsFiniteSet(wire) /\ Cardinality(wire) <= MaxWire
  /\ screen.alone /\ ~screen.gone => AloneFits(account, screen.data, wire)

\* What a request does to the portal: names are new, sessions only end, and a
\* budget stays asked for but for a setting.
EffectSound(a, c, b) ==
  /\ b \in Holdings /\ Older(b.items, b) /\ b.next >= a.next
  /\ b.items \subseteq a.items \cup {a.next} /\ b.others \subseteq a.others
  /\ c.kind # "setting" /\ a.extra => b.extra
  /\ StandsDone(c, b)
  /\ c.kind \in {"load", "begin", "password", "delete"} => b = a
  /\ c.kind = "enable" => b = [a EXCEPT !.main = (c.arg = 1)]
  /\ c.kind = "setting" => b = [a EXCEPT !.extra = (c.arg = 1)]

\* A new item has a new name.
LEMMA MadeIs ==
  ASSUME NEW a \in Holdings, a.next <= MaxPaneItems, Older(a.items, a)
  PROVE  /\ Made(a) \in Holdings /\ Made(a).next = a.next + 1 /\ Older(Made(a).items, Made(a))
         /\ Made(a).items = a.items \cup {a.next} /\ Made(a).others = a.others /\ Made(a).extra = a.extra
         /\ a.next + 1 >= a.next
<1> USE PanesAssumption
<1> DEFINE n == a.next + 1
           i == a.items \cup {a.next}
<1>1. Made(a) = [a EXCEPT !.items = i, !.next = n]
  BY DEF Made, Holdings
<1>2. n \in 1 .. MaxPaneItems + 1 /\ i \in SUBSET Items /\ n >= a.next
  BY DEF Holdings, Items
<1>3. \A k \in i : k < n
  BY DEF Holdings, Items, Older
<1> HIDE DEF n, i
<1>4. Made(a) \in Holdings /\ Made(a).items = i /\ Made(a).next = n /\ Made(a).others = a.others /\ Made(a).extra = a.extra
  BY <1>1, <1>2 DEF Holdings
<1> QED
  BY <1>2, <1>3, <1>4 DEF Older, n, i

\* What is kept of an account names nothing new.
LEMMA KeptIs ==
  ASSUME NEW a \in Holdings, NEW items \in SUBSET a.items, Older(a.items, a)
  PROVE  /\ Kept(a, items) \in Holdings /\ Kept(a, items).next = a.next /\ Older(Kept(a, items).items, Kept(a, items))
         /\ Kept(a, items).items = items /\ Kept(a, items).others = a.others /\ Kept(a, items).extra = a.extra
         /\ Kept(a, items).main = a.main
<1> DEFINE b == [a EXCEPT !.items = items, !.changed = @ \cap items]
<1>1. Kept(a, items) = b
  BY DEF Kept
<1>2. b \in Holdings /\ b.next = a.next /\ b.items = items /\ b.others = a.others /\ b.extra = a.extra /\ b.main = a.main
  BY DEF Holdings
<1> HIDE DEF b
<1> QED
  BY <1>1, <1>2 DEF Older

\* A request the portal does not refuse has its effect and no other.
LEMMA EffectIs ==
  ASSUME NEW a \in Holdings, Older(a.items, a), NEW c \in PaneCallRec, ~Refused(a, c)
  PROVE  EffectSound(a, c, Effect(a, c))
<1> USE PanesAssumption
<1> DEFINE b == Effect(a, c)
<1> SUFFICES EffectSound(a, c, b)
  OBVIOUS
<1>n. a.next \in Nat /\ a.next >= a.next /\ a.others \in SUBSET {1, 2}
  BY DEF Holdings
\* A change that keeps items, next and, but for the budget, the rest.
<1>k. ASSUME b \in Holdings, b.items = a.items, b.next = a.next, b.others \subseteq a.others, a.extra => b.extra,
             c.kind \notin {"revoke", "forget", "remove", "load", "begin", "password", "delete", "enable", "setting"},
             StandsDone(c, b)
      PROVE EffectSound(a, c, b)
  BY <1>k, <1>n DEF EffectSound, Older
<1>1. CASE c.kind \in {"create", "add", "import"}
  <2>1. b = Made(a) /\ a.next <= MaxPaneItems
    BY <1>1, <1>n DEF Effect, Refused, Makers
  <2> QED
    BY <1>1, <1>n, <2>1, MadeIs DEF EffectSound, StandsDone
<1>2. CASE c.kind \in {"revoke", "forget"}
  <2>1. b = Kept(a, a.items \ {c.arg})
    BY <1>2 DEF Effect
  <2>2. a.items \ {c.arg} \in SUBSET a.items
    OBVIOUS
  <2>3. /\ b \in Holdings /\ b.next = a.next /\ Older(b.items, b) /\ b.items = a.items \ {c.arg}
        /\ b.others = a.others /\ b.extra = a.extra
    BY <2>1, <2>2, KeptIs
  <2> QED
    BY <1>2, <1>n, <2>3 DEF EffectSound, StandsDone
<1>3. CASE c.kind \in {"rename", "edit"}
  <2>1. b = [a EXCEPT !.changed = @ \cup ({c.arg} \cap a.items)]
    BY <1>3 DEF Effect
  <2>2. b \in Holdings /\ b.items = a.items /\ b.next = a.next /\ b.others = a.others /\ b.extra = a.extra
    BY <2>1 DEF Holdings
  <2>3. StandsDone(c, b)
    BY <1>3 DEF StandsDone
  <2> QED
    BY <1>3, <1>k, <2>2, <2>3
<1>4. CASE c.kind = "purge"
  <2>1. b = Kept(a, {}) /\ {} \in SUBSET a.items
    BY <1>4 DEF Effect
  <2>3. /\ b \in Holdings /\ b.next = a.next /\ Older(b.items, b) /\ b.items = {}
        /\ b.others = a.others /\ b.extra = a.extra
    BY <2>1, KeptIs
  <2> QED
    BY <1>4, <1>n, <2>3 DEF EffectSound, StandsDone
<1>5. CASE c.kind = "register"
  <2>1. b = [Made(a) EXCEPT !.main = TRUE] /\ a.next <= MaxPaneItems
    BY <1>5, <1>n DEF Effect, Refused, Makers
  <2> DEFINE m == Made(a)
  <2>2. /\ m \in Holdings /\ m.next = a.next + 1 /\ Older(m.items, m)
        /\ m.items = a.items \cup {a.next} /\ m.others = a.others /\ m.extra = a.extra /\ a.next + 1 >= a.next
    BY <2>1, MadeIs
  <2> HIDE DEF m
  <2>3. b \in Holdings /\ b.items = m.items /\ b.next = m.next /\ b.others = m.others /\ b.extra = m.extra
    BY <2>1, <2>2 DEF Holdings, m
  <2>4. b.next >= a.next /\ Older(b.items, b)
    BY <2>2, <2>3 DEF Older
  <2> HIDE DEF b
  <2> QED
    BY <1>5, <2>2, <2>3, <2>4 DEF EffectSound, StandsDone
<1>6. CASE c.kind = "remove"
  <2> DEFINE i == a.items \ {c.arg}
             k == Kept(a, i)
             m == k.main /\ a.items \ {c.arg} # {}
  <2>2. i \in SUBSET a.items
    OBVIOUS
  <2>3. /\ k \in Holdings /\ k.next = a.next /\ Older(k.items, k) /\ k.items = i
        /\ k.others = a.others /\ k.extra = a.extra
    BY <2>2, KeptIs
  <2>1. b = [k EXCEPT !.main = m]
    BY <1>6, <2>3 DEF Effect, Holdings
  <2>5. m \in BOOLEAN /\ c.arg \notin i
    OBVIOUS
  <2> HIDE DEF k, m, i, b
  <2>4. b \in Holdings /\ b.items = k.items /\ b.next = k.next /\ b.others = k.others /\ b.extra = k.extra
    BY <2>1, <2>3, <2>5 DEF Holdings
  <2> QED
    BY <1>6, <1>n, <2>2, <2>3, <2>4, <2>5 DEF EffectSound, StandsDone, Older
<1>7. CASE c.kind = "unlink"
  <2>1. b = [a EXCEPT !.main = FALSE]
    BY <1>7 DEF Effect
  <2>2. b \in Holdings /\ b.items = a.items /\ b.next = a.next /\ b.others = a.others /\ b.extra = a.extra
    BY <2>1 DEF Holdings
  <2>3. StandsDone(c, b)
    BY <1>7 DEF StandsDone
  <2> QED
    BY <1>7, <1>k, <2>2, <2>3
<1>8. CASE c.kind \in {"toggle", "enable"}
  <2> DEFINE m == c.arg = 1
  <2>1. b = [a EXCEPT !.main = m]
    BY <1>8 DEF Effect
  <2>e. b = [a EXCEPT !.main = (c.arg = 1)]
    BY <2>1
  <2>5. m \in BOOLEAN
    OBVIOUS
  <2> HIDE DEF m, b
  <2>2. b \in Holdings /\ b.items = a.items /\ b.next = a.next /\ b.others = a.others /\ b.extra = a.extra
    BY <2>1, <2>5 DEF Holdings
  <2> QED
    BY <1>8, <1>n, <2>2, <2>e DEF EffectSound, StandsDone, Older
<1>9. CASE c.kind = "setting"
  <2> DEFINE m == c.arg = 1
  <2>1. b = [a EXCEPT !.extra = m]
    BY <1>9 DEF Effect
  <2>e. b = [a EXCEPT !.extra = (c.arg = 1)]
    BY <2>1
  <2>5. m \in BOOLEAN
    OBVIOUS
  <2> HIDE DEF m, b
  <2>2. b \in Holdings /\ b.items = a.items /\ b.next = a.next /\ b.others = a.others
    BY <2>1, <2>5 DEF Holdings
  <2> QED
    BY <1>9, <1>n, <2>2, <2>e DEF EffectSound, StandsDone, Older
<1>10. CASE c.kind = "budget"
  <2>1. b = [a EXCEPT !.extra = TRUE]
    BY <1>10 DEF Effect
  <2>2. b \in Holdings /\ b.items = a.items /\ b.next = a.next /\ b.others = a.others /\ b.extra
    BY <2>1 DEF Holdings
  <2>3. StandsDone(c, b)
    BY <1>10, <2>2 DEF StandsDone
  <2> QED
    BY <1>10, <1>k, <2>2, <2>3
<1>11. CASE c.kind = "session"
  <2>1. b = [a EXCEPT !.others = @ \ {c.arg}]
    BY <1>11 DEF Effect
  <2>2. b \in Holdings /\ b.items = a.items /\ b.next = a.next /\ b.others = a.others \ {c.arg} /\ b.extra = a.extra
    BY <2>1 DEF Holdings
  <2>3. StandsDone(c, b)
    BY <1>11, <2>2 DEF StandsDone
  <2> QED
    BY <1>11, <1>k, <2>2, <2>3
<1>12. CASE c.kind = "sessions"
  <2>1. b = [a EXCEPT !.others = {}]
    BY <1>12 DEF Effect
  <2>2. b \in Holdings /\ b.items = a.items /\ b.next = a.next /\ b.others = {} /\ b.extra = a.extra
    BY <2>1 DEF Holdings
  <2>3. StandsDone(c, b)
    BY <1>12, <2>2 DEF StandsDone
  <2> QED
    BY <1>12, <1>k, <2>2, <2>3
<1>13. CASE c.kind \in {"load", "begin", "password", "delete"}
  <2>1. b = a
    BY <1>13 DEF Effect
  <2> QED
    BY <1>13, <1>n, <2>1 DEF EffectSound, StandsDone
<1> QED
  BY <1>1, <1>2, <1>3, <1>4, <1>5, <1>6, <1>7, <1>8, <1>9, <1>10, <1>11, <1>12, <1>13 DEF PaneCallRec, PaneKinds

\* A pane opens with its first read under way.
LEMMA PanesInitInv == PanesInit => PanesInv
<1> SUFFICES ASSUME PanesInit PROVE PanesInv
  OBVIOUS
<1> USE PanesAssumption
<1> DEFINE l == [kind |-> "load", arg |-> 0, stage |-> "sent", says |-> "ok", saw |-> Unread, nr |-> 0]
<1>1. /\ pane \in PaneNames /\ account \in Holdings /\ account.items \subseteq {1}
      /\ account.next = 1 + Cardinality(account.items) /\ wire = {l}
  BY DEF PanesInit
<1>2. Older(account.items, account)
  <2>1. CASE account.items = {}
    BY <2>1 DEF Older
  <2>2. CASE account.items = {1}
    <3>1. Cardinality(account.items) = 1
      BY <2>2, FS_Singleton
    <3> QED
      BY <1>1, <2>2, <3>1 DEF Older
  <2> QED
    BY <1>1, <2>1, <2>2
<1>3. PICK m \in IF pane = "security" THEN Managements ELSE {"portal"} :
     screen = [managed |-> m, data |-> account, running |-> FALSE, dialog |-> NoDialog, pw |-> FALSE,
               form |-> FALSE, editing |-> 0, sessBusy |-> 0, chosen |-> 0, gone |-> FALSE,
               said |-> {}, made |-> 0, alone |-> TRUE]
  BY DEF PanesInit
<1>4. m \in Managements /\ 0 \in ChosenKeys /\ 0 \in 0 .. MaxPaneOps /\ NoDialog \in DialogRec
  BY DEF Managements, ChosenKeys, DialogRec
<1>5. screen \in ScreenRec
  BY <1>1, <1>3, <1>4 DEF ScreenRec
<1>6. ScreenFits(screen, account)
  BY <1>2, <1>3, <1>5 DEF ScreenFits, NamesOld, NoDialog
<1>7. Unread \in Holdings
  <2>1. 1 \in 1 .. MaxPaneItems + 1
    OBVIOUS
  <2> QED
    BY <2>1 DEF Unread, Holdings
<1>8. CallFits(l, account)
  <2>1. l \in PaneCallRec
    BY <1>7 DEF PaneCallRec, PaneKinds
  <2> QED
    BY <2>1 DEF CallFits, Older, NamesOld, OfPane, Unread
<1>e. l.kind = "load" /\ l.stage = "sent" /\ l.says = "ok"
  OBVIOUS
<1> HIDE DEF l
<1>9. IsFiniteSet(wire) /\ Cardinality(wire) <= MaxWire
  <2>1. IsFiniteSet({l}) /\ Cardinality({l}) = 1
    BY FS_Singleton
  <2> QED
    BY <1>1, <2>1
<1>10. AloneFits(account, screen.data, wire)
  BY <1>1, <1>e DEF AloneFits, AloneCall
<1> QED
  BY <1>1, <1>2, <1>6, <1>8, <1>9, <1>10 DEF PanesInv

\* A step that changes the screen only, and neither its data nor what it says.
LEMMA ScreenKeeps ==
  ASSUME PanesInv, NEW s \in ScreenRec, s.data = screen.data, s.alone = screen.alone, s.gone = screen.gone,
         s.said = screen.said, s.made = screen.made, NamesOld(s.dialog, account), screen' = s,
         UNCHANGED <<pane, account, wire>>
  PROVE  PanesInv'
<1>1. ScreenFits(s, account)
  BY DEF PanesInv, ScreenFits
<1>2. ScreenFits(screen, account)'
  BY <1>1 DEF ScreenFits, OfPane
<1>3. \A c \in wire' : CallFits(c, account)'
  BY DEF PanesInv, CallFits, OfPane
<1> QED
  BY <1>2, <1>3 DEF PanesInv

\* A request leaves (Starts): the screen already shows what a setting asks for,
\* and for any other request what the portal holds.
LEMMA StartsKeeps ==
  ASSUME PanesInv, NEW s \in ScreenRec, s.alone = screen.alone, s.gone = screen.gone,
         s.said = screen.said, s.made = screen.made, NamesOld(s.dialog, account), Older(s.data.items, account),
         NEW kind \in PaneKinds, NEW arg \in Nat, Starts(s, kind, arg),
         kind \in {"revoke", "forget", "remove"} => arg < account.next,
         (kind = "setting" => pane = "memory") /\ (kind = "budget" => pane = "keys"),
         kind = "setting" => (screen.data = account =>
           s.data = [account EXCEPT !.extra = (arg = 1)] /\ account.extra = (arg # 1)),
         kind # "setting" => s.data = screen.data
  PROVE  PanesInv'
<1> USE PanesAssumption
<1> DEFINE m == screen.made + 1
           q == Call(kind, arg)
           al == wire = {} /\ (kind = "load" \/ s.alone)
           t == [s EXCEPT !.made = m, !.alone = al]
<1>1. screen' = t /\ wire' = wire \cup {q} /\ UNCHANGED <<pane, account>> /\ screen.made < MaxPaneOps /\ Cardinality(wire) < MaxWire
  BY DEF Starts, Sending, CanSend, ScreenRec
<1>2. m \in 0 .. MaxPaneOps /\ m \in Nat
  <2>1. screen.made \in 0 .. MaxPaneOps
    BY DEF ScreenRec, PanesInv, ScreenFits
  <2> QED
    BY <1>1, <2>1
<1>3. al \in BOOLEAN
  OBVIOUS
<1>4. Unread \in Holdings /\ Unread.items = {}
  <2>1. 1 \in 1 .. MaxPaneItems + 1
    OBVIOUS
  <2> QED
    BY <2>1 DEF Unread, Holdings
<1>5. /\ q \in PaneCallRec /\ q.kind = kind /\ q.arg = arg /\ q.stage = "sent" /\ q.says = "ok" /\ q.saw = Unread
  <2>1. q = [kind |-> kind, arg |-> arg, stage |-> "sent", says |-> "ok", saw |-> Unread, nr |-> m]
    BY DEF Call
  <2> HIDE DEF q, m
  <2> QED
    BY <1>2, <1>4, <2>1 DEF PaneCallRec
<1> HIDE DEF q, m, al
<1>6. /\ t \in ScreenRec /\ t.data = s.data /\ t.dialog = s.dialog /\ t.said = s.said /\ t.gone = s.gone
      /\ t.alone = al
  BY <1>2, <1>3 DEF ScreenRec
<1> HIDE DEF t
<1>7. ScreenFits(t, account)
  BY <1>6 DEF PanesInv, ScreenFits
<1>8. ScreenFits(screen, account)'
  BY <1>1, <1>7 DEF ScreenFits, OfPane
<1>9. CallFits(q, account)
  BY <1>4, <1>5 DEF CallFits, Older, NamesOld, OfPane
<1>10. \A c \in wire' : CallFits(c, account)'
  BY <1>1, <1>9 DEF PanesInv, CallFits, OfPane
<1>11. IsFiniteSet(wire') /\ Cardinality(wire') <= MaxWire
  <2> DEFINE n == Cardinality(wire)
  <2>1. IsFiniteSet(wire)
    BY DEF PanesInv
  <2>2. /\ IsFiniteSet(wire \cup {q})
        /\ Cardinality(wire \cup {q}) = IF q \in wire THEN n ELSE n + 1
    BY <2>1, FS_AddElement
  <2>3. n \in Nat
    BY <2>1, FS_CardinalityType
  <2> HIDE DEF n
  <2>4. n < MaxWire
    BY <1>1 DEF n
  <2>5. n <= MaxWire /\ n + 1 <= MaxWire
    BY <2>3, <2>4
  <2> QED
    BY <1>1, <2>2, <2>5
<1>12. ASSUME screen'.alone, ~screen'.gone PROVE AloneFits(account, screen'.data, wire')
  <2>1. wire' = {q} /\ screen'.data = s.data /\ (kind # "load" => screen.data = account)
    BY <1>1, <1>6, <1>12 DEF al, PanesInv, AloneFits
  <2>2. AloneCall(account, s.data, q)
    BY <1>5, <2>1 DEF AloneCall
  <2> QED
    BY <2>1, <2>2 DEF AloneFits
<1>13. screen'.alone /\ ~screen'.gone => AloneFits(account, screen.data, wire)'
  BY <1>1, <1>12
<1> QED
  BY <1>1, <1>8, <1>10, <1>11, <1>13 DEF PanesInv

\* An answer is handled (Handles): it is said only when it was done, and on a
\* quiet line the screen shows the portal or reads it again.
LEMMA HandlesKeeps ==
  ASSUME PanesInv, NEW c \in wire, NEW s \in ScreenRec, s.made = screen.made,
         NamesOld(s.dialog, account), Older(s.data.items, account),
         \A x \in s.said : x \in screen.said \/ (c.says = "ok" /\ x.kind = c.kind /\ x.arg = c.arg),
         s.alone => screen.alone, ~s.gone => ~screen.gone,
         NEW reload \in BOOLEAN, Handles(c, s, reload),
         (s.alone /\ ~s.gone /\ c.says # "lost" /\ ~reload) => s.data = account
  PROVE  PanesInv'
<1> USE PanesAssumption
<1> DEFINE r == wire \ {c}
           q == [Call("load", 0) EXCEPT !.nr = 0]
           al == s.alone /\ c.says # "lost" /\ (reload => r = {})
           t == [s EXCEPT !.alone = al]
<1>1. /\ c.stage = "back" /\ screen' = t /\ wire' = (IF reload THEN r \cup {q} ELSE r) /\ UNCHANGED <<pane, account>>
  BY DEF Handles, ScreenRec
<1>2. CallFits(c, account)
  BY DEF PanesInv
<1>3. al \in BOOLEAN
  BY DEF ScreenRec
<1>4. Unread \in Holdings /\ Unread.items = {}
  <2>1. 1 \in 1 .. MaxPaneItems + 1
    OBVIOUS
  <2> QED
    BY <2>1 DEF Unread, Holdings
<1>5. /\ q \in PaneCallRec /\ q.kind = "load" /\ q.stage = "sent" /\ q.says = "ok" /\ q.saw = Unread
  <2>1. q = [kind |-> "load", arg |-> 0, stage |-> "sent", says |-> "ok", saw |-> Unread, nr |-> 0]
    BY DEF Call
  <2>2. "load" \in PaneKinds
    BY DEF PaneKinds
  <2> HIDE DEF q
  <2> QED
    BY <1>4, <2>1, <2>2 DEF PaneCallRec
<1> HIDE DEF q, al
<1>6. /\ t \in ScreenRec /\ t.data = s.data /\ t.dialog = s.dialog /\ t.said = s.said /\ t.gone = s.gone
      /\ t.alone = al
  BY <1>3 DEF ScreenRec
<1> HIDE DEF t
<1>7. ScreenFits(t, account)
  <2>1. ASSUME NEW x \in t.said PROVE NamesOld(x, account) /\ OfPane(x) /\ StandsDone(x, account)
    <3>1. CASE x \in screen.said
      BY <3>1 DEF PanesInv, ScreenFits
    <3>2. CASE c.says = "ok" /\ x.kind = c.kind /\ x.arg = c.arg
      BY <1>1, <1>2, <3>2 DEF CallFits, NamesOld, OfPane, StandsDone
    <3> QED
      BY <1>6, <2>1, <3>1, <3>2
  <2> QED
    BY <1>6, <2>1 DEF ScreenFits
<1>8. ScreenFits(screen, account)'
  BY <1>1, <1>7 DEF ScreenFits, OfPane
<1>9. CallFits(q, account)
  BY <1>4, <1>5 DEF CallFits, Older, NamesOld, OfPane
<1>10. \A x \in wire' : CallFits(x, account)'
  BY <1>1, <1>9 DEF PanesInv, CallFits, OfPane
<1>11. IsFiniteSet(wire') /\ Cardinality(wire') <= MaxWire
  <2> DEFINE n == Cardinality(wire)
             k == Cardinality(r)
  <2>1. IsFiniteSet(wire) /\ n <= MaxWire
    BY DEF PanesInv
  <2>2. IsFiniteSet(r) /\ k = n - 1
    BY <2>1, FS_RemoveElement
  <2>3. n \in Nat /\ k \in Nat
    BY <2>1, <2>2, FS_CardinalityType
  <2>4. IsFiniteSet(r \cup {q}) /\ Cardinality(r \cup {q}) = IF q \in r THEN k ELSE k + 1
    BY <2>2, FS_AddElement
  <2> HIDE DEF n, k, r
  <2>5. k <= MaxWire /\ k + 1 <= MaxWire
    BY <2>1, <2>2, <2>3
  <2>6. Cardinality(r) <= MaxWire /\ Cardinality(r \cup {q}) <= MaxWire
    BY <2>4, <2>5 DEF k
  <2> QED
    BY <1>1, <2>2, <2>4, <2>6
<1>12. ASSUME screen'.alone, ~screen'.gone PROVE AloneFits(account, screen'.data, wire')
  <2>1. s.alone /\ ~s.gone /\ c.says # "lost" /\ (reload => r = {}) /\ screen'.data = s.data
    BY <1>1, <1>6, <1>12 DEF al
  <2>2. r = {}
    BY <2>1 DEF PanesInv, AloneFits
  <2>3. CASE reload
    <3>1. wire' = {q}
      BY <1>1, <2>2, <2>3
    <3>2. AloneCall(account, s.data, q)
      BY <1>5 DEF AloneCall
    <3> QED
      BY <2>1, <3>1, <3>2 DEF AloneFits
  <2>4. CASE ~reload
    <3>1. wire' = {} /\ s.data = account
      BY <1>1, <2>1, <2>2, <2>4
    <3> QED
      BY <2>1, <3>1 DEF AloneFits
  <2> QED
    BY <2>3, <2>4
<1>13. screen'.alone /\ ~screen'.gone => AloneFits(account, screen.data, wire)'
  BY <1>1, <1>12
<1> QED
  BY <1>1, <1>8, <1>10, <1>11, <1>13 DEF PanesInv

\* What stood in the portal's a still stands in b, which came after it: no name
\* is given twice, no session comes back, and no budget is forgotten.
LEMMA LaterStands ==
  ASSUME NEW a \in Holdings, NEW b \in Holdings, b.next >= a.next, b.items \subseteq a.items \cup {a.next},
         b.others \subseteq a.others, pane = "keys" => (a.extra => b.extra)
  PROVE  /\ \A x \in PaneCallRec : CallFits(x, a) => CallFits(x, b)
         /\ \A s \in ScreenRec : ScreenFits(s, a) => ScreenFits(s, b)
<1>n. a.next \in Nat /\ b.next \in Nat /\ a.items \subseteq Nat
  <2>1. a.next \in 1 .. MaxPaneItems + 1 /\ b.next \in 1 .. MaxPaneItems + 1 /\ a.items \subseteq 1 .. MaxPaneItems
    BY DEF Holdings, Items
  <2> QED
    BY <2>1, PanesAssumption
<1>o. ASSUME NEW S \in SUBSET Nat, Older(S, a) PROVE Older(S, b)
  <2>1. ASSUME NEW i \in S PROVE i < b.next
    <3>1. i \in Nat /\ i < a.next
      BY <1>o DEF Older
    <3> QED
      BY <1>n, <3>1
  <2> QED
    BY <2>1 DEF Older
<1>d. \A x : x.arg \in Nat /\ NamesOld(x, a) => NamesOld(x, b)
  BY <1>n DEF NamesOld
<1>s. \A x : x.arg \in Nat /\ NamesOld(x, a) /\ OfPane(x) /\ StandsDone(x, a) => StandsDone(x, b)
  BY <1>n DEF NamesOld, OfPane, StandsDone
<1>i. \A h \in Holdings : h.items \in SUBSET Nat
  BY PanesAssumption DEF Holdings, Items
<1>1. ASSUME NEW x \in PaneCallRec, CallFits(x, a) PROVE CallFits(x, b)
  <2>1. x.arg \in Nat /\ x.saw.items \in SUBSET Nat
    BY <1>i DEF PaneCallRec
  <2> QED
    BY <1>1, <1>o, <1>d, <1>s, <2>1 DEF CallFits
<1>2. ASSUME NEW s \in ScreenRec, ScreenFits(s, a) PROVE ScreenFits(s, b)
  <2>1. s.data.items \in SUBSET Nat /\ s.dialog.arg \in Nat /\ \A x \in s.said : x.arg \in Nat
    BY <1>i DEF ScreenRec, DialogRec, NoDialog
  <2> QED
    BY <1>2, <1>o, <1>d, <1>s, <2>1 DEF ScreenFits
<1> QED
  BY <1>1, <1>2

\* Another call in the place of c.
LEMMA Replaces ==
  ASSUME NEW c \in wire, NEW q, IsFiniteSet(wire), Cardinality(wire) <= MaxWire
  PROVE  IsFiniteSet((wire \ {c}) \cup {q}) /\ Cardinality((wire \ {c}) \cup {q}) <= MaxWire
<1> DEFINE r == wire \ {c}
           n == Cardinality(wire)
           k == Cardinality(r)
<1>2. IsFiniteSet(r) /\ k = n - 1
  BY FS_RemoveElement
<1>3. n \in Nat /\ k \in Nat
  BY <1>2, FS_CardinalityType
<1>4. IsFiniteSet(r \cup {q}) /\ Cardinality(r \cup {q}) = IF q \in r THEN k ELSE k + 1
  BY <1>2, FS_AddElement
<1>m. n <= MaxWire
  OBVIOUS
<1> HIDE DEF n, k, r
<1>5. k <= MaxWire /\ k + 1 <= MaxWire
  BY <1>m, <1>2, <1>3, PanesAssumption
<1>6. IsFiniteSet(r \cup {q}) /\ Cardinality(r \cup {q}) <= MaxWire
  BY <1>4, <1>5
<1> QED
  BY <1>6 DEF r

\* The portal handles a request (Arrives): it does it, refuses it, or its answer
\* is lost, and whatever was said stands.
LEMMA ArrivesKeeps ==
  ASSUME PanesInv, NEW c \in wire, Arrives(c)
  PROVE  PanesInv'
<1> USE PanesAssumption
<1>0. /\ pane \in PaneNames /\ account \in Holdings /\ Older(account.items, account)
      /\ ScreenFits(screen, account) /\ CallFits(c, account) /\ c \in PaneCallRec /\ screen \in ScreenRec
      /\ \A x \in wire : CallFits(x, account) /\ x \in PaneCallRec
      /\ IsFiniteSet(wire) /\ Cardinality(wire) <= MaxWire
  BY DEF PanesInv, CallFits, ScreenFits
<1>1. PICK says \in {"ok", "refused", "lost"}, done \in BOOLEAN :
       /\ says = "ok" => done
       /\ says = "refused" => ~done
       /\ done => ~Refused(account, c)
       /\ account' = IF done THEN Effect(account, c) ELSE account
       /\ wire' = (wire \ {c}) \cup {[c EXCEPT !.stage = "back", !.says = says, !.saw = IF c.kind = "load" THEN account ELSE @]}
  BY DEF Arrives
<1>2. c.stage = "sent" /\ c.says = "ok" /\ UNCHANGED <<pane, screen>>
  BY <1>0 DEF Arrives, CallFits
<1> DEFINE b == IF done THEN Effect(account, c) ELSE account
           w == IF c.kind = "load" THEN account ELSE c.saw
           q == [c EXCEPT !.stage = "back", !.says = says, !.saw = w]
<1>3. account' = b /\ wire' = (wire \ {c}) \cup {q}
  BY <1>0, <1>1 DEF PaneCallRec
<1>n. account.next \in Nat
  <2>1. account.next \in 1 .. MaxPaneItems + 1
    BY <1>0 DEF Holdings
  <2> QED
    BY <2>1
<1>4. /\ b \in Holdings /\ Older(b.items, b) /\ b.next >= account.next
      /\ b.items \subseteq account.items \cup {account.next} /\ b.others \subseteq account.others
      /\ c.kind # "setting" => (account.extra => b.extra)
  <2>1. CASE done
    BY <1>0, <1>1, <2>1, EffectIs DEF EffectSound
  <2>2. CASE ~done
    BY <1>0, <1>n, <2>2
  <2> QED
    BY <2>1, <2>2
<1>5. done => EffectSound(account, c, b)
  BY <1>0, <1>1, EffectIs
<1>b. ~done => b = account
  OBVIOUS
<1>6. w \in Holdings
  BY <1>0 DEF PaneCallRec
<1>w. (c.kind = "load" => w = account) /\ (c.kind # "load" => w = c.saw)
  OBVIOUS
<1> HIDE DEF b, w
<1>7. /\ q \in PaneCallRec /\ q.kind = c.kind /\ q.arg = c.arg /\ q.stage = "back" /\ q.says = says /\ q.saw = w
  BY <1>0, <1>6 DEF PaneCallRec
<1> HIDE DEF q
<1>8. pane = "keys" => (account.extra => b.extra)
  BY <1>0, <1>4 DEF CallFits, OfPane
<1>9. /\ \A x \in PaneCallRec : CallFits(x, account) => CallFits(x, b)
      /\ \A s \in ScreenRec : ScreenFits(s, account) => ScreenFits(s, b)
  BY <1>0, <1>4, <1>8, LaterStands
<1>10. CallFits(q, b)
  <2>1. CallFits(c, b)
    BY <1>0, <1>9
  <2>2. Older(w.items, b)
    <3>1. CASE c.kind = "load"
      <4>1. account.items \subseteq Nat /\ b.next \in Nat
        <5>1. account.items \subseteq 1 .. MaxPaneItems /\ b.next \in 1 .. MaxPaneItems + 1
          BY <1>0, <1>4 DEF Holdings, Items
        <5> QED
          BY <5>1
      <4> QED
        BY <1>0, <1>4, <1>n, <1>w, <3>1, <4>1 DEF Older
    <3>2. CASE c.kind # "load"
      BY <1>w, <2>1, <3>2 DEF CallFits
    <3> QED
      BY <3>1, <3>2
  <2>3. says = "ok" => StandsDone(q, b)
    BY <1>1, <1>5, <1>7 DEF EffectSound, StandsDone
  <2>4. NamesOld(q, b) /\ OfPane(q)
    BY <1>7, <2>1 DEF CallFits, NamesOld, OfPane
  <2> QED
    BY <1>7, <2>2, <2>3, <2>4 DEF CallFits
<1>11. \A x \in wire' : CallFits(x, b)
  BY <1>0, <1>3, <1>9, <1>10
<1>12. (\A x \in wire : CallFits(x, account))'
  BY <1>2, <1>3, <1>11 DEF CallFits, OfPane
<1>13. ScreenFits(screen, account)'
  <2>1. ScreenFits(screen, b)
    BY <1>0, <1>9
  <2> QED
    BY <1>2, <1>3, <2>1 DEF ScreenFits, OfPane
<1>14. IsFiniteSet(wire') /\ Cardinality(wire') <= MaxWire
  BY <1>0, <1>3, Replaces
<1>15. ASSUME screen.alone, ~screen.gone PROVE AloneFits(b, screen.data, wire')
  <2>1. wire = {c} /\ AloneCall(account, screen.data, c)
    BY <1>15 DEF PanesInv, AloneFits
  <2>2. wire' = {q}
    BY <1>3, <2>1
  <2>3. AloneCall(b, screen.data, q)
    <3> DEFINE d == screen.data
    <3>1. q.kind = "load" /\ q.stage = "back" /\ q.says = "ok" => q.saw = b
      BY <1>1, <1>5, <1>7, <1>w DEF EffectSound
    <3>2. q.kind \notin {"load", "setting"} /\ (q.stage = "sent" \/ q.says = "refused") => d = b
      BY <1>1, <1>2, <1>b, <1>7, <2>1 DEF AloneCall
    <3>3. q.kind \in {"begin", "password", "delete"} => d = b
      BY <1>5, <1>b, <1>7, <2>1 DEF AloneCall, EffectSound
    <3>4. q.kind = "enable" /\ q.stage = "back" /\ q.says = "ok" => b = [d EXCEPT !.main = (q.arg = 1)]
      <4>1. c.kind = "enable" => d = account
        BY <1>2, <2>1 DEF AloneCall
      <4> QED
        BY <1>1, <1>5, <1>7, <4>1 DEF EffectSound
    <3>5. q.kind = "setting" =>
       IF q.stage = "back" /\ q.says = "ok" THEN d = b
       ELSE q.says # "lost" => d = [b EXCEPT !.extra = (q.arg = 1)] /\ b.extra = (q.arg # 1)
      <4> SUFFICES ASSUME c.kind = "setting"
                   PROVE IF q.says = "ok" THEN d = b
                         ELSE q.says # "lost" => d = [b EXCEPT !.extra = (q.arg = 1)] /\ b.extra = (q.arg # 1)
        BY <1>7
      <4>1. d = [account EXCEPT !.extra = (c.arg = 1)] /\ account.extra = (c.arg # 1)
        BY <1>2, <2>1 DEF AloneCall
      <4>2. CASE says = "ok"
        <5>1. b = [account EXCEPT !.extra = (c.arg = 1)]
          BY <1>1, <1>5, <4>2 DEF EffectSound
        <5> QED
          BY <1>7, <4>1, <4>2, <5>1
      <4>3. CASE says = "refused"
        <5>1. b = account
          BY <1>1, <1>b, <4>3
        <5> QED
          BY <1>7, <4>1, <4>3, <5>1
      <4>4. CASE says = "lost"
        BY <1>7, <4>4
      <4> QED
        BY <4>2, <4>3, <4>4
    <3> QED
      BY <3>1, <3>2, <3>3, <3>4, <3>5 DEF AloneCall
  <2> QED
    BY <2>2, <2>3 DEF AloneFits
<1>16. screen'.alone /\ ~screen'.gone => AloneFits(account', screen'.data, wire')
  BY <1>2, <1>3, <1>15
<1> QED
  BY <1>0, <1>2, <1>3, <1>4, <1>12, <1>13, <1>14, <1>16 DEF PanesInv

\* Says adds one line to what the screen says.
LEMMA SaysIs ==
  ASSUME NEW s \in ScreenRec, NEW c \in PaneCallRec
  PROVE  /\ Says(s, c) \in ScreenRec /\ Says(s, c).data = s.data /\ Says(s, c).made = s.made
         /\ Says(s, c).alone = s.alone /\ Says(s, c).gone = s.gone /\ Says(s, c).dialog = s.dialog
         /\ \A x \in Says(s, c).said : x \in s.said \/ (x.kind = c.kind /\ x.arg = c.arg)
<1> DEFINE r == [kind |-> c.kind, arg |-> c.arg]
           d == s.said \cup {r}
           t == [s EXCEPT !.said = d]
<1>1. Says(s, c) = t
  BY DEF Says, ScreenRec
<1>2. r \in [kind : PaneKinds, arg : Nat] /\ r.kind = c.kind /\ r.arg = c.arg
  BY DEF PaneCallRec
<1> HIDE DEF r
<1>3. d \in SUBSET [kind : PaneKinds, arg : Nat] /\ \A x \in d : x \in s.said \/ (x.kind = c.kind /\ x.arg = c.arg)
  BY <1>2 DEF ScreenRec
<1> HIDE DEF d
<1>4. /\ t \in ScreenRec /\ t.data = s.data /\ t.made = s.made /\ t.alone = s.alone /\ t.gone = s.gone
      /\ t.dialog = s.dialog /\ t.said = d
  BY <1>3 DEF ScreenRec
<1> HIDE DEF t
<1> QED
  BY <1>1, <1>3, <1>4

\* Every step of the panes keeps the invariant.
LEMMA PanesStep == PanesInv /\ [PanesNext]_paneVars => PanesInv'
<1> SUFFICES ASSUME PanesInv, [PanesNext]_paneVars PROVE PanesInv'
  OBVIOUS
<1> USE PanesAssumption
<1>0. /\ pane \in PaneNames /\ account \in Holdings /\ screen \in ScreenRec /\ screen.data \in Holdings
      /\ NamesOld(screen.dialog, account) /\ Older(screen.data.items, account)
      /\ \A c \in wire : c \in PaneCallRec /\ CallFits(c, account) /\ Older(c.saw.items, account)
      /\ screen.alone /\ ~screen.gone => \A c \in wire : AloneCall(account, screen.data, c)
  BY DEF PanesInv, ScreenFits, CallFits, AloneFits, ScreenRec
<1>i. \A i \in screen.data.items : i \in Nat /\ i < account.next
  <2>1. screen.data.items \subseteq 1 .. MaxPaneItems
    BY <1>0 DEF Holdings, Items
  <2> QED
    BY <1>0, <2>1 DEF Older
<1>o. \A i \in screen.data.others : i \in Nat
  BY <1>0 DEF Holdings
<1>d. NamesOld(NoDialog, account) /\ NoDialog \in DialogRec /\ TRUE \in BOOLEAN /\ FALSE \in BOOLEAN /\ 0 \in Nat /\ 1 \in Nat /\ 3 \in Nat
  BY DEF NamesOld, NoDialog, DialogRec
<1>k. /\ {"load", "create", "revoke", "rename", "budget", "unlink", "add", "import", "edit", "forget", "purge",
         "enable", "setting", "begin", "toggle", "remove", "register", "session", "sessions", "password", "delete"} \subseteq PaneKinds
  BY DEF PaneKinds
\* A request that leaves the data alone.
<1>s. ASSUME NEW kind \in PaneKinds \ {"setting"}, NEW arg \in Nat, NEW s \in ScreenRec, Starts(s, kind, arg),
             s.data = screen.data, s.alone = screen.alone, s.gone = screen.gone, s.said = screen.said,
             s.made = screen.made, NamesOld(s.dialog, account),
             kind \in {"revoke", "forget", "remove"} => arg < account.next, kind = "budget" => pane = "keys"
      PROVE PanesInv'
  BY <1>s, <1>0, StartsKeeps
\* An answer that is said, after which the list is read again.
<1>y. ASSUME NEW c \in wire, NEW s \in ScreenRec, c.says = "ok", Handles(c, Says(s, c), TRUE),
             s.data = screen.data, s.alone = screen.alone, s.gone = screen.gone, s.said = screen.said,
             s.made = screen.made, NamesOld(s.dialog, account)
      PROVE PanesInv'
  <2> DEFINE t == Says(s, c)
  <2>1. /\ t \in ScreenRec /\ t.data = s.data /\ t.made = s.made /\ t.alone = s.alone /\ t.gone = s.gone /\ t.dialog = s.dialog
        /\ \A x \in t.said : x \in s.said \/ (x.kind = c.kind /\ x.arg = c.arg)
    BY <1>0, SaysIs
  <2>2. Handles(c, t, TRUE)
    BY <1>y
  <2> HIDE DEF t
  <2> QED
    BY <1>y, <1>0, <2>1, <2>2, HandlesKeeps
\* An answer that changes nothing of the data.
<1>r. ASSUME NEW c \in wire, NEW s \in ScreenRec, Handles(c, s, FALSE),
             s.data = screen.data, s.alone = screen.alone, s.gone = screen.gone, s.said = screen.said,
             s.made = screen.made, NamesOld(s.dialog, account),
             \/ c.says # "ok" /\ c.kind \notin {"load", "setting"}
             \/ c.kind \in {"begin", "password", "delete"}
      PROVE PanesInv'
  <2>1. s.alone /\ ~s.gone /\ c.says # "lost" => s.data = account
    <3>1. c.says \in {"ok", "refused", "lost"}
      BY <1>0 DEF PaneCallRec
    <3> QED
      BY <1>r, <1>0, <3>1 DEF AloneCall
  <2> QED
    BY <1>r, <1>0, <2>1, HandlesKeeps
\* A change of the screen that no request goes with.
<1>c. ASSUME NEW s \in ScreenRec, screen' = s, s.data = screen.data, s.alone = screen.alone, s.gone = screen.gone,
             s.said = screen.said, s.made = screen.made, NamesOld(s.dialog, account), UNCHANGED <<pane, account, wire>>
      PROVE PanesInv'
  BY <1>c, ScreenKeeps
<1>1. CASE \E c \in wire : Arrives(c)
  BY <1>1, ArrivesKeeps
<1>2. ASSUME NEW c \in wire, LoadAnswers(c) PROVE PanesInv'
  <2>1. CASE c.says = "ok"
    <3> DEFINE k == IF screen.chosen = 0 /\ pane = "keys" /\ c.saw.items # {}
                       THEN CHOOSE k \in c.saw.items : \A j \in c.saw.items : k <= j ELSE screen.chosen
               s == [screen EXCEPT !.data = c.saw, !.chosen = k]
    <3>1. Handles(c, s, FALSE) /\ c.kind = "load" /\ c.stage = "back"
      BY <1>2, <1>0, <2>1 DEF LoadAnswers, Loaded, Handles, ScreenRec
    <3>2. c.saw \in Holdings /\ c.saw.items \in SUBSET Items /\ screen.chosen \in ChosenKeys
      BY <1>0 DEF PaneCallRec, Holdings, ScreenRec
    <3>3. k \in ChosenKeys
      BY <3>2 DEF ChosenKeys
    <3> HIDE DEF k
    <3>4. /\ s \in ScreenRec /\ s.data = c.saw /\ s.made = screen.made /\ s.alone = screen.alone /\ s.gone = screen.gone
          /\ s.said = screen.said /\ s.dialog = screen.dialog
      BY <1>0, <3>2, <3>3 DEF ScreenRec
    <3> HIDE DEF s
    <3>5. s.alone /\ ~s.gone => s.data = account
      BY <1>0, <2>1, <3>1, <3>4 DEF AloneCall
    <3> QED
      BY <1>0, <3>1, <3>4, <3>5, HandlesKeeps
  <2>2. CASE c.says # "ok"
    <3> DEFINE s == [screen EXCEPT !.alone = FALSE]
    <3>1. Handles(c, s, FALSE)
      BY <1>2, <2>2 DEF LoadAnswers
    <3>2. /\ s \in ScreenRec /\ s.data = screen.data /\ s.made = screen.made /\ ~s.alone /\ s.gone = screen.gone
          /\ s.said = screen.said /\ s.dialog = screen.dialog
      BY <1>0 DEF ScreenRec
    <3> HIDE DEF s
    <3> QED
      BY <1>0, <3>1, <3>2, HandlesKeeps
  <2> QED
    BY <2>1, <2>2
<1>3. CASE Reload
  BY <1>3, <1>0, <1>i, <1>o, <1>d, <1>k, <1>s DEF Reload
<1>4. CASE CreateKey
  <2> DEFINE s == [screen EXCEPT !.running = TRUE]
  <2>1. Starts(s, "create", 0)
    BY <1>4 DEF CreateKey
  <2>2. /\ s \in ScreenRec /\ s.data = screen.data /\ s.made = screen.made /\ s.alone = screen.alone
        /\ s.gone = screen.gone /\ s.said = screen.said /\ s.dialog = screen.dialog
    BY <1>0, <1>i, <1>o, <1>d DEF ScreenRec
  <2> HIDE DEF s
  <2> QED
    BY <1>4, <1>0, <1>i, <1>o, <1>d, <1>k, <1>s, <2>1, <2>2 DEF CreateKey
<1>5. ASSUME NEW k \in screen.data.items, RevokeKey(k) PROVE PanesInv'
  <2> DEFINE s == [screen EXCEPT !.running = TRUE]
  <2>1. Starts(s, "revoke", k)
    BY <1>5 DEF RevokeKey
  <2>2. /\ s \in ScreenRec /\ s.data = screen.data /\ s.made = screen.made /\ s.alone = screen.alone
        /\ s.gone = screen.gone /\ s.said = screen.said /\ s.dialog = screen.dialog
    BY <1>0, <1>i, <1>o, <1>d DEF ScreenRec
  <2> HIDE DEF s
  <2> QED
    BY <1>5, <1>0, <1>i, <1>o, <1>d, <1>k, <1>s, <2>1, <2>2 DEF RevokeKey
<1>6. ASSUME NEW k \in screen.data.items, RenameKey(k) PROVE PanesInv'
  <2> DEFINE s == [screen EXCEPT !.running = TRUE]
  <2>1. Starts(s, "rename", k)
    BY <1>6 DEF RenameKey
  <2>2. /\ s \in ScreenRec /\ s.data = screen.data /\ s.made = screen.made /\ s.alone = screen.alone
        /\ s.gone = screen.gone /\ s.said = screen.said /\ s.dialog = screen.dialog
    BY <1>0, <1>i, <1>o, <1>d DEF ScreenRec
  <2> HIDE DEF s
  <2> QED
    BY <1>6, <1>0, <1>i, <1>o, <1>d, <1>k, <1>s, <2>1, <2>2 DEF RenameKey
<1>7. CASE RequestBudget
  <2> DEFINE s == [screen EXCEPT !.running = TRUE]
  <2>1. Starts(s, "budget", 0)
    BY <1>7 DEF RequestBudget
  <2>2. /\ s \in ScreenRec /\ s.data = screen.data /\ s.made = screen.made /\ s.alone = screen.alone
        /\ s.gone = screen.gone /\ s.said = screen.said /\ s.dialog = screen.dialog
    BY <1>0, <1>i, <1>o, <1>d DEF ScreenRec
  <2> HIDE DEF s
  <2> QED
    BY <1>7, <1>0, <1>i, <1>o, <1>d, <1>k, <1>s, <2>1, <2>2 DEF RequestBudget
<1>8. CASE UnlinkDiscord
  BY <1>8, <1>0, <1>i, <1>o, <1>d, <1>k, <1>s DEF UnlinkDiscord
<1>9. CASE AddFact
  BY <1>9, <1>0, <1>i, <1>o, <1>d, <1>k, <1>s DEF AddFact
<1>10. CASE ImportFacts
  BY <1>10, <1>0, <1>i, <1>o, <1>d, <1>k, <1>s DEF ImportFacts
<1>11. CASE SaveEdit
  BY <1>11, <1>0, <1>i, <1>o, <1>d, <1>k, <1>s DEF SaveEdit
<1>12. ASSUME NEW f \in screen.data.items, Forget(f) PROVE PanesInv'
  BY <1>12, <1>0, <1>i, <1>o, <1>d, <1>k, <1>s DEF Forget
<1>13. CASE Purge
  BY <1>13, <1>0, <1>i, <1>o, <1>d, <1>k, <1>s DEF Purge
<1>14. CASE EnableMemory
  BY <1>14, <1>0, <1>i, <1>o, <1>d, <1>k, <1>s DEF EnableMemory
<1>15. ASSUME NEW o \in screen.data.others, RevokeSession(o) PROVE PanesInv'
  <2> DEFINE s == [screen EXCEPT !.sessBusy = o]
  <2>1. Starts(s, "session", o)
    BY <1>15 DEF RevokeSession
  <2>2. /\ s \in ScreenRec /\ s.data = screen.data /\ s.made = screen.made /\ s.alone = screen.alone
        /\ s.gone = screen.gone /\ s.said = screen.said /\ s.dialog = screen.dialog
    BY <1>0, <1>i, <1>o, <1>d DEF ScreenRec
  <2> HIDE DEF s
  <2> QED
    BY <1>15, <1>0, <1>i, <1>o, <1>d, <1>k, <1>s, <2>1, <2>2 DEF RevokeSession
<1>16. CASE RevokeOtherSessions
  <2> DEFINE s == [screen EXCEPT !.sessBusy = 3]
  <2>1. Starts(s, "sessions", 0)
    BY <1>16 DEF RevokeOtherSessions
  <2>2. /\ s \in ScreenRec /\ s.data = screen.data /\ s.made = screen.made /\ s.alone = screen.alone
        /\ s.gone = screen.gone /\ s.said = screen.said /\ s.dialog = screen.dialog
    BY <1>0, <1>i, <1>o, <1>d DEF ScreenRec
  <2> HIDE DEF s
  <2> QED
    BY <1>16, <1>0, <1>i, <1>o, <1>d, <1>k, <1>s, <2>1, <2>2 DEF RevokeOtherSessions
<1>17. CASE ChangePassword
  <2> DEFINE s == [screen EXCEPT !.running = TRUE]
  <2>1. Starts(s, "password", 0)
    BY <1>17 DEF ChangePassword
  <2>2. /\ s \in ScreenRec /\ s.data = screen.data /\ s.made = screen.made /\ s.alone = screen.alone
        /\ s.gone = screen.gone /\ s.said = screen.said /\ s.dialog = screen.dialog
    BY <1>0, <1>i, <1>o, <1>d DEF ScreenRec
  <2> HIDE DEF s
  <2> QED
    BY <1>17, <1>0, <1>i, <1>o, <1>d, <1>k, <1>s, <2>1, <2>2 DEF ChangePassword
<1>18. CASE DeleteAccount
  BY <1>18, <1>0, <1>i, <1>o, <1>d, <1>k, <1>s DEF DeleteAccount
<1>19. CASE ToggleBudgetForm
  <2> DEFINE s == [screen EXCEPT !.form = ~screen.form]
  <2>1. screen' = s /\ UNCHANGED <<pane, account, wire>>
    BY <1>19, <1>0 DEF ToggleBudgetForm, ScreenRec
  <2>2. /\ s \in ScreenRec /\ s.data = screen.data /\ s.made = screen.made /\ s.alone = screen.alone
        /\ s.gone = screen.gone /\ s.said = screen.said /\ NamesOld(s.dialog, account)
    BY <1>0, <1>i, <1>d DEF ScreenRec
  <2> HIDE DEF s
  <2> QED
    BY <1>c, <2>1, <2>2
<1>20. ASSUME NEW f \in screen.data.items, BeginEdit(f) PROVE PanesInv'
  <2> DEFINE s == [screen EXCEPT !.editing = f]
  <2>1. screen' = s /\ UNCHANGED <<pane, account, wire>>
    BY <1>20, <1>0 DEF BeginEdit, ScreenRec
  <2>2. /\ s \in ScreenRec /\ s.data = screen.data /\ s.made = screen.made /\ s.alone = screen.alone
        /\ s.gone = screen.gone /\ s.said = screen.said /\ NamesOld(s.dialog, account)
    BY <1>0, <1>i, <1>d DEF ScreenRec
  <2> HIDE DEF s
  <2> QED
    BY <1>c, <2>1, <2>2
<1>21. CASE CancelEdit
  <2> DEFINE s == [screen EXCEPT !.editing = 0]
  <2>1. screen' = s /\ UNCHANGED <<pane, account, wire>>
    BY <1>21, <1>0 DEF CancelEdit, ScreenRec
  <2>2. /\ s \in ScreenRec /\ s.data = screen.data /\ s.made = screen.made /\ s.alone = screen.alone
        /\ s.gone = screen.gone /\ s.said = screen.said /\ NamesOld(s.dialog, account)
    BY <1>0, <1>i, <1>d DEF ScreenRec
  <2> HIDE DEF s
  <2> QED
    BY <1>c, <2>1, <2>2
<1>22. CASE TypePassword
  <2> DEFINE s == [screen EXCEPT !.pw = TRUE]
  <2>1. screen' = s /\ UNCHANGED <<pane, account, wire>>
    BY <1>22, <1>0 DEF TypePassword, ScreenRec
  <2>2. /\ s \in ScreenRec /\ s.data = screen.data /\ s.made = screen.made /\ s.alone = screen.alone
        /\ s.gone = screen.gone /\ s.said = screen.said /\ NamesOld(s.dialog, account)
    BY <1>0, <1>i, <1>d DEF ScreenRec
  <2> HIDE DEF s
  <2> QED
    BY <1>c, <2>1, <2>2
<1>23. CASE CloseDialog
  <2> DEFINE s == [screen EXCEPT !.dialog = NoDialog, !.pw = FALSE]
  <2>1. screen' = s /\ UNCHANGED <<pane, account, wire>>
    BY <1>23, <1>0 DEF CloseDialog, ScreenRec
  <2>2. /\ s \in ScreenRec /\ s.data = screen.data /\ s.made = screen.made /\ s.alone = screen.alone
        /\ s.gone = screen.gone /\ s.said = screen.said /\ NamesOld(s.dialog, account)
    BY <1>0, <1>i, <1>d DEF ScreenRec
  <2> HIDE DEF s
  <2> QED
    BY <1>c, <2>1, <2>2
<1>24. ASSUME NEW c \in wire, KeyActionAnswers(c) PROVE PanesInv'
  <2>1. CASE c.says = "ok"
    <3> DEFINE s == [screen EXCEPT !.running = FALSE, !.form = screen.form /\ c.kind # "budget"]
    <3>1. Handles(c, Says(s, c), TRUE)
      BY <1>24, <1>0, <2>1 DEF KeyActionAnswers, ScreenRec
    <3>2. /\ s \in ScreenRec /\ s.data = screen.data /\ s.made = screen.made /\ s.alone = screen.alone
          /\ s.gone = screen.gone /\ s.said = screen.said /\ NamesOld(s.dialog, account)
      BY <1>0, <1>d DEF ScreenRec
    <3> HIDE DEF s
    <3> QED
      BY <1>24, <1>y, <2>1, <3>1, <3>2 DEF KeyActionAnswers
  <2>2. CASE c.says # "ok"
    <3> DEFINE s == [screen EXCEPT !.running = FALSE]
    <3>1. Handles(c, s, FALSE)
      BY <1>24, <1>0, <2>2 DEF KeyActionAnswers, ScreenRec
    <3>2. /\ s \in ScreenRec /\ s.data = screen.data /\ s.made = screen.made /\ s.alone = screen.alone
          /\ s.gone = screen.gone /\ s.said = screen.said /\ NamesOld(s.dialog, account)
      BY <1>0, <1>d DEF ScreenRec
    <3> HIDE DEF s
    <3> QED
      BY <1>24, <1>r, <2>2, <3>1, <3>2 DEF KeyActionAnswers
  <2> QED
    BY <2>1, <2>2
<1>25. ASSUME NEW c \in wire, FactAnswers(c) PROVE PanesInv'
  <2>1. CASE c.says = "ok"
    <3> DEFINE s == [screen EXCEPT !.editing = IF c.kind = "edit" THEN 0 ELSE screen.editing]
    <3>1. Handles(c, Says(s, c), TRUE)
      BY <1>25, <1>0, <2>1 DEF FactAnswers, ScreenRec
    <3>2. /\ s \in ScreenRec /\ s.data = screen.data /\ s.made = screen.made /\ s.alone = screen.alone
          /\ s.gone = screen.gone /\ s.said = screen.said /\ NamesOld(s.dialog, account)
      BY <1>0, <1>d DEF ScreenRec
    <3> HIDE DEF s
    <3> QED
      BY <1>25, <1>y, <2>1, <3>1, <3>2 DEF FactAnswers
  <2>2. CASE c.says # "ok"
    <3> DEFINE s == screen
    <3>1. Handles(c, s, FALSE)
      BY <1>25, <1>0, <2>2 DEF FactAnswers, ScreenRec
    <3>2. /\ s \in ScreenRec /\ s.data = screen.data /\ s.made = screen.made /\ s.alone = screen.alone
          /\ s.gone = screen.gone /\ s.said = screen.said /\ NamesOld(s.dialog, account)
      BY <1>0
    <3> HIDE DEF s
    <3> QED
      BY <1>25, <1>r, <2>2, <3>1, <3>2 DEF FactAnswers
  <2> QED
    BY <2>1, <2>2
<1>26. ASSUME NEW c \in wire, ProtectedAnswers(c) PROVE PanesInv'
  <2>1. CASE c.says = "ok"
    <3> DEFINE s == [screen EXCEPT !.dialog = NoDialog, !.pw = FALSE]
    <3>1. Handles(c, Says(s, c), TRUE)
      BY <1>26, <1>0, <2>1 DEF ProtectedAnswers, ScreenRec
    <3>2. /\ s \in ScreenRec /\ s.data = screen.data /\ s.made = screen.made /\ s.alone = screen.alone
          /\ s.gone = screen.gone /\ s.said = screen.said /\ NamesOld(s.dialog, account)
      BY <1>0, <1>d DEF ScreenRec
    <3> HIDE DEF s
    <3> QED
      BY <1>26, <1>y, <2>1, <3>1, <3>2 DEF ProtectedAnswers
  <2>2. CASE c.says # "ok"
    <3> DEFINE s == screen
    <3>1. Handles(c, s, FALSE)
      BY <1>26, <1>0, <2>2 DEF ProtectedAnswers, ScreenRec
    <3>2. /\ s \in ScreenRec /\ s.data = screen.data /\ s.made = screen.made /\ s.alone = screen.alone
          /\ s.gone = screen.gone /\ s.said = screen.said /\ NamesOld(s.dialog, account)
      BY <1>0
    <3> HIDE DEF s
    <3> QED
      BY <1>26, <1>r, <2>2, <3>1, <3>2 DEF ProtectedAnswers
  <2> QED
    BY <2>1, <2>2
<1>27. ASSUME NEW c \in wire, RegisterAnswers(c) PROVE PanesInv'
  <2>1. CASE c.says = "ok"
    <3> DEFINE s == screen
    <3>1. Handles(c, Says(s, c), TRUE)
      BY <1>27, <1>0, <2>1 DEF RegisterAnswers, ScreenRec
    <3>2. /\ s \in ScreenRec /\ s.data = screen.data /\ s.made = screen.made /\ s.alone = screen.alone
          /\ s.gone = screen.gone /\ s.said = screen.said /\ NamesOld(s.dialog, account)
      BY <1>0
    <3> HIDE DEF s
    <3> QED
      BY <1>27, <1>y, <2>1, <3>1, <3>2 DEF RegisterAnswers
  <2>2. CASE c.says # "ok"
    <3> DEFINE s == screen
    <3>1. Handles(c, s, FALSE)
      BY <1>27, <1>0, <2>2 DEF RegisterAnswers, ScreenRec
    <3>2. /\ s \in ScreenRec /\ s.data = screen.data /\ s.made = screen.made /\ s.alone = screen.alone
          /\ s.gone = screen.gone /\ s.said = screen.said /\ NamesOld(s.dialog, account)
      BY <1>0
    <3> HIDE DEF s
    <3> QED
      BY <1>27, <1>r, <2>2, <3>1, <3>2 DEF RegisterAnswers
  <2> QED
    BY <2>1, <2>2
<1>28. ASSUME NEW c \in wire, SessionAnswers(c) PROVE PanesInv'
  <2>1. CASE c.says = "ok"
    <3> DEFINE s == [screen EXCEPT !.sessBusy = 0]
    <3>1. Handles(c, Says(s, c), TRUE)
      BY <1>28, <1>0, <2>1 DEF SessionAnswers, ScreenRec
    <3>2. /\ s \in ScreenRec /\ s.data = screen.data /\ s.made = screen.made /\ s.alone = screen.alone
          /\ s.gone = screen.gone /\ s.said = screen.said /\ NamesOld(s.dialog, account)
      BY <1>0, <1>d DEF ScreenRec
    <3> HIDE DEF s
    <3> QED
      BY <1>28, <1>y, <2>1, <3>1, <3>2 DEF SessionAnswers
  <2>2. CASE c.says # "ok"
    <3> DEFINE s == [screen EXCEPT !.sessBusy = 0]
    <3>1. Handles(c, s, FALSE)
      BY <1>28, <1>0, <2>2 DEF SessionAnswers, ScreenRec
    <3>2. /\ s \in ScreenRec /\ s.data = screen.data /\ s.made = screen.made /\ s.alone = screen.alone
          /\ s.gone = screen.gone /\ s.said = screen.said /\ NamesOld(s.dialog, account)
      BY <1>0, <1>d DEF ScreenRec
    <3> HIDE DEF s
    <3> QED
      BY <1>28, <1>r, <2>2, <3>1, <3>2 DEF SessionAnswers
  <2> QED
    BY <2>1, <2>2
<1>29. ASSUME NEW c \in wire, UnlinkAnswers(c) PROVE PanesInv'
  <2>1. CASE c.says = "ok"
    BY <1>29, <1>0, <1>y, <2>1 DEF UnlinkAnswers
  <2>2. CASE c.says # "ok"
    <3>1. Handles(c, screen, TRUE)
      BY <1>29, <2>2 DEF UnlinkAnswers
    <3> QED
      BY <1>0, <3>1, HandlesKeeps
  <2> QED
    BY <2>1, <2>2
<1>30. ASSUME NEW c \in wire, EnableAnswers(c) PROVE PanesInv'
  <2>1. CASE c.says = "ok"
    <3> DEFINE e == [screen.data EXCEPT !.main = (c.arg = 1)]
               s == [screen EXCEPT !.data = e]
               u == Says(s, c)
    <3>1. Handles(c, u, FALSE) /\ c.kind = "enable" /\ c.stage = "back"
      BY <1>30, <1>0, <2>1 DEF EnableAnswers, Handles, ScreenRec
    <3>2. e \in Holdings /\ e.items = screen.data.items
      <4> DEFINE m == c.arg = 1
      <4>1. m \in BOOLEAN /\ e = [screen.data EXCEPT !.main = m]
        OBVIOUS
      <4> HIDE DEF m, e
      <4> QED
        BY <1>0, <4>1 DEF Holdings
    <3>3. screen.alone /\ ~screen.gone => e = account
      BY <1>0, <2>1, <3>1 DEF AloneCall
    <3> HIDE DEF e
    <3>4. /\ s \in ScreenRec /\ s.data = e /\ s.made = screen.made /\ s.alone = screen.alone
          /\ s.gone = screen.gone /\ s.said = screen.said /\ s.dialog = screen.dialog
      BY <1>0, <3>2 DEF ScreenRec
    <3> HIDE DEF s
    <3>5. /\ u \in ScreenRec /\ u.data = s.data /\ u.made = s.made /\ u.alone = s.alone /\ u.gone = s.gone /\ u.dialog = s.dialog
          /\ \A x \in u.said : x \in s.said \/ (x.kind = c.kind /\ x.arg = c.arg)
      BY <1>0, <3>4, SaysIs
    <3> HIDE DEF u
    <3>6. Older(u.data.items, account)
      BY <1>0, <3>2, <3>4, <3>5
    <3> QED
      BY <1>0, <2>1, <3>1, <3>3, <3>4, <3>5, <3>6, HandlesKeeps
  <2>2. CASE c.says # "ok"
    BY <1>30, <1>0, <1>r, <2>2 DEF EnableAnswers
  <2> QED
    BY <2>1, <2>2
<1>31. CASE SetSetting
  <2> DEFINE a == IF screen.data.extra THEN 0 ELSE 1
             e == [screen.data EXCEPT !.extra = ~screen.data.extra]
             s == [screen EXCEPT !.data = e]
  <2>1. Starts(s, "setting", a) /\ pane = "memory"
    BY <1>31, <1>0 DEF SetSetting, ScreenRec, Holdings
  <2>2. e \in Holdings /\ e.items = screen.data.items /\ a \in Nat
    BY <1>0 DEF Holdings
  <2>3. screen.data = account => e = [account EXCEPT !.extra = (a = 1)] /\ account.extra = (a # 1)
    BY <1>0 DEF Holdings
  <2> HIDE DEF e, a
  <2>4. /\ s \in ScreenRec /\ s.data = e /\ s.made = screen.made /\ s.alone = screen.alone
        /\ s.gone = screen.gone /\ s.said = screen.said /\ s.dialog = screen.dialog
    BY <1>0, <2>2 DEF ScreenRec
  <2> HIDE DEF s
  <2>5. "setting" \in PaneKinds /\ Older(s.data.items, account)
    BY <1>0, <1>k, <2>2, <2>4
  <2> QED
    BY <1>0, <2>1, <2>2, <2>3, <2>4, <2>5, StartsKeeps
<1>32. ASSUME NEW c \in wire, SettingAnswers(c) PROVE PanesInv'
  <2>k. c.kind = "setting" /\ c.stage = "back"
    BY <1>32 DEF SettingAnswers, Handles
  <2>1. CASE c.says = "ok"
    <3>1. Handles(c, screen, FALSE)
      BY <1>32, <2>1 DEF SettingAnswers
    <3>2. screen.alone /\ ~screen.gone => screen.data = account
      BY <1>0, <2>k, <2>1 DEF AloneCall
    <3> QED
      BY <1>0, <3>1, <3>2, HandlesKeeps
  <2>2. CASE c.says # "ok"
    <3> DEFINE m == c.arg # 1
               e == [screen.data EXCEPT !.extra = m]
               s == [screen EXCEPT !.data = e]
    <3>1. Handles(c, s, FALSE)
      BY <1>32, <1>0, <2>2 DEF SettingAnswers, ScreenRec
    <3>m. m \in BOOLEAN
      OBVIOUS
    <3>3. c.says # "lost" /\ screen.alone /\ ~screen.gone => e = account
      <4> SUFFICES ASSUME c.says # "lost", screen.alone, ~screen.gone PROVE e = account
        OBVIOUS
      <4>1. screen.data = [account EXCEPT !.extra = (c.arg = 1)] /\ account.extra = m
        BY <1>0, <2>k, <2>2 DEF AloneCall
      <4> HIDE DEF m
      <4> QED
        BY <1>0, <4>1 DEF Holdings
    <3> HIDE DEF m
    <3>2. e \in Holdings /\ e.items = screen.data.items
      BY <1>0, <3>m DEF Holdings
    <3> HIDE DEF e
    <3>4. /\ s \in ScreenRec /\ s.data = e /\ s.made = screen.made /\ s.alone = screen.alone
          /\ s.gone = screen.gone /\ s.said = screen.said /\ s.dialog = screen.dialog
      BY <1>0, <3>2 DEF ScreenRec
    <3> HIDE DEF s
    <3>5. Older(s.data.items, account)
      BY <1>0, <3>2, <3>4
    <3> QED
      BY <1>0, <3>1, <3>3, <3>4, <3>5, HandlesKeeps
  <2> QED
    BY <2>1, <2>2
<1>33. ASSUME NEW d \in Dialogs, AskPassword(d.kind, d.arg) PROVE PanesInv'
  <2> DEFINE e == [kind |-> d.kind, arg |-> d.arg]
             m == screen.pw /\ d.kind = "toggle"
             s == [screen EXCEPT !.dialog = e, !.pw = m]
  <2>1. screen' = s /\ UNCHANGED <<pane, account, wire>>
    BY <1>33, <1>0 DEF AskPassword, ScreenRec
  <2>2. /\ d.kind \in {"remove", "toggle", "register"} /\ d.arg \in Nat
        /\ d.kind = "remove" => d.arg < account.next
    BY <1>0, <1>i, <1>33 DEF Dialogs
  <2>3. e \in DialogRec /\ NamesOld(e, account)
    BY <2>2 DEF DialogRec, NamesOld
  <2>4. m \in BOOLEAN
    BY <1>0 DEF ScreenRec
  <2> HIDE DEF e, m
  <2>5. /\ s \in ScreenRec /\ s.data = screen.data /\ s.made = screen.made /\ s.alone = screen.alone
        /\ s.gone = screen.gone /\ s.said = screen.said /\ s.dialog = e
    BY <1>0, <2>3, <2>4 DEF ScreenRec
  <2> HIDE DEF s
  <2> QED
    BY <1>c, <2>1, <2>3, <2>5
<1>34. CASE ConfirmPassword
  <2>0. screen.dialog \in [kind : {"remove", "toggle", "register"}, arg : Nat]
    BY <1>0, <1>34 DEF ConfirmPassword, ScreenRec, DialogRec
  <2>1. CASE screen.dialog.kind = "register"
    <3> DEFINE s == [screen EXCEPT !.dialog = NoDialog]
    <3>1. Starts(s, "begin", screen.dialog.arg)
      BY <1>34, <2>1 DEF ConfirmPassword
    <3>2. /\ s \in ScreenRec /\ s.data = screen.data /\ s.made = screen.made /\ s.alone = screen.alone
          /\ s.gone = screen.gone /\ s.said = screen.said /\ s.dialog = NoDialog
      BY <1>0, <1>d DEF ScreenRec
    <3> HIDE DEF s
    <3>3. screen.dialog.arg \in Nat
      BY <2>0
    <3> QED
      BY <1>k, <1>d, <1>s, <3>1, <3>2, <3>3
  <2>2. CASE screen.dialog.kind # "register"
    <3> DEFINE e == screen.dialog.kind
               f == screen.dialog.arg
    <3>1. Starts(screen, e, f)
      BY <1>34, <2>2 DEF ConfirmPassword
    <3>2. e \in {"remove", "toggle"} /\ f \in Nat /\ (e = "remove" => f < account.next)
      BY <1>0, <2>0, <2>2 DEF NamesOld
    <3> HIDE DEF e, f
    <3> QED
      BY <1>0, <1>k, <1>s, <3>1, <3>2
  <2> QED
    BY <2>1, <2>2
<1>35. ASSUME NEW c \in wire, BeginAnswers(c) PROVE PanesInv'
  <2>1. CASE Handles(c, screen, FALSE)
    BY <1>0, <1>35, <1>r, <2>1 DEF BeginAnswers
  <2>2. CASE /\ c.says = "ok" /\ screen' = screen
             /\ wire' = (wire \ {c}) \cup {[c EXCEPT !.kind = "register", !.stage = "sent"]}
             /\ UNCHANGED <<pane, account>>
    <3> DEFINE q == [c EXCEPT !.kind = "register", !.stage = "sent"]
    <3>0. wire' = (wire \ {c}) \cup {q} /\ "register" \in PaneKinds /\ c.kind = "begin"
      BY <1>k, <1>35, <2>2 DEF BeginAnswers
    <3>1. q \in PaneCallRec /\ q.kind = "register" /\ q.stage = "sent" /\ q.says = "ok" /\ q.saw = c.saw
      BY <1>0, <2>2, <3>0 DEF PaneCallRec
    <3> HIDE DEF q
    <3>2. CallFits(q, account)
      BY <1>0, <3>1 DEF CallFits, NamesOld, OfPane
    <3>3. \A x \in wire' : CallFits(x, account)'
      BY <1>0, <2>2, <3>0, <3>2 DEF CallFits, OfPane
    <3>4. ScreenFits(screen, account)'
      BY <2>2 DEF PanesInv, ScreenFits, OfPane
    <3>5. IsFiniteSet(wire') /\ Cardinality(wire') <= MaxWire
      BY <3>0, Replaces DEF PanesInv
    <3>6. ASSUME screen.alone, ~screen.gone PROVE AloneFits(account, screen.data, wire')
      <4>1. wire = {c} /\ screen.data = account
        BY <1>0, <3>0, <3>6 DEF PanesInv, AloneFits, AloneCall
      <4>2. wire' = {q}
        BY <3>0, <4>1
      <4>3. AloneCall(account, screen.data, q)
        BY <3>1, <4>1 DEF AloneCall
      <4> QED
        BY <4>2, <4>3 DEF AloneFits
    <3>7. screen'.alone /\ ~screen'.gone => AloneFits(account', screen'.data, wire')
      BY <2>2, <3>6
    <3> QED
      BY <2>2, <3>3, <3>4, <3>5, <3>7 DEF PanesInv
  <2> QED
    BY <1>35, <2>1, <2>2 DEF BeginAnswers
<1>36. ASSUME NEW c \in wire, PasswordAnswers(c) PROVE PanesInv'
  <2> DEFINE s == [screen EXCEPT !.running = FALSE]
  <2>1. Handles(c, s, FALSE) /\ c.kind = "password"
    BY <1>36 DEF PasswordAnswers
  <2>2. /\ s \in ScreenRec /\ s.data = screen.data /\ s.made = screen.made /\ s.alone = screen.alone
        /\ s.gone = screen.gone /\ s.said = screen.said /\ NamesOld(s.dialog, account)
    BY <1>0 DEF ScreenRec
  <2> HIDE DEF s
  <2> QED
    BY <1>r, <2>1, <2>2
<1>37. ASSUME NEW c \in wire, DeletionAnswers(c) PROVE PanesInv'
  <2>1. CASE c.says = "ok"
    <3> DEFINE u == Says(screen, c)
               s == [u EXCEPT !.gone = TRUE]
    <3>1. Handles(c, s, FALSE)
      BY <1>37, <2>1 DEF DeletionAnswers
    <3>2. /\ u \in ScreenRec /\ u.data = screen.data /\ u.made = screen.made /\ u.alone = screen.alone /\ u.dialog = screen.dialog
          /\ \A x \in u.said : x \in screen.said \/ (x.kind = c.kind /\ x.arg = c.arg)
      BY <1>0, SaysIs
    <3> HIDE DEF u
    <3>3. /\ s \in ScreenRec /\ s.data = u.data /\ s.made = u.made /\ s.alone = u.alone /\ s.gone
          /\ s.said = u.said /\ s.dialog = u.dialog
      BY <3>2 DEF ScreenRec
    <3> HIDE DEF s
    <3> QED
      BY <1>0, <2>1, <3>1, <3>2, <3>3, HandlesKeeps
  <2>2. CASE c.says # "ok"
    <3>1. Handles(c, screen, FALSE) /\ c.kind = "delete"
      BY <1>37, <2>2 DEF DeletionAnswers
    <3> QED
      BY <1>0, <1>r, <3>1
  <2> QED
    BY <2>1, <2>2
<1>38. CASE UNCHANGED paneVars
  BY <1>0, <1>38, <1>c DEF paneVars
<1> QED
  BY <1>1, <1>2, <1>3, <1>4, <1>5, <1>6, <1>7, <1>8, <1>9, <1>10, <1>11, <1>12, <1>13, <1>14, <1>15, <1>16, <1>17,
     <1>18, <1>19, <1>20, <1>21, <1>22, <1>23, <1>24, <1>25, <1>26, <1>27, <1>28, <1>29, <1>30, <1>31, <1>32, <1>33,
     <1>34, <1>35, <1>36, <1>37, <1>38 DEF PanesNext

\* The invariant holds what the panes promise.
LEMMA PanesAre == PanesInv => PanesTruthful /\ PanesTypeOK
<1> SUFFICES ASSUME PanesInv PROVE PanesTruthful /\ PanesTypeOK
  OBVIOUS
<1>1. QuietShowsPortal
  BY DEF PanesInv, AloneFits, QuietShowsPortal
<1>2. SaidIsDone
  BY DEF PanesInv, ScreenFits, StandsDone, SaidIsDone
<1>3. PanesTypeOK
  BY DEF PanesInv, ScreenFits, ScreenRec, PanesTypeOK
<1> QED
  BY <1>1, <1>2, <1>3 DEF PanesTruthful

=============================================================================
