------------------------------ MODULE DocPanel ------------------------------
(***************************************************************************)
(* The playground's document panel (PlaygroundPage.tsx, DocumentPanel.tsx,  *)
(* DocumentPanelFullscreen.tsx, FilesDialog.tsx): which file or document it *)
(* shows while an answer is written and after, the versions of a file, and  *)
(* the preview of a page, published to the portal and run in a frame.       *)
(*                                                                         *)
(* A content is <<name, version>>; version 0 is one still being written.    *)
(* An answer writes at most one file or document.                           *)
(***************************************************************************)
EXTENDS Naturals, Sequences, FiniteSets

CONSTANT MaxAnswers   \* answers of the conversation

ASSUME PanelAssumption == MaxAnswers \in Nat

VARIABLES panel, frame

panelVars == <<panel, frame>>

\* "page" is HTML, "script" another file, "doc" a document.
Files == {"page", "script"}
Nothing == <<"none", 0>>
NoChoice == [of |-> 0, idx |-> 0, changes |-> FALSE]

\* An answer: its task, and how far it is.
NoAnswer == [task |-> "none", phase |-> "none", name |-> "none"]

\* artifact: what the panel holds, with the identity of that object; made:
\* the versions each file has; live, liveRef: the state and the ref of "the
\* document is watched while it is written"; closed: the user closed the
\* panel and has opened nothing since (ghost).
PanelInit ==
  /\ \E narrow \in BOOLEAN :
       panel = [narrow |-> narrow, artifact |-> Nothing, id |-> 0, made |-> [f \in Files |-> 0],
                answer |-> NoAnswer, answers |-> 0, live |-> FALSE, liveRef |-> FALSE,
                full |-> FALSE, choice |-> NoChoice, preview |-> TRUE, renaming |-> FALSE,
                closed |-> FALSE]
  /\ frame = [url |-> Nothing, err |-> Nothing, wire |-> {}, last |-> "ok"]

-----------------------------------------------------------------------------
(* What the panel shows, derived on every render                           *)

streaming(p) == p.answer.task # "none"
streamingDocActive(p) == p.answer.task = "doc"

\* On a narrow screen a file is written in the thread.
inPanel(p) == streaming(p) /\ ~p.narrow /\ ~streamingDocActive(p)
liveCode(p) == inPanel(p) /\ p.answer.phase = "open"
lastFinished(p) == inPanel(p) /\ p.answer.phase = "finished"

showLiveDoc(p) == p.live /\ streamingDocActive(p)
showLive(p) == showLiveDoc(p) \/ liveCode(p)

pinned(p) ==
  IF liveCode(p) THEN Nothing
  ELSE IF lastFinished(p) THEN <<p.answer.name, p.made[p.answer.name] + 1>> ELSE p.artifact

isCode(c) == c[1] \in Files

\* The versions of the file shown, and the one chosen: a choice belongs to
\* the object it was made on.
versionCount(p) == IF isCode(pinned(p)) /\ ~showLive(p) THEN p.made[pinned(p)[1]] ELSE 0
chosen(p) == ~lastFinished(p) /\ p.choice.of = p.id /\ p.choice.of # 0 /\ versionCount(p) > 0

versionIdx(p) ==
  IF chosen(p) THEN IF p.choice.idx < versionCount(p) THEN p.choice.idx ELSE versionCount(p)
  ELSE IF pinned(p)[2] \in 1..versionCount(p) THEN pinned(p)[2] ELSE 0

showChanges(p) == chosen(p) /\ p.choice.changes /\ versionIdx(p) > 1

panelContent(p) ==
  IF liveCode(p) THEN <<p.answer.name, 0>>
  ELSE IF showLiveDoc(p) THEN <<"doc", 0>>
  ELSE IF versionIdx(p) > 0 THEN <<pinned(p)[1], versionIdx(p)>> ELSE pinned(p)

panelIsHtml(p) == ~liveCode(p) /\ pinned(p)[1] = "page"

sideShown(p) == (p.artifact # Nothing \/ showLive(p) \/ lastFinished(p)) /\ ~p.narrow
fullShown(p) == (p.artifact # Nothing \/ showLive(p)) /\ (p.narrow \/ p.full)
shown(p) == sideShown(p) \/ fullShown(p)

-----------------------------------------------------------------------------
(* The preview: published when what is shown changes                       *)

Previewed(p) == IF panelIsHtml(p) /\ p.preview THEN panelContent(p) ELSE Nothing

Publish(c) == [page |-> c, cancelled |-> FALSE]

\* The effect of a render: the publication before is cancelled, the new one
\* leaves; without a page to preview the frame is emptied, not its error.
Renders(p) ==
  /\ panel' = p
  /\ frame' =
       IF Previewed(p) = Previewed(panel) THEN frame
       ELSE LET void == {[r EXCEPT !.cancelled = TRUE] : r \in frame.wire}
            IN  IF Previewed(p) = Nothing
                THEN [frame EXCEPT !.wire = void, !.url = Nothing, !.last = "ok"]
                ELSE [frame EXCEPT !.wire = void \cup {Publish(Previewed(p))}, !.last = "sent"]

\* Mutant: an answer that is no longer wanted is shown.
PublishAnswersLate(r) ==
  \E ok \in BOOLEAN :
    frame' = [frame EXCEPT !.wire = @ \ {r},
                           !.url = IF ok THEN r.page ELSE @, !.err = IF ok THEN Nothing ELSE @,
                           !.last = IF r.cancelled THEN @ ELSE IF ok THEN "ok" ELSE "failed"]

\* An answer that is no longer wanted is dropped; a failure is silent.
PublishAnswers(r) ==
  \E ok \in BOOLEAN :
    frame' = [frame EXCEPT !.wire = @ \ {r},
                           !.url = IF ok /\ ~r.cancelled THEN r.page ELSE @,
                           !.err = IF ok /\ ~r.cancelled THEN Nothing ELSE @,
                           !.last = IF r.cancelled THEN @ ELSE IF ok THEN "ok" ELSE "failed"]

\* The page in the frame reports its errors; the first is kept.
PageFails ==
  /\ frame.url # Nothing /\ shown(panel) /\ frame.err = Nothing
  /\ frame' = [frame EXCEPT !.err = frame.url]
  /\ UNCHANGED panel

-----------------------------------------------------------------------------
(* Answers                                                                 *)

Begin(task) ==
  /\ ~streaming(panel) /\ panel.answers < MaxAnswers
  /\ Renders([panel EXCEPT !.answers = @ + 1,
                           !.answer = [task |-> task, phase |-> "thinking", name |-> "none"]])

\* The answer opens a file's block, then closes it.
OpensFence(f) ==
  /\ panel.answer.task = "chat" /\ panel.answer.phase = "thinking"
  /\ Renders([panel EXCEPT !.answer.phase = "open", !.answer.name = f])

ClosesFence ==
  /\ panel.answer.phase = "open"
  /\ Renders([panel EXCEPT !.answer.phase = "finished"])

Pins(p, c) == [p EXCEPT !.artifact = c, !.id = IF @ = 1 THEN 2 ELSE 1,
                        !.choice = IF panel.choice.of = (IF p.id = 1 THEN 2 ELSE 1) THEN NoChoice ELSE @]

\* The end of the answer: a file it wrote opens on its own, a document only
\* if it was watched, a file its tools edited in its new version.
AnswerEnds ==
  /\ streaming(panel)
  /\ LET a == panel.answer
         over == [panel EXCEPT !.answer = NoAnswer, !.liveRef = FALSE]
     IN  \/ /\ a.phase \in {"open", "finished"}
            /\ Renders(Pins([over EXCEPT !.made[a.name] = @ + 1],
                            <<a.name, panel.made[a.name] + 1>>))
         \/ /\ a.task = "doc"
            /\ Renders(IF panel.liveRef THEN Pins(over, <<"doc", panel.answers>>) ELSE over)
         \/ a.task = "chat" /\ a.phase = "thinking" /\ Renders(over)
         \/ /\ a.task = "chat" /\ a.phase = "thinking"
            /\ \E f \in Files : panel.made[f] > 0 /\
                 Renders(Pins([over EXCEPT !.made[f] = @ + 1], <<f, panel.made[f] + 1>>))

\* Another conversation is opened, or another tab: its files are others.
LeaveThread ==
  /\ ~streaming(panel) /\ panel.answers > 0
  /\ Renders([panel EXCEPT !.artifact = Nothing, !.live = FALSE, !.closed = FALSE,
                           !.made = [f \in Files |-> 0]])

-----------------------------------------------------------------------------
(* The user                                                                *)

\* A file's card in the thread, a row of the files dialog, or a tab of the
\* panel (the last version).
OpenFile(f, v) ==
  /\ v \in 1..panel.made[f]
  /\ Renders([Pins(panel, <<f, v>>) EXCEPT !.renaming = FALSE, !.closed = FALSE])

openLiveDoc ==
  /\ streamingDocActive(panel) /\ ~panel.live
  /\ Renders([panel EXCEPT !.live = TRUE, !.liveRef = TRUE, !.closed = FALSE])

\* The cross of the side panel.
ClosePanelSide ==
  /\ sideShown(panel) /\ ~fullShown(panel)
  /\ Renders([panel EXCEPT !.artifact = Nothing, !.live = FALSE, !.liveRef = FALSE,
                           !.closed = TRUE])

\* closePanel(): the cross or Escape of the full screen.
closePanel ==
  /\ fullShown(panel)
  /\ IF panel.full THEN Renders([panel EXCEPT !.full = FALSE])
     ELSE Renders([panel EXCEPT !.artifact = Nothing, !.live = FALSE, !.liveRef = FALSE,
                                !.closed = TRUE])

setFull ==
  /\ sideShown(panel) /\ ~panel.full
  /\ Renders([panel EXCEPT !.full = TRUE])

\* The picker, and "Changements", of the side panel.
SelectVersion(i) ==
  /\ sideShown(panel) /\ versionCount(panel) > 1 /\ versionIdx(panel) > 0 /\ i \in 1..versionCount(panel)
  /\ ~lastFinished(panel)
  /\ Renders([panel EXCEPT !.choice = [of |-> panel.id, idx |-> i,
                                       changes |-> chosen(panel) /\ panel.choice.changes]])

SetShowChanges ==
  /\ sideShown(panel) /\ versionIdx(panel) > 1 /\ ~lastFinished(panel)
  /\ Renders([panel EXCEPT !.choice = [of |-> panel.id, idx |-> versionIdx(panel),
                                       changes |-> ~showChanges(panel)]])

SetHtmlPreview ==
  /\ shown(panel) /\ panelIsHtml(panel)
  /\ Renders([panel EXCEPT !.preview = ~@])

\* "Corriger": the banner's button asks for the file again.
Correct ==
  /\ shown(panel) /\ Previewed(panel) # Nothing /\ frame.err # Nothing
  /\ Begin("chat")

StartFileRename ==
  /\ shown(panel) /\ pinned(panel) # Nothing /\ ~showLive(panel) /\ ~panel.renaming
  /\ Renders([panel EXCEPT !.renaming = TRUE])

EndFileRename == panel.renaming /\ Renders([panel EXCEPT !.renaming = FALSE])

PanelNext ==
  \/ \E task \in {"chat", "doc"} : Begin(task)
  \/ \E f \in Files : OpensFence(f)
  \/ ClosesFence
  \/ AnswerEnds
  \/ LeaveThread
  \/ \E r \in frame.wire : PublishAnswers(r) /\ UNCHANGED panel
  \/ PageFails
  \/ \E f \in Files, v \in 1..MaxAnswers : OpenFile(f, v)
  \/ openLiveDoc
  \/ ClosePanelSide
  \/ closePanel
  \/ setFull
  \/ \E i \in 1..MaxAnswers : SelectVersion(i)
  \/ SetShowChanges
  \/ SetHtmlPreview
  \/ Correct
  \/ StartFileRename
  \/ EndFileRename

PanelSpec == PanelInit /\ [][PanelNext]_panelVars

-----------------------------------------------------------------------------
(* Properties                                                              *)

PanelTypeOK ==
  /\ panel.made \in [Files -> 0..MaxAnswers] /\ panel.answers \in 0..MaxAnswers
  /\ panel.id \in 0..2 /\ frame.last \in {"ok", "sent", "failed"}

\* The frame runs the page the panel names, once its publication was
\* answered and not refused: neither an answer that came late nor the picker
\* of versions leaves another page, or its error, under that name.  A version
\* shown, or compared with the one before, exists.
PreviewMatches ==
  /\ frame.last = "ok" =>
       /\ frame.url = Previewed(panel)
       /\ (frame.err # Nothing /\ Previewed(panel) # Nothing) => frame.err = Previewed(panel)
  /\ versionIdx(panel) <= versionCount(panel)
  /\ showChanges(panel) => panelContent(panel)[2] > 1

\* "A closed panel stays closed: an in-progress draft must not reopen it
\* behind the user" (closePanel).  It does: a file being written, or
\* finished, shows whatever was closed.
ClosedStaysClosed == panel.closed => ~shown(panel)

\* "We do not offer it while it is being written: a half-written render
\* flickers" (panelIsHtml).  A document watched while an HTML file is pinned
\* is published as a page.
NoHalfWrittenPreview == Previewed(panel)[2] = 0 => Previewed(panel) = Nothing
=============================================================================
