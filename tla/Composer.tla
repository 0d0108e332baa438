------------------------------ MODULE Composer ------------------------------
(***************************************************************************)
(* The playground's composer (PlaygroundPage.tsx, PlaygroundComposer.tsx,   *)
(* SkillsMenu.tsx, lib/skills.ts): the draft, the menu of skills a "/"      *)
(* opens and its keys, attached files and images, the skill package of the  *)
(* next message, and what each turn is sent with.                           *)
(*                                                                         *)
(* runStream() is a closure of the render that started it: a turn it starts *)
(* itself, for the messages queued meanwhile, sees the skill and the model  *)
(* of that render (`turn').                                                 *)
(***************************************************************************)
EXTENDS Naturals, Sequences, FiniteSets

CONSTANTS
  MaxImages,   \* IMAGES_PER_MESSAGE, 4 in the code
  MaxPicked,   \* files chosen
  MaxSends     \* turns started

ASSUME ComposerAssumption == {MaxImages, MaxPicked, MaxSends} \subseteq Nat

VARIABLE box

\* Drafts: nothing, a message, "/" alone, "/" and a word some skill has, "/"
\* and a word none has (a path), and a command that opens the creator.
Drafts == {"", "text", "/", "/word", "/path"}
Commands == {"/create"}

\* The menu: a built-in skill, a custom one, and the account's package once
\* /api/skills has answered.  "/word" is a word of the package alone.
Menu(b, d) ==
  LET pkg == IF b.pkgs = "ready" THEN <<"package">> ELSE <<>>
  IN  CASE d = "/" -> (<<"builtin">> \o (IF b.custom THEN <<"custom">> ELSE <<>>)) \o pkg
        [] d = "/word" -> pkg
        [] OTHER -> <<>>

isSlash(d) == d \in {"/", "/word", "/path"}

\* Row 0 creates a skill; the skills follow.
effectiveSel(b) == LET rows == 1 + Len(Menu(b, b.input)) IN IF b.sel < rows THEN b.sel ELSE rows - 1

NoTurn == [skill |-> "none", model |-> "sees"]

ComposerInit ==
  box = [input |-> "", sel |-> 1, pkgs |-> "loading", custom |-> TRUE, invoked |-> "none",
         images |-> 0, texts |-> 0, reading |-> [image |-> 0, text |-> 0], picked |-> 0,
         model |-> "sees", streaming |-> FALSE, turn |-> NoTurn,
         queue |-> <<>>, editing |-> FALSE, creator |-> FALSE, sent |-> <<>>, by |-> "other"]

\* A draft; the highlight returns to the first skill when the filter changes.
Draft(b, d) ==
  [b EXCEPT !.input = d, !.sel = IF isSlash(d) /\ d # b.input THEN 1 ELSE @]

Opens(b) == [b EXCEPT !.creator = TRUE, !.input = ""]

\* handleInput()
Type(d) ==
  /\ d # box.input
  /\ box' = [(IF d \in Commands THEN Opens(box) ELSE Draft(box, d)) EXCEPT !.by = "other"]

\* The packages of the account, or none.
PackagesArrive ==
  /\ box.pkgs = "loading"
  /\ \E p \in {"ready", "none"} : box' = [box EXCEPT !.pkgs = p, !.by = "other"]

\* selectSkill(): a package is attached, another skill fills the draft.
selectSkill(b, s) ==
  IF s = "package" THEN [b EXCEPT !.invoked = "package", !.input = ""]
  ELSE [b EXCEPT !.input = "text"]

-----------------------------------------------------------------------------
(* Sending                                                                 *)

\* A turn of runStream() for new messages: the closure's skill and model, and
\* the attached skill is taken off.  The ghost `want' of a message is what was
\* attached when it was written.
Stream(b, closure, msgs) ==
  [b EXCEPT !.streaming = TRUE, !.turn = closure, !.invoked = "none",
            !.sent = @ \o [i \in DOMAIN msgs |->
                             [got |-> closure.skill, want |-> msgs[i].want,
                              images |-> msgs[i].images, model |-> closure.model]]]

\* Images the chosen model does not read are left out.
Sendable(b) == IF b.model = "sees" THEN b.images ELSE 0

\* send(): a message during an answer is queued.  Nothing to send, nothing done.
send(b) ==
  LET empty == b.input = "" /\ b.texts = 0 /\ Sendable(b) = 0
      clean == [b EXCEPT !.input = "", !.images = 0, !.texts = 0]
      msg == [images |-> Sendable(b), want |-> b.invoked]
  IN  IF empty THEN b
      ELSE IF b.streaming
           THEN [clean EXCEPT !.queue = Append(@, msg)]
           ELSE Stream([clean EXCEPT !.editing = FALSE],
                       [skill |-> b.invoked, model |-> b.model], <<msg>>)

CanStart == Len(box.sent) + Len(box.queue) < MaxSends

SendButton ==
  /\ CanStart /\ (box.input # "" \/ box.images + box.texts > 0)
  /\ send(box) # box
  /\ box' = [send(box) EXCEPT !.by = "other"]

\* The end of the answer: the queued messages leave as one turn, from the
\* closure of the turn that ends (dispatchQueued).
TurnEnd ==
  /\ box.streaming
  /\ box' = [(IF box.queue = <<>> THEN [box EXCEPT !.streaming = FALSE, !.turn = NoTurn]
              ELSE Stream([box EXCEPT !.queue = <<>>], box.turn, box.queue)) EXCEPT !.by = "other"]

\* The queue's card: back to the draft, without its images, or dropped.
editQueued ==
  /\ box.queue # <<>>
  /\ box' = [box EXCEPT !.queue = Tail(@), !.input = "text", !.by = "other"]

discardQueued ==
  /\ box.queue # <<>>
  /\ box' = [box EXCEPT !.queue = Tail(@), !.by = "other"]

\* An earlier message goes back into the draft, its images with it.
editMessage ==
  /\ ~box.streaming /\ box.sent # <<>> /\ ~box.editing
  /\ box' = [box EXCEPT !.editing = TRUE, !.input = "text", !.texts = 0,
                        !.images = box.sent[Len(box.sent)].images, !.by = "other"]

CancelEditing ==
  /\ box.editing
  /\ box' = [box EXCEPT !.editing = FALSE, !.input = "", !.by = "other"]

-----------------------------------------------------------------------------
(* Keys: the menu's listener has them before the draft                     *)

\* Mutant: the selection runs past the last row.
DownUnclamped ==
  /\ Menu(box, box.input) # <<>>
  /\ box' = [box EXCEPT !.by = "key", !.sel = @ + 1]

Down ==
  /\ Menu(box, box.input) # <<>>
  /\ box' = [box EXCEPT !.by = "key",
       !.sel = IF @ + 1 <= Len(Menu(box, box.input)) THEN @ + 1 ELSE Len(Menu(box, box.input))]

Up ==
  /\ Menu(box, box.input) # <<>>
  /\ box' = [box EXCEPT !.sel = IF @ > 0 THEN @ - 1 ELSE 0, !.by = "key"]

\* Mutant: the row that creates a skill takes the key even without a match.
EnterCreates ==
  /\ CanStart
  /\ LET hits == Menu(box, box.input)
         row == effectiveSel(box)
     IN  box' = [(IF ~isSlash(box.input) THEN send(box)
                  ELSE IF row = 0 THEN Opens(box)
                  ELSE selectSkill(box, hits[row])) EXCEPT !.by = "key"]

\* With skills to choose from, Enter takes the highlighted row; a "/" message
\* no skill matches is sent as any other.
Enter ==
  /\ CanStart
  /\ LET hits == Menu(box, box.input)
         row == effectiveSel(box)
     IN  box' = [(IF hits = <<>> THEN send(box)
                  ELSE IF row = 0 THEN Opens(box)
                  ELSE selectSkill(box, hits[row])) EXCEPT !.by = "key"]

\* Escape never clears the draft.
Escape == box.by # "key" /\ box' = [box EXCEPT !.by = "key"]

-----------------------------------------------------------------------------
(* Skills, snippets and files by the mouse                                 *)

ClickSkill ==
  \E i \in DOMAIN Menu(box, box.input) :
    box' = [selectSkill(box, Menu(box, box.input)[i]) EXCEPT !.by = "other"]

\* The menu's own bin; an open creator also lists the custom skills.
DeleteSkill ==
  /\ box.custom /\ (box.input = "/" \/ box.creator)
  /\ box' = [box EXCEPT !.custom = FALSE, !.by = "other"]

OpenCreator ==
  /\ ~box.creator
  /\ \/ isSlash(box.input) /\ box' = [Opens(box) EXCEPT !.by = "other"]
     \/ box' = [box EXCEPT !.creator = TRUE, !.by = "other"]

SaveCreated ==
  /\ box.creator /\ ~box.custom
  /\ box' = [box EXCEPT !.custom = TRUE, !.by = "other"]

LeaveCreator == box.creator /\ box' = [box EXCEPT !.creator = FALSE, !.by = "other"]

DetachSkill == box.invoked # "none" /\ box' = [box EXCEPT !.invoked = "none", !.by = "other"]

insertSnippet == box' = [Draft(box, "text") EXCEPT !.by = "other"]

ChooseModel(m) == m # box.model /\ box' = [box EXCEPT !.model = m, !.by = "other"]

\* handleFiles(): each file is refused or begins to be read.  The images
\* counted are those attached when the files were chosen, and those of the
\* same choice: not those still being read from an earlier one.
handleFiles(n) ==
  /\ box.picked < MaxPicked
  /\ LET room == IF MaxImages > box.images THEN MaxImages - box.images ELSE 0
         taken == IF box.model = "blind" THEN 0 ELSE IF n < room THEN n ELSE room
     IN  /\ n > 0 => taken > 0
         /\ box' = [box EXCEPT !.picked = @ + 1, !.by = "other",
                               !.reading.text = IF n = 0 THEN @ + 1 ELSE @,
                               !.reading.image = IF n = 0 THEN @ ELSE @ + taken]

\* A file is read, at any time after, into the draft of that moment; or not.
FileRead ==
  /\ \/ /\ box.reading.image > 0
        /\ \E k \in {0, 1} :
             box' = [box EXCEPT !.reading.image = @ - 1, !.images = @ + k, !.by = "other"]
     \/ /\ box.reading.text > 0
        /\ \E k \in {0, 1} :
             box' = [box EXCEPT !.reading.text = @ - 1, !.texts = @ + k, !.by = "other"]

RemoveFile ==
  \/ box.images > 0 /\ box' = [box EXCEPT !.images = @ - 1, !.by = "other"]
  \/ box.texts > 0 /\ box' = [box EXCEPT !.texts = @ - 1, !.by = "other"]

ComposerNext ==
  \/ \E d \in Drafts \cup Commands : Type(d)
  \/ PackagesArrive
  \/ SendButton
  \/ TurnEnd
  \/ editQueued
  \/ discardQueued
  \/ editMessage
  \/ CancelEditing
  \/ Down
  \/ Up
  \/ Enter
  \/ Escape
  \/ ClickSkill
  \/ DeleteSkill
  \/ OpenCreator
  \/ SaveCreated
  \/ LeaveCreator
  \/ DetachSkill
  \/ insertSnippet
  \/ \E m \in {"sees", "blind"} : ChooseModel(m)
  \/ \E n \in 0..(MaxImages + 1) : handleFiles(n)
  \/ FileRead
  \/ RemoveFile

ComposerSpec == ComposerInit /\ [][ComposerNext]_box

-----------------------------------------------------------------------------
(* Properties                                                              *)

ComposerTypeOK ==
  /\ box.input \in Drafts /\ box.sel \in 0..3 /\ box.invoked \in {"none", "package"}
  /\ Len(box.sent) + Len(box.queue) <= MaxSends /\ box.picked <= MaxPicked

\* "the written message was destroyed without a word" (onMenuKeyRef): no key
\* empties a draft that no skill matches; it leaves as a message, at once or
\* through the queue.
KeepsDraft ==
  (box'.by = "key" /\ box.input # "" /\ Menu(box, box.input) = <<>> /\ box'.input = "")
    => Len(box'.sent) + Len(box'.queue) > Len(box.sent) + Len(box.queue)

KeysKeepDraft == [][KeepsDraft]_box

\* "A skill package attached from the « / » menu applies to THIS turn only"
\* (runStream): each turn leaves with the skill attached to its message.  Not so
\* for queued messages: their turn has the skill of the turn before.
SkillThisTurnOnly == \A i \in DOMAIN box.sent : box.sent[i].got = box.sent[i].want

\* "4 images au plus par message." (handleFiles).  Images still being read
\* when more are chosen are not counted.
ImageLimit == \A i \in DOMAIN box.sent : box.sent[i].images <= MaxImages
=============================================================================
