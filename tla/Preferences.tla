----------------------------- MODULE Preferences -----------------------------
(***************************************************************************)
(* What the playground keeps in the browser (PlaygroundPage.tsx): settings *)
(* with the origin of their system prompt, pinned conversations, snippets, *)
(* custom skills, names given to files; and the panels that change them:   *)
(* the settings under the gear, the history, the snippets, the creator.    *)
(*                                                                         *)
(* `store' is localStorage, shared by the windows of one browser; `win' is *)
(* each window's page.  Tabs are switched between two answers: the streams *)
(* are Playground's.                                                       *)
(***************************************************************************)
EXTENDS Naturals, Sequences, FiniteSets

CONSTANTS
  Windows,     \* windows of the browser
  MaxPrefOps   \* changes the user makes

ASSUME PrefAssumption == MaxPrefOps \in Nat /\ IsFiniteSet(Windows)

VARIABLES store, win

prefVars == <<store, win>>

\* A system prompt, by where its text came from.
Prompts == {"", "typed", "persona", "skill"}
Provenances == {"persona", "skill", "manual"}

\* The other settings, reasoning among them; "bad" is what an older version
\* wrote.
Levels == {"auto", "on", "bad"}

MaxSkills == 2
MaxSnippets == 1
MaxTabs == 2

\* Lists that are kept whole: pinned conversations, snippets, renamed files,
\* and the custom skills with the number of times each was written.
Lists == [pins : SUBSET {1}, snips : SUBSET (1..MaxSnippets), names : SUBSET {"anon", "conv"},
          skills : [1..MaxSkills -> 0..2]]

NoLists == [pins |-> {}, snips |-> {}, names |-> {}, skills |-> [s \in 1..MaxSkills |-> 0]]

Gone == [open |-> FALSE]

-----------------------------------------------------------------------------
(* Storage                                                                 *)

\* loadSettings(): field by field over the defaults.
loadSettings(st) ==
  [system |-> st.system,
   level |-> IF st.level = "bad" THEN "auto" ELSE st.level,
   prov |-> IF st.prov = "persona" THEN "persona" ELSE "manual"]

\* Mutant: the prompt on the screen is stored whatever its origin.
saveAnyPrompt(st, s) ==
  IF st.works THEN [st EXCEPT !.system = s.system, !.prov = s.prov, !.level = s.level] ELSE st

\* saveSettings(): a skill's prompt is not stored, the stored one stays.
\* Storage may be refused (private mode): then nothing is kept.
saveSettings(st, s) ==
  IF ~st.works THEN st
  ELSE IF s.prov = "skill"
       THEN [st EXCEPT !.level = s.level, !.system = loadSettings(st).system,
                       !.prov = loadSettings(st).prov]
       ELSE [st EXCEPT !.level = s.level, !.system = s.system, !.prov = s.prov]

saveLists(st, l) == IF st.works THEN [st EXCEPT !.lists = l] ELSE st

\* loadCustomSkills() and its likes.
loadLists(st) == st.lists

-----------------------------------------------------------------------------
(* One window                                                              *)

\* Ghosts: own is the last prompt that was on a screen as the user's own;
\* crowded, that two windows were open together.
PrefInit ==
  /\ store \in [works : BOOLEAN, system : {"", "persona"}, prov : {"manual"},
                level : {"auto", "bad"}, lists : {NoLists}, own : {""}, crowded : {FALSE},
                made : {0}]
  /\ store.system = ""
  /\ win = [w \in Windows |-> Gone]

\* The first render has the defaults; the layout effect restores what is
\* stored before the first paint, and the save effect writes it back.
Mount(w) ==
  /\ ~win[w].open
  /\ LET s == loadSettings(store)
     IN  /\ win' = [win EXCEPT ![w] =
              [open |-> TRUE, system |-> s.system, prov |-> s.prov, level |-> s.level,
               tabs |-> <<[system |-> s.system, level |-> s.level]>>, active |-> 1,
               lists |-> loadLists(store), panel |-> FALSE, pressed |-> "no", had |-> FALSE,
               creator |-> FALSE, editing |-> 0]]
         /\ store' = [saveSettings(store, s) EXCEPT !.own = s.system,
                        !.crowded = @ \/ \E v \in Windows : win[v].open]

\* A reload is the window gone and mounted again.
Unload(w) ==
  /\ win[w].open /\ win' = [win EXCEPT ![w] = Gone]
  /\ UNCHANGED store

\* A change of the settings, and the effect that saves it.
Sets(w, s) ==
  /\ store.made < MaxPrefOps
  /\ win' = [win EXCEPT ![w] = s]
  /\ store' = [saveSettings(store, s) EXCEPT !.made = @ + 1,
                 !.own = IF s.prov = "skill" THEN @ ELSE s.system]

\* A change of one list, written whole from what THIS window has.
Writes(w, l) ==
  /\ store.made < MaxPrefOps
  /\ win' = [win EXCEPT ![w].lists = l]
  /\ store' = [saveLists(store, l) EXCEPT !.made = @ + 1]

-----------------------------------------------------------------------------
(* The settings panel                                                      *)

\* The selector of personas: one of them, or none.
ChoosePersona(w, p) ==
  /\ win[w].open /\ win[w].panel /\ win[w].system # p
  /\ Sets(w, [win[w] EXCEPT !.system = p, !.prov = IF p = "persona" THEN "persona" ELSE "manual"])

TypePrompt(w, p) ==
  /\ win[w].open /\ win[w].panel
  /\ Sets(w, [win[w] EXCEPT !.system = p, !.prov = "manual"])

\* Temperature, top-p, tokens, reasoning and its effort.
SetLevel(w) ==
  /\ win[w].open /\ win[w].panel
  /\ Sets(w, [win[w] EXCEPT !.level = IF @ = "on" THEN "auto" ELSE "on"])

\* selectSkill() of a skill that has a system prompt.
SelectSkillPrompt(w) ==
  /\ win[w].open
  /\ Sets(w, [win[w] EXCEPT !.system = "skill", !.prov = "skill"])

\* A press on the page: the panel, while open, listens for it on the document
\* and closes unless it is on itself.  The gear is not in the panel.  Ghost
\* had: the panel was open when the press began.
Press(w, where) ==
  /\ win[w].open /\ win[w].pressed = "no"
  /\ where = "panel" => win[w].panel
  /\ win' = [win EXCEPT ![w].pressed = where, ![w].had = win[w].panel,
                        ![w].panel = @ /\ where = "panel"]
  /\ UNCHANGED store

\* The click that follows; the gear's is toggleSettings().
Click(w) ==
  /\ win[w].open /\ win[w].pressed # "no"
  /\ win' = [win EXCEPT ![w].pressed = "no", ![w].had = FALSE,
                        ![w].panel = IF win[w].pressed = "gear" THEN ~@ ELSE @]
  /\ UNCHANGED store

\* Escape, or the panel's cross.
ClosePanel(w) ==
  /\ win[w].open /\ win[w].panel
  /\ win' = [win EXCEPT ![w].panel = FALSE]
  /\ UNCHANGED store

-----------------------------------------------------------------------------
(* Tabs: each keeps its settings, none its prompt's origin                 *)

Frozen(p) == [p.tabs EXCEPT ![p.active] = [system |-> p.system, level |-> p.level]]

Shows(p, i) == [p EXCEPT !.system = p.tabs[i].system, !.level = p.tabs[i].level, !.active = i]

NewTab(w) ==
  /\ win[w].open /\ Len(win[w].tabs) < MaxTabs /\ store.made < MaxPrefOps
  /\ win' = [win EXCEPT ![w].tabs = Append(Frozen(win[w]), [system |-> win[w].system, level |-> win[w].level]),
                        ![w].active = Len(win[w].tabs) + 1]
  /\ UNCHANGED store

SwitchTab(w, i) ==
  /\ win[w].open /\ i \in DOMAIN win[w].tabs /\ i # win[w].active
  /\ Sets(w, [Shows(win[w], i) EXCEPT !.tabs = Frozen(win[w])])

\* A closed tab that is active gives way to the one at its place, else the
\* last; the last tab of all to a clean one.
CloseTab(w, i) ==
  LET p == win[w]
      rest == SubSeq(p.tabs, 1, i - 1) \o SubSeq(p.tabs, i + 1, Len(p.tabs))
      next == IF i > Len(rest) THEN Len(rest) ELSE i
  IN  /\ p.open /\ Len(p.tabs) > 1
      /\ IF i = p.active THEN Sets(w, Shows([p EXCEPT !.tabs = rest], next))
         ELSE Sets(w, [p EXCEPT !.tabs = rest, !.active = IF i < @ THEN @ - 1 ELSE @])

-----------------------------------------------------------------------------
(* Lists                                                                   *)

Toggled(set, x) == IF x \in set THEN set \ {x} ELSE set \cup {x}

togglePinned(w, c) ==
  /\ win[w].open
  /\ Writes(w, [win[w].lists EXCEPT !.pins = Toggled(@, c)])

saveSnippet(w, s) ==
  /\ win[w].open /\ s \notin win[w].lists.snips
  /\ Writes(w, [win[w].lists EXCEPT !.snips = @ \cup {s}])

deleteSnippet(w, s) ==
  /\ win[w].open /\ s \in win[w].lists.snips
  /\ Writes(w, [win[w].lists EXCEPT !.snips = @ \ {s}])

commitArtifactRename(w, key) ==
  /\ win[w].open /\ key \notin win[w].lists.names
  /\ Writes(w, [win[w].lists EXCEPT !.names = @ \cup {key}])

Custom(p) == {s \in 1..MaxSkills : p.lists.skills[s] > 0}

\* The creator opens empty, or on a skill of the menu.
openSkillCreator(w, s) ==
  /\ win[w].open /\ ~win[w].creator /\ s \in {0} \cup Custom(win[w])
  /\ win' = [win EXCEPT ![w].creator = TRUE, ![w].editing = s]
  /\ UNCHANGED store

CloseCreator(w) ==
  /\ win[w].open /\ win[w].creator
  /\ win' = [win EXCEPT ![w].creator = FALSE, ![w].editing = 0]
  /\ UNCHANGED store

addCustomSkill(w) ==
  /\ win[w].open /\ win[w].creator /\ win[w].editing = 0
  /\ \E s \in 1..MaxSkills :
       /\ s \notin Custom(win[w]) /\ \A r \in 1..(s - 1) : r \in Custom(win[w])
       /\ Writes(w, [win[w].lists EXCEPT !.skills[s] = 1])

\* The creator stays open on the skill it edits, which its own list may have
\* deleted meanwhile: then the save replaces nothing.
updateCustomSkill(w) ==
  /\ win[w].open /\ win[w].creator /\ win[w].editing # 0
  /\ Writes(w, [win[w].lists EXCEPT !.skills[win[w].editing] = IF @ = 0 THEN 0 ELSE 2])

deleteCustomSkill(w, s) ==
  /\ win[w].open /\ s \in Custom(win[w])
  /\ Writes(w, [win[w].lists EXCEPT !.skills[s] = 0])

PrefNext ==
  \/ \E w \in Windows : Mount(w)
  \/ \E w \in Windows : Unload(w)
  \/ \E w \in Windows, p \in {"", "persona"} : ChoosePersona(w, p)
  \/ \E w \in Windows, p \in {"", "typed"} : TypePrompt(w, p)
  \/ \E w \in Windows : SetLevel(w)
  \/ \E w \in Windows : SelectSkillPrompt(w)
  \/ \E w \in Windows, where \in {"gear", "panel", "page"} : Press(w, where)
  \/ \E w \in Windows : Click(w)
  \/ \E w \in Windows : ClosePanel(w)
  \/ \E w \in Windows : NewTab(w)
  \/ \E w \in Windows, i \in 1..MaxTabs : SwitchTab(w, i)
  \/ \E w \in Windows, i \in 1..MaxTabs : CloseTab(w, i)
  \/ \E w \in Windows : togglePinned(w, 1)
  \/ \E w \in Windows, s \in 1..MaxSnippets : saveSnippet(w, s)
  \/ \E w \in Windows, s \in 1..MaxSnippets : deleteSnippet(w, s)
  \/ \E w \in Windows, key \in {"anon", "conv"} : commitArtifactRename(w, key)
  \/ \E w \in Windows, s \in 0..MaxSkills : openSkillCreator(w, s)
  \/ \E w \in Windows : CloseCreator(w)
  \/ \E w \in Windows : addCustomSkill(w)
  \/ \E w \in Windows : updateCustomSkill(w)
  \/ \E w \in Windows, s \in 1..MaxSkills : deleteCustomSkill(w, s)

PrefSpec == PrefInit /\ [][PrefNext]_prefVars

-----------------------------------------------------------------------------
(* Properties                                                              *)

PrefTypeOK ==
  /\ store.system \in Prompts /\ store.prov \in {"persona", "manual"} /\ store.level \in Levels
  /\ store.lists \in Lists
  /\ \A w \in Windows : win[w].open =>
       /\ win[w].system \in Prompts /\ win[w].prov \in Provenances /\ win[w].lists \in Lists
       /\ win[w].active \in DOMAIN win[w].tabs

\* A reload finds what the screen had ("je dois le sélectionner à chaque
\* fois", SETTINGS_KEY): with storage and one window at a time, the store holds
\* every list and setting of the page, and of the prompt the last that was
\* the user's own and not a skill's.
ReloadKeeps ==
  \A w \in Windows :
    (win[w].open /\ store.works /\ ~store.crowded) =>
      /\ loadLists(store) = win[w].lists
      /\ loadSettings(store).level = win[w].level
      /\ store.system = store.own
      /\ win[w].prov # "skill" => store.system = win[w].system

\* "Selecting a skill must not become the persona of every conversation to
\* come" (saveSettings).  It does: the origin is the page's, the prompt the
\* tab's, so a persona chosen in another tab makes the skill's prompt look own.
SkillStaysOut == store.system # "skill"

\* "Clicking the gear itself goes through the button's toggle" (PlaygroundPage
\* toggleSettings): a click of the gear on an open panel closes it.  It does
\* not: the press has closed it already, and the click opens it again.
GearCloses ==
  [][\A w \in Windows :
       (win[w].open /\ win'[w].open /\ win[w].pressed = "gear" /\ win[w].had /\ win'[w].pressed = "no")
         => ~win'[w].panel]_prefVars
==============================================================================
