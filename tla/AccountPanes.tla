---------------------------- MODULE AccountPanes ----------------------------
(***************************************************************************)
(* The panes of the account settings: API keys (KeysContent.tsx), memory   *)
(* (MemoryContent.tsx) and security (SecurityContent.tsx).                 *)
(*                                                                         *)
(* `account' is what the portal holds, `screen' what the open pane shows,  *)
(* `wire' the requests that left and whose answer the pane has not handled. *)
(* The portal handles a request at some moment between (Arrives): it does   *)
(* it or refuses it, and the answer may be lost either way.  A load carries *)
(* what the portal held when it handled it.                                *)
(***************************************************************************)
EXTENDS Naturals, FiniteSets

CONSTANTS
  MaxPaneItems, \* keys, facts or security keys ever made
  MaxPaneOps,   \* requests the user starts
  MaxWire       \* requests in flight at a time

ASSUME PanesAssumption == {MaxPaneItems, MaxPaneOps, MaxWire} \subseteq Nat /\ MaxWire > 0

VARIABLES pane, account, screen, wire

paneVars == <<pane, account, screen, wire>>

PaneNames == {"keys", "memory", "security"}
Items == 1..MaxPaneItems
NoDialog == [kind |-> "none", arg |-> 0]

\* items: API keys, facts or security keys; changed: those renamed or edited;
\* main: Discord linked, memory on, or a security key asked at login; extra:
\* a budget request pending, or sensitive topics kept; others: the sessions
\* open elsewhere; next: the name of the next item, never used before.
Holdings == [items : SUBSET Items, changed : SUBSET Items, main : BOOLEAN,
             extra : BOOLEAN, others : SUBSET {1, 2}, next : 1..MaxPaneItems + 1]

Unread == [items |-> {}, changed |-> {}, main |-> FALSE, extra |-> FALSE, others |-> {}, next |-> 1]

-----------------------------------------------------------------------------
(* The portal                                                              *)

Makers == {"create", "add", "import", "register"}

Made(a) == [a EXCEPT !.items = @ \cup {a.next}, !.next = @ + 1]

Kept(a, items) == [a EXCEPT !.items = items, !.changed = @ \cap items]

\* What a request does when it is done.  Removing the last security key
\* ends the second factor; registering one begins it.
Effect(a, c) ==
  CASE c.kind \in {"create", "add", "import"} -> Made(a)
    [] c.kind \in {"revoke", "forget"} -> Kept(a, a.items \ {c.arg})
    [] c.kind \in {"rename", "edit"} -> [a EXCEPT !.changed = @ \cup ({c.arg} \cap a.items)]
    [] c.kind = "purge" -> Kept(a, {})
    [] c.kind = "register" -> [Made(a) EXCEPT !.main = TRUE]
    [] c.kind = "remove" ->
         [Kept(a, a.items \ {c.arg}) EXCEPT !.main = @ /\ a.items \ {c.arg} # {}]
    [] c.kind = "unlink" -> [a EXCEPT !.main = FALSE]
    [] c.kind \in {"toggle", "enable"} -> [a EXCEPT !.main = (c.arg = 1)]
    [] c.kind = "setting" -> [a EXCEPT !.extra = (c.arg = 1)]
    [] c.kind = "budget" -> [a EXCEPT !.extra = TRUE]
    [] c.kind = "session" -> [a EXCEPT !.others = @ \ {c.arg}]
    [] c.kind = "sessions" -> [a EXCEPT !.others = {}]
    [] OTHER -> a

\* A second budget request is refused, and so is a second factor without a
\* key; MaxPaneItems bounds what is made.
Refused(a, c) ==
  \/ c.kind \in Makers /\ a.next > MaxPaneItems
  \/ c.kind = "budget" /\ a.extra
  \/ c.kind = "toggle" /\ c.arg = 1 /\ a.items = {}

Arrives(c) ==
  /\ c.stage = "sent"
  /\ \E says \in {"ok", "refused", "lost"}, done \in BOOLEAN :
       /\ says = "ok" => done
       /\ says = "refused" => ~done
       /\ done => ~Refused(account, c)
       /\ account' = IF done THEN Effect(account, c) ELSE account
       /\ wire' = (wire \ {c}) \cup {[c EXCEPT !.stage = "back", !.says = says, !.saw = IF c.kind = "load" THEN account ELSE @]}
  /\ UNCHANGED <<pane, screen>>

-----------------------------------------------------------------------------
(* Requests                                                                *)

Call(kind, arg) == [kind |-> kind, arg |-> arg, stage |-> "sent", says |-> "ok", saw |-> Unread,
                    nr |-> screen.made + 1]

\* Ghost `alone': since the last load that left on a quiet line, no request
\* left while another was in flight and no answer was lost.
Sending(s, kind) ==
  [s EXCEPT !.made = @ + 1,
            !.alone = wire = {} /\ (kind = "load" \/ @)]

CanSend == screen.made < MaxPaneOps /\ Cardinality(wire) < MaxWire

Starts(s, kind, arg) ==
  /\ CanSend
  /\ screen' = Sending(s, kind)
  /\ wire' = wire \cup {Call(kind, arg)}
  /\ UNCHANGED <<pane, account>>

\* The answer c is handled; the pane reads its list again or not.
Handles(c, s, reload) ==
  LET rest == wire \ {c}
  IN  /\ c.stage = "back"
      /\ screen' = [s EXCEPT !.alone = @ /\ c.says # "lost" /\ (reload => rest = {})]
      /\ wire' = IF reload THEN rest \cup {[Call("load", 0) EXCEPT !.nr = 0]} ELSE rest
      /\ UNCHANGED <<pane, account>>

Says(s, c) == [s EXCEPT !.said = @ \cup {[kind |-> c.kind, arg |-> c.arg]}]

\* The account's password is the portal's own, the directory's (which the
\* portal verifies), or out of its reach: then neither the form nor the
\* second factor is offered.
Managements == {"portal", "ldap-directory", "sso-provider", "none"}

passwordInfo(m) ==
  [local |-> m = "portal", passkey |-> m \in {"portal", "ldap-directory"}]

-----------------------------------------------------------------------------
(* Loading                                                                 *)

PanesInit ==
  /\ pane \in PaneNames
  /\ account \in {a \in Holdings :
       /\ a.items \subseteq {1} /\ a.changed = {} /\ a.next = 1 + Cardinality(a.items)
       /\ pane # "security" => a.others = {}
       /\ pane = "security" => (~a.extra /\ (a.main => a.items # {}))}
  /\ \E m \in IF pane = "security" THEN Managements ELSE {"portal"} :
     screen = [managed |-> m, data |-> account, running |-> FALSE, dialog |-> NoDialog, pw |-> FALSE,
               form |-> FALSE, editing |-> 0, sessBusy |-> 0, chosen |-> 0, gone |-> FALSE,
               said |-> {}, made |-> 0, alone |-> TRUE]
  /\ wire = {[kind |-> "load", arg |-> 0, stage |-> "sent", says |-> "ok", saw |-> Unread, nr |-> 0]}

\* The snippet's key is chosen once, by the first list that has one.
Loaded(s, seen) ==
  [s EXCEPT !.data = seen,
            !.chosen = IF @ = 0 /\ pane = "keys" /\ seen.items # {}
                       THEN CHOOSE k \in seen.items : \A j \in seen.items : k <= j ELSE @]

LoadAnswers(c) ==
  /\ c.kind = "load"
  /\ Handles(c, IF c.says = "ok" THEN Loaded(screen, c.saw)
                ELSE [screen EXCEPT !.alone = FALSE], FALSE)

\* "Actualiser" of the memory, "Réessayer" of the keys.
Reload == pane # "security" /\ ~screen.gone /\ Starts(screen, "load", 0)

-----------------------------------------------------------------------------
(* API keys                                                                *)

\* Only the creation button waits for an action under way.
CreateKey ==
  /\ pane = "keys" /\ ~screen.running
  /\ Starts([screen EXCEPT !.running = TRUE], "create", 0)

\* After a confirmation; a new name comes from a prompt.
RevokeKey(k) == pane = "keys" /\ Starts([screen EXCEPT !.running = TRUE], "revoke", k)
RenameKey(k) == pane = "keys" /\ Starts([screen EXCEPT !.running = TRUE], "rename", k)

\* The form opens when no request is pending and stays open after.
ToggleBudgetForm ==
  /\ pane = "keys" /\ ~screen.data.extra
  /\ screen' = [screen EXCEPT !.form = ~@]
  /\ UNCHANGED <<pane, account, wire>>

RequestBudget ==
  /\ pane = "keys" /\ screen.form
  /\ Starts([screen EXCEPT !.running = TRUE], "budget", 0)

UnlinkDiscord == pane = "keys" /\ screen.data.main /\ Starts(screen, "unlink", 0)

\* actionKeys(): a success is said, and the list read again, only after an ok.
KeyActionAnswers(c) ==
  /\ c.kind \in {"create", "revoke", "rename", "budget"}
  /\ LET over == [screen EXCEPT !.running = FALSE]
     IN  IF c.says = "ok"
         THEN Handles(c, Says([over EXCEPT !.form = @ /\ c.kind # "budget"], c), TRUE)
         ELSE Handles(c, over, FALSE)

\* unlinkDiscord() reads again whatever the answer.
UnlinkAnswers(c) ==
  /\ c.kind = "unlink"
  /\ Handles(c, IF c.says = "ok" THEN Says(screen, c) ELSE screen, TRUE)

-----------------------------------------------------------------------------
(* Memory                                                                  *)

AddFact == pane = "memory" /\ Starts(screen, "add", 0)

\* importPasted(), importFile()
ImportFacts == pane = "memory" /\ Starts(screen, "import", 0)

BeginEdit(f) ==
  /\ pane = "memory" /\ screen.editing # f
  /\ screen' = [screen EXCEPT !.editing = f]
  /\ UNCHANGED <<pane, account, wire>>

CancelEdit ==
  /\ screen.editing # 0
  /\ screen' = [screen EXCEPT !.editing = 0]
  /\ UNCHANGED <<pane, account, wire>>

SaveEdit == screen.editing \in screen.data.items /\ Starts(screen, "edit", screen.editing)

Forget(f) == pane = "memory" /\ Starts(screen, "forget", f)

Purge == pane = "memory" /\ screen.data.items # {} /\ Starts(screen, "purge", 0)

\* An answer that is not ok is told and nothing else changes.
FactAnswers(c) ==
  /\ c.kind \in {"add", "import", "edit", "forget", "purge"}
  /\ IF c.says = "ok"
     THEN Handles(c, Says([screen EXCEPT !.editing = IF c.kind = "edit" THEN 0 ELSE @], c), TRUE)
     ELSE Handles(c, screen, FALSE)

\* toggle(): the switch moves only after an explicit ok.
EnableMemory ==
  pane = "memory" /\ Starts(screen, "enable", IF screen.data.main THEN 0 ELSE 1)

EnableAnswers(c) ==
  /\ c.kind = "enable"
  /\ Handles(c, IF c.says = "ok" THEN Says([screen EXCEPT !.data.main = (c.arg = 1)], c)
                ELSE screen, FALSE)

\* setSetting(): the switch moves at once, and back when it was not saved.
SetSetting ==
  /\ pane = "memory" /\ screen.data.main
  /\ Starts([screen EXCEPT !.data.extra = ~@], "setting", IF screen.data.extra THEN 0 ELSE 1)

\* Mutant: no rollback.
SettingAnswersStays(c) == c.kind = "setting" /\ Handles(c, screen, FALSE)

SettingAnswers(c) ==
  /\ c.kind = "setting"
  /\ Handles(c, IF c.says = "ok" THEN screen ELSE [screen EXCEPT !.data.extra = (c.arg # 1)],
             FALSE)

-----------------------------------------------------------------------------
(* Security                                                                *)

\* The switch, a key's bin or "Ajouter" open the password dialog; the switch
\* wants a key, or to be on.  The dialog covers nothing: another may follow.
SwitchOffered == screen.data.items # {} \/ screen.data.main

AskPassword(kind, arg) ==
  /\ pane = "security" /\ ~screen.gone /\ passwordInfo(screen.managed).passkey
  /\ screen.dialog # [kind |-> kind, arg |-> arg]
  /\ screen' = [screen EXCEPT !.dialog = [kind |-> kind, arg |-> arg],
                              !.pw = @ /\ kind = "toggle"]
  /\ UNCHANGED <<pane, account, wire>>

Dialogs ==
  {[kind |-> "remove", arg |-> k] : k \in screen.data.items} \cup
  (IF SwitchOffered THEN {[kind |-> "toggle", arg |-> IF screen.data.main THEN 0 ELSE 1]} ELSE {}) \cup
  {[kind |-> "register", arg |-> 0]}

TypePassword ==
  /\ screen.dialog # NoDialog /\ ~screen.pw
  /\ screen' = [screen EXCEPT !.pw = TRUE]
  /\ UNCHANGED <<pane, account, wire>>

CloseDialog ==
  /\ screen.dialog # NoDialog
  /\ screen' = [screen EXCEPT !.dialog = NoDialog, !.pw = FALSE]
  /\ UNCHANGED <<pane, account, wire>>

\* confirmPassword(): Enter calls it also while a request is under way.  A
\* registration closes the dialog first and keeps the password.
ConfirmPassword ==
  /\ screen.dialog # NoDialog /\ screen.pw
  /\ IF screen.dialog.kind = "register"
     THEN Starts([screen EXCEPT !.dialog = NoDialog], "begin", screen.dialog.arg)
     ELSE Starts(screen, screen.dialog.kind, screen.dialog.arg)

\* saveKey(): begin, the key's own dialog, finish.
BeginAnswers(c) ==
  /\ c.kind = "begin" /\ c.stage = "back"
  /\ \/ /\ c.says = "ok" /\ screen' = screen
        /\ wire' = (wire \ {c}) \cup {[c EXCEPT !.kind = "register", !.stage = "sent"]}
        /\ UNCHANGED <<pane, account>>
     \/ Handles(c, screen, FALSE)

ProtectedAnswers(c) ==
  /\ c.kind \in {"toggle", "remove"}
  /\ IF c.says = "ok"
     THEN Handles(c, Says([screen EXCEPT !.dialog = NoDialog, !.pw = FALSE], c), TRUE)
     ELSE Handles(c, screen, FALSE)

RegisterAnswers(c) ==
  /\ c.kind = "register"
  /\ IF c.says = "ok" THEN Handles(c, Says(screen, c), TRUE) ELSE Handles(c, screen, FALSE)

\* revokeSession(), revokeOtherSessions(): one at a time.
RevokeSession(o) ==
  /\ pane = "security" /\ screen.sessBusy = 0
  /\ Starts([screen EXCEPT !.sessBusy = o], "session", o)

RevokeOtherSessions ==
  /\ pane = "security" /\ screen.sessBusy = 0 /\ screen.data.others # {}
  /\ Starts([screen EXCEPT !.sessBusy = 3], "sessions", 0)

SessionAnswers(c) ==
  /\ c.kind \in {"session", "sessions"}
  /\ LET free == [screen EXCEPT !.sessBusy = 0]
     IN  IF c.says = "ok" THEN Handles(c, Says(free, c), TRUE) ELSE Handles(c, free, FALSE)

\* changePassword(): the form of a local account, one request at a time.
ChangePassword ==
  /\ pane = "security" /\ passwordInfo(screen.managed).local /\ ~screen.running
  /\ Starts([screen EXCEPT !.running = TRUE], "password", 0)

PasswordAnswers(c) ==
  /\ c.kind = "password"
  /\ Handles(c, [screen EXCEPT !.running = FALSE], FALSE)

\* deleteAccount(): the portal closes the sessions, the page goes to /login.
DeleteAccount == pane = "security" /\ ~screen.gone /\ Starts(screen, "delete", 0)

DeletionAnswers(c) ==
  /\ c.kind = "delete"
  /\ Handles(c, IF c.says = "ok" THEN [Says(screen, c) EXCEPT !.gone = TRUE] ELSE screen, FALSE)

PanesNext ==
  \/ \E c \in wire : Arrives(c)
  \/ \E c \in wire : LoadAnswers(c)
  \/ Reload
  \/ CreateKey
  \/ \E k \in screen.data.items : RevokeKey(k)
  \/ \E k \in screen.data.items : RenameKey(k)
  \/ ToggleBudgetForm
  \/ RequestBudget
  \/ UnlinkDiscord
  \/ \E c \in wire : KeyActionAnswers(c)
  \/ \E c \in wire : UnlinkAnswers(c)
  \/ AddFact
  \/ ImportFacts
  \/ \E f \in screen.data.items : BeginEdit(f)
  \/ CancelEdit
  \/ SaveEdit
  \/ \E f \in screen.data.items : Forget(f)
  \/ Purge
  \/ \E c \in wire : FactAnswers(c)
  \/ EnableMemory
  \/ \E c \in wire : EnableAnswers(c)
  \/ SetSetting
  \/ \E c \in wire : SettingAnswers(c)
  \/ \E d \in Dialogs : AskPassword(d.kind, d.arg)
  \/ TypePassword
  \/ CloseDialog
  \/ ConfirmPassword
  \/ \E c \in wire : BeginAnswers(c)
  \/ \E c \in wire : ProtectedAnswers(c)
  \/ \E c \in wire : RegisterAnswers(c)
  \/ \E o \in screen.data.others : RevokeSession(o)
  \/ RevokeOtherSessions
  \/ \E c \in wire : SessionAnswers(c)
  \/ ChangePassword
  \/ \E c \in wire : PasswordAnswers(c)
  \/ DeleteAccount
  \/ \E c \in wire : DeletionAnswers(c)

PanesSpec == PanesInit /\ [][PanesNext]_paneVars

-----------------------------------------------------------------------------
(* Properties                                                              *)

\* The portal, the pane and the line between hold what the code can put there.
PanesTypeOK ==
  /\ pane \in PaneNames /\ account \in Holdings /\ screen.data \in Holdings
  /\ screen.made \in 0..MaxPaneOps /\ Cardinality(wire) <= MaxWire

\* On a quiet line a pane shows what the portal holds: every action that
\* changes the account either reads it again, or moves the screen as the
\* portal did and back when it was refused.  Excepted: requests that
\* overlapped (two loads may answer in the wrong order, two changes of one
\* switch may both be rolled back) and lost answers.
QuietShowsPortal == (wire = {} /\ screen.alone /\ ~screen.gone) => screen.data = account

\* What the pane says is done was done ("only says it's done when it is
\* true", actionKeys in KeysContent.tsx): a key said revoked is no longer
\* among the portal's, nor a session said closed, and a budget said asked for
\* is.
SaidIsDone ==
  \A s \in screen.said :
    /\ s.kind \in {"revoke", "forget", "remove"} => s.arg \notin account.items
    /\ s.kind = "session" => s.arg \notin account.others
    /\ s.kind = "sessions" => account.others = {}
    /\ s.kind = "budget" => account.extra

\* The panes tell the truth.
PanesTruthful == QuietShowsPortal /\ SaidIsDone
=============================================================================
