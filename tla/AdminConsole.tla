---------------------------- MODULE AdminConsole ----------------------------
(***************************************************************************)
(* The administration page: its data layer (AdminPage.tsx: one poll, one   *)
(* entry point act() with its lock, one confirmation dialog) and the tabs  *)
(* that act through it (ModelsTab, RequestsTab, UsersTab, SystemTab,       *)
(* OverviewTab).  A tab that is left is unmounted: `body' is the local     *)
(* state of the one shown, and an answer that comes back afterwards        *)
(* changes no form.                                                        *)
(*                                                                         *)
(* `plant' is what the portal holds.  One backend of the seven cards and   *)
(* one row of the request tables are followed; the others behave alike.    *)
(***************************************************************************)
EXTENDS Naturals, FiniteSets

CONSTANTS
  MaxEntries, \* entries of the catalog ever made
  MaxDeskOps, \* requests the page sends, polls included
  MaxMail     \* requests in flight at a time

ASSUME ConsoleAssumption == {MaxEntries, MaxDeskOps, MaxMail} \subseteq Nat /\ MaxEntries > 0

VARIABLES
  plant, \* backend followed, its status, catalog, request row, settings
  page,  \* the page: tab, data read, lock, confirmation, counters
  body,  \* the tab: dialog open, text of its form, download state
  mail   \* requests whose answer was not handled

consoleVars == <<plant, page, body, mail>>

Backends == {"llm", "ocr", "video", "voice", "asr", "image", "decisions"}
Tabs == {"overview", "models", "users", "requests", "system"} \* "config" sends nothing through act()
Statuses == {"running", "starting", "failed", "stopped"}
RowStates == {"none", "pending", "done", "rejected"}
Entries == 1..MaxEntries
AdminTexts == {"empty", "served", "typed"}
NoConfirm == [kind |-> "none", arg |-> 0]

Plants == [status : Statuses, enabled : BOOLEAN, entries : SUBSET Entries, edited : SUBSET Entries,
           next : 1..MaxEntries + 1, maintenance : BOOLEAN, row : RowStates, quota : AdminTexts,
           fetching : BOOLEAN]

PlantUnread == [status |-> "stopped", enabled |-> FALSE, entries |-> {}, edited |-> {}, next |-> 1,
           maintenance |-> FALSE, row |-> "none", quota |-> "empty", fetching |-> FALSE]

-----------------------------------------------------------------------------
(* The portal and the runner (external to the page)                        *)

\* What a request does when it is done.
Outcome(p, c) ==
  CASE c.kind \in {"start", "launch"} -> [p EXCEPT !.status = "starting"]
    [] c.kind = "stop" -> [p EXCEPT !.status = "stopped"]
    [] c.kind \in {"add", "catalog"} -> [p EXCEPT !.entries = @ \cup {p.next}, !.next = @ + 1]
    [] c.kind = "delete" -> [p EXCEPT !.entries = @ \ {c.arg}, !.edited = @ \ {c.arg}]
    [] c.kind = "edit" -> [p EXCEPT !.edited = @ \cup ({c.arg} \cap p.entries)]
    [] c.kind = "download" -> [p EXCEPT !.fetching = TRUE]
    [] c.kind = "maintenance" -> [p EXCEPT !.maintenance = ~@]
    [] c.kind = "approve" -> [p EXCEPT !.row = "done"]
    [] c.kind = "reject" -> [p EXCEPT !.row = "rejected"]
    [] c.kind = "row" -> [p EXCEPT !.row = "none"]
    [] c.kind = "settings" -> [p EXCEPT !.quota = "served"]
    [] OTHER -> p

Reads == {"load", "fetch"}

Impossible(p, c) == c.kind \in {"add", "catalog"} /\ p.next > MaxEntries

MailArrives(c) ==
  /\ c.stage = "sent"
  /\ \E says \in {"ok", "refused", "lost"}, done \in BOOLEAN :
       /\ says = "ok" => done
       /\ says = "refused" => ~done
       /\ done => ~Impossible(plant, c)
       /\ plant' = IF done THEN Outcome(plant, c) ELSE plant
       /\ mail' = (mail \ {c}) \cup {[c EXCEPT !.stage = "back", !.says = says, !.saw = IF c.kind \in Reads THEN plant ELSE @]}
  /\ UNCHANGED <<page, body>>

\* A backend comes up, fails or stops by itself; a download ends; an account
\* asks for a model or for tokens.  Once between two readings of the page.
PlantMoves ==
  /\ plant' \in {[plant EXCEPT !.status = t] : t \in CASE plant.status = "starting" -> {"running", "failed"}
                                                      [] plant.status = "running" -> {"stopped"}
                                                      [] OTHER -> {}}
                  \cup {[plant EXCEPT !.fetching = FALSE],
                        [plant EXCEPT !.row = IF @ = "none" THEN "pending" ELSE @]}
  /\ plant' # plant
  /\ page.alone
  /\ page' = [page EXCEPT !.alone = FALSE]
  /\ UNCHANGED <<body, mail>>

-----------------------------------------------------------------------------
(* The data layer                                                          *)

\* What a tab shows when it is mounted: the default quotas are filled in from
\* the data, once there is some.
Mounted(tab, data) ==
  [open |-> "none", subject |-> 0, fetching |-> FALSE, setting |-> FALSE,
   filled |-> tab = "users" /\ data # {},
   text |-> IF tab = "users" /\ data # {} THEN "served" ELSE "empty"]

Letter(kind, arg, nr) ==
  [kind |-> kind, arg |-> arg, stage |-> "sent", says |-> "ok", saw |-> PlantUnread, nr |-> nr, live |-> TRUE]

\* `data' is empty until something was read, then holds what was read last.
\* A page served with its data sends no first load.
ConsoleInit ==
  /\ \E s \in {"running", "failed", "stopped"}, backend \in Backends, row \in {"none", "pending"},
        tab \in Tabs, served \in BOOLEAN, installed \in BOOLEAN :
       /\ tab # "models" => backend = "llm" /\ s = "running"
       /\ tab = "models" => served
       /\ s = "failed" => backend = "asr"
       /\ tab = "requests" \/ row = "none"
       /\ installed \/ (backend = "decisions" /\ s = "stopped")
       /\ plant = [PlantUnread EXCEPT !.status = s, !.enabled = installed,
                     !.row = row, !.entries = {1} \cap Entries, !.next = 2]
       /\ page = [backend |-> backend, tab |-> tab, data |-> IF served THEN {plant} ELSE {}, forbidden |-> FALSE,
                  busy |-> FALSE, confirm |-> NoConfirm, made |-> IF served THEN 0 ELSE 1, alone |-> TRUE]
       /\ body = Mounted(tab, page.data)
       /\ mail = IF served THEN {} ELSE {Letter("load", 0, 1)}

CanPost == Cardinality(mail) < MaxMail /\ page.made < MaxDeskOps /\ ~page.forbidden

\* Ghost `alone': since the last load that left on a quiet line, one request
\* at a time, no answer lost and nothing that moved by itself.
Posted(d, kind) ==
  [d EXCEPT !.made = @ + 1, !.alone = mail = {} /\ (kind = "load" \/ @)]

AdminPoll ==
  /\ CanPost
  /\ page' = Posted(page, "load")
  /\ mail' = mail \cup {Letter("load", 0, page.made + 1)}
  /\ UNCHANGED <<plant, body>>

\* Mutant: every load fills the quotas in again.
LoadLandsResync(c) ==
  /\ c.kind = "load" /\ c.stage = "back"
  /\ mail' = mail \ {c}
  /\ page' = IF c.says = "ok" THEN [page EXCEPT !.data = {c.saw}] ELSE [page EXCEPT !.alone = FALSE]
  /\ body' = IF c.says = "ok" /\ page.tab = "users" THEN [body EXCEPT !.filled = TRUE, !.text = "served"] ELSE body
  /\ UNCHANGED plant

\* No order is kept between loads: the last answer handled is the one shown.
LoadLands(c) ==
  /\ c.kind = "load" /\ c.stage = "back"
  /\ mail' = mail \ {c}
  /\ IF c.says # "ok"
     THEN /\ page' = [page EXCEPT !.forbidden = @ \/ c.says = "refused", !.alone = FALSE]
          /\ UNCHANGED body
     ELSE /\ page' = [page EXCEPT !.data = {c.saw}]
          /\ body' = IF page.tab = "users" /\ ~body.filled
                     THEN [body EXCEPT !.filled = TRUE, !.text = "served"] ELSE body
  /\ UNCHANGED plant

actionDisabled == page.busy

\* act(): one action at a time over the whole page.
act(d, p, kind, arg) ==
  /\ ~actionDisabled /\ CanPost
  /\ page' = Posted([d EXCEPT !.busy = TRUE], kind)
  /\ body' = p
  /\ mail' = mail \cup {Letter(kind, arg, page.made + 1)}
  /\ UNCHANGED plant

Direct == Reads \cup {"budget"}

\* Mutant: the page does not read its data again after an action.
ActLandsUnread(c) ==
  /\ c.kind \notin Direct /\ c.stage = "back"
  /\ mail' = mail \ {c}
  /\ page' = [page EXCEPT !.busy = FALSE, !.alone = @ /\ c.says # "lost" /\ mail = {c}]
  /\ body' = IF c.live /\ c.kind \in {"add", "edit"} /\ c.says = "ok" THEN [body EXCEPT !.open = "none"] ELSE body
  /\ UNCHANGED plant

\* The lock is freed, the page is read again, and the form that sent the
\* request goes on: a dialog closes when it was done and stays otherwise; the
\* inline forms are emptied either way; a download is followed at once.
ActLands(c) ==
  LET again == {Letter("load", 0, page.made + 1)}
      fetch == IF c.kind = "download" /\ c.live THEN {Letter("fetch", 0, page.made + 1)} ELSE {}
      done == c.says = "ok"
  IN  /\ c.kind \notin Direct /\ c.stage = "back"
      /\ mail' = (mail \ {c}) \cup again \cup fetch
      /\ page' = [page EXCEPT !.busy = FALSE, !.made = @ + 1,
                    !.alone = @ /\ c.says # "lost" /\ mail = {c}]
      /\ body' = CASE c.live /\ c.kind \in {"add", "edit"} /\ done -> [body EXCEPT !.open = "none"]
                   [] c.live /\ c.kind \in {"catalog", "announce"} -> [body EXCEPT !.text = "empty"]
                   [] OTHER -> body
      /\ UNCHANGED plant

\* A tab is left: its forms go, and its requests only reach the page.
selectTab(tab) ==
  /\ tab # page.tab /\ page.confirm = NoConfirm /\ body.open = "none" /\ ~page.forbidden
  /\ page' = [page EXCEPT !.tab = tab]
  /\ body' = Mounted(tab, page.data)
  /\ mail' = {[c EXCEPT !.live = c.kind = "load"] : c \in mail}
  /\ UNCHANGED plant

On(tab) == page.tab = tab /\ ~page.forbidden /\ page.confirm = NoConfirm /\ body.open = "none"

-----------------------------------------------------------------------------
(* Confirmations: a click opens the dialog, the request leaves on its      *)
(* confirmation                                                            *)

Ask(kind, arg) ==
  /\ ~actionDisabled
  /\ page' = [page EXCEPT !.confirm = [kind |-> kind, arg |-> arg]]
  /\ UNCHANGED <<plant, body, mail>>

runConfirmedAction ==
  /\ page.confirm # NoConfirm
  /\ act([page EXCEPT !.confirm = NoConfirm], body, page.confirm.kind, page.confirm.arg)

CancelConfirm ==
  /\ page.confirm # NoConfirm
  /\ page' = [page EXCEPT !.confirm = NoConfirm]
  /\ UNCHANGED <<plant, body, mail>>

AskMaintenance == On("overview") /\ page.data # {} /\ Ask("maintenance", 0)

-----------------------------------------------------------------------------
(* Models: the cards of the backends and the catalog                       *)

DataShown == CHOOSE d \in page.data : TRUE

\* A dictation sidecar whose model failed to load still holds its port.
offersStop ==
  \/ DataShown.status \in {"running", "starting"}
  \/ page.backend = "asr" /\ DataShown.status = "failed"

StopBackend ==
  /\ On("models") /\ page.data # {} /\ offersStop
  /\ IF page.backend = "llm" THEN Ask("stop", 0) ELSE act(page, body, "stop", 0)

\* The chat model has no start button; the decision engine only one that is installed.
StartBackend ==
  /\ On("models") /\ page.data # {} /\ ~offersStop
  /\ page.backend # "llm"
  /\ page.backend = "decisions" => DataShown.enabled
  /\ act(page, body, "start", 0)

Catalogs == {"llm", "ocr", "voice", "image"}

InCatalog(e) == On("models") /\ page.data # {} /\ page.backend \in Catalogs /\ e \in DataShown.entries

LaunchEntry(e) ==
  /\ InCatalog(e)
  /\ IF page.backend = "llm" THEN Ask("launch", e) ELSE act(page, body, "launch", e)

\* An image model is taken out of the catalog on the host only.
DeleteEntry(e) ==
  /\ InCatalog(e) /\ page.backend # "image"
  /\ IF page.backend = "llm" THEN Ask("delete", e) ELSE act(page, body, "delete", e)

\* The button waits for the end of a download the page knows of.
DownloadWeights(e) ==
  /\ InCatalog(e) /\ page.backend = "llm" /\ ~body.fetching
  /\ act(page, body, "download", e)

refreshDl ==
  /\ On("models") /\ CanPost
  /\ page' = Posted(page, "fetch")
  /\ mail' = mail \cup {Letter("fetch", 0, page.made + 1)}
  /\ UNCHANGED <<plant, body>>

FetchLands(c) ==
  /\ c.kind = "fetch" /\ c.stage = "back"
  /\ mail' = mail \ {c}
  /\ body' = IF c.live /\ c.says = "ok" THEN [body EXCEPT !.fetching = c.saw.fetching] ELSE body
  /\ UNCHANGED <<plant, page>>

OpenArgs(e) ==
  /\ InCatalog(e) /\ page.backend = "llm" /\ ~actionDisabled
  /\ body' = [body EXCEPT !.open = "args", !.subject = e, !.text = "served"]
  /\ UNCHANGED <<plant, page, mail>>

SaveArgs == body.open = "args" /\ act(page, body, "edit", body.subject)

OpenAdd ==
  /\ On("models") /\ page.backend = "llm" /\ ~actionDisabled
  /\ body' = [body EXCEPT !.open = "add", !.text = "empty"]
  /\ UNCHANGED <<plant, page, mail>>

SubmitAdd == body.open = "add" /\ body.text = "typed" /\ act(page, body, "add", 0)

\* The forms of OCR and voice models, inline in the catalog.
AddToCatalog ==
  /\ On("models") /\ page.data # {} /\ page.backend \in {"ocr", "voice"}
  /\ act(page, body, "catalog", 0)

TypeAdminText ==
  /\ ~page.forbidden /\ page.confirm = NoConfirm /\ body.text # "typed"
  /\ \/ body.open \in {"args", "add", "approve"}
     \/ body.open = "none" /\ page.tab \in {"users", "system"}
     \/ body.open = "none" /\ page.tab = "models" /\ page.data # {} /\ page.backend \in {"ocr", "voice"}
  /\ body' = [body EXCEPT !.text = "typed"]
  /\ UNCHANGED <<plant, page, mail>>

CloseAdminDialog ==
  /\ body.open # "none"
  /\ body' = [body EXCEPT !.open = "none"]
  /\ UNCHANGED <<plant, page, mail>>

-----------------------------------------------------------------------------
(* Requests, quotas and announcements                                      *)

RowOffered(states) == On("requests") /\ page.data # {} /\ DataShown.row \in states

OpenApprove ==
  /\ RowOffered({"pending"}) /\ ~actionDisabled
  /\ body' = [body EXCEPT !.open = "approve"]
  /\ UNCHANGED <<plant, page, mail>>

\* The dialog closes at the click, before the answer.
Approve ==
  /\ body.open = "approve" /\ body.text = "typed"
  /\ act(page, [body EXCEPT !.open = "none", !.text = "empty"], "approve", 0)

MarkDone == RowOffered({"pending", "rejected"}) /\ act(page, body, "approve", 0)

Reject == RowOffered({"pending", "done"}) /\ act(page, body, "reject", 0)

DeleteRow == RowOffered({"pending", "done", "rejected"}) /\ act(page, body, "row", 0)

ApplySettings == On("users") /\ act(page, body, "settings", 0)

\* The exact ceiling of an account: its own lock, and no reading again.
SetBudget ==
  /\ On("users") /\ page.data # {} /\ ~body.setting /\ ~actionDisabled /\ CanPost
  /\ body' = [body EXCEPT !.setting = TRUE]
  /\ page' = Posted(page, "budget")
  /\ mail' = mail \cup {Letter("budget", 0, page.made + 1)}
  /\ UNCHANGED plant

BudgetLands(c) ==
  /\ c.kind = "budget" /\ c.stage = "back"
  /\ mail' = mail \ {c}
  /\ body' = IF c.live THEN [body EXCEPT !.setting = FALSE] ELSE body
  /\ page' = [page EXCEPT !.alone = @ /\ c.says # "lost"]
  /\ UNCHANGED plant

Announce == On("system") /\ act(page, body, "announce", 0)

-----------------------------------------------------------------------------
ConsoleNext ==
  \/ \E c \in mail : MailArrives(c) \/ LoadLands(c) \/ ActLands(c) \/ FetchLands(c) \/ BudgetLands(c)
  \/ PlantMoves \/ AdminPoll
  \/ \E tab \in Tabs : selectTab(tab)
  \/ runConfirmedAction \/ CancelConfirm \/ AskMaintenance
  \/ StopBackend \/ StartBackend
  \/ \E e \in Entries : LaunchEntry(e) \/ DeleteEntry(e) \/ DownloadWeights(e) \/ OpenArgs(e)
  \/ refreshDl \/ SaveArgs \/ OpenAdd \/ SubmitAdd \/ AddToCatalog \/ TypeAdminText \/ CloseAdminDialog
  \/ OpenApprove \/ Approve \/ MarkDone \/ Reject \/ DeleteRow
  \/ ApplySettings \/ SetBudget \/ Announce

ConsoleSpec == ConsoleInit /\ [][ConsoleNext]_consoleVars

-----------------------------------------------------------------------------
(* Properties                                                              *)

Letters ==
  [kind : {"load", "fetch", "budget", "start", "stop", "launch", "delete", "download", "edit", "add",
           "catalog", "maintenance", "approve", "reject", "row", "settings", "announce"},
   arg : 0..MaxEntries, stage : {"sent", "back"}, says : {"ok", "refused", "lost"},
   saw : Plants, nr : Nat, live : BOOLEAN]

ConsoleTypeOK ==
  /\ plant \in Plants
  /\ page.tab \in Tabs /\ page.backend \in Backends /\ page.made \in Nat
  /\ {page.forbidden, page.busy, page.alone} \subseteq BOOLEAN
  /\ Cardinality(page.data) <= 1 /\ \A d \in page.data : d \in Plants
  /\ page.confirm \in {NoConfirm} \cup [kind : {"stop", "launch", "delete", "maintenance"}, arg : 0..MaxEntries]
  /\ body \in [open : {"none", "args", "add", "approve"}, subject : 0..MaxEntries, fetching : BOOLEAN,
               setting : BOOLEAN, filled : BOOLEAN, text : AdminTexts]
  /\ mail \subseteq Letters

\* When every request was sent alone since a load, nothing moved by itself
\* and nothing is in flight, the page shows what the portal holds; and the
\* lock of act() is held exactly while an action of the page is in flight.
ConsoleTruthful ==
  /\ page.alone /\ mail = {} => page.data \subseteq {plant}
  /\ page.busy <=> \E c \in mail : c.kind \notin Direct

\* An answer never takes away what the admin typed: not the default quotas
\* (but for the first data that fills them in), nor the text of a dialog,
\* which closes only when its own request was done.
KeepsKeystrokes ==
  \A c \in mail \ mail' :
    (/\ c.stage = "back" /\ page'.tab = page.tab /\ body.text = "typed"
     /\ page.tab = "users" => body.filled
     /\ body.open # "none" \/ page.tab = "users")
    => /\ body'.text = "typed"
       /\ body'.open # body.open => c.kind \in {"add", "edit"} /\ c.says = "ok"

KeystrokesStand == [][KeepsKeystrokes]_consoleVars
=============================================================================
