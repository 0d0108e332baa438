----------------------------- MODULE AdminUsers -----------------------------
(***************************************************************************)
(* The accounts table of the portal (UsersSection.tsx) and its dialogs:    *)
(* creation of accounts and groups, password, block, deletion, purge,      *)
(* detail.  Each dialog keeps its own account, its own text and (for some) *)
(* its own lock; none is closed or locked while its request is in flight,  *)
(* and an answer acts on the dialog as it is when it comes back.           *)
(***************************************************************************)
EXTENDS Naturals, FiniteSets

CONSTANTS
  Accounts,    \* names of accounts
  MaxUserOps,  \* requests the admin starts
  MaxUserMail  \* requests in flight at a time

ASSUME AdminUsersAssumption == {MaxUserOps, MaxUserMail} \subseteq Nat

VARIABLES
  directory, \* what the portal holds: per account [known, enabled, blocked]
  table,     \* the section: what it read, its dialogs and locks; the accounts
             \* are the portal's own (local) or come from a directory
  post       \* requests whose answer was not handled

userVars == <<directory, table, post>>

NoAccount == "none"
Nobody == [known |-> FALSE, enabled |-> FALSE, blocked |-> FALSE]

\* The dialogs that name an account; one is open at a time, being modal, and
\* opening one empties its field, so only the last one is remembered: the
\* account it names and whether its field holds text.  Ghost `for': the
\* account it named when that text was typed.
AccountForms == {"password", "block", "delete", "purge"}
Closed == [kind |-> "none", who |-> NoAccount, text |-> FALSE, for |-> NoAccount]

-----------------------------------------------------------------------------
(* The portal (external to the page)                                       *)

UserOutcome(d, c) ==
  CASE c.kind = "enable" -> [d EXCEPT ![c.who].enabled = ~@]
    [] c.kind = "block" -> [d EXCEPT ![c.who].blocked = TRUE]
    [] c.kind = "unblock" -> [d EXCEPT ![c.who].blocked = FALSE]
    [] c.kind = "delete" -> [d EXCEPT ![c.who] = Nobody]
    [] c.kind = "create" -> [d EXCEPT ![c.who] = [Nobody EXCEPT !.known = TRUE, !.enabled = TRUE]]
    [] OTHER -> d

UserReads == {"users", "detail"}
Warns == {"create", "group", "password", "delete"}

\* A success may carry a warning: something the portal could not do outside.
UserMailArrives(c) ==
  /\ c.stage = "sent"
  /\ \E says \in {"ok", "warning", "refused", "lost"} :
       /\ says = "warning" => c.kind \in Warns
       /\ c.who \in Accounts /\ ~directory[c.who].known /\ c.kind # "create" => says \in {"refused", "lost"}
       /\ \E done \in BOOLEAN :
            /\ says \in {"ok", "warning"} => done
            /\ says = "refused" => ~done
            /\ directory' = IF done /\ c.who \in Accounts THEN UserOutcome(directory, c) ELSE directory
       /\ post' = (post \ {c}) \cup {[c EXCEPT !.stage = "back", !.says = says,
                                        !.saw = IF c.kind = "users" THEN directory ELSE @]}
  /\ UNCHANGED table

-----------------------------------------------------------------------------
(* The section                                                             *)

Empty == [u \in Accounts |-> Nobody]

UserLetter(kind, who, nr) ==
  [kind |-> kind, who |-> who, stage |-> "sent", says |-> "ok", saw |-> Empty, nr |-> nr]

\* Fresh data served with the page spares the first load.
UsersInit ==
  /\ directory = [u \in Accounts |-> [known |-> TRUE, enabled |-> TRUE, blocked |-> FALSE]]
  /\ \E local \in BOOLEAN :
     table = [local |-> local, data |-> directory, form |-> Closed, busy |-> {},
              creating |-> "none", warning |-> NoAccount, delWarning |-> NoAccount,
              detail |-> NoAccount, detailOf |-> NoAccount, revoking |-> FALSE, made |-> 0, sent |-> [kind |-> "none", who |-> NoAccount, for |-> NoAccount]]
  /\ post = {}

CanAct == table.made < MaxUserOps /\ Cardinality(post) < MaxUserMail

Sends(t, kind, who) ==
  /\ CanAct
  /\ table' = [t EXCEPT !.made = @ + 1]
  /\ post' = post \cup {UserLetter(kind, who, table.made + 1)}
  /\ UNCHANGED directory

\* A dialog is modal: the table and the other dialogs are behind it.
NothingOpen ==
  /\ table.form.who = NoAccount
  /\ table.creating = "none" /\ table.detailOf = NoAccount

Row(u) == NothingOpen /\ table.data[u].known

refreshUsers(t, rest) ==
  /\ table' = [t EXCEPT !.made = @ + 1]
  /\ post' = rest \cup {UserLetter("users", NoAccount, table.made + 1)}
  /\ UNCHANGED directory

UsersLand(c) ==
  /\ c.kind = "users" /\ c.stage = "back"
  /\ table' = IF c.says = "ok" THEN [table EXCEPT !.data = c.saw] ELSE table
  /\ post' = post \ {c}
  /\ UNCHANGED directory

-----------------------------------------------------------------------------
(* The row's menu                                                          *)

ToggleEnabled(u) == Row(u) /\ table.local /\ Sends(table, "enable", u)

unblockUser(u) == Row(u) /\ table.data[u].blocked /\ Sends(table, "unblock", u)

\* Accounts of the directory are purged, local ones deleted; both may be
\* blocked; only a local one has a password here.
Offered(f, u) ==
  CASE f \in {"password", "delete"} -> table.local
    [] f = "purge" -> ~table.local
    [] f = "block" -> ~table.data[u].blocked

\* Mutant: a dialog opens with the fields of the one before.
OpenFormKeeping(f, u) ==
  /\ Row(u) /\ Offered(f, u)
  /\ table' = [table EXCEPT !.form = IF @.kind = f THEN [@ EXCEPT !.who = u] ELSE [Closed EXCEPT !.kind = f, !.who = u]]
  /\ UNCHANGED <<directory, post>>

\* Every opening empties the field of its dialog (openDelete, openPurge, and
\* the menu's own handlers) and the messages it would show.
OpenForm(f, u) ==
  /\ Row(u) /\ Offered(f, u)
  /\ table' = [table EXCEPT !.form = [Closed EXCEPT !.kind = f, !.who = u],
                 !.warning = IF f = "password" THEN NoAccount ELSE @,
                 !.delWarning = IF f = "delete" THEN NoAccount ELSE @]
  /\ UNCHANGED <<directory, post>>

\* The reason of a block, the new password, the word DELETE.
TypeField ==
  /\ table.form.who # NoAccount /\ ~table.form.text
  /\ table' = [table EXCEPT !.form.text = TRUE, !.form.for = table.form.who]
  /\ UNCHANGED <<directory, post>>

\* Closing keeps what was typed.
CloseForm ==
  /\ table.form.who # NoAccount
  /\ table' = [table EXCEPT !.form.who = NoAccount,
                 !.warning = IF table.form.kind = "password" THEN NoAccount ELSE @,
                 !.delWarning = IF table.form.kind = "delete" THEN NoAccount ELSE @]
  /\ UNCHANGED <<directory, post>>

\* A block needs no reason; the others need their field.  The password has no lock.
Submit ==
  LET m == table.form
  IN  /\ m.who # NoAccount /\ m.kind \notin table.busy
      /\ m.text \/ m.kind = "block"
      /\ Sends([table EXCEPT !.busy = @ \cup ({m.kind} \ {"password"}),
                             !.sent = [kind |-> m.kind, who |-> m.who, for |-> IF m.text THEN m.for ELSE m.who]],
               m.kind, m.who)

Freed(t, f) == [t EXCEPT !.busy = @ \ {f}]
FormEmptied(m, f) == IF m.kind = f THEN [m EXCEPT !.text = FALSE] ELSE m
Shut(m, f) == IF m.kind = f THEN Closed ELSE m

\* Failures: the password and the block say so and stay; a refused deletion
\* or purge shows its error; one without an answer leaves its lock held.
FormFails(c) ==
  /\ c.kind \in AccountForms /\ c.stage = "back" /\ c.says \in {"refused", "lost"}
  /\ table' = IF c.kind \in {"delete", "purge"} /\ c.says = "lost" THEN table ELSE Freed(table, c.kind)
  /\ post' = post \ {c}
  /\ UNCHANGED directory

\* Success closes the dialog that is open now, whoever it names; a warning
\* keeps it open to be read.
FormDone(c) ==
  LET t == Freed(table, c.kind)
  IN  /\ c.kind \in AccountForms /\ c.stage = "back" /\ c.says \in {"ok", "warning"}
      /\ refreshUsers(CASE c.says = "ok" -> [t EXCEPT !.form = Shut(@, c.kind),
                                               !.warning = IF c.kind = "password" THEN NoAccount ELSE @,
                                               !.delWarning = IF c.kind = "delete" THEN NoAccount ELSE @]
                        [] c.says = "warning" /\ c.kind = "delete" ->
                             [t EXCEPT !.form = FormEmptied(@, "delete"), !.delWarning = c.who]
                        [] OTHER -> [t EXCEPT !.form = FormEmptied(@, "password"), !.warning = c.who],
                      post \ {c})

MenuLands(c) ==
  /\ c.kind \in {"enable", "unblock", "group-delete"} /\ c.stage = "back"
  /\ IF c.says = "ok" THEN refreshUsers(table, post \ {c})
     ELSE post' = post \ {c} /\ UNCHANGED <<directory, table>>

-----------------------------------------------------------------------------
(* New accounts and groups                                                 *)

\* Editing a group keeps the warning shown last.
OpenCreation(kind) ==
  /\ NothingOpen
  /\ table' = [table EXCEPT !.creating = kind, !.warning = IF kind = "group-edit" THEN @ ELSE NoAccount]
  /\ UNCHANGED <<directory, post>>

CloseCreation ==
  /\ table.creating # "none"
  /\ table' = [table EXCEPT !.creating = "none", !.warning = NoAccount]
  /\ UNCHANGED <<directory, post>>

createUser(u) ==
  /\ table.creating = "create" /\ ~directory[u].known
  /\ Sends(table, "create", u)

createGroup == table.creating \in {"group", "group-edit"} /\ Sends(table, "group", NoAccount)

CreationLands(c) ==
  /\ c.kind \in {"create", "group"} /\ c.stage = "back"
  /\ IF c.says \in {"refused", "lost"}
     THEN post' = post \ {c} /\ UNCHANGED <<directory, table>>
     ELSE refreshUsers([table EXCEPT !.warning = IF c.says = "warning" THEN c.kind ELSE NoAccount,
                          !.creating = IF c.says = "warning" THEN @
                                       ELSE IF c.kind = "create" THEN (IF @ = "create" THEN "none" ELSE @)
                                       ELSE IF @ = "create" THEN @ ELSE "none"], post \ {c})

\* The browser's own confirmation, then the request.
deleteGroup == NothingOpen /\ Sends(table, "group-delete", NoAccount)

-----------------------------------------------------------------------------
(* The detail of an account                                                *)

openDetail(u) ==
  /\ Row(u)
  /\ Sends([table EXCEPT !.detail = NoAccount, !.detailOf = u], "detail", u)

\* The answer is shown, whichever account the dialog names by now; under no
\* dialog it is seen by nobody, and the next opening drops it.
DetailLands(c) ==
  /\ c.kind = "detail" /\ c.stage = "back"
  /\ table' = [table EXCEPT !.detail = IF c.says = "ok" /\ table.detailOf # NoAccount THEN c.who ELSE @]
  /\ post' = post \ {c}
  /\ UNCHANGED directory

closeDetail ==
  /\ table.detailOf # NoAccount
  /\ table' = [table EXCEPT !.detailOf = NoAccount, !.detail = NoAccount]
  /\ UNCHANGED <<directory, post>>

\* Offered once a detail is shown.
revokeDetailSessions ==
  /\ table.detailOf # NoAccount /\ table.detail # NoAccount /\ ~table.revoking
  /\ Sends([table EXCEPT !.revoking = TRUE,
              !.sent = [kind |-> "revoke", who |-> table.detailOf, for |-> table.detail]],
           "revoke", table.detailOf)

\* The sessions' account is read again, into whichever detail is open.
RevokeLands(c) ==
  /\ c.kind = "revoke" /\ c.stage = "back"
  /\ table' = [table EXCEPT !.revoking = FALSE, !.made = @ + 1]
  /\ post' = (post \ {c}) \cup IF c.says = "ok" THEN {UserLetter("detail", c.who, table.made + 1)} ELSE {}
  /\ UNCHANGED directory

-----------------------------------------------------------------------------
UsersNext ==
  \/ \E c \in post : UserMailArrives(c) \/ UsersLand(c) \/ FormFails(c) \/ FormDone(c) \/ MenuLands(c)
                       \/ CreationLands(c) \/ DetailLands(c) \/ RevokeLands(c)
  \/ \E u \in Accounts : ToggleEnabled(u) \/ unblockUser(u) \/ createUser(u) \/ openDetail(u)
  \/ \E f \in AccountForms, u \in Accounts : OpenForm(f, u)
  \/ TypeField \/ CloseForm \/ Submit
  \/ \E kind \in {"create", "group", "group-edit"} : OpenCreation(kind)
  \/ CloseCreation \/ createGroup \/ deleteGroup \/ closeDetail \/ revokeDetailSessions

UsersSpec == UsersInit /\ [][UsersNext]_userVars

-----------------------------------------------------------------------------
(* Properties                                                              *)

SomeAccount == Accounts \cup {NoAccount}

UsersTypeOK ==
  /\ DOMAIN directory = Accounts /\ DOMAIN table.data = Accounts
  /\ table.form \in [kind : AccountForms \cup {"none"}, who : SomeAccount, text : BOOLEAN, for : SomeAccount]
  /\ {table.detail, table.detailOf, table.delWarning} \subseteq SomeAccount
  /\ table.warning \in SomeAccount \cup {"create", "group"}
  /\ table.creating \in {"none", "create", "group", "group-edit"}
  /\ table.busy \subseteq AccountForms
  /\ \A c \in post : c.who \in SomeAccount /\ c.stage \in {"sent", "back"}

\* A password, a word DELETE or a reason reaches the account whose dialog it
\* was typed in: a field left by a dialog that was cancelled, or whose answer
\* came late, is never sent for the next account (UsersSection.tsx, openDelete,
\* openPurge, the row's menu).
TypedForThisAccount == table.sent.kind \in AccountForms => table.sent.who = table.sent.for

\* UsersSection.tsx, submitDelete: "the dialog stays open to show it - never a
\* silent security failure".  It can be closed while the answer is on its way.
WarningIsRead == table.delWarning # NoAccount => table.form.kind = "delete" /\ table.form.who = table.delWarning

\* UsersSection.tsx says of the detail that it "does not have to sync itself":
\* what is shown under an account's name is that account's.
DetailIsOfAccount == table.detailOf # NoAccount => table.detail \in {NoAccount, table.detailOf}
=============================================================================
