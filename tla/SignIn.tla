-------------------------------- MODULE SignIn --------------------------------
(***************************************************************************)
(* Signing in and out: the login page (app/login/page.tsx), the token every *)
(* write carries (lib/csrf.tsx), the gate of the pages (proxy.ts,           *)
(* lib/session-gate.ts) and the sign-out of the shell (AppLayout.tsx),      *)
(* against the portal's sessions (auth_routes.rs, login.rs).                *)
(*                                                                         *)
(* A session is its number in `vault'; the token drawn with it has the same *)
(* number, and a sign-in moves the token to a new session.  The browser's   *)
(* one cookie (`jar') is set when an answer lands, whatever page or tab     *)
(* asked: a call leaves with the cookie of that moment, is served, and      *)
(* lands.                                                                  *)
(***************************************************************************)
EXTENDS Naturals, Sequences

CONSTANTS
  MaxSessions,  \* sessions the portal ever makes
  MaxSubmits,   \* submissions of one login page
  MaxElsewhere  \* what other tabs and the clock do to the session

ASSUME SignInAssumption == {MaxSessions, MaxSubmits, MaxElsewhere} \subseteq Nat

VARIABLES vault, jar, door, asked

signVars == <<vault, jar, door, asked>>

NoCookie == 0
ClearCookie == MaxSessions + 1        \* the answer deletes the cookie
Passwords == {"wrong", "right", "blocked", "key"}
Submits == 1..MaxSubmits
\* Who has calls out: each submission, the login page, the token's provider, and
\* the sign-out.
LoginPage == MaxSubmits + 1
Provider == MaxSubmits + 2
SignOut == MaxSubmits + 3

NoCall == [kind |-> "none", cookie |-> 0, token |-> 0, served |-> FALSE, answer |-> 0, set |-> 0]
NoTry == [phase |-> "none", token |-> 0, password |-> "wrong", status |-> 0, crossed |-> FALSE,
          failed |-> FALSE, said |-> ""]

Active(t) == t.phase \notin {"none", "over"}

SignInTypeOK ==
  /\ \A s \in DOMAIN vault : vault[s] \in [csrf : 1..MaxSessions, user : BOOLEAN, live : BOOLEAN]
  /\ Len(vault) <= MaxSessions /\ jar \in 0..Len(vault)
  /\ door.page \in {"login", "app", "refused"}
  /\ {door.held, door.provider} \subseteq 0..Len(vault)
  /\ \A i \in Submits :
       door.tries[i].phase \in {"none", "post", "fresh", "again", "key", "verify", "who", "over"}

-----------------------------------------------------------------------------
(* The portal                                                              *)

Live(s) == s \in DOMAIN vault /\ vault[s].live
SignedIn(s) == Live(s) /\ vault[s].user
CsrfOk(c) == Live(c.cookie) /\ vault[c.cookie].csrf = c.token

\* vault and the answer of a call: the status or, of /api/csrf, the token; and
\* what it does to the cookie.
PortalReply(v, a, set) == [vault |-> v, answer |-> a, set |-> set]

Dropped(v, s) == [v EXCEPT ![s].live = FALSE]

\* api_csrf: the session's token, made with its session on the first ask.
ServeCsrf(c) ==
  IF Live(c.cookie)
  THEN PortalReply(vault, vault[c.cookie].csrf, 0)
  ELSE LET n == Len(vault) + 1
       IN PortalReply(Append(vault, [csrf |-> n, user |-> FALSE, live |-> TRUE]), n, n)

\* apply_session: the old session goes, a new one has its token.
Opened(s) == Append(Dropped(vault, s), [csrf |-> vault[s].csrf, user |-> TRUE, live |-> TRUE])

ServeLogin(c, password) ==
  CASE ~CsrfOk(c) -> PortalReply(vault, 400, 0)
    [] CsrfOk(c) /\ SignedIn(c.cookie) -> PortalReply(vault, 302, 0)
    [] CsrfOk(c) /\ ~SignedIn(c.cookie) ->
         CASE password = "wrong" -> PortalReply(vault, 401, 0)
           [] password = "blocked" -> PortalReply(vault, 403, 0)
           [] password = "key" -> PortalReply(vault, 200, 0)
           [] password = "right" -> PortalReply(Opened(c.cookie), 302, Len(vault) + 1)

\* verify_login, with the answer of the passkey.
ServeVerify(c) ==
  IF CsrfOk(c) THEN PortalReply(Opened(c.cookie), 200, Len(vault) + 1) ELSE PortalReply(vault, 400, 0)

ServeWhoami(c) == PortalReply(vault, IF SignedIn(c.cookie) THEN 200 ELSE 401, 0)

ServeLogout(c) ==
  IF CsrfOk(c) THEN PortalReply(Dropped(vault, c.cookie), 302, ClearCookie) ELSE PortalReply(vault, 400, 0)

Served(c, password) ==
  CASE c.kind = "csrf" -> ServeCsrf(c)
    [] c.kind = "login" -> ServeLogin(c, password)
    [] c.kind = "verify" -> ServeVerify(c)
    [] c.kind = "whoami" -> ServeWhoami(c)
    [] c.kind = "logout" -> ServeLogout(c)

\* The session moved under every submission and sign-out but the one that moved
\* it.
Crossed(d, who, moved) ==
  IF ~moved THEN d
  ELSE [d EXCEPT !.tries = [i \in Submits |-> IF i # who /\ Active(d.tries[i])
                                              THEN [d.tries[i] EXCEPT !.crossed = TRUE]
                                              ELSE d.tries[i]],
                 !.unsure = @ \/ (who # SignOut /\ asked[SignOut].kind # "none")]

Serve ==
  \E who \in DOMAIN asked :
    LET c == asked[who]
        r == Served(c, IF who \in Submits THEN door.tries[who].password ELSE "wrong")
    IN /\ c.kind # "none" /\ ~c.served
       /\ Len(r.vault) <= MaxSessions
       /\ vault' = r.vault
       /\ asked' = [asked EXCEPT ![who].served = TRUE, ![who].answer = r.answer, ![who].set = r.set]
       /\ door' = Crossed(door, who, c.kind # "csrf" /\ r.set # 0)
       /\ UNCHANGED jar

-----------------------------------------------------------------------------
(* The browser                                                             *)

Leaves(kind, token) == [NoCall EXCEPT !.kind = kind, !.cookie = jar, !.token = token]

Blank == [page |-> "login", held |-> 0, provider |-> 0, retried |-> FALSE, unsure |-> FALSE,
          tries |-> [i \in Submits |-> NoTry], moves |-> 0]

NoCalls == [who \in 1..MaxSubmits + 3 |-> NoCall]

\* A document loads: the root layout's provider asks for the token and, on the
\* login page, the page asks too, with the same cookie.
DocumentLoads(page, cookie) ==
  LET ask == [NoCall EXCEPT !.kind = "csrf", !.cookie = cookie]
  IN /\ door' = [Blank EXCEPT !.page = page, !.moves = door.moves]
     /\ asked' = [NoCalls EXCEPT ![Provider] = ask,
                                 ![LoginPage] = IF page = "login" THEN ask ELSE NoCall]

SignInInit ==
  /\ vault = <<>> /\ jar = NoCookie
  /\ door = Blank
  /\ asked = [NoCalls EXCEPT ![LoginPage] = Leaves("csrf", 0), ![Provider] = Leaves("csrf", 0)]

\* gateDecision and checkRedirects: without a cookie to /login at once, with
\* one when the portal says 401; a portal that does not answer lets it pass.
Gate(cookie, reached) ==
  IF cookie = NoCookie \/ (reached /\ ~SignedIn(cookie)) THEN "login" ELSE "app"

\* The user goes to a page by its address, or reloads.
Visit ==
  \E reached \in BOOLEAN :
    /\ door.page # "login" \/ SignedIn(jar)
    /\ DocumentLoads(Gate(jar, reached), jar)
    /\ UNCHANGED <<vault, jar>>

\* redirectToLogin: a page's own read came back 401.
Bounce ==
  /\ door.page = "app" /\ ~SignedIn(jar)
  /\ DocumentLoads("login", jar)
  /\ UNCHANGED <<vault, jar>>

\* The cookie after an answer.
Jar(set) == CASE set = 0 -> jar [] set = ClearCookie -> NoCookie [] OTHER -> set

\* fetchCsrfToken of the login page, and load of CsrfProvider, which asks once
\* more after a failure.
PageTokenLands ==
  LET c == asked[LoginPage]
  IN /\ c.served
     /\ jar' = Jar(c.set)
     /\ door' = [Crossed(door, LoginPage, c.set # 0) EXCEPT !.held = c.answer]
     /\ asked' = [asked EXCEPT ![LoginPage] = NoCall]
     /\ UNCHANGED vault

ProviderTokenLands ==
  LET c == asked[Provider]
  IN /\ c.served
     /\ jar' = Jar(c.set)
     /\ door' = [Crossed(door, Provider, c.set # 0) EXCEPT !.provider = c.answer]
     /\ asked' = [asked EXCEPT ![Provider] = NoCall]
     /\ UNCHANGED vault

TokenLost ==
  \E who \in {LoginPage, Provider} :
    /\ asked[who].kind # "none"
    /\ LET again == who = Provider /\ ~door.retried
       IN /\ asked' = [asked EXCEPT ![who] = IF again THEN Leaves("csrf", 0) ELSE NoCall]
          /\ door' = [door EXCEPT !.retried = @ \/ again]
    /\ UNCHANGED <<vault, jar>>

-----------------------------------------------------------------------------
(* submit                                                                  *)

Try(i, t, c) ==
  /\ door' = [door EXCEPT !.tries[i] = t]
  /\ asked' = [asked EXCEPT ![i] = c]

\* submit, from the button or Enter, which does not look at isSubmitting.
SubmitLogin ==
  \E i \in Submits, password \in Passwords :
    /\ door.page = "login" /\ door.held # 0
    /\ door.tries[i].phase = "none" /\ \A j \in 1..i - 1 : door.tries[j].phase # "none"
    /\ Try(i, [NoTry EXCEPT !.phase = "post", !.token = door.held, !.password = password],
           Leaves("login", door.held))
    /\ UNCHANGED <<vault, jar>>

\* The answer to keep: a passkey is asked for, or the identity is checked.
Verdict(t, status) ==
  [t EXCEPT !.status = status, !.phase = IF status = 200 THEN "key" ELSE "who"]

\* Mutant: no second attempt, a refused token is the end.
AfterPostOnce(t, answer) == Verdict(t, answer)

\* A 400 is the token: the current one is fetched.
AfterPost(t, answer) == IF answer = 400 THEN [t EXCEPT !.phase = "fresh"] ELSE Verdict(t, answer)

\* Tried again with a token that is another one.
Freshened(t, token) ==
  IF token # t.token THEN [t EXCEPT !.token = token, !.phase = "again"] ELSE Verdict(t, 400)

\* The message when whoami finds no session.
LoginError(status) ==
  CASE status = 400 -> "expired" [] status = 403 -> "blocked" [] OTHER -> "wrong"

Over(t, said) == [t EXCEPT !.phase = "over", !.said = said]

Advanced(t, answer) ==
  CASE t.phase = "post" -> AfterPost(t, answer)
    [] t.phase = "fresh" -> Freshened(t, answer)
    [] t.phase = "again" -> Verdict(t, answer)
    [] t.phase = "who" -> Over(t, LoginError(t.status))
    [] t.phase = "verify" -> Over(t, "keyfailed")

\* The call of a phase, with the cookie the answer just left.
NextCall(t, cookie) ==
  LET call(kind) == [NoCall EXCEPT !.kind = kind, !.cookie = cookie, !.token = t.token]
  IN CASE t.phase = "fresh" -> call("csrf")
       [] t.phase = "again" -> call("login")
       [] t.phase = "who" -> call("whoami")
       [] OTHER -> NoCall

\* An answer of a submission lands; a session found is a full load of "/".
SubmitLands ==
  \E i \in Submits :
    LET c == asked[i]
        t == door.tries[i]
        next == Advanced(t, c.answer)
    IN /\ c.served
       /\ jar' = Jar(c.set)
       /\ IF t.phase \in {"who", "verify"} /\ c.answer = 200
          THEN DocumentLoads(Gate(jar', TRUE), jar')
          ELSE /\ door' = [Crossed(door, i, c.set # 0) EXCEPT
                             !.tries[i] = next,
                             !.held = IF t.phase = "fresh" THEN next.token ELSE @]
               /\ asked' = [asked EXCEPT ![i] = NextCall(next, jar')]
       /\ UNCHANGED vault

\* The network fails: /api/csrf is caught on the spot, the rest ends the
\* submission.  The portal may have done what was asked.
SubmitLost ==
  \E i \in Submits :
    LET t == [door.tries[i] EXCEPT !.failed = TRUE]
        next == IF t.phase = "fresh" THEN Verdict(t, 400) ELSE Over(t, "network")
    IN /\ asked[i].kind # "none"
       /\ Try(i, next, NextCall(next, jar))
       /\ UNCHANGED <<vault, jar>>

\* complete2FA: the passkey answers, or is cancelled.
TouchKey ==
  \E i \in Submits, cancelled \in BOOLEAN :
    LET t == door.tries[i]
    IN /\ t.phase = "key"
       /\ IF cancelled THEN Try(i, Over(t, "cancelled"), NoCall)
          ELSE Try(i, [t EXCEPT !.phase = "verify"], Leaves("verify", t.token))
       /\ UNCHANGED <<vault, jar>>

-----------------------------------------------------------------------------
(* logout                                                                  *)

\* Mutant: the token of the page's load is posted, without asking again.
LogoutBlind ==
  /\ door.page = "app" /\ asked[SignOut].kind = "none"
  /\ asked' = [asked EXCEPT ![SignOut] = Leaves("logout", door.provider)]
  /\ UNCHANGED <<vault, jar, door>>

Logout ==
  /\ door.page = "app" /\ asked[SignOut].kind = "none"
  /\ asked' = [asked EXCEPT ![SignOut] = Leaves("csrf", 0)]
  /\ UNCHANGED <<vault, jar, door>>

\* refreshCsrf answered, or failed and the known token is posted; the form
\* is submitted at once.
LogoutRefreshed ==
  \E failed \in BOOLEAN :
    LET c == asked[SignOut]
        token == IF failed THEN door.provider ELSE c.answer
        cookie == IF failed THEN jar ELSE Jar(c.set)
    IN /\ c.kind = "csrf" /\ (c.served \/ failed)
       /\ jar' = cookie
       /\ door' = [door EXCEPT !.provider = token, !.unsure = @ \/ failed]
       /\ asked' = [asked EXCEPT ![SignOut] =
                      [NoCall EXCEPT !.kind = "logout", !.cookie = cookie, !.token = token]]
       /\ UNCHANGED vault

\* The browser follows the answer: the login page, or the 400 page.
LogoutLands ==
  LET c == asked[SignOut]
  IN /\ c.kind = "logout" /\ c.served
     /\ jar' = Jar(c.set)
     /\ IF c.answer = 302 THEN DocumentLoads("login", jar')
        ELSE door' = [door EXCEPT !.page = "refused"] /\ asked' = NoCalls
     /\ UNCHANGED vault

-----------------------------------------------------------------------------
\* Another tab signs out, or in as somebody; or the session's time is up.
CookieMoves(v, cookie) ==
  /\ door.moves < MaxElsewhere /\ Len(v) <= MaxSessions
  /\ vault' = v /\ jar' = cookie
  /\ door' = [Crossed(door, 0, TRUE) EXCEPT !.moves = @ + 1]
  /\ UNCHANGED asked

OtherTab ==
  \/ SignedIn(jar) /\ CookieMoves(Dropped(vault, jar), NoCookie)
  \/ CookieMoves(Append(vault, [csrf |-> Len(vault) + 1, user |-> TRUE, live |-> TRUE]), Len(vault) + 1)

Expires == Live(jar) /\ CookieMoves(Dropped(vault, jar), jar)

SignInNext ==
  \/ Serve \/ Visit \/ Bounce \/ PageTokenLands \/ ProviderTokenLands \/ TokenLost
  \/ SubmitLogin \/ SubmitLands \/ SubmitLost \/ TouchKey
  \/ Logout \/ LogoutRefreshed \/ LogoutLands \/ OtherTab \/ Expires

SignInSpec == SignInInit /\ [][SignInNext]_signVars

-----------------------------------------------------------------------------
\* A right password is never answered "Identifiants incorrects" nor "Session
\* expirée", although the page's token may belong to another session than the
\* browser's: the second attempt heals it (submit).  Except when the
\* session or the cookie moved under the submission, or the network failed it.
RightPasswordEnters ==
  \A i \in Submits :
    LET t == door.tries[i]
    IN t.phase = "over" /\ t.password \in {"right", "key"} /\ ~t.crossed /\ ~t.failed
         => t.said \in {"cancelled"}

\* Signing out is never a dead end (logout): the 400 page is only met when the
\* token could not be asked for again, or the cookie moved after it was.
SignOutWorks == door.page = "refused" => door.unsure

SignInSound == RightPasswordEnters /\ SignOutWorks

=============================================================================
