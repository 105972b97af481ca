-------------------------------- MODULE Logins --------------------------------
(***************************************************************************)
(* Logging in and finding one's page: the login handler with its limit of   *)
(* failed attempts (lib/auth.js), the middleware, which redirects by what   *)
(* the session token claims, and the pages, which redirect by what          *)
(* api/auth/me answers from the database.                                   *)
(***************************************************************************)
EXTENDS Integers, FiniteSets

CONSTANTS
  Accounts,                    \* users
  SuperAccounts, OrgAccounts,  \* super admins; those with an organization
  Tabs,                        \* tabs of one browser, which share its cookie
  MAX_ATTEMPTS, Window,        \* the limit, in a window of so many ticks
  MaxLogins, MaxTicks, MaxFailing  \* bounds: logins, ticks, failing statements

(* What MCWeb asserts of the instance's constants. *)
LoginsAssumption ==
  /\ IsFiniteSet(Tabs)
  /\ SuperAccounts \subseteq Accounts /\ OrgAccounts \subseteq Accounts \ SuperAccounts
  /\ MAX_ATTEMPTS \in Nat \ {0} /\ Window \in Nat \ {0}

VARIABLES
  account,     \* rows of users
  failed,      \* login_failed rows of the audit log: how many of each age
  cookie,      \* whose session token the browser holds: a set of at most one
  keyed,       \* SECRET_KEY is set: else middleware and auth.js default to two
  tab,         \* of each tab: its path, what it waits for, how many redirects
               \*   there were since somebody acted or api/auth/me failed, and
               \*   the cookie it has seen
  login,       \* the login request of each tab
  opened,      \* history: checks of the limit that failed, and let pass
  logins, ticks

loginVars == <<account, failed, cookie, keyed, tab, login, opened, logins, ticks>>

NoLogin == [at |-> "no", who |-> {}]
Ages == 0 .. Window - 1
Within(counts) ==
  LET sum[n \in 0 .. Window] == IF n = 0 THEN 0 ELSE sum[n - 1] + counts[n - 1] IN sum[Window]
Attempts == Within(failed)

LoginsInit ==
  /\ account = Accounts /\ failed = [a \in Ages |-> 0]
  /\ cookie = {} /\ keyed \in BOOLEAN
  /\ tab = [t \in Tabs |-> [path |-> "/login", waits |-> "user", hops |-> 0, saw |-> {}]]
  /\ login = [t \in Tabs |-> NoLogin]
  /\ opened = 0 /\ logins = 0 /\ ticks = 0

-----------------------------------------------------------------------------
(* The login handler: a check of the limit, a lookup, and then a row for a   *)
(* failure, or the window's rows deleted for a success.  A statement on the  *)
(* audit log that fails is passed over.                                      *)

Tick ==
  /\ ticks < MaxTicks /\ ticks' = ticks + 1
  /\ failed' = [a \in Ages |-> IF a = 0 THEN 0 ELSE failed[a - 1]]
  /\ UNCHANGED <<account, cookie, keyed, tab, login, opened, logins>>

HandleLogin(t) ==
  /\ tab[t].path = "/login" /\ tab[t].waits = "user" /\ login[t] = NoLogin
  /\ logins < MaxLogins /\ logins' = logins + 1
  /\ login' = [login EXCEPT ![t].at = "check"]
  /\ UNCHANGED <<account, failed, cookie, keyed, tab, opened, ticks>>

Steps(t, at, who) == login' = [login EXCEPT ![t] = [at |-> at, who |-> who]]

CheckRateLimit(t) ==
  /\ login[t].at = "check"
  /\ \/ /\ IF Attempts < MAX_ATTEMPTS THEN Steps(t, "verify", {}) ELSE Steps(t, "no", {})
        /\ UNCHANGED opened
     \/ opened < MaxFailing /\ opened' = opened + 1 /\ Steps(t, "verify", {})
  /\ UNCHANGED <<account, failed, cookie, keyed, tab, logins, ticks>>

Verify(t) ==
  /\ login[t].at = "verify"
  /\ Steps(t, "record", {}) \/ \E u \in account : Steps(t, "reset", {u})
  /\ UNCHANGED <<account, failed, cookie, keyed, tab, opened, logins, ticks>>

RecordFailedLogin(t) ==
  /\ login[t].at = "record" /\ Steps(t, "no", {})
  /\ failed' \in {failed, [failed EXCEPT ![0] = @ + 1]}
  /\ UNCHANGED <<account, cookie, keyed, tab, opened, logins, ticks>>

ResetRateLimit(t) ==
  /\ login[t].at = "reset" /\ Steps(t, "token", login[t].who)
  /\ failed' \in {failed, [a \in Ages |-> 0]}
  /\ UNCHANGED <<account, cookie, keyed, tab, opened, logins, ticks>>

-----------------------------------------------------------------------------
(* The browser.                                                              *)

Is(c, S) == c # {} /\ c \subseteq S
Home(c) == IF Is(c, SuperAccounts) THEN "/super" ELSE "/"

Opens(t, path) == [tab EXCEPT ![t] = [path |-> path, waits |-> "middleware", hops |-> 0, saw |-> {}]]
More(hops) == IF hops = 3 THEN 3 ELSE hops + 1   \* counted up to three
Redirects(t, path) ==
  tab' = [tab EXCEPT ![t] = [path |-> path, waits |-> "middleware", hops |-> More(@.hops), saw |-> {}]]
Rests(t) == tab' = [tab EXCEPT ![t].waits = "user", ![t].saw = cookie]

(* Whoever changes the cookie acts for every tab. *)
SetCookie(c, tabs) ==
  /\ cookie' = c
  /\ tab' = [t \in Tabs |-> [tabs[t] EXCEPT !.hops = 0]]

LoggedIn(t) ==
  /\ login[t].at = "token" /\ login' = [login EXCEPT ![t] = NoLogin]
  /\ SetCookie(login[t].who, Opens(t, Home(login[t].who)))
  /\ UNCHANGED <<account, failed, keyed, opened, logins, ticks>>

Logout(t) ==
  /\ tab[t].path # "/login" /\ tab[t].waits = "user"
  /\ SetCookie({}, Opens(t, "/login"))
  /\ UNCHANGED <<account, failed, keyed, login, opened, logins, ticks>>

(* Cookie and token last 24 hours. *)
Expire ==
  /\ cookie # {} /\ SetCookie({}, tab)
  /\ UNCHANGED <<account, failed, keyed, login, opened, logins, ticks>>

Visit(t) ==
  /\ tab[t].waits \in {"user", "blank"} /\ login[t] = NoLogin
  /\ \E path \in {"/", "/login", "/super"} : tab' = Opens(t, path)
  /\ UNCHANGED <<account, failed, cookie, keyed, login, opened, logins, ticks>>

MiddlewareLettingIn(t) ==   \* mutant: the login page is shown to those who are logged in
  LET user == IF keyed THEN cookie ELSE {}
      path == tab[t].path
  IN /\ tab[t].waits = "middleware"
     /\ CASE path # "/login" /\ user = {} -> Redirects(t, "/login")
          [] path = "/login" -> Rests(t)
          [] path = "/super" /\ user # {} /\ ~Is(user, SuperAccounts) -> Redirects(t, "/")
          [] path = "/" /\ Is(user, SuperAccounts) -> Redirects(t, "/super")
          [] path = "/" /\ user # {} /\ ~Is(user, SuperAccounts \union OrgAccounts) ->
               Redirects(t, "/login")
          [] OTHER -> tab' = [tab EXCEPT ![t].waits = "me"]
     /\ UNCHANGED <<account, failed, cookie, keyed, login, opened, logins, ticks>>

Middleware(t) ==
  LET user == IF keyed THEN cookie ELSE {}
      path == tab[t].path
  IN /\ tab[t].waits = "middleware"
     /\ CASE path # "/login" /\ user = {} -> Redirects(t, "/login")
          [] path = "/login" /\ user # {} -> Redirects(t, Home(user))
          [] path = "/super" /\ user # {} /\ ~Is(user, SuperAccounts) -> Redirects(t, "/")
          [] path = "/" /\ Is(user, SuperAccounts) -> Redirects(t, "/super")
          [] path = "/" /\ user # {} /\ ~Is(user, SuperAccounts \union OrgAccounts) ->
               Redirects(t, "/login")
          [] path = "/login" /\ user = {} -> Rests(t)
          [] OTHER -> tab' = [tab EXCEPT ![t].waits = "me"]
     /\ UNCHANGED <<account, failed, cookie, keyed, login, opened, logins, ticks>>

(* UserProvider and SuperAdmin ask api/auth/me, which reads the row. *)
Me(t) ==
  LET user == cookie \intersect account
      path == tab[t].path
  IN /\ tab[t].waits = "me"
     /\ CASE path = "/" /\ user = {} -> Redirects(t, "/login")
          [] path = "/" /\ Is(user, SuperAccounts) -> Redirects(t, "/super")
          [] path = "/super" /\ ~Is(user, SuperAccounts) -> Redirects(t, "/")
          [] OTHER -> Rests(t)
     /\ UNCHANGED <<account, failed, cookie, keyed, login, opened, logins, ticks>>

(* The call fails, or its answer is no JSON.  UserProvider catches that (and  *)
(* a failure of the lists it asks for along with it) and goes to the login   *)
(* page, whatever the cookie; SuperAdmin does not, and shows no user.        *)
MeFails(t) ==
  /\ tab[t].waits = "me"
  /\ tab' = IF tab[t].path = "/" THEN Opens(t, "/login")
            ELSE [tab EXCEPT ![t].waits = "blank"]
  /\ UNCHANGED <<account, failed, cookie, keyed, login, opened, logins, ticks>>

(* After most of what a user changes, UserProvider asks again (refresh). *)
RefreshUser(t) ==
  /\ tab[t].path = "/" /\ tab[t].waits = "user"
  /\ tab' = [tab EXCEPT ![t] = [path |-> "/", waits |-> "me", hops |-> 0, saw |-> {}]]
  /\ UNCHANGED <<account, failed, cookie, keyed, login, opened, logins, ticks>>

DeleteUser ==
  /\ \E u \in account : account' = account \ {u}
  /\ tab' = [t \in Tabs |-> [tab[t] EXCEPT !.hops = 0]]
  /\ UNCHANGED <<failed, cookie, keyed, login, opened, logins, ticks>>

LoginsNext ==
  \/ Tick \/ Expire \/ DeleteUser
  \/ \E t \in Tabs :
       \/ HandleLogin(t) \/ CheckRateLimit(t) \/ Verify(t) \/ RecordFailedLogin(t)
       \/ ResetRateLimit(t) \/ LoggedIn(t) \/ Logout(t) \/ Visit(t) \/ Middleware(t) \/ Me(t)
       \/ MeFails(t) \/ RefreshUser(t)

LoginsSpec == LoginsInit /\ [][LoginsNext]_loginVars

-----------------------------------------------------------------------------
(* Properties.                                                               *)

LoginsTypeOK ==
  /\ account \subseteq Accounts /\ failed \in [Ages -> Nat]
  /\ cookie \subseteq Accounts /\ \A u, v \in cookie : u = v
  /\ \A t \in Tabs :
       /\ tab[t].waits \in {"middleware", "me", "user", "blank"} /\ tab[t].hops \in Nat
       /\ login[t].at \in {"no", "check", "verify", "record", "reset", "token"}

(* Failures in a window exceed the limit only by logins that run side by     *)
(* side, and by those that a failing check let pass.                         *)
LimitSlack == Attempts <= MAX_ATTEMPTS + Cardinality(Tabs) - 1 + opened

(* A token whose user is there, and is of a kind that has a page. *)
Sound == cookie \subseteq account \intersect (SuperAccounts \union OrgAccounts)

(* Middleware and pages agree on who belongs where: who is logged in is      *)
(* redirected at most once, and who is not at most twice (from the page of   *)
(* the super admin, by way of "/"), if the user of the token is still there. *)
(* Counted since somebody acted or api/auth/me failed: a failing call sends  *)
(* a tab to the login page, from where the middleware sends it back, and     *)
(* while the call keeps failing there is no end of that.                     *)
FewRedirects == Sound => \A t \in Tabs : tab[t].hops <= IF cookie = {} THEN 2 ELSE 1

(* A tab comes to rest at the page of the user it has seen, and at the login *)
(* page only without one, if both ends verify tokens with the same secret.   *)
AtHome ==
  \A t \in Tabs : tab[t].waits = "user" =>
    IF tab[t].path = "/login" THEN keyed => tab[t].saw = {}
    ELSE tab[t].path = Home(tab[t].saw) /\ tab[t].saw # {}

(* Login attempts pass the limit only side by side or while the count fails; *)
(* middleware and pages agree on where a user belongs, so that no tab is     *)
(* sent back and forth once api/auth/me answers, and each comes to rest at   *)
(* home (rate-limit, auth, middleware.js and the pages' own checks).         *)
SessionsHold == LimitSlack /\ FewRedirects /\ AtHome
=============================================================================
