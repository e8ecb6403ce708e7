------------------------------ MODULE Console ------------------------------
(***************************************************************************)
(* The administrator's side of the HTTP API: one document of the web       *)
(* console in a browser (src/web/src/hooks/auth-provider.tsx, pages/       *)
(* login.tsx, components/layout, App.tsx, api/client.ts), the cookie it    *)
(* shares with the other tabs, and the sessions of the server              *)
(* (src/internal/api/middleware.go, the Login and Logout handlers).        *)
(*                                                                         *)
(* A request of the document is a record in calls: the browser attaches    *)
(* the cookie when it is sent, the server answers it in a step of its own, *)
(* and the answer reaches the document later still, in any order.  Pages   *)
(* behind the login are one path, "app": what they show is the subject of  *)
(* Views, here they only poll.                                             *)
(***************************************************************************)
EXTENDS Naturals, FiniteSets

CONSTANTS
    Users,          \* administrators who can log in
    Placeholder,    \* the name shown when the session outlived the document
    None,
    MaxSessions,    \* bound on the number of sessions ever created
    MaxCalls,       \* bound on the requests of the document under way
    MaxLoads,       \* bound on the documents the administrator opens by hand
    MaxFaults       \* bound on answers that are lost or are server errors

ASSUME ConsoleAssumption ==
    /\ MaxSessions \in Nat /\ MaxLoads \in Nat /\ MaxFaults \in Nat
    /\ MaxCalls \in Nat \ {0}
    /\ Placeholder \notin Users /\ None \notin Users /\ Placeholder # None
    /\ None \notin Nat

Tokens == 1 .. MaxSessions
Paths == {"login", "app", "other"}

VARIABLES
    sessions,   \* SessionManager.sessions: token -> user, None: no such session
    issued,     \* tokens handed out so far
    cookie,     \* the browser's ntrip_session cookie
    path,       \* window.location.pathname
    loading,    \* AuthProvider: the children are not rendered yet
    username,   \* AuthProvider: isAuthenticated is username !== null
    submitting, \* LoginPage: the form's button is disabled
    leaving,    \* window.location.href = "/login" was assigned
    calls,      \* requests of this document under way
    loads,      \* documents opened by hand so far
    faults      \* failed answers so far

vars == <<sessions, issued, cookie, path, loading, username, submitting,
          leaving, calls, loads, faults>>

serverVars == <<sessions, issued>>
authVars == <<loading, username>>

(***************************************************************************)
(* A call: status 0 while the server has not answered; token is the cookie *)
(* that was sent, or the one a successful login sets.                      *)
(***************************************************************************)
Kinds == {"check", "poll", "login", "logout"}
Call == [kind : Kinds, user : Users \cup {None}, token : Tokens \cup {None},
         status : {0, 200, 401, 500}]

Send(kind, u) == [kind |-> kind, user |-> u, token |-> cookie, status |-> 0]

TypeOK ==
    /\ sessions \in [Tokens -> Users \cup {None}]
    /\ issued \in 0 .. MaxSessions
    /\ cookie \in Tokens \cup {None}
    /\ path \in Paths
    /\ loading \in BOOLEAN /\ submitting \in BOOLEAN /\ leaving \in BOOLEAN
    /\ username \in Users \cup {Placeholder, None}
    /\ calls \subseteq Call
    /\ loads \in 0 .. MaxLoads /\ faults \in 0 .. MaxFaults

\* SessionManager.Validate: the cookie names a session that has not expired.
Validate(token) == token \in Tokens /\ sessions[token] # None

\* SessionManager.Create
Create(u) ==
    /\ issued < MaxSessions
    /\ issued' = issued + 1
    /\ sessions' = [sessions EXCEPT ![issued + 1] = u]

\* SessionManager.Destroy
Destroy(token) == sessions' = [sessions EXCEPT ![token] = None]

(***************************************************************************)
(* What a render shows follows from path, loading and username: nothing    *)
(* but "Loading..." while loading, the login form at /login, and the       *)
(* protected pages for an authenticated user only (App's routes).          *)
(***************************************************************************)
\* Mutant: the form is rendered while the check is under way.
FormWhileLoading == path = "login"

FormShown == ~loading /\ path = "login"

AppShown == ~loading /\ path = "app" /\ username # None

\* ProtectedRoute: an unauthenticated render of a protected page navigates
\* to /login.
Guarded(p, name) == IF p = "app" /\ name = None THEN "login" ELSE p

(***************************************************************************)
(* The server.                                                             *)
(***************************************************************************)
Answered(c, d) == calls' = (calls \ {c}) \cup {d}

\* AuthMiddleware in front of every route but login: 401 without a live
\* session.
Refuse(c) ==
    /\ c.status = 0 /\ c.kind # "login"
    /\ ~Validate(c.token)
    /\ Answered(c, [c EXCEPT !.status = 401])
    /\ UNCHANGED <<serverVars, cookie, path, authVars, submitting, leaving, loads, faults>>

\* The handlers behind the middleware that leave the sessions alone.
Serve(c) ==
    /\ c.status = 0 /\ c.kind \in {"check", "poll"}
    /\ Validate(c.token)
    /\ Answered(c, [c EXCEPT !.status = 200])
    /\ UNCHANGED <<serverVars, cookie, path, authVars, submitting, leaving, loads, faults>>

\* Mutant: the cookie is cleared, the session is not destroyed.
LogoutCookieOnly(c) ==
    /\ c.status = 0 /\ c.kind = "logout"
    /\ Validate(c.token)
    /\ Answered(c, [c EXCEPT !.status = 200])
    /\ UNCHANGED <<serverVars, cookie, path, authVars, submitting, leaving, loads, faults>>

\* Logout: the session of the cookie is destroyed.
Logout(c) ==
    /\ c.status = 0 /\ c.kind = "logout"
    /\ Validate(c.token)
    /\ Destroy(c.token)
    /\ Answered(c, [c EXCEPT !.status = 200])
    /\ UNCHANGED <<issued, cookie, path, authVars, submitting, leaving, loads, faults>>

\* Login: right credentials of an administrator make a new session.  The
\* session the browser already has is left alone.
Login(c) ==
    /\ c.status = 0 /\ c.kind = "login"
    /\ \/ /\ Create(c.user)
          /\ Answered(c, [c EXCEPT !.status = 200, !.token = issued + 1])
       \/ /\ Answered(c, [c EXCEPT !.status = 401])
          /\ UNCHANGED serverVars
    /\ UNCHANGED <<cookie, path, authVars, submitting, leaving, loads, faults>>

\* A server error, or an answer that never arrives, also to a request that was
\* carried out (fetch rejects).
Fault(c) ==
    /\ c.status # 500 /\ faults < MaxFaults
    /\ faults' = faults + 1
    /\ Answered(c, [c EXCEPT !.status = 500])
    /\ UNCHANGED <<serverVars, cookie, path, authVars, submitting, leaving, loads>>

\* Twenty-four hours are over, or the process was restarted: the sessions are
\* in memory only.
Expire(t) ==
    /\ sessions[t] # None
    /\ Destroy(t)
    /\ UNCHANGED <<issued, cookie, path, authVars, submitting, leaving, calls, loads, faults>>

(***************************************************************************)
(* The document.                                                           *)
(***************************************************************************)

\* A new document: AuthProvider mounts, renders "Loading..." and checks.
Load(p) ==
    /\ path' = p
    /\ loading' = TRUE /\ username' = None
    /\ submitting' = FALSE /\ leaving' = FALSE
    /\ calls' = {Send("check", None)}

\* The administrator opens or reloads a page.
Open(p) ==
    /\ loads < MaxLoads
    /\ loads' = loads + 1
    /\ Load(p)
    /\ UNCHANGED <<serverVars, cookie, faults>>

\* The navigation begun by window.location.href replaces the document: the
\* calls of the old one have nobody left to answer to.
Reload ==
    /\ leaving
    /\ Load("login")
    /\ UNCHANGED <<serverVars, cookie, loads, faults>>

\* Mutant: every failing request sends the browser to /login.
RedirectsOnError(c) == c.status \in {401, 500} /\ c.kind # "login" /\ path # "login"

\* Mutant: the location is not looked at.
RedirectsAnywhere(c) == c.status = 401 /\ c.kind # "login"

\* request: a 401 outside the login call and the login page sends the
\* browser to /login.
Redirects(c) == c.status = 401 /\ c.kind # "login" /\ path # "login"

\* checkAuth: any failure, not only a 401, means nobody is logged in.
CheckAuth(c) ==
    /\ c.kind = "check" /\ c.status # 0
    /\ username' = IF c.status # 200 THEN None
                   ELSE IF username # None THEN username ELSE Placeholder
    /\ loading' = FALSE
    /\ leaving' = (leaving \/ Redirects(c))
    /\ path' = Guarded(path, username')
    /\ calls' = calls \ {c}
    /\ UNCHANGED <<serverVars, cookie, submitting, loads, faults>>

\* Queries of the pages; a page polls as long as it is shown.
Poll ==
    /\ AppShown
    /\ Send("poll", None) \notin calls
    /\ Cardinality(calls) < MaxCalls
    /\ calls' = calls \cup {Send("poll", None)}
    /\ UNCHANGED <<serverVars, cookie, path, authVars, submitting, leaving, loads, faults>>

PollDone(c) ==
    /\ c.kind = "poll" /\ c.status # 0
    /\ leaving' = (leaving \/ Redirects(c))
    /\ calls' = calls \ {c}
    /\ UNCHANGED <<serverVars, cookie, path, authVars, submitting, loads, faults>>

\* LoginPage.handleSubmit up to its await
HandleSubmit(u) ==
    /\ FormShown /\ ~submitting
    /\ Cardinality(calls) < MaxCalls
    /\ submitting' = TRUE
    /\ calls' = calls \cup {Send("login", u)}
    /\ UNCHANGED <<serverVars, cookie, path, authVars, leaving, loads, faults>>

\* login of AuthProvider and the rest of handleSubmit: the name, then the
\* dashboard; on failure a toast.
LoginDone(c) ==
    /\ c.kind = "login" /\ c.status # 0
    /\ submitting' = FALSE
    /\ calls' = calls \ {c}
    /\ IF c.status = 200
       THEN /\ cookie' = c.token
            /\ username' = c.user
            /\ path' = "app"
       ELSE UNCHANGED <<cookie, username, path>>
    /\ UNCHANGED <<serverVars, loading, leaving, loads, faults>>

\* AppSidebar's button: it is never disabled.
ClickLogout ==
    /\ AppShown
    /\ Cardinality(calls) < MaxCalls
    /\ calls' = calls \cup {Send("logout", None)}
    /\ UNCHANGED <<serverVars, cookie, path, authVars, submitting, leaving, loads, faults>>

\* Mutant: the name is dropped in a finally block.
LogoutDoneFinally(c) ==
    /\ c.kind = "logout" /\ c.status # 0
    /\ calls' = calls \ {c}
    /\ leaving' = (leaving \/ Redirects(c))
    /\ cookie' = IF c.status = 200 THEN None ELSE cookie
    /\ username' = None
    /\ path' = Guarded(path, None)
    /\ UNCHANGED <<serverVars, loading, submitting, loads, faults>>

\* logout of AuthProvider after its await: the answer clears the cookie,
\* whichever it is by now; the name is dropped after a success only.
LogoutDone(c) ==
    /\ c.kind = "logout" /\ c.status # 0
    /\ calls' = calls \ {c}
    /\ leaving' = (leaving \/ Redirects(c))
    /\ IF c.status = 200
       THEN /\ cookie' = None
            /\ username' = None
            /\ path' = Guarded(path, None)
       ELSE UNCHANGED <<cookie, username, path>>
    /\ UNCHANGED <<serverVars, loading, submitting, loads, faults>>

\* NotFoundPage's button
GoHome ==
    /\ ~loading /\ path = "other"
    /\ path' = Guarded("app", username)
    /\ UNCHANGED <<serverVars, cookie, authVars, submitting, leaving, calls, loads, faults>>

(***************************************************************************)
(* Another tab of the same browser shares the cookie.                      *)
(***************************************************************************)
OtherTabLogin(u) ==
    /\ Create(u)
    /\ cookie' = issued + 1
    /\ UNCHANGED <<path, authVars, submitting, leaving, calls, loads, faults>>

OtherTabLogout ==
    /\ Validate(cookie)
    /\ Destroy(cookie)
    /\ cookie' = None
    /\ UNCHANGED <<issued, path, authVars, submitting, leaving, calls, loads, faults>>

Init ==
    /\ sessions = [t \in Tokens |-> None]
    /\ issued = 0
    /\ cookie = None
    /\ path \in Paths
    /\ loading = TRUE /\ username = None
    /\ submitting = FALSE /\ leaving = FALSE
    /\ calls = {Send("check", None)}
    /\ loads = 0 /\ faults = 0

ServerStep(c) == Refuse(c) \/ Serve(c) \/ Logout(c) \/ Login(c)
Deliver(c) == CheckAuth(c) \/ PollDone(c) \/ LoginDone(c) \/ LogoutDone(c)

Next ==
    \/ \E c \in calls : ServerStep(c) \/ Fault(c) \/ Deliver(c)
    \/ \E t \in Tokens : Expire(t)
    \/ \E p \in Paths : Open(p)
    \/ Reload
    \/ Poll
    \/ \E u \in Users : HandleSubmit(u)
    \/ ClickLogout
    \/ GoHome
    \/ \E u \in Users : OtherTabLogin(u)
    \/ OtherTabLogout

Spec == Init /\ [][Next]_vars

\* The server answers, answers arrive, the browser carries out a navigation,
\* and a page that is shown polls.  The administrator need not do anything.
FairSpec ==
    /\ Spec
    /\ WF_vars(\E c \in calls : ServerStep(c))
    /\ WF_vars(\E c \in calls : Deliver(c))
    /\ WF_vars(Reload)
    /\ WF_vars(Poll)

(***************************************************************************)
(* Properties.                                                             *)
(***************************************************************************)

\* The answer of the first check and a login cannot cross: as long as the
\* check is under way there is no form to log in with, so no call but the
\* check is under way and no name is set that its failure could erase
\* (auth-provider.tsx: setUsername(null) in checkAuth's catch).
CheckComesFirst ==
    /\ loading => username = None /\ ~submitting
    /\ loading => \A c \in calls : c.kind = "check"
    /\ (\E c \in calls : c.kind = "check") => loading

\* A name, once set, is dropped by a new document or by the answer of a
\* logout that the server granted, never by a failing request
\* (auth-provider.tsx: logout awaits the answer before setUsername(null)).
LoginNotUndone ==
    [][username # None /\ username' = None =>
         \/ loading'
         \/ \E c \in calls : c.kind = "logout" /\ c.status = 200]_vars

\* When the console shows the login form because of a logout, the session it
\* used is dead on the server: a request sent with its token is refused
\* (handlers.go, Logout; a fire-and-forget logout would break it).
LogoutEndsSession ==
    [][\A c \in calls : LogoutDone(c) /\ c.status = 200 => ~Validate(c.token)]_vars

\* The browser is sent to /login under a live session only by a call that
\* carried another cookie: one sent before the login that replaced it, in this
\* tab or another.  A server error or a refusal of the login itself never does
\* it (client.ts: request).
ThrownOutByOldCall ==
    [][~leaving /\ leaving' /\ Validate(cookie) =>
         \E c \in calls \ calls' : c.status = 401 /\ c.token # cookie]_vars

\* Once no session is left, a console that is open ends at the login form,
\* and stays there: the poll of the page notices, the document is replaced
\* once, and the check at /login does not replace it again
\* (client.ts: request tests window.location.pathname).
DeadSessionEndsAtLogin ==
    <>[](\A t \in Tokens : sessions[t] = None) =>
        <>[](path # "app" /\ ~loading /\ ~leaving)
=============================================================================
