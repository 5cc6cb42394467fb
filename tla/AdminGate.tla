------------------------------ MODULE AdminGate ------------------------------
(***************************************************************************)
(* The way into the administrator's panel: the login, check and logout     *)
(* handlers, the middleware in front of the admin routes, and in one       *)
(* browser the tabs of the panel, which share the HttpOnly cookie and the  *)
(* copy of the token in localStorage.  A tab's request leaves with what    *)
(* the browser holds at that moment; its answer first sets the cookie and  *)
(* then resumes the tab.  The limiters may refuse a request (RateLimit).   *)
(***************************************************************************)
EXTENDS Integers

CONSTANTS
    GateUsers,      \* ADMIN_USERS
    LevelOf,     \* their levels: 0 sees most, 2 least
    Tabs,
    TokenLife,   \* ADMIN_JWT_EXPIRES_IN
    MaxAdminTime, MaxAdminAsks  \* bounds on the clock and on the requests

ASSUME GateAssumption ==
    /\ LevelOf \in [GateUsers -> 0..2]
    /\ {TokenLife, MaxAdminTime, MaxAdminAsks} \subseteq Nat

NoOne == "nobody"

VARIABLES
    cookie,      \* blockminer_admin_session, kept until the browser closes
    stored,      \* localStorage.adminToken
    tab,
    gateClock, gateAsks,
    strayed,       \* history: tabs whose browser changed session since their layout asked
    signedOut    \* history: the last session call was a logout, complete and alone

gateVars == <<cookie, stored, tab, gateClock, gateAsks, strayed, signedOut>>

NoToken == [who |-> NoOne, until |-> 0]
Token == [who : GateUsers \cup {NoOne}, until : Nat]
Issued(a) == [who |-> a, until |-> gateClock + TokenLife]

\* route: the page; call, pc: the request in flight; bears: the token it
\* carries, or, answered, the one it brings; level 3: not known.
Tab == [route : {"login", "loading", "panel", "logs", "closed"},
        call : {"none", "login", "check", "logout"},
        pc : {"idle", "sent", "answered", "resumes"},
        bears : Token, said : {"nothing", "ok", "no", "lost"}, level : 0..3, alone : BOOLEAN]

Unknown == 3
Closed == [route |-> "closed", call |-> "none", pc |-> "idle", bears |-> NoToken,
           said |-> "nothing", level |-> Unknown, alone |-> TRUE]

GateInit ==
    /\ cookie = NoToken /\ stored = NoToken
    /\ tab = [t \in Tabs |-> Closed]
    /\ gateClock = 0 /\ gateAsks = 0
    /\ strayed = {} /\ signedOut = TRUE

GateTick == gateClock < MaxAdminTime /\ gateClock' = gateClock + 1
            /\ UNCHANGED <<cookie, stored, tab, gateAsks, strayed, signedOut>>

-----------------------------------------------------------------------------
(* What a request carries and what the server makes of it                   *)

Level(token) == IF token.who = NoOne THEN Unknown ELSE LevelOf[token.who]

\* The server looks at the header only when there is no cookie; the client
\* sends the header with every admin call but the login.
Presented == IF cookie # NoToken THEN cookie ELSE stored

Accepts(token) == token # NoToken /\ gateClock < token.until

\* Session calls of other tabs that are not over.
Others(t) == {u \in Tabs \ {t} : tab[u].call \in {"login", "logout"}}

Goes(t, call, bears, route) ==
    /\ gateAsks < MaxAdminAsks /\ gateAsks' = gateAsks + 1
    /\ tab' = [u \in Tabs |->
          IF u = t
          THEN [tab[t] EXCEPT !.call = call, !.pc = "sent", !.bears = bears, !.route = route,
                              !.said = "nothing", !.alone = Others(t) = {},
                              !.level = IF route = "loading" THEN Unknown ELSE @]
          ELSE IF call \in {"login", "logout"} THEN [tab[u] EXCEPT !.alone = FALSE] ELSE tab[u]]

\* The layout mounts and asks who is logged in.
Mounts(t) ==
    /\ Goes(t, "check", Presented, "loading")
    /\ strayed' = strayed \ {t}

\* Opening or reloading a panel page; "/" and unknown paths open the login.
OpenPanel(t) ==
    /\ tab[t].pc = "idle" /\ Mounts(t)
    /\ UNCHANGED <<cookie, stored, gateClock, signedOut>>

OpenLogin(t) ==
    /\ tab[t].pc = "idle"
    /\ tab' = [tab EXCEPT ![t].route = "login"]
    /\ UNCHANGED <<cookie, stored, gateClock, gateAsks, strayed, signedOut>>

-----------------------------------------------------------------------------
(* Handlers of /api/admin/auth                                              *)

\* login: a wrong e-mail or code, or too many attempts, sets nothing.
Login(t) ==
    /\ tab[t].pc = "sent" /\ tab[t].call = "login"
    /\ \E a \in GateUsers, said \in {"ok", "no", "lost"} :
          tab' = [tab EXCEPT ![t].pc = "answered", ![t].said = said,
                             ![t].bears = IF said = "ok" THEN Issued(a) ELSE NoToken]
    /\ UNCHANGED <<cookie, stored, gateClock, gateAsks, strayed, signedOut>>

Check(t) ==
    /\ tab[t].pc = "sent" /\ tab[t].call = "check"
    /\ \E lost \in BOOLEAN :
          tab' = [tab EXCEPT ![t].pc = "answered",
                             ![t].said = IF lost THEN "lost" ELSE IF Accepts(tab[t].bears) THEN "ok" ELSE "no"]
    /\ UNCHANGED <<cookie, stored, gateClock, gateAsks, strayed, signedOut>>

Logout(t) ==
    /\ tab[t].pc = "sent" /\ tab[t].call = "logout"
    /\ \E said \in {"ok", "lost"} : tab' = [tab EXCEPT ![t].pc = "answered", ![t].said = said]
    /\ UNCHANGED <<cookie, stored, gateClock, gateAsks, strayed, signedOut>>

\* The browser receives the answer and applies its Set-Cookie.
Receive(t) ==
    /\ tab[t].pc = "answered"
    /\ tab' = [tab EXCEPT ![t].pc = "resumes"]
    /\ cookie' = IF tab[t].said # "ok" THEN cookie
                 ELSE IF tab[t].call = "login" THEN tab[t].bears
                 ELSE IF tab[t].call = "logout" THEN NoToken ELSE cookie
    /\ strayed' = IF tab[t].said = "ok" /\ tab[t].call \in {"login", "logout"} THEN Tabs ELSE strayed
    /\ signedOut' = (signedOut /\ ~(tab[t].said = "ok" /\ tab[t].call = "login"))
    /\ UNCHANGED <<stored, gateClock, gateAsks>>

-----------------------------------------------------------------------------
(* The tab                                                                  *)

SubmitLogin(t) ==
    /\ tab[t].route = "login" /\ tab[t].pc = "idle"
    /\ Goes(t, "login", NoToken, "login")
    /\ UNCHANGED <<cookie, stored, gateClock, strayed, signedOut>>

\* AdminLogin: the token is stored and the panel opened, whose layout mounts.
AfterLogin(t) ==
    /\ tab[t].pc = "resumes" /\ tab[t].call = "login"
    /\ IF tab[t].said = "ok"
       THEN stored' = tab[t].bears
            /\ gateAsks' = gateAsks
            /\ tab' = [tab EXCEPT ![t] = [@ EXCEPT !.call = "check", !.pc = "sent", !.route = "loading", !.said = "nothing",
                                       !.level = Unknown, !.bears = IF cookie # NoToken THEN cookie ELSE tab[t].bears]]
            /\ strayed' = (IF cookie = NoToken THEN Tabs ELSE strayed) \ {t}
       ELSE /\ tab' = [tab EXCEPT ![t] = [@ EXCEPT !.call = "none", !.pc = "idle", !.bears = NoToken]]
            /\ UNCHANGED <<stored, gateAsks, strayed>>
    /\ UNCHANGED <<cookie, gateClock, signedOut>>

\* AdminLayout: in with the level of the answer, or back to the login.
AfterCheck(t) ==
    /\ tab[t].pc = "resumes" /\ tab[t].call = "check"
    /\ tab' = [tab EXCEPT ![t] = [@ EXCEPT !.call = "none", !.pc = "idle", !.bears = NoToken,
                  !.route = IF tab[t].said = "ok" THEN "panel" ELSE "login",
                  !.level = IF tab[t].said = "ok" THEN Level(tab[t].bears) ELSE Unknown]]
    /\ UNCHANGED <<cookie, stored, gateClock, gateAsks, strayed, signedOut>>

\* RequireLevel: only levels 0 and 1 see the logs, others the dashboard.

OpenLogs(t) ==
    /\ tab[t].route = "panel" /\ tab[t].pc = "idle" /\ tab[t].level <= 1
    /\ tab' = [tab EXCEPT ![t].route = "logs"]
    /\ UNCHANGED <<cookie, stored, gateClock, gateAsks, strayed, signedOut>>

LeaveLogs(t) ==
    /\ tab[t].route = "logs" /\ tab[t].pc = "idle"
    /\ tab' = [tab EXCEPT ![t].route = "panel"]
    /\ UNCHANGED <<cookie, stored, gateClock, gateAsks, strayed, signedOut>>

StartLogout(t) ==
    /\ tab[t].route \in {"panel", "logs"} /\ tab[t].pc = "idle"
    /\ Goes(t, "logout", NoToken, tab[t].route)
    /\ UNCHANGED <<cookie, stored, gateClock, strayed, signedOut>>

AfterLogoutCookieOnly(t) ==
    /\ tab[t].pc = "resumes" /\ tab[t].call = "logout"
    /\ signedOut' = (tab[t].said = "ok" /\ tab[t].alone)
    /\ strayed' = Tabs
    /\ tab' = [tab EXCEPT ![t] = [Closed EXCEPT !.route = "login"]]
    /\ UNCHANGED <<cookie, stored, gateClock, gateAsks>>

\* AdminSidebar: a failed logout is ignored; the stored token goes all the same.
AfterLogout(t) ==
    /\ tab[t].pc = "resumes" /\ tab[t].call = "logout"
    /\ stored' = NoToken
    /\ signedOut' = (tab[t].said = "ok" /\ tab[t].alone)
    /\ strayed' = Tabs
    /\ tab' = [tab EXCEPT ![t] = [Closed EXCEPT !.route = "login"]]
    /\ UNCHANGED <<cookie, gateClock, gateAsks>>

\* The browser closes: the cookie has no Max-Age, the stored token stays.
CloseBrowser ==
    /\ cookie' = NoToken
    /\ tab' = [t \in Tabs |-> Closed]
    /\ strayed' = Tabs
    /\ UNCHANGED <<stored, gateClock, gateAsks, signedOut>>

GateNext ==
    \/ GateTick \/ CloseBrowser
    \/ \E t \in Tabs :
          \/ OpenPanel(t) \/ OpenLogin(t) \/ SubmitLogin(t) \/ StartLogout(t) \/ OpenLogs(t) \/ LeaveLogs(t)
          \/ Login(t) \/ Check(t) \/ Logout(t) \/ Receive(t)
          \/ AfterLogin(t) \/ AfterCheck(t) \/ AfterLogout(t)

GateSpec == GateInit /\ [][GateNext]_gateVars

-----------------------------------------------------------------------------
\* Tokens and tabs are well formed.
GateTypeOK ==
    /\ cookie \in Token /\ stored \in Token
    /\ tab \in [Tabs -> Tab]
    /\ gateClock \in Nat /\ gateAsks \in Nat
    /\ strayed \subseteq Tabs /\ signedOut \in BOOLEAN

\* A page inside the layout shows the level of the session its requests run
\* under, unless the session changed in another tab since the layout asked
\* (AdminLayout.jsx:25-37 asks once, when it mounts).
LevelIsOfTheSession ==
    \A t \in Tabs \ strayed :
        tab[t].route \in {"panel", "logs"} => Presented # NoToken /\ tab[t].level = Level(Presented)

\* The logs are shown only under a session of level 0 or 1, with the same
\* exception (App.jsx:21 "level 2 e redirecionado").
LogsNeedALevel == \A t \in Tabs \ strayed : tab[t].route = "logs" => Level(Presented) <= 1

\* A logout that was answered, with no other session call under way, leaves
\* the browser with neither the cookie nor the stored token.
SignedOutIsOut == signedOut => cookie = NoToken /\ stored = NoToken

(* Whatever two tabs do, a page shows the level of the session it runs      *)
(* under, the logs are open to levels 0 and 1 alone unless the session      *)
(* changed elsewhere, and a logout that was answered leaves no session      *)
(* behind.                                                                  *)
GateSafe ==
    /\ GateTypeOK /\ LevelIsOfTheSession /\ LogsNeedALevel /\ SignedOutIsOut
=============================================================================
