------------------------- MODULE BackOffice_proofs -------------------------
(*****************************************************************************)
(* Proofs about the back office and what is written and published there,     *)
(* each part with its own state and its own theorems, for any constants: the *)
(* panel's way in, the request limiter, the listing pages, the forms with an *)
(* image, what the panel publishes, and what users and administrators write  *)
(* to each other.  The last part brings the theorems about Withdrawals to    *)
(* the composition MCBackOffice: how its payouts keep to one handler of each *)
(* kind at a time, and that every step of it is a step of each part alone.   *)
(*****************************************************************************)
EXTENDS MCBackOffice, RateLimit, Withdrawals_proofs,
        SequenceTheorems, FiniteSetTheorems, WellFoundedInduction, TLAPS

-----------------------------------------------------------------------------
(* The panel's way in, for any administrators and any number of tabs.        *)

SessionCall(t) == tab[t].call \in {"login", "logout"}

\* A session call is alone as long as it says so.
AloneMeansAlone == \A t, u \in Tabs : t # u /\ SessionCall(t) /\ tab[t].alone => ~SessionCall(u)

\* A login whose cookie is set but not its stored token is not forgotten.
LoginIsKnown ==
    signedOut => \A t \in Tabs : ~(tab[t].call = "login" /\ tab[t].pc = "resumes" /\ tab[t].said = "ok")

\* An answered logout has dropped the cookie, and nobody has set it since.
LogoutHeard ==
    \A t \in Tabs :
        tab[t].call = "logout" /\ tab[t].pc = "resumes" /\ tab[t].said = "ok" /\ tab[t].alone => cookie = NoToken

\* The layout's question is about the session of the browser.
CheckIsOfTheSession ==
    \A t \in Tabs \ strayed :
        tab[t].call = "check" /\ tab[t].pc # "idle" => tab[t].bears = Presented

CheckFoundAToken ==
    \A t \in Tabs :
        tab[t].call = "check" /\ tab[t].pc \in {"answered", "resumes"} /\ tab[t].said = "ok" => tab[t].bears # NoToken

IdleCallsNothing == \A t \in Tabs : tab[t].pc = "idle" => tab[t].call = "none"

GateInv ==
    /\ GateTypeOK /\ IdleCallsNothing /\ SignedOutIsOut /\ LevelIsOfTheSession /\ LogsNeedALevel
    /\ AloneMeansAlone /\ LoginIsKnown /\ LogoutHeard /\ CheckIsOfTheSession /\ CheckFoundAToken

LEMMA NoTokenIsToken == NoToken \in Token /\ NoToken.who = NoOne
BY DEF NoToken, Token

LEMMA ClosedIsTab == Closed \in Tab
BY NoTokenIsToken DEF Closed, Tab, Unknown

LEMMA LevelInRange == \A token \in Token : Level(token) \in 0..3
BY GateAssumption DEF Token, Level, Unknown

LEMMA GateInitially == GateInit => GateInv
<1> SUFFICES ASSUME GateInit PROVE GateInv
    OBVIOUS
<1>1. GateTypeOK
    BY NoTokenIsToken, ClosedIsTab DEF GateInit, GateTypeOK
<1>2. \A t \in Tabs : tab[t].route = "closed" /\ tab[t].call = "none"
    BY DEF GateInit, Closed
<1>3. cookie = NoToken /\ stored = NoToken
    BY DEF GateInit
<1> QED
    BY <1>1, <1>2, <1>3 DEF GateInv, SignedOutIsOut, LevelIsOfTheSession, LogsNeedALevel, AloneMeansAlone, SessionCall,
        LoginIsKnown, LogoutHeard, CheckIsOfTheSession, CheckFoundAToken, IdleCallsNothing

-----------------------------------------------------------------------------
(* A tab that opens the login or the logs, or goes back from them, and one  *)
(* that takes the answer of its layout's question, touch no session: what   *)
(* is left to show is about the level.                                      *)

LEMMA QuietKeeps ==
    ASSUME GateInv, NEW t \in Tabs, NEW rec \in Tab, tab' = [tab EXCEPT ![t] = rec],
           UNCHANGED <<cookie, stored, gateClock, gateAsks, strayed, signedOut>>,
           rec.call = "none",
           t \notin strayed /\ rec.route \in {"panel", "logs"} => Presented # NoToken /\ rec.level = Level(Presented),
           t \notin strayed /\ rec.route = "logs" => Level(Presented) <= 1
    PROVE  GateInv'
<1>1. tab'[t] = rec /\ \A u \in Tabs \ {t} : tab'[u] = tab[u]
    BY DEF GateInv, GateTypeOK
<1>2. GateTypeOK'
    BY DEF GateInv, GateTypeOK
<1>3. Presented' = Presented /\ \A token : Level(token)' = Level(token)
    BY DEF Presented, Level
<1>4. SignedOutIsOut'
    BY DEF GateInv, SignedOutIsOut
<1>5. LevelIsOfTheSession'
    BY <1>1, <1>3 DEF GateInv, LevelIsOfTheSession
<1>6. LogsNeedALevel'
    BY <1>1, <1>3 DEF GateInv, LogsNeedALevel
<1>7. AloneMeansAlone' /\ LoginIsKnown' /\ LogoutHeard'
    BY <1>1 DEF GateInv, AloneMeansAlone, SessionCall, LoginIsKnown, LogoutHeard
<1>8. CheckIsOfTheSession' /\ CheckFoundAToken' /\ IdleCallsNothing'
    BY <1>1, <1>3 DEF GateInv, CheckIsOfTheSession, CheckFoundAToken, IdleCallsNothing
<1> QED
    BY <1>2, <1>4, <1>5, <1>6, <1>7, <1>8 DEF GateInv

LEMMA OpenLoginKeeps == ASSUME GateInv, NEW t \in Tabs, OpenLogin(t) PROVE GateInv'
<1> DEFINE rec == [tab[t] EXCEPT !.route = "login"]
<1>1. tab[t] \in Tab /\ tab[t].call = "none"
    BY DEF GateInv, GateTypeOK, IdleCallsNothing, OpenLogin
<1>2. rec \in Tab /\ rec.call = "none" /\ rec.route = "login"
    BY <1>1 DEF Tab
<1>3. tab' = [tab EXCEPT ![t] = rec]
    BY DEF OpenLogin
<1> HIDE DEF rec
<1> QED
    BY <1>2, <1>3, QuietKeeps DEF OpenLogin

LEMMA OpenLogsKeeps == ASSUME GateInv, NEW t \in Tabs, OpenLogs(t) PROVE GateInv'
<1> DEFINE rec == [tab[t] EXCEPT !.route = "logs"]
<1>1. tab[t] \in Tab /\ tab[t].call = "none" /\ tab[t].level <= 1 /\ tab[t].route = "panel"
    BY DEF GateInv, GateTypeOK, IdleCallsNothing, OpenLogs
<1>2. rec \in Tab /\ rec.call = "none" /\ rec.route = "logs" /\ rec.level = tab[t].level
    BY <1>1 DEF Tab
<1>3. tab' = [tab EXCEPT ![t] = rec]
    BY DEF OpenLogs
<1>4. t \notin strayed => Presented # NoToken /\ tab[t].level = Level(Presented)
    BY <1>1 DEF GateInv, LevelIsOfTheSession
<1> HIDE DEF rec
<1> QED
    BY <1>1, <1>2, <1>3, <1>4, QuietKeeps DEF OpenLogs

LEMMA LeaveLogsKeeps == ASSUME GateInv, NEW t \in Tabs, LeaveLogs(t) PROVE GateInv'
<1> DEFINE rec == [tab[t] EXCEPT !.route = "panel"]
<1>1. tab[t] \in Tab /\ tab[t].call = "none" /\ tab[t].route = "logs"
    BY DEF GateInv, GateTypeOK, IdleCallsNothing, LeaveLogs
<1>2. rec \in Tab /\ rec.call = "none" /\ rec.route = "panel" /\ rec.level = tab[t].level
    BY <1>1 DEF Tab
<1>3. tab' = [tab EXCEPT ![t] = rec]
    BY DEF LeaveLogs
<1>4. t \notin strayed => Presented # NoToken /\ tab[t].level = Level(Presented)
    BY <1>1 DEF GateInv, LevelIsOfTheSession
<1> HIDE DEF rec
<1> QED
    BY <1>1, <1>2, <1>3, <1>4, QuietKeeps DEF LeaveLogs

LEMMA AfterCheckKeeps == ASSUME GateInv, NEW t \in Tabs, AfterCheck(t) PROVE GateInv'
<1> DEFINE level == IF tab[t].said = "ok" THEN Level(tab[t].bears) ELSE Unknown
           route == IF tab[t].said = "ok" THEN "panel" ELSE "login"
           rec == [tab[t] EXCEPT !.call = "none", !.pc = "idle", !.bears = NoToken, !.route = route, !.level = level]
<1>1. tab[t] \in Tab /\ tab[t].call = "check" /\ tab[t].pc = "resumes"
    BY DEF GateInv, GateTypeOK, AfterCheck
<1>2. tab[t].bears \in Token
    BY <1>1 DEF Tab
<1>3. level \in 0..3
    BY <1>2, LevelInRange DEF Unknown
<1>4. rec \in Tab /\ rec.call = "none" /\ rec.route = route /\ rec.level = level
    BY <1>1, <1>3, NoTokenIsToken DEF Tab
<1>5. tab' = [tab EXCEPT ![t] = rec]
    BY DEF AfterCheck
<1>6. t \notin strayed /\ route \in {"panel", "logs"} => Presented # NoToken /\ level = Level(Presented)
    BY <1>1 DEF GateInv, CheckIsOfTheSession, CheckFoundAToken
<1>7. route # "logs"
    OBVIOUS
<1> HIDE DEF rec, route, level
<1> QED
    BY <1>4, <1>5, <1>6, <1>7, QuietKeeps DEF AfterCheck

-----------------------------------------------------------------------------
(* A request leaves a tab.                                                  *)

LEMMA GoesChanges ==
    ASSUME GateInv, NEW t \in Tabs, NEW call \in {"login", "check", "logout"}, NEW bears \in Token,
           NEW route \in {"login", "loading", "panel", "logs"}, Goes(t, call, bears, route)
    PROVE  /\ tab' \in [Tabs -> Tab] /\ gateAsks' \in Nat
           /\ tab'[t].call = call /\ tab'[t].pc = "sent" /\ tab'[t].bears = bears /\ tab'[t].route = route
           /\ tab'[t].alone = (Others(t) = {})
           /\ route # "loading" => tab'[t].level = tab[t].level
           /\ \A u \in Tabs \ {t} :
                /\ tab'[u].route = tab[u].route /\ tab'[u].call = tab[u].call /\ tab'[u].pc = tab[u].pc
                /\ tab'[u].bears = tab[u].bears /\ tab'[u].said = tab[u].said /\ tab'[u].level = tab[u].level
                /\ tab'[u].alone => tab[u].alone
                /\ call # "check" => ~tab'[u].alone
<1> DEFINE asking == [tab[t] EXCEPT !.call = call, !.pc = "sent", !.bears = bears, !.route = route,
                              !.said = "nothing", !.alone = Others(t) = {},
                              !.level = IF route = "loading" THEN Unknown ELSE @]
           other(u) == IF call \in {"login", "logout"} THEN [tab[u] EXCEPT !.alone = FALSE] ELSE tab[u]
<1>1. \A u \in Tabs : tab[u] \in Tab
    BY DEF GateInv, GateTypeOK
<1>2. tab' = [u \in Tabs |-> IF u = t THEN asking ELSE other(u)]
    BY DEF Goes
<1>3. (Others(t) = {}) \in BOOLEAN
    OBVIOUS
<1>4. /\ asking \in Tab
      /\ asking.call = call /\ asking.pc = "sent" /\ asking.bears = bears /\ asking.route = route
      /\ asking.alone = (Others(t) = {})
      /\ route # "loading" => asking.level = tab[t].level
    <2> DEFINE level == IF route = "loading" THEN Unknown ELSE tab[t].level
               alone == Others(t) = {}
    <2>1. level \in 0..3 /\ alone \in BOOLEAN /\ (route # "loading" => level = tab[t].level)
        BY <1>1, <1>3 DEF Tab, Unknown
    <2>2. tab[t] \in Tab
        BY <1>1
    <2>3. asking = [tab[t] EXCEPT !.call = call, !.pc = "sent", !.bears = bears, !.route = route,
                                  !.said = "nothing", !.alone = alone, !.level = level]
        OBVIOUS
    <2> HIDE DEF asking, level, alone
    <2>4. /\ asking \in Tab
          /\ asking.call = call /\ asking.pc = "sent" /\ asking.bears = bears /\ asking.route = route
          /\ asking.alone = alone /\ asking.level = level
        BY <2>1, <2>2, <2>3 DEF Tab
    <2> QED
        BY <2>1, <2>4 DEF alone
<1>5. ASSUME NEW u \in Tabs
      PROVE  /\ other(u) \in Tab
             /\ other(u).route = tab[u].route /\ other(u).call = tab[u].call /\ other(u).pc = tab[u].pc
             /\ other(u).bears = tab[u].bears /\ other(u).said = tab[u].said /\ other(u).level = tab[u].level
             /\ other(u).alone => tab[u].alone
             /\ call # "check" => ~other(u).alone
    <2>1. tab[u] \in Tab
        BY <1>1
    <2>2. CASE call = "check"
        BY <2>1, <2>2
    <2>3. CASE call # "check"
        <3>1. other(u) = [tab[u] EXCEPT !.alone = FALSE]
            BY <2>3
        <3> QED
            BY <2>1, <3>1 DEF Tab
    <2> QED
        BY <2>2, <2>3
<1>6. gateAsks' \in Nat
    <2>1. gateAsks' = gateAsks + 1 /\ gateAsks \in Nat
        BY DEF Goes, GateInv, GateTypeOK
    <2> QED
        BY <2>1
<1> HIDE DEF asking, other
<1> QED
    BY <1>2, <1>4, <1>5, <1>6

LEMMA PresentedIsToken == GateInv => Presented \in Token
BY DEF GateInv, GateTypeOK, Presented

LEMMA OpenPanelKeeps == ASSUME GateInv, NEW t \in Tabs, OpenPanel(t) PROVE GateInv'
<1>1. Goes(t, "check", Presented, "loading") /\ strayed' = strayed \ {t} /\ UNCHANGED <<cookie, stored, gateClock, signedOut>>
    BY DEF OpenPanel, Mounts
<1>2. /\ tab' \in [Tabs -> Tab] /\ gateAsks' \in Nat
      /\ tab'[t].call = "check" /\ tab'[t].pc = "sent" /\ tab'[t].bears = Presented /\ tab'[t].route = "loading"
      /\ \A u \in Tabs \ {t} :
           /\ tab'[u].route = tab[u].route /\ tab'[u].call = tab[u].call /\ tab'[u].pc = tab[u].pc
           /\ tab'[u].bears = tab[u].bears /\ tab'[u].said = tab[u].said /\ tab'[u].level = tab[u].level
           /\ tab'[u].alone => tab[u].alone
    BY <1>1, PresentedIsToken, GoesChanges
<1>3. Presented' = Presented /\ \A token : Level(token)' = Level(token)
    BY <1>1 DEF Presented, Level
<1>4. GateTypeOK' /\ IdleCallsNothing' /\ SignedOutIsOut'
    BY <1>1, <1>2 DEF GateInv, GateTypeOK, IdleCallsNothing, SignedOutIsOut
<1>5. LevelIsOfTheSession' /\ LogsNeedALevel'
    BY <1>1, <1>2, <1>3 DEF GateInv, LevelIsOfTheSession, LogsNeedALevel
<1>6. AloneMeansAlone'
    BY <1>2 DEF GateInv, AloneMeansAlone, SessionCall
<1>7. LoginIsKnown' /\ LogoutHeard'
    BY <1>1, <1>2 DEF GateInv, LoginIsKnown, LogoutHeard
<1>8. CheckIsOfTheSession' /\ CheckFoundAToken'
    BY <1>1, <1>2, <1>3 DEF GateInv, CheckIsOfTheSession, CheckFoundAToken
<1> QED
    BY <1>4, <1>5, <1>6, <1>7, <1>8 DEF GateInv

\* A session call makes every other one not alone, and is alone if there is none.
LEMMA SessionCallLeaves ==
    ASSUME GateInv, NEW t \in Tabs, NEW call \in {"login", "logout"}, NEW route \in {"login", "panel", "logs"},
           Goes(t, call, NoToken, route), tab[t].pc = "idle", route = "login" \/ route = tab[t].route,
           UNCHANGED <<cookie, stored, gateClock, strayed, signedOut>>
    PROVE  GateInv'
<1>1. /\ tab' \in [Tabs -> Tab] /\ gateAsks' \in Nat
      /\ tab'[t].call = call /\ tab'[t].pc = "sent" /\ tab'[t].route = route
      /\ tab'[t].alone = (Others(t) = {})
      /\ tab'[t].level = tab[t].level
      /\ \A u \in Tabs \ {t} :
           /\ tab'[u].route = tab[u].route /\ tab'[u].call = tab[u].call /\ tab'[u].pc = tab[u].pc
           /\ tab'[u].bears = tab[u].bears /\ tab'[u].said = tab[u].said /\ tab'[u].level = tab[u].level
           /\ ~tab'[u].alone
    BY NoTokenIsToken, GoesChanges
<1>2. tab'[t].alone => \A u \in Tabs \ {t} : ~SessionCall(u)
    BY <1>1 DEF Others, SessionCall
<1>3. Presented' = Presented /\ \A token : Level(token)' = Level(token)
    BY DEF Presented, Level
<1>4. GateTypeOK' /\ IdleCallsNothing' /\ SignedOutIsOut'
    BY <1>1 DEF GateInv, GateTypeOK, IdleCallsNothing, SignedOutIsOut
<1>5. LevelIsOfTheSession' /\ LogsNeedALevel'
    BY <1>1, <1>3 DEF GateInv, LevelIsOfTheSession, LogsNeedALevel
<1>6. AloneMeansAlone'
    BY <1>1, <1>2 DEF AloneMeansAlone, SessionCall
<1>7. LoginIsKnown' /\ LogoutHeard'
    BY <1>1 DEF GateInv, LoginIsKnown, LogoutHeard
<1>8. CheckIsOfTheSession' /\ CheckFoundAToken'
    BY <1>1, <1>3 DEF GateInv, CheckIsOfTheSession, CheckFoundAToken
<1> QED
    BY <1>4, <1>5, <1>6, <1>7, <1>8 DEF GateInv

LEMMA SubmitLoginKeeps == ASSUME GateInv, NEW t \in Tabs, SubmitLogin(t) PROVE GateInv'
BY SessionCallLeaves DEF SubmitLogin

LEMMA StartLogoutKeeps == ASSUME GateInv, NEW t \in Tabs, StartLogout(t) PROVE GateInv'
<1> DEFINE route == tab[t].route
<1>1. route \in {"panel", "logs"} /\ Goes(t, "logout", NoToken, route) /\ tab[t].pc = "idle"
      /\ UNCHANGED <<cookie, stored, gateClock, strayed, signedOut>>
    BY DEF StartLogout
<1>2. route = tab[t].route
    OBVIOUS
<1> HIDE DEF route
<1> QED
    BY <1>1, <1>2, SessionCallLeaves

-----------------------------------------------------------------------------
(* The server answers, and the browser receives.                            *)

LEMMA AnswerKeeps ==
    ASSUME GateInv, NEW t \in Tabs, NEW rec \in Tab, tab' = [tab EXCEPT ![t] = rec],
           UNCHANGED <<cookie, stored, gateClock, gateAsks, strayed, signedOut>>,
           rec.call = tab[t].call, rec.route = tab[t].route, rec.level = tab[t].level, rec.alone = tab[t].alone,
           tab[t].pc = "sent", rec.pc = "answered",
           rec.call = "check" => rec.bears = tab[t].bears /\ (rec.said = "ok" => rec.bears # NoToken)
    PROVE  GateInv'
<1>1. tab'[t] = rec /\ \A u \in Tabs \ {t} : tab'[u] = tab[u]
    BY DEF GateInv, GateTypeOK
<1>2. GateTypeOK' /\ IdleCallsNothing' /\ SignedOutIsOut'
    BY <1>1 DEF GateInv, GateTypeOK, IdleCallsNothing, SignedOutIsOut
<1>3. Presented' = Presented /\ \A token : Level(token)' = Level(token)
    BY DEF Presented, Level
<1>4. LevelIsOfTheSession' /\ LogsNeedALevel'
    BY <1>1, <1>3 DEF GateInv, LevelIsOfTheSession, LogsNeedALevel
<1>5. AloneMeansAlone' /\ LoginIsKnown' /\ LogoutHeard'
    BY <1>1 DEF GateInv, AloneMeansAlone, SessionCall, LoginIsKnown, LogoutHeard
<1>6. CheckIsOfTheSession' /\ CheckFoundAToken'
    BY <1>1, <1>3 DEF GateInv, CheckIsOfTheSession, CheckFoundAToken
<1> QED
    BY <1>2, <1>4, <1>5, <1>6 DEF GateInv

LEMMA LoginKeeps == ASSUME GateInv, NEW t \in Tabs, Login(t) PROVE GateInv'
<1>1. PICK a \in GateUsers, said \in {"ok", "no", "lost"} :
          tab' = [tab EXCEPT ![t].pc = "answered", ![t].said = said,
                             ![t].bears = IF said = "ok" THEN Issued(a) ELSE NoToken]
    BY DEF Login
<1> DEFINE bears == IF said = "ok" THEN Issued(a) ELSE NoToken
           rec == [tab[t] EXCEPT !.pc = "answered", !.said = said, !.bears = bears]
<1>2. gateClock + TokenLife \in Nat
    BY GateAssumption DEF GateInv, GateTypeOK
<1>3. bears \in Token
    BY <1>2, NoTokenIsToken DEF Issued, Token
<1>4. tab[t] \in Tab /\ tab[t].call = "login" /\ tab[t].pc = "sent"
    BY DEF GateInv, GateTypeOK, Login
<1>5. tab' = [tab EXCEPT ![t] = rec]
    BY <1>1
<1> HIDE DEF bears
<1>6. /\ rec \in Tab /\ rec.call = "login" /\ rec.route = tab[t].route /\ rec.level = tab[t].level
      /\ rec.alone = tab[t].alone /\ rec.pc = "answered"
    BY <1>3, <1>4 DEF Tab
<1> HIDE DEF rec
<1> QED
    BY <1>4, <1>5, <1>6, AnswerKeeps DEF Login

LEMMA CheckKeeps == ASSUME GateInv, NEW t \in Tabs, Check(t) PROVE GateInv'
<1>1. PICK lost \in BOOLEAN :
          tab' = [tab EXCEPT ![t].pc = "answered",
                             ![t].said = IF lost THEN "lost" ELSE IF Accepts(tab[t].bears) THEN "ok" ELSE "no"]
    BY DEF Check
<1> DEFINE said == IF lost THEN "lost" ELSE IF Accepts(tab[t].bears) THEN "ok" ELSE "no"
           rec == [tab[t] EXCEPT !.pc = "answered", !.said = said]
<1>2. said \in {"ok", "no", "lost"} /\ (said = "ok" => tab[t].bears # NoToken)
    BY DEF Accepts
<1>3. tab[t] \in Tab /\ tab[t].call = "check" /\ tab[t].pc = "sent"
    BY DEF GateInv, GateTypeOK, Check
<1>4. tab' = [tab EXCEPT ![t] = rec]
    BY <1>1
<1> HIDE DEF said
<1>5. /\ rec \in Tab /\ rec.call = "check" /\ rec.route = tab[t].route /\ rec.level = tab[t].level
      /\ rec.alone = tab[t].alone /\ rec.pc = "answered" /\ rec.bears = tab[t].bears /\ rec.said = said
    BY <1>2, <1>3 DEF Tab
<1> HIDE DEF rec
<1> QED
    BY <1>2, <1>3, <1>4, <1>5, AnswerKeeps DEF Check

LEMMA LogoutKeeps == ASSUME GateInv, NEW t \in Tabs, Logout(t) PROVE GateInv'
<1>1. PICK said \in {"ok", "lost"} : tab' = [tab EXCEPT ![t].pc = "answered", ![t].said = said]
    BY DEF Logout
<1> DEFINE rec == [tab[t] EXCEPT !.pc = "answered", !.said = said]
<1>2. tab[t] \in Tab /\ tab[t].call = "logout" /\ tab[t].pc = "sent"
    BY DEF GateInv, GateTypeOK, Logout
<1>3. tab' = [tab EXCEPT ![t] = rec]
    BY <1>1
<1>4. /\ rec \in Tab /\ rec.call = "logout" /\ rec.route = tab[t].route /\ rec.level = tab[t].level
      /\ rec.alone = tab[t].alone /\ rec.pc = "answered"
    BY <1>2 DEF Tab
<1> HIDE DEF rec
<1> QED
    BY <1>2, <1>3, <1>4, AnswerKeeps DEF Logout

LEMMA ReceiveKeeps == ASSUME GateInv, NEW t \in Tabs, Receive(t) PROVE GateInv'
<1> DEFINE said == tab[t].said
           call == tab[t].call
<1>1. /\ tab' \in [Tabs -> Tab]
      /\ tab[t].pc = "answered" /\ tab'[t].pc = "resumes"
      /\ tab'[t].call = call /\ tab'[t].said = said /\ tab'[t].bears = tab[t].bears
      /\ tab'[t].route = tab[t].route /\ tab'[t].level = tab[t].level /\ tab'[t].alone = tab[t].alone
      /\ \A u \in Tabs \ {t} : tab'[u] = tab[u]
    <2>1. tab \in [Tabs -> Tab] /\ tab[t] \in Tab /\ tab' = [tab EXCEPT ![t].pc = "resumes"] /\ tab[t].pc = "answered"
        BY DEF GateInv, GateTypeOK, Receive
    <2>2. tab'[t] = [tab[t] EXCEPT !.pc = "resumes"] /\ \A u \in Tabs \ {t} : tab'[u] = tab[u]
        BY <2>1
    <2>3. tab'[t] \in Tab
        BY <2>1, <2>2 DEF Tab
    <2>4. tab' \in [Tabs -> Tab]
        BY <2>1, <2>3
    <2> QED
        BY <2>1, <2>2, <2>4 DEF Tab
<1>2. tab[t].bears \in Token
    BY DEF GateInv, GateTypeOK, Tab
<1>3. GateTypeOK'
    BY <1>1, <1>2, NoTokenIsToken DEF GateInv, GateTypeOK, Receive
<1>4. IdleCallsNothing' /\ CheckFoundAToken'
    BY <1>1 DEF GateInv, IdleCallsNothing, CheckFoundAToken
<1>5. AloneMeansAlone'
    BY <1>1 DEF GateInv, AloneMeansAlone, SessionCall
<1>6. \A token : Level(token)' = Level(token)
    BY DEF Level
<1>7. CASE said # "ok" \/ call \notin {"login", "logout"}
    <2>1. cookie' = cookie /\ strayed' = strayed /\ signedOut' = signedOut /\ stored' = stored
        BY <1>7 DEF Receive, GateInv, GateTypeOK
    <2>2. Presented' = Presented
        BY <2>1 DEF Presented
    <2>3. LevelIsOfTheSession' /\ LogsNeedALevel' /\ SignedOutIsOut'
        BY <1>1, <1>6, <2>1, <2>2 DEF GateInv, LevelIsOfTheSession, LogsNeedALevel, SignedOutIsOut
    <2>4. LoginIsKnown' /\ LogoutHeard'
        BY <1>1, <1>7, <2>1 DEF GateInv, LoginIsKnown, LogoutHeard
    <2>5. CheckIsOfTheSession'
        BY <1>1, <2>1, <2>2 DEF GateInv, CheckIsOfTheSession
    <2> QED
        BY <1>3, <1>4, <1>5, <2>3, <2>4, <2>5 DEF GateInv
<1>8. CASE said = "ok" /\ call \in {"login", "logout"}
    <2>1. strayed' = Tabs /\ stored' = stored
        BY <1>8 DEF Receive
    <2>2. LevelIsOfTheSession' /\ LogsNeedALevel' /\ CheckIsOfTheSession'
        BY <2>1 DEF LevelIsOfTheSession, LogsNeedALevel, CheckIsOfTheSession
    <2>3. CASE call = "login"
        <3>1. ~signedOut'
            BY <1>8, <2>3 DEF Receive
        <3>2. SignedOutIsOut' /\ LoginIsKnown'
            BY <3>1 DEF SignedOutIsOut, LoginIsKnown
        <3>3. \A u \in Tabs : u # t /\ SessionCall(u) => ~tab[u].alone
            BY <2>3 DEF GateInv, AloneMeansAlone, SessionCall
        <3>4. LogoutHeard'
            BY <1>1, <2>3, <3>3 DEF LogoutHeard, SessionCall
        <3> QED
            BY <1>3, <1>4, <1>5, <2>2, <3>2, <3>4 DEF GateInv
    <2>4. CASE call = "logout"
        <3>1. cookie' = NoToken /\ signedOut' = signedOut
            BY <1>8, <2>4 DEF Receive, GateInv, GateTypeOK
        <3>2. SignedOutIsOut' /\ LogoutHeard'
            BY <2>1, <3>1 DEF GateInv, SignedOutIsOut, LogoutHeard
        <3>3. LoginIsKnown'
            BY <1>1, <2>4, <3>1 DEF GateInv, LoginIsKnown
        <3> QED
            BY <1>3, <1>4, <1>5, <2>2, <3>2, <3>3 DEF GateInv
    <2> QED
        BY <1>8, <2>3, <2>4
<1> QED
    BY <1>7, <1>8

-----------------------------------------------------------------------------
(* The tab takes the answer of a session call.                              *)

LEMMA AfterLoginKeeps == ASSUME GateInv, NEW t \in Tabs, AfterLogin(t) PROVE GateInv'
<1>1. tab \in [Tabs -> Tab] /\ tab[t] \in Tab /\ tab[t].pc = "resumes" /\ tab[t].call = "login" /\ tab[t].bears \in Token
    BY DEF GateInv, GateTypeOK, AfterLogin, Tab
<1>2. CASE tab[t].said # "ok"
    <2> DEFINE rec == [tab[t] EXCEPT !.call = "none", !.pc = "idle", !.bears = NoToken]
    <2>1. tab' = [tab EXCEPT ![t] = rec] /\ UNCHANGED <<cookie, stored, gateClock, gateAsks, strayed, signedOut>>
        BY <1>2 DEF AfterLogin
    <2>2. rec \in Tab /\ rec.call = "none" /\ rec.route = tab[t].route /\ rec.level = tab[t].level
        BY <1>1, NoTokenIsToken DEF Tab
    <2>3. /\ t \notin strayed /\ tab[t].route \in {"panel", "logs"} => Presented # NoToken /\ tab[t].level = Level(Presented)
          /\ t \notin strayed /\ tab[t].route = "logs" => Level(Presented) <= 1
        BY DEF GateInv, LevelIsOfTheSession, LogsNeedALevel
    <2> HIDE DEF rec
    <2> QED
        BY <2>1, <2>2, <2>3, QuietKeeps
<1>3. CASE tab[t].said = "ok"
    <2> DEFINE bears == IF cookie # NoToken THEN cookie ELSE tab[t].bears
               rec == [tab[t] EXCEPT !.call = "check", !.pc = "sent", !.route = "loading", !.said = "nothing",
                                     !.level = Unknown, !.bears = bears]
    <2>1. /\ tab' = [tab EXCEPT ![t] = rec]
          /\ stored' = tab[t].bears /\ gateAsks' = gateAsks /\ cookie' = cookie
          /\ gateClock' = gateClock /\ signedOut' = signedOut
          /\ strayed' = (IF cookie = NoToken THEN Tabs ELSE strayed) \ {t}
        BY <1>3 DEF AfterLogin
    <2>2. bears \in Token /\ bears = Presented'
        BY <1>1, <2>1 DEF GateInv, GateTypeOK, Presented
    <2> HIDE DEF bears
    <2>3. rec \in Tab /\ rec.call = "check" /\ rec.pc = "sent" /\ rec.route = "loading" /\ rec.bears = bears
        <3>1. tab[t] \in Tab /\ bears \in Token /\ Unknown \in 0..3
            BY <1>1, <2>2 DEF Unknown
        <3> QED
            BY <3>1 DEF Tab
    <2> HIDE DEF rec
    <2>4. tab'[t] = rec /\ \A u \in Tabs \ {t} : tab'[u] = tab[u]
        BY <1>1, <2>1
    <2>5. ~signedOut'
        BY <1>1, <1>3, <2>1 DEF GateInv, LoginIsKnown, GateTypeOK
    <2>6. \A u \in Tabs \ {t} : u \notin strayed' => u \notin strayed /\ Presented' = Presented
        BY <2>1 DEF Presented
    <2>7. \A token : Level(token)' = Level(token)
        BY DEF Level
    <2>8. GateTypeOK' /\ IdleCallsNothing' /\ SignedOutIsOut' /\ LoginIsKnown'
        BY <1>1, <2>1, <2>3, <2>4, <2>5 DEF GateInv, GateTypeOK, IdleCallsNothing, SignedOutIsOut, LoginIsKnown
    <2>9. LevelIsOfTheSession' /\ LogsNeedALevel'
        BY <2>3, <2>4, <2>6, <2>7 DEF GateInv, LevelIsOfTheSession, LogsNeedALevel
    <2>10. AloneMeansAlone' /\ LogoutHeard'
        BY <2>1, <2>3, <2>4 DEF GateInv, AloneMeansAlone, SessionCall, LogoutHeard
    <2>11. CheckIsOfTheSession' /\ CheckFoundAToken'
        BY <2>2, <2>3, <2>4, <2>6 DEF GateInv, CheckIsOfTheSession, CheckFoundAToken
    <2> QED
        BY <2>8, <2>9, <2>10, <2>11 DEF GateInv
<1> QED
    BY <1>2, <1>3

LEMMA AfterLogoutKeeps == ASSUME GateInv, NEW t \in Tabs, AfterLogout(t) PROVE GateInv'
<1> DEFINE rec == [Closed EXCEPT !.route = "login"]
<1>1. /\ tab \in [Tabs -> Tab] /\ tab[t].pc = "resumes" /\ tab[t].call = "logout"
      /\ stored' = NoToken /\ strayed' = Tabs /\ signedOut' = (tab[t].said = "ok" /\ tab[t].alone)
      /\ tab' = [tab EXCEPT ![t] = rec] /\ UNCHANGED <<cookie, gateClock, gateAsks>>
    BY DEF GateInv, GateTypeOK, AfterLogout
<1>2. rec \in Tab /\ rec.call = "none" /\ rec.pc = "idle"
    BY ClosedIsTab DEF Closed, Tab
<1> HIDE DEF rec
<1>3. tab'[t] = rec /\ \A u \in Tabs \ {t} : tab'[u] = tab[u]
    BY <1>1
<1>4. tab[t].alone \in BOOLEAN
    BY DEF GateInv, GateTypeOK, Tab
<1>5. GateTypeOK' /\ IdleCallsNothing'
    BY <1>1, <1>2, <1>3, <1>4, NoTokenIsToken DEF GateInv, GateTypeOK, IdleCallsNothing
<1>6. SignedOutIsOut'
    BY <1>1 DEF GateInv, LogoutHeard, SignedOutIsOut
<1>7. LevelIsOfTheSession' /\ LogsNeedALevel' /\ CheckIsOfTheSession'
    BY <1>1 DEF LevelIsOfTheSession, LogsNeedALevel, CheckIsOfTheSession
<1>8. tab[t].alone => \A u \in Tabs \ {t} : ~SessionCall(u)
    BY <1>1 DEF GateInv, AloneMeansAlone, SessionCall
<1>9. LoginIsKnown'
    BY <1>1, <1>2, <1>3, <1>8 DEF LoginIsKnown, SessionCall
<1>10. AloneMeansAlone' /\ LogoutHeard' /\ CheckFoundAToken'
    BY <1>1, <1>2, <1>3 DEF GateInv, AloneMeansAlone, SessionCall, LogoutHeard, CheckFoundAToken
<1> QED
    BY <1>5, <1>6, <1>7, <1>9, <1>10 DEF GateInv

LEMMA CloseBrowserKeeps == ASSUME GateInv, CloseBrowser PROVE GateInv'
<1>1. /\ cookie' = NoToken /\ strayed' = Tabs /\ UNCHANGED <<stored, gateClock, gateAsks, signedOut>>
      /\ tab' = [t \in Tabs |-> Closed]
    BY DEF CloseBrowser
<1>2. \A t \in Tabs : tab'[t].call = "none"
    BY <1>1 DEF Closed
<1>3. GateTypeOK' /\ SignedOutIsOut' /\ IdleCallsNothing'
    BY <1>1, <1>2, ClosedIsTab, NoTokenIsToken DEF GateInv, GateTypeOK, SignedOutIsOut, IdleCallsNothing
<1>4. LevelIsOfTheSession' /\ LogsNeedALevel' /\ CheckIsOfTheSession'
    BY <1>1 DEF LevelIsOfTheSession, LogsNeedALevel, CheckIsOfTheSession
<1>5. AloneMeansAlone' /\ LoginIsKnown' /\ LogoutHeard' /\ CheckFoundAToken'
    BY <1>2 DEF AloneMeansAlone, SessionCall, LoginIsKnown, LogoutHeard, CheckFoundAToken
<1> QED
    BY <1>3, <1>4, <1>5 DEF GateInv

LEMMA NothingMoves ==
    ASSUME GateInv, UNCHANGED <<cookie, stored, tab, gateAsks, strayed, signedOut>>, gateClock' \in Nat
    PROVE  GateInv'
<1>1. Presented' = Presented /\ \A token : Level(token)' = Level(token)
    BY DEF Presented, Level
<1>2. GateTypeOK' /\ IdleCallsNothing' /\ SignedOutIsOut'
    BY DEF GateInv, GateTypeOK, IdleCallsNothing, SignedOutIsOut
<1>3. LevelIsOfTheSession' /\ LogsNeedALevel' /\ CheckIsOfTheSession'
    BY <1>1 DEF GateInv, LevelIsOfTheSession, LogsNeedALevel, CheckIsOfTheSession
<1>4. AloneMeansAlone' /\ LoginIsKnown' /\ LogoutHeard' /\ CheckFoundAToken'
    BY DEF GateInv, AloneMeansAlone, SessionCall, LoginIsKnown, LogoutHeard, CheckFoundAToken
<1> QED
    BY <1>2, <1>3, <1>4 DEF GateInv

LEMMA GateStep == GateInv /\ [GateNext]_gateVars => GateInv'
<1> SUFFICES ASSUME GateInv, [GateNext]_gateVars PROVE GateInv'
    OBVIOUS
<1>1. CASE GateTick
    <2>1. gateClock \in Nat /\ gateClock' = gateClock + 1
        BY <1>1 DEF GateTick, GateInv, GateTypeOK
    <2>2. gateClock' \in Nat
        BY <2>1
    <2> QED
        BY <1>1, <2>2, NothingMoves DEF GateTick
<1>2. CASE UNCHANGED gateVars
    BY <1>2, NothingMoves DEF gateVars, GateInv, GateTypeOK
<1>3. CASE CloseBrowser
    BY <1>3, CloseBrowserKeeps
<1>4. ASSUME NEW t \in Tabs,
             \/ OpenPanel(t) \/ OpenLogin(t) \/ SubmitLogin(t) \/ StartLogout(t) \/ OpenLogs(t) \/ LeaveLogs(t)
             \/ Login(t) \/ Check(t) \/ Logout(t) \/ Receive(t)
             \/ AfterLogin(t) \/ AfterCheck(t) \/ AfterLogout(t)
      PROVE  GateInv'
    BY <1>4, OpenPanelKeeps, OpenLoginKeeps, SubmitLoginKeeps, StartLogoutKeeps, OpenLogsKeeps, LeaveLogsKeeps,
       LoginKeeps, CheckKeeps, LogoutKeeps, ReceiveKeeps, AfterLoginKeeps, AfterCheckKeeps, AfterLogoutKeeps
<1> QED
    BY <1>1, <1>2, <1>3, <1>4 DEF GateNext

\* Whatever the tabs of a browser do and in whatever order their answers
\* arrive, a page shows the level of the session its requests run under, the
\* logs are open to levels 0 and 1, and an answered logout leaves no session.
THEOREM GateHolds == GateSpec => []GateSafe
<1>1. GateInv => GateSafe
    BY DEF GateInv, GateSafe
<1> QED
    BY <1>1, GateInitially, GateStep, PTL DEF GateSpec

-----------------------------------------------------------------------------
(* The limiter's promise for any number of keys, any window, limit, clean-up *)
(* interval and bound of the map.                                            *)

PassedAtMost(count) == IF count <= MaxHits THEN count ELSE MaxHits

(* What the map knows of a key it never forgot: its entry is that of the      *)
(* window its history is about, stays until that window is over, and has    *)
(* counted every request of it.                                             *)
Remembered(k) ==
    LET e == hits[k] IN
    /\ since[k] <= limitClock
    /\ e.held => since[k] >= 0 /\ e.resetAt = since[k] + WindowMs /\ since[k] <= e.lastSeenAt
    /\ ~StartsAnew(k) => e.held /\ passed[k] = PassedAtMost(e.count)
    /\ passed[k] <= MaxHits
    /\ turnedAway[k] => passed[k] >= MaxHits

LimitInv ==
    /\ LimitTypeOK
    /\ \A k \in Keys : since[k] >= -1 /\ (hits[k].held => hits[k].count >= 1)
    /\ \A k \in Keys \ forgotten : Remembered(k)

LEMMA LimitInitially == LimitInit => LimitInv
<1> SUFFICES ASSUME LimitInit PROVE LimitInv
    OBVIOUS
<1>1. LimitTypeOK
    BY DEF LimitInit, LimitTypeOK, NoEntry, Entry
<1>2. \A k \in Keys : since[k] = -1 /\ ~hits[k].held /\ passed[k] = 0 /\ ~turnedAway[k] /\ limitClock = 0
    BY DEF LimitInit, NoEntry
<1>3. \A k \in Keys : StartsAnew(k)
    BY <1>2 DEF StartsAnew
<1> QED
    BY <1>1, <1>2, <1>3, LimitAssumption DEF LimitInv, Remembered

LEMMA TickKeeps == LimitInv /\ LimitTick => LimitInv'
<1> SUFFICES ASSUME LimitInv, LimitTick PROVE LimitInv'
    OBVIOUS
<1>1. /\ limitClock' = limitClock + 1
      /\ UNCHANGED <<hits, lastCleanupAt, since, passed, turnedAway, forgotten>>
    BY DEF LimitTick
<1>2. LimitTypeOK /\ LimitTypeOK'
    BY <1>1 DEF LimitInv, LimitTypeOK
<1>3. ASSUME NEW k \in Keys \ forgotten PROVE Remembered(k)'
    <2>1. Remembered(k) /\ since[k] \in Int /\ limitClock \in Nat
        BY <1>2 DEF LimitInv, LimitTypeOK
    <2>2. StartsAnew(k) => StartsAnew(k)'
        BY <1>1, <2>1, LimitAssumption DEF StartsAnew
    <2> QED
        BY <1>1, <2>1, <2>2 DEF Remembered
<1> QED
    BY <1>1, <1>2, <1>3 DEF LimitInv

\* A request of k, with the entries that the clean-up dropped for the size.
LEMMA HitKeeps ==
    ASSUME LimitInv, NEW k \in Keys, Hit(k)
    PROVE  LimitInv'
<1>1. /\ LimitTypeOK
      /\ \A j \in Keys : since[j] >= -1 /\ (hits[j].held => hits[j].count >= 1)
      /\ \A j \in Keys \ forgotten : Remembered(j)
    BY DEF LimitInv
<1>2. PICK dropped \in SUBSET Keys :
        LET counted == Counted(Cleaned(dropped)[k])
        IN  /\ hits' = [Cleaned(dropped) EXCEPT ![k] = counted]
            /\ passed' = [passed EXCEPT ![k] = (IF StartsAnew(k) THEN 0 ELSE @) + (IF Refuses(counted) THEN 0 ELSE 1)]
            /\ forgotten' = (forgotten \cup dropped) \ (IF StartsAnew(k) /\ counted.count = 1 THEN {k} ELSE {})
            /\ turnedAway' = [turnedAway EXCEPT ![k] = Refuses(counted)]
    BY DEF Hit
<1> DEFINE map == Cleaned(dropped)
           old == map[k]
           counted == Counted(old)
<1>3. /\ lastCleanupAt' = IF CleanupDue THEN limitClock ELSE lastCleanupAt
      /\ since' = [since EXCEPT ![k] = IF StartsAnew(k) THEN limitClock ELSE @]
      /\ limitClock' = limitClock
    BY DEF Hit
<1>4. /\ WindowMs \in Nat /\ MaxHits \in Nat
      /\ limitClock \in Nat /\ lastCleanupAt \in Nat
      /\ \A j \in Keys : /\ hits[j] \in Entry /\ since[j] \in Int
                         /\ passed[j] \in Nat /\ turnedAway[j] \in BOOLEAN
    BY <1>1, LimitAssumption DEF LimitTypeOK
<1>5. NoEntry \in Entry /\ ~NoEntry.held
    BY DEF NoEntry, Entry
\* An entry is swept, or as it was; one swept as stale is of a window that is over.
<1>6. ASSUME NEW j \in Keys
      PROVE  /\ map[j] \in Entry
             /\ map[j] = hits[j] \/ (~map[j].held /\ (Stale(j) \/ j \in dropped))
    BY <1>4, <1>5 DEF Cleaned
<1>7. \A j \in Keys \ forgotten : Stale(j) => StartsAnew(j)
    BY <1>1, <1>4 DEF Stale, StaleAfterMs, StartsAnew, Remembered, Entry
<1>8. old \in Entry /\ (old.held => old.count >= 1)
    BY <1>1, <1>6
<1>9. /\ Opened \in Entry /\ Opened.held /\ Opened.count = 0 /\ Opened.resetAt = limitClock + WindowMs
    <2>1. NoEntry \in [count : Nat, resetAt : Nat, lastSeenAt : Nat, held : BOOLEAN] /\ NoEntry.count = 0
        BY DEF NoEntry
    <2>2. limitClock + WindowMs \in Nat
        BY <1>4
    <2> QED
        BY <2>1, <2>2 DEF Entry, Opened
<1>10. Renewed(old) \in Entry /\ Renewed(old).held
    BY <1>8, <1>9 DEF Renewed
<1>11. /\ counted \in Entry /\ counted.held /\ counted.lastSeenAt = limitClock
       /\ counted.count = Renewed(old).count + 1 /\ counted.count >= 1
       /\ counted.resetAt = Renewed(old).resetAt
    <2> DEFINE e == Renewed(old)
    <2>1. e \in [count : Nat, resetAt : Nat, lastSeenAt : Nat, held : BOOLEAN] /\ e.held
        BY <1>10 DEF Entry
    <2>2. counted = [e EXCEPT !.lastSeenAt = limitClock, !.count = @ + 1]
        BY DEF Counted
    <2> HIDE DEF e, counted, old, map
    <2>3. counted = [count |-> e.count + 1, resetAt |-> e.resetAt, lastSeenAt |-> limitClock, held |-> TRUE]
        BY <2>1, <2>2
    <2>4. e.count \in Nat /\ e.resetAt \in Nat
        BY <2>1
    <2>5. counted \in Entry
        BY <2>3, <2>4, <1>4 DEF Entry
    <2>6. counted.count = e.count + 1 /\ counted.resetAt = e.resetAt /\ counted.lastSeenAt = limitClock /\ counted.held
        BY <2>3
    <2>7. counted.count >= 1
        BY <2>4, <2>6
    <2> QED
        BY <2>5, <2>6, <2>7 DEF e
<1>12. /\ hits'[k] = counted
       /\ \A j \in Keys \ {k} : hits'[j] = map[j]
       /\ hits' \in [Keys -> Entry]
    <2>1. map \in [Keys -> Entry]
        BY <1>6 DEF Cleaned
    <2> QED
        BY <1>2, <1>11, <2>1
<1>13. /\ passed'[k] = (IF StartsAnew(k) THEN 0 ELSE passed[k]) + (IF Refuses(counted) THEN 0 ELSE 1)
       /\ turnedAway'[k] = Refuses(counted)
       /\ since'[k] = IF StartsAnew(k) THEN limitClock ELSE since[k]
       /\ \A j \in Keys \ {k} : passed'[j] = passed[j] /\ turnedAway'[j] = turnedAway[j] /\ since'[j] = since[j]
    BY <1>1, <1>2, <1>3 DEF LimitTypeOK
<1>14. Refuses(counted) \in BOOLEAN /\ (IF Refuses(counted) THEN 0 ELSE 1) \in Nat
    BY DEF Refuses
<1>15. LimitTypeOK'
    <2>1. passed' \in [Keys -> Nat]
        <3>1. (IF StartsAnew(k) THEN 0 ELSE passed[k]) + (IF Refuses(counted) THEN 0 ELSE 1) \in Nat
            BY <1>4
        <3> QED
            BY <1>1, <1>2, <3>1 DEF LimitTypeOK
    <2>2. since' \in [Keys -> Int]
        BY <1>1, <1>3, <1>4 DEF LimitTypeOK
    <2>3. turnedAway' \in [Keys -> BOOLEAN]
        BY <1>1, <1>2, <1>14 DEF LimitTypeOK
    <2>4. forgotten' \subseteq Keys
        BY <1>1, <1>2 DEF LimitTypeOK
    <2>5. lastCleanupAt' \in Nat /\ limitClock' \in Nat
        BY <1>3, <1>4
    <2> QED
        BY <1>12, <2>1, <2>2, <2>3, <2>4, <2>5 DEF LimitTypeOK
<1>16. \A j \in Keys : since'[j] >= -1 /\ (hits'[j].held => hits'[j].count >= 1)
    BY <1>1, <1>4, <1>6, <1>11, <1>12, <1>13
<1>17. ASSUME NEW j \in Keys \ forgotten', j # k PROVE Remembered(j)'
    <2>1. j \notin forgotten /\ j \notin dropped
        BY <1>2, <1>17
    <2>2. Remembered(j)
        BY <1>1, <2>1
    <2>3. StartsAnew(j)' <=> StartsAnew(j)
        BY <1>3, <1>13, <1>17 DEF StartsAnew
    <2>4. hits'[j] = hits[j] \/ (~hits'[j].held /\ StartsAnew(j))
        BY <1>6, <1>7, <1>12, <1>17, <2>1
    <2>5. /\ since'[j] = since[j] /\ passed'[j] = passed[j] /\ turnedAway'[j] = turnedAway[j]
          /\ limitClock' = limitClock
        BY <1>3, <1>13, <1>17
    <2> QED
        BY <2>2, <2>3, <2>4, <2>5 DEF Remembered
<1>18. ASSUME k \notin forgotten' PROVE Remembered(k)'
    <2>1. CASE StartsAnew(k)
        \* A window opens: its first request finds no live entry.
        <3>1. counted.count = 1
            <4>1. CASE k \in forgotten \cup dropped
                BY <1>2, <1>18, <2>1, <4>1
            <4>2. CASE k \notin forgotten \cup dropped
                <5>1. old = hits[k] \/ ~old.held
                    BY <1>6
                <5>2. ~old.held \/ limitClock > old.resetAt
                    BY <1>1, <1>4, <2>1, <4>2, <5>1 DEF Remembered, StartsAnew
                <5> QED
                    BY <5>2, <1>9, <1>11 DEF Renewed
            <4> QED
                BY <4>1, <4>2
        <3>2. Renewed(old) = Opened
            BY <3>1, <1>8, <1>10, <1>11 DEF Renewed, Entry
        <3>3. counted.resetAt = limitClock + WindowMs
            BY <3>2, <1>9, <1>11
        <3>4. since'[k] = limitClock /\ passed'[k] = IF Refuses(counted) THEN 0 ELSE 1
            BY <1>13, <2>1
        <3>5. passed'[k] = PassedAtMost(1) /\ passed'[k] <= MaxHits /\ (Refuses(counted) => passed'[k] >= MaxHits)
            <4>1. Refuses(counted) <=> 1 > MaxHits
                BY <3>1 DEF Refuses
            <4>2. CASE Refuses(counted)
                <5>1. passed'[k] = 0
                    BY <3>4, <4>2
                <5> QED
                    BY <4>1, <4>2, <5>1, <1>4 DEF PassedAtMost
            <4>3. CASE ~Refuses(counted)
                <5>1. passed'[k] = 1
                    BY <3>4, <4>3
                <5> QED
                    BY <4>1, <4>3, <5>1, <1>4 DEF PassedAtMost
            <4> QED
                BY <4>2, <4>3
        <3>6. hits'[k] = counted /\ turnedAway'[k] = Refuses(counted) /\ limitClock' = limitClock
            BY <1>3, <1>12, <1>13
        <3> HIDE DEF counted
        <3> QED
            BY <3>1, <3>3, <3>4, <3>5, <3>6, <1>4, <1>11 DEF Remembered
    <2>2. CASE ~StartsAnew(k)
        \* The window goes on: its entry is there and counts one more.
        <3>1. k \notin forgotten /\ k \notin dropped
            BY <1>2, <1>18, <2>2
        <3>2. Remembered(k)
            BY <1>1, <3>1
        <3>3. old = hits[k] /\ old.held
            BY <1>6, <1>7, <2>2, <3>1, <3>2 DEF Remembered
        <3>4. ~(limitClock > old.resetAt)
            BY <1>4, <2>2, <3>2, <3>3 DEF Remembered, StartsAnew
        <3>5. Renewed(old) = hits[k]
            BY <3>3, <3>4 DEF Renewed
        <3>6. counted.count = hits[k].count + 1 /\ counted.resetAt = since[k] + WindowMs /\ since[k] >= 0
            BY <1>11, <3>2, <3>3, <3>5 DEF Remembered
        <3>7. passed[k] = PassedAtMost(hits[k].count) /\ since'[k] = since[k] /\ since[k] <= limitClock
            BY <1>13, <2>2, <3>2 DEF Remembered
        <3>8. passed'[k] = PassedAtMost(hits[k].count) + (IF Refuses(counted) THEN 0 ELSE 1)
            BY <1>13, <2>2, <3>7
        <3>9. hits[k].count \in Nat
            BY <1>4 DEF Entry
        <3>10. passed'[k] = PassedAtMost(counted.count) /\ passed'[k] <= MaxHits
               /\ (Refuses(counted) => passed'[k] >= MaxHits)
            BY <1>4, <3>6, <3>8, <3>9 DEF PassedAtMost, Refuses
        <3> QED
            BY <3>6, <3>7, <3>10, <1>3, <1>11, <1>12, <1>13 DEF Remembered
    <2> QED
        BY <2>1, <2>2
<1> QED
    BY <1>15, <1>16, <1>17, <1>18 DEF LimitInv

LEMMA LimitStep == LimitInv /\ [LimitNext]_limitVars => LimitInv'
<1> SUFFICES ASSUME LimitInv, [LimitNext]_limitVars PROVE LimitInv'
    OBVIOUS
<1>1. CASE UNCHANGED limitVars
    BY <1>1 DEF limitVars, LimitInv, LimitTypeOK, Remembered, StartsAnew
<1> QED
    BY <1>1, TickKeeps, HitKeeps DEF LimitNext

(* With any keys, window, limit, interval and bound: a key whose entry was  *)
(* never dropped for the size of the map passes at most MaxHits times in    *)
(* each window, and is refused only after as many.                          *)
THEOREM LimitHolds == LimitSpec => []LimitSafe
<1>1. LimitInv => LimitSafe
    BY DEF LimitInv, LimitSafe, Remembered, PassesWithinLimit, RefusedOnlyWhenFull
<1> QED
    BY <1>1, LimitInitially, LimitStep, PTL DEF LimitSpec

-----------------------------------------------------------------------------
(* The panel's pages, for any filters, subjects and number of pages.         *)

PageQueries == [filter : Filters, page : 1..LastPage]
PageAnswers == [query : PageQueries, version : 0..version]

\* What is under way is about the server's past, and an action about a query there is.
WhatIsSent ==
    /\ fetches \in Seq(PageAnswers)
    /\ acting.on \in BOOLEAN /\ acting.rows \in 0..version
    /\ acting.on => acting.query \in PageQueries
    /\ {overtaken, fetchFailed, movedOn, panelsCrossed} \subseteq BOOLEAN
    /\ version \in Nat

\* Fetches are answered in the order they were sent, unless one overtook another.
AnsweredInOrder ==
    ~overtaken => \A i, j \in 1..Len(fetches) :
        i < j /\ fetches[j].version # 0 =>
            fetches[i].version # 0 /\ fetches[i].version <= fetches[j].version

\* What is still to arrive is not older than the rows.
NothingOlderComes ==
    ~overtaken /\ ~movedOn => \A i \in 1..Len(fetches) :
        fetches[i].version # 0 => fetches[i].version >= pageRows.version

\* The last to arrive, or else what has arrived, is for the page's query and has its last action.
LastIsForTheQuery ==
    ~overtaken /\ ~fetchFailed /\ ~movedOn =>
        IF fetches = <<>>
        THEN pageRows.query = query /\ pageRows.version >= mine
        ELSE /\ fetches[Len(fetches)].query = query
             /\ fetches[Len(fetches)].version # 0 => fetches[Len(fetches)].version >= mine

\* An action is about the query and the rows of the page, unless these moved on under it.
ActsOnThePage ==
    acting.on /\ ~movedOn =>
        acting.query = query /\ (view.name = "support" => acting.rows = pageRows.version)

\* Panels are fetched one at a time; a log that is fetched is of the user shown, details
\* come over an empty log.
OnePanelAtATime ==
    ~panelsCrossed =>
        /\ \A f, g \in panelFetches : f = g
        /\ \A f \in panelFetches : f.kind = "details" => logsOf = Nothing
        /\ \A f \in panelFetches : f.kind = "logs" => f.of = selected

\* The tickets' page shows, or is about to show, the ticket whose amount is in the field.
AmountIsOfTheTicket ==
    view.name = "tickets" /\ ~panelsCrossed =>
        selected \in {Nothing, prefill} /\ \A f \in panelFetches : f.of = prefill

\* Only the users' page fetches logs.
LogsOfUsersOnly ==
    /\ panelFetches \subseteq [kind : {"details", "logs"}, of : Subjects \cup {Nothing}]
    /\ view.name # "users" => logsOf = Nothing /\ \A f \in panelFetches : f.kind # "logs"

ListInv == WhatIsSent /\ AnsweredInOrder /\ NothingOlderComes /\ LastIsForTheQuery /\ ActsOnThePage
PanelInv == OnePanelAtATime /\ AmountIsOfTheTicket /\ LogsOfUsersOnly /\ ApprovedItsAmount /\ LogsAreTheUsers
PageInv == PageTypeOK /\ ListInv /\ PanelInv

(* What is left when the i-th is taken out.                                  *)
LEMMA WithoutOne ==
    ASSUME NEW S, NEW s \in Seq(S), NEW i \in 1..Len(s)
    PROVE  /\ RemoveAt(s, i) \in Seq(S)
           /\ Len(RemoveAt(s, i)) = Len(s) - 1
           /\ \A k \in 1..(Len(s) - 1) : RemoveAt(s, i)[k] = IF k < i THEN s[k] ELSE s[k + 1]
<1> DEFINE a == SubSeq(s, 1, i - 1)
           b == SubSeq(s, i + 1, Len(s))
<1>0. Len(s) \in Nat /\ i \in Nat /\ 1 <= i /\ i <= Len(s)
    OBVIOUS
<1>1. a \in Seq(S) /\ Len(a) = i - 1 /\ \A k \in 1..(i - 1) : a[k] = s[k]
    OBVIOUS
<1>2. b \in Seq(S) /\ Len(b) = Len(s) - i /\ \A k \in 1..(Len(s) - i) : b[k] = s[k + i]
    OBVIOUS
<1> HIDE DEF a, b
<1>3. /\ a \o b \in Seq(S) /\ Len(a \o b) = Len(a) + Len(b)
      /\ \A k \in 1..(Len(a) + Len(b)) : (a \o b)[k] = IF k <= Len(a) THEN a[k] ELSE b[k - Len(a)]
    BY <1>1, <1>2, ConcatProperties
<1>4. Len(a \o b) = Len(s) - 1
    BY <1>3, <1>0, <1>1, <1>2
<1>5. ASSUME NEW k \in 1..(Len(s) - 1) PROVE (a \o b)[k] = IF k < i THEN s[k] ELSE s[k + 1]
    <2>1. (a \o b)[k] = IF k <= i - 1 THEN a[k] ELSE b[k - (i - 1)]
        BY <1>0, <1>1, <1>2, <1>3
    <2>2. CASE k < i
        <3>1. k \in 1..(i - 1)
            BY <1>0, <2>2
        <3> QED BY <3>1, <1>1, <2>1, <2>2
    <2>3. CASE ~(k < i)
        <3>1. k - (i - 1) \in 1..(Len(s) - i) /\ k - (i - 1) + i = k + 1 /\ ~(k <= i - 1)
            BY <1>0, <2>3
        <3>2. b[k - (i - 1)] = s[k - (i - 1) + i]
            BY <3>1, <1>2
        <3> QED BY <3>1, <3>2, <2>1, <2>3
    <2> QED BY <2>2, <2>3
<1> QED BY <1>3, <1>4, <1>5 DEF RemoveAt, a, b

LEMMA FetchTyped ==
    ASSUME NEW q \in PageQueries, version \in Nat
    PROVE  Fetch(q) \in PageAnswers /\ Fetch(q).query = q /\ Fetch(q).version = 0
BY DEF Fetch, PageAnswers

LEMMA PageInitially == PageInit => PageInv
<1> SUFFICES ASSUME PageInit PROVE PageInv
    OBVIOUS
<1>1. query \in PageQueries /\ version = 1
    BY PageAssumption DEF PageInit, PageQueries
<1>2. Fetch(query) \in PageAnswers
    BY <1>1, FetchTyped
<1>3. fetches = <<Fetch(query)>> /\ fetches \in Seq(PageAnswers) /\ Len(fetches) = 1
    /\ fetches[1] = Fetch(query) /\ fetches # <<>>
    BY <1>2 DEF PageInit
<1>4. pageRows \in PageAnswers
    BY <1>1 DEF PageInit, PageAnswers
<1>5. acting.on = FALSE /\ acting.rows = 0
    BY DEF PageInit, NoAction
<1>6. PageTypeOK
    BY <1>1, <1>4 DEF PageInit, PageTypeOK, PageQueries, PageAnswers
<1>7. ListInv
    <2>1. fetches[1].query = query /\ fetches[1].version = 0
        BY <1>1, <1>3, FetchTyped
    <2>2. WhatIsSent
        <3>1. {overtaken, fetchFailed, movedOn, panelsCrossed} \subseteq BOOLEAN
            BY DEF PageInit
        <3>2. acting.on \in BOOLEAN /\ ~acting.on
            BY <1>5
        <3>3. acting.rows \in 0..version
            BY <1>1, <1>5
        <3> QED BY <1>1, <1>3, <3>1, <3>2, <3>3 DEF WhatIsSent
    <2>3. AnsweredInOrder /\ NothingOlderComes
        BY <1>3, <2>1 DEF AnsweredInOrder, NothingOlderComes
    <2>4. LastIsForTheQuery /\ ActsOnThePage
        BY <1>3, <1>5, <2>1 DEF LastIsForTheQuery, ActsOnThePage
    <2> QED BY <2>2, <2>3, <2>4 DEF ListInv
<1>8. PanelInv
    BY DEF PageInit, PanelInv, OnePanelAtATime, AmountIsOfTheTicket, LogsOfUsersOnly, ApprovedItsAmount, LogsAreTheUsers
<1> QED BY <1>6, <1>7, <1>8 DEF PageInv

(* Fetches sent after the others: they wait for their answers.               *)
LEMMA SomeSent ==
    ASSUME PageTypeOK, ListInv, NEW sent \in Seq(PageAnswers), Len(sent) > 0,
           \A k \in 1..Len(sent) : sent[k].version = 0,
           fetches' = fetches \o sent,
           ~movedOn' => sent[Len(sent)].query = query',
           version' \in Nat, version' >= version,
           pageRows' = pageRows, overtaken' = overtaken, movedOn => movedOn'
    PROVE  /\ fetches' \in Seq(PageAnswers') /\ AnsweredInOrder' /\ NothingOlderComes'
           /\ LastIsForTheQuery'
<1>1. version \in Nat /\ fetches \in Seq(PageAnswers) /\ overtaken \in BOOLEAN /\ movedOn \in BOOLEAN
    BY DEF ListInv, WhatIsSent
<1> DEFINE n == Len(fetches)
<1>2. /\ n \in Nat /\ Len(sent) \in Nat /\ fetches' \in Seq(PageAnswers) /\ Len(fetches') = n + Len(sent)
      /\ \A k \in 1..n : fetches'[k] = fetches[k]
      /\ \A k \in (n + 1)..(n + Len(sent)) : fetches'[k] = sent[k - n]
    BY <1>1
<1>3. PageAnswers \subseteq PageAnswers'
    BY <1>1 DEF PageAnswers, PageQueries
<1>4. fetches' \in Seq(PageAnswers')
    BY <1>2, <1>3
<1>5. \A k \in (n + 1)..(n + Len(sent)) : fetches'[k].version = 0
    BY <1>2
<1>6. \A k \in 1..Len(fetches') : fetches'[k].version # 0 => k \in 1..n /\ fetches'[k] = fetches[k]
    BY <1>2, <1>5
<1>7. AnsweredInOrder'
    BY <1>2, <1>6 DEF ListInv, AnsweredInOrder
<1>8. NothingOlderComes'
    BY <1>2, <1>6, <1>1 DEF ListInv, NothingOlderComes
<1>9. LastIsForTheQuery'
    <2>1. fetches' # <<>> /\ fetches'[Len(fetches')] = sent[Len(sent)] /\ sent[Len(sent)].version = 0
        BY <1>2
    <2> QED BY <2>1 DEF LastIsForTheQuery
<1> QED BY <1>4, <1>7, <1>8, <1>9

(* A page that only moves on, or acts, keeps what it waits for.              *)
LEMMA OneSent ==
    ASSUME PageTypeOK, ListInv, NEW q \in PageQueries,
           fetches' = Append(fetches, Fetch(q)), ~movedOn' => q = query',
           version' \in Nat, version' >= version,
           pageRows' = pageRows, overtaken' = overtaken, movedOn => movedOn'
    PROVE  /\ fetches' \in Seq(PageAnswers') /\ AnsweredInOrder' /\ NothingOlderComes'
           /\ LastIsForTheQuery'
<1> DEFINE one == Fetch(q)
           sent == <<one>>
<1>1. version \in Nat /\ fetches \in Seq(PageAnswers)
    BY DEF ListInv, WhatIsSent
<1>2. one \in PageAnswers /\ one.version = 0 /\ one.query = q
    BY <1>1, FetchTyped
<1> HIDE DEF one
<1>3. sent \in Seq(PageAnswers) /\ Len(sent) = 1 /\ sent[1] = one
    BY <1>2
<1>4. fetches' = fetches \o sent
    BY <1>1, <1>2 DEF one
<1> HIDE DEF sent
<1>5. \A k \in 1..Len(sent) : sent[k].version = 0
    BY <1>2, <1>3
<1>6. ~movedOn' => sent[Len(sent)].query = query'
    BY <1>2, <1>3
<1>7. Len(sent) > 0
    BY <1>3
<1> QED BY <1>3, <1>4, <1>5, <1>6, <1>7, SomeSent

(* One fetch less on its way, and the others in their order.                 *)
LEMMA OneTaken ==
    ASSUME ListInv, NEW i \in 1..Len(fetches), fetches' = RemoveAt(fetches, i), version' = version,
           overtaken => overtaken'
    PROVE  /\ fetches' \in Seq(PageAnswers') /\ AnsweredInOrder'
           /\ Len(fetches') = Len(fetches) - 1
           /\ \A k \in 1..Len(fetches') : fetches'[k] = IF k < i THEN fetches[k] ELSE fetches[k + 1]
<1>1. fetches \in Seq(PageAnswers) /\ PageAnswers' = PageAnswers /\ Len(fetches) \in Nat
    BY DEF ListInv, WhatIsSent, PageAnswers, PageQueries
<1>2. /\ fetches' \in Seq(PageAnswers)
      /\ Len(fetches') = Len(fetches) - 1
      /\ \A k \in 1..(Len(fetches) - 1) : fetches'[k] = IF k < i THEN fetches[k] ELSE fetches[k + 1]
    BY <1>1, WithoutOne
<1>3. AnsweredInOrder'
    <2> SUFFICES ASSUME ~overtaken', NEW k \in 1..Len(fetches'), NEW l \in 1..Len(fetches'),
                        k < l, fetches'[l].version # 0
                 PROVE  fetches'[k].version # 0 /\ fetches'[k].version <= fetches'[l].version
        BY DEF AnsweredInOrder
    <2> DEFINE before(j) == IF j < i THEN j ELSE j + 1
    <2>1. /\ before(k) \in 1..Len(fetches) /\ before(l) \in 1..Len(fetches) /\ before(k) < before(l)
          /\ fetches'[k] = fetches[before(k)] /\ fetches'[l] = fetches[before(l)]
        BY <1>1, <1>2
    <2> QED BY <2>1 DEF ListInv, AnsweredInOrder
<1> QED BY <1>1, <1>2, <1>3

(* Nothing of the lists moves.                                               *)
LEMMA ListsRest ==
    ASSUME PageTypeOK, ListInv, UNCHANGED listVars, view' = view, version' \in Nat, version' >= version,
           mine' = mine, panelsCrossed' \in BOOLEAN,
           {selected', prefill', logsOf'} \subseteq Subjects \cup {Nothing}
    PROVE  PageTypeOK' /\ ListInv'
<1>1. version \in Nat /\ PageAnswers \subseteq PageAnswers'
    BY DEF ListInv, WhatIsSent, PageAnswers, PageQueries
<1>2. PageTypeOK'
    BY <1>1 DEF PageTypeOK, listVars
<1>3. WhatIsSent'
    BY <1>1 DEF ListInv, WhatIsSent, listVars, PageQueries
<1>4. AnsweredInOrder' /\ NothingOlderComes' /\ LastIsForTheQuery' /\ ActsOnThePage'
    BY DEF ListInv, AnsweredInOrder, NothingOlderComes, LastIsForTheQuery, ActsOnThePage, listVars
<1> QED BY <1>2, <1>3, <1>4 DEF ListInv

(* The lists' steps, whatever the panels beside them do.                     *)
LEMMA QueryChanges ==
    ASSUME PageTypeOK, ListInv, NEW q \in PageQueries, ChangeQuery(q) PROVE PageTypeOK' /\ ListInv'
<1> USE DEF ChangeQuery, panelVars
<1>1. version' = version /\ version \in Nat /\ PageAnswers' = PageAnswers
    BY DEF ListInv, WhatIsSent, PageAnswers, PageQueries
<1>2. movedOn' \in BOOLEAN /\ (movedOn => movedOn')
    BY DEF ListInv, WhatIsSent
<1>3. fetches' \in Seq(PageAnswers') /\ AnsweredInOrder' /\ NothingOlderComes' /\ LastIsForTheQuery'
    <2>1. version' \in Nat /\ version' >= version
        BY <1>1
    <2> QED BY <2>1, <1>2, OneSent
<1>4. PageTypeOK'
    BY <1>1 DEF PageTypeOK, PageQueries
<1>5. WhatIsSent'
    <2>1. acting'.on \in BOOLEAN /\ (acting'.on => acting'.query \in PageQueries)
        BY DEF ListInv, WhatIsSent
    <2>2. acting'.rows \in 0..version'
        BY <1>1 DEF ListInv, WhatIsSent
    <2>3. {overtaken', fetchFailed', movedOn', panelsCrossed'} \subseteq BOOLEAN
        BY <1>2 DEF ListInv, WhatIsSent
    <2> QED BY <1>1, <1>3, <2>1, <2>2, <2>3 DEF WhatIsSent, PageQueries
<1>6. ActsOnThePage'
    BY DEF ListInv, ActsOnThePage
<1> QED BY <1>3, <1>4, <1>5, <1>6 DEF ListInv

LEMMA SearchSubmitted ==
    ASSUME PageTypeOK, ListInv, SubmitSearch PROVE PageTypeOK' /\ ListInv'
<1> DEFINE first == [query EXCEPT !.page = 1]
           second == IF first = query THEN <<>> ELSE <<Fetch(first)>>
           sent == <<Fetch(query)>> \o second
<1> USE DEF panelVars
<1>1. version' = version /\ version \in Nat /\ PageAnswers' = PageAnswers /\ fetches \in Seq(PageAnswers)
    BY DEF SubmitSearch, ListInv, WhatIsSent, PageAnswers, PageQueries
<1>2. query \in PageQueries /\ first \in PageQueries
    BY PageAssumption DEF PageTypeOK, PageQueries
<1>3. /\ query' = first /\ pageRows' = pageRows /\ overtaken' = overtaken /\ mine' = mine
      /\ acting' = acting /\ fetchFailed' = fetchFailed /\ view' = view /\ UNCHANGED panelVars
      /\ movedOn' = (movedOn \/ (acting.on /\ first # query))
      /\ fetches' = fetches \o <<Fetch(query)>> \o second
    BY DEF SubmitSearch
<1>4. movedOn' \in BOOLEAN /\ (movedOn => movedOn') /\ (acting.on /\ ~movedOn' => ~movedOn /\ query' = query)
    BY <1>3 DEF ListInv, WhatIsSent
<1>5. Fetch(query) \in PageAnswers /\ Fetch(query).version = 0 /\ Fetch(query).query = query
      /\ Fetch(first) \in PageAnswers /\ Fetch(first).version = 0 /\ Fetch(first).query = first
    BY <1>1, <1>2, FetchTyped
<1>6. /\ sent \in Seq(PageAnswers) /\ Len(sent) > 0 /\ sent[Len(sent)].query = first
      /\ \A k \in 1..Len(sent) : sent[k].version = 0
    <2> DEFINE one == Fetch(query)
               two == Fetch(first)
    <2>1. CASE first = query
        <3> HIDE DEF first
        <3>1. second = <<>> /\ sent = <<Fetch(query)>>
            BY <2>1, <1>5
        <3> QED BY <3>1, <2>1, <1>5
    <2>2. CASE first # query
        <3> HIDE DEF first
        <3>1. sent = <<one>> \o <<two>>
            BY <2>2
        <3>2. one \in PageAnswers /\ one.version = 0 /\ two \in PageAnswers /\ two.version = 0 /\ two.query = first
            BY <1>5
        <3> HIDE DEF one, two, sent
        <3>3. <<one>> \in Seq(PageAnswers) /\ <<two>> \in Seq(PageAnswers) /\ Len(<<one>>) = 1 /\ Len(<<two>>) = 1
            BY <3>2
        <3>4. sent \in Seq(PageAnswers) /\ Len(sent) = 2 /\ sent[1] = one /\ sent[2] = two
            BY <3>1, <3>3, ConcatProperties
        <3> QED BY <3>2, <3>4
    <2> QED BY <2>1, <2>2
<1>7. fetches' = fetches \o sent
    <2> HIDE DEF first
    <2>1. <<Fetch(query)>> \in Seq(PageAnswers) /\ second \in Seq(PageAnswers)
        BY <1>5
    <2> HIDE DEF second
    <2> QED BY <1>1, <1>3, <2>1, ConcatAssociative
<1>8. fetches' \in Seq(PageAnswers') /\ AnsweredInOrder' /\ NothingOlderComes' /\ LastIsForTheQuery'
    <2> HIDE DEF sent, first
    <2>1. version' \in Nat /\ version' >= version
        BY <1>1
    <2> QED BY <2>1, <1>3, <1>4, <1>6, <1>7, SomeSent
<1> HIDE DEF first
<1>9. PageTypeOK'
    BY <1>1, <1>2, <1>3 DEF PageTypeOK, PageQueries
<1>10. WhatIsSent'
    <2>1. acting'.on \in BOOLEAN /\ (acting'.on => acting'.query \in PageQueries)
        BY <1>3 DEF ListInv, WhatIsSent
    <2>2. acting'.rows \in 0..version'
        BY <1>1, <1>3 DEF ListInv, WhatIsSent
    <2>3. {overtaken', fetchFailed', movedOn', panelsCrossed'} \subseteq BOOLEAN
        BY <1>3, <1>4 DEF ListInv, WhatIsSent
    <2> QED BY <1>1, <1>8, <2>1, <2>2, <2>3 DEF WhatIsSent, PageQueries
<1>11. ActsOnThePage'
    BY <1>3, <1>4 DEF ListInv, ActsOnThePage
<1> QED BY <1>8, <1>9, <1>10, <1>11 DEF ListInv

LEMMA Refreshed ==
    ASSUME PageTypeOK, ListInv, Refresh PROVE PageTypeOK' /\ ListInv'
<1> USE DEF Refresh, panelVars
<1>1. version' = version /\ version \in Nat /\ PageAnswers' = PageAnswers
    BY DEF ListInv, WhatIsSent, PageAnswers, PageQueries
<1>2. fetches' \in Seq(PageAnswers') /\ AnsweredInOrder' /\ NothingOlderComes' /\ LastIsForTheQuery'
    <2>1. version' \in Nat /\ version' >= version /\ query \in PageQueries
        BY <1>1 DEF PageTypeOK, PageQueries
    <2> QED BY <2>1, OneSent
<1>3. PageTypeOK'
    BY <1>1 DEF PageTypeOK
<1>4. WhatIsSent'
    BY <1>1, <1>2 DEF ListInv, WhatIsSent, PageQueries
<1>5. ActsOnThePage'
    BY DEF ListInv, ActsOnThePage
<1> QED BY <1>2, <1>3, <1>4, <1>5 DEF ListInv

LEMMA Answered ==
    ASSUME PageTypeOK, ListInv, NEW i \in DOMAIN fetches, Answer(i) PROVE PageTypeOK' /\ ListInv'
<1> USE DEF panelVars
<1>1. /\ version' = version /\ version \in Nat /\ PageAnswers' = PageAnswers /\ fetches \in Seq(PageAnswers)
      /\ i \in 1..Len(fetches) /\ Len(fetches) \in Nat
    BY DEF Answer, ListInv, WhatIsSent, PageAnswers, PageQueries
<1>2. fetches[i] \in PageAnswers /\ fetches[i].version = 0
    BY <1>1 DEF Answer
<1> DEFINE answer == [fetches[i] EXCEPT !.version = version]
<1>3. answer \in PageAnswers /\ answer.query = fetches[i].query /\ answer.version = version
    BY <1>1, <1>2 DEF PageAnswers
<1>4. fetches' = [fetches EXCEPT ![i] = answer]
    BY DEF Answer
<1> HIDE DEF answer
<1>5. /\ fetches' \in Seq(PageAnswers) /\ Len(fetches') = Len(fetches)
      /\ \A k \in 1..Len(fetches) : fetches'[k] = IF k = i THEN answer ELSE fetches[k]
    BY <1>1, <1>3, <1>4
<1>6. /\ view' = view /\ query' = query /\ pageRows' = pageRows /\ acting' = acting /\ mine' = mine
      /\ fetchFailed' = fetchFailed /\ movedOn' = movedOn /\ UNCHANGED panelVars
      /\ (overtaken => overtaken') /\ overtaken' \in BOOLEAN
      /\ (~overtaken' => \A j \in 1..(i - 1) : fetches[j].version # 0)
    BY DEF Answer, ListInv, WhatIsSent
<1>7. \A k \in 1..Len(fetches) : fetches[k].version \in 0..version /\ fetches[k] \in PageAnswers
    <2>1. \A k \in 1..Len(fetches) : fetches[k] \in PageAnswers
        BY <1>1
    <2> QED BY <2>1 DEF PageAnswers
<1>8. AnsweredInOrder'
    <2> SUFFICES ASSUME ~overtaken', NEW j \in 1..Len(fetches), NEW k \in 1..Len(fetches), j < k,
                        fetches'[k].version # 0
                 PROVE  fetches'[j].version # 0 /\ fetches'[j].version <= fetches'[k].version
        BY <1>5 DEF AnsweredInOrder
    <2>1. CASE k = i
        <3>1. fetches'[k].version = version /\ fetches'[j] = fetches[j] /\ j \in 1..(i - 1)
            BY <2>1, <1>3, <1>5
        <3> QED BY <3>1, <1>6, <1>7
    <2>2. CASE k # i /\ j = i
        <3>1. fetches[k].version # 0
            BY <2>2, <1>5
        <3>2. fetches[i].version # 0
            BY <3>1, <2>2, <1>1, <1>6 DEF ListInv, AnsweredInOrder
        <3> QED BY <3>2, <1>2
    <2>3. CASE k # i /\ j # i
        BY <2>3, <1>5, <1>6 DEF ListInv, AnsweredInOrder
    <2> QED BY <2>1, <2>2, <2>3
<1>9. NothingOlderComes'
    <2>1. pageRows.version \in 0..version
        BY DEF PageTypeOK
    <2> QED BY <2>1, <1>1, <1>3, <1>5, <1>6 DEF ListInv, NothingOlderComes
<1>10. LastIsForTheQuery'
    <2>1. mine \in 0..version
        BY DEF PageTypeOK
    <2>2. (fetches' = <<>>) = (fetches = <<>>)
        BY <1>1, <1>5
    <2>3. CASE fetches = <<>>
        BY <2>3, <1>1
    <2>4. CASE fetches # <<>>
        <3> DEFINE n == Len(fetches)
        <3>1. n \in 1..Len(fetches) /\ fetches'[n] = IF n = i THEN answer ELSE fetches[n]
            BY <2>4, <1>1, <1>5
        <3>2. fetches'[n].query = fetches[n].query
            BY <3>1, <1>3
        <3>3. fetches'[n].version # 0 => fetches'[n].version = version \/ fetches'[n].version = fetches[n].version
            BY <3>1, <1>3
        <3> QED BY <3>1, <3>2, <3>3, <2>1, <2>2, <2>4, <1>1, <1>5, <1>6 DEF ListInv, LastIsForTheQuery
    <2> QED BY <2>3, <2>4
<1>11. PageTypeOK'
    BY <1>1, <1>6 DEF PageTypeOK
<1>12. WhatIsSent'
    <2>1. acting'.on \in BOOLEAN /\ (acting'.on => acting'.query \in PageQueries)
        BY <1>6 DEF ListInv, WhatIsSent
    <2>2. acting'.rows \in 0..version'
        BY <1>1, <1>6 DEF ListInv, WhatIsSent
    <2>3. {overtaken', fetchFailed', movedOn', panelsCrossed'} \subseteq BOOLEAN
        BY <1>6 DEF ListInv, WhatIsSent
    <2> QED BY <1>1, <1>5, <2>1, <2>2, <2>3 DEF WhatIsSent, PageQueries
<1>13. ActsOnThePage'
    BY <1>6 DEF ListInv, ActsOnThePage
<1> QED BY <1>8, <1>9, <1>10, <1>11, <1>12, <1>13 DEF ListInv

LEMMA Arrived ==
    ASSUME PageTypeOK, ListInv, NEW i \in DOMAIN fetches, Arrive(i)
    PROVE  PageTypeOK' /\ ListInv' /\ (~overtaken' /\ ~movedOn => pageRows'.version >= pageRows.version)
<1> USE DEF panelVars
<1>1. /\ version' = version /\ version \in Nat /\ PageAnswers' = PageAnswers /\ fetches \in Seq(PageAnswers)
      /\ i \in 1..Len(fetches) /\ Len(fetches) \in Nat
    BY DEF Arrive, ListInv, WhatIsSent, PageAnswers, PageQueries
<1>2. fetches[i] \in PageAnswers /\ fetches[i].version # 0 /\ fetches[i].version \in 0..version
    <2>1. fetches[i] \in PageAnswers /\ fetches[i].version # 0
        BY <1>1 DEF Arrive
    <2> QED BY <2>1 DEF PageAnswers
<1>3. /\ fetches' = RemoveAt(fetches, i) /\ pageRows' = fetches[i]
      /\ view' = view /\ query' = query /\ acting' = acting /\ mine' = mine
      /\ fetchFailed' = fetchFailed /\ UNCHANGED panelVars
    BY DEF Arrive
<1>4. /\ (overtaken => overtaken') /\ overtaken' \in BOOLEAN /\ (movedOn => movedOn') /\ movedOn' \in BOOLEAN
      /\ (~overtaken' => i = 1)
      /\ (view.name = "support" /\ acting.on => movedOn')
    BY DEF Arrive, ListInv, WhatIsSent
<1>5. /\ fetches' \in Seq(PageAnswers') /\ AnsweredInOrder' /\ Len(fetches') = Len(fetches) - 1
      /\ \A k \in 1..Len(fetches') : fetches'[k] = IF k < i THEN fetches[k] ELSE fetches[k + 1]
    BY <1>1, <1>3, <1>4, OneTaken
<1>6. ~overtaken' => \A k \in 1..Len(fetches') : fetches'[k] = fetches[k + 1] /\ k + 1 \in 1..Len(fetches)
    BY <1>1, <1>4, <1>5
<1>7. NothingOlderComes'
    <2> SUFFICES ASSUME ~overtaken', NEW k \in 1..Len(fetches'), fetches'[k].version # 0
                 PROVE  fetches'[k].version >= fetches[1].version
        BY <1>3, <1>4 DEF NothingOlderComes
    <2>1. k + 1 \in 1..Len(fetches) /\ fetches'[k] = fetches[k + 1] /\ 1 < k + 1 /\ ~overtaken /\ 1 \in 1..Len(fetches)
        BY <1>1, <1>4, <1>6
    <2>2. fetches[1].version <= fetches[k + 1].version
        BY <2>1 DEF ListInv, AnsweredInOrder
    <2>3. fetches[1] \in PageAnswers /\ fetches[k + 1] \in PageAnswers
        BY <2>1, <1>1
    <2>4. fetches[1].version \in Int /\ fetches[k + 1].version \in Int
        BY <2>3, <1>1 DEF PageAnswers
    <2> QED BY <2>1, <2>2, <2>4
<1>8. LastIsForTheQuery'
    <2> SUFFICES ASSUME ~overtaken', ~fetchFailed', ~movedOn'
                 PROVE  IF fetches' = <<>> THEN pageRows'.query = query' /\ pageRows'.version >= mine'
                        ELSE /\ fetches'[Len(fetches')].query = query'
                             /\ fetches'[Len(fetches')].version # 0 => fetches'[Len(fetches')].version >= mine'
        BY DEF LastIsForTheQuery
    <2>1. i = 1 /\ ~overtaken /\ ~fetchFailed /\ ~movedOn /\ fetches # <<>>
        BY <1>1, <1>3, <1>4
    <2>2. /\ fetches[Len(fetches)].query = query
          /\ fetches[Len(fetches)].version # 0 => fetches[Len(fetches)].version >= mine
        BY <2>1 DEF ListInv, LastIsForTheQuery
    <2>3. CASE Len(fetches) = 1
        <3>1. fetches' = <<>>
            BY <2>3, <1>5
        <3> QED BY <3>1, <2>1, <2>2, <2>3, <1>2, <1>3
    <2>4. CASE Len(fetches) # 1
        <3>1. Len(fetches') \in 1..Len(fetches') /\ Len(fetches') + 1 = Len(fetches)
            BY <2>4, <1>1, <1>5
        <3>2. fetches' # <<>> /\ fetches'[Len(fetches')] = fetches[Len(fetches)]
            BY <3>1, <2>1, <1>6, <1>5
        <3> QED BY <3>2, <2>2, <1>3
    <2> QED BY <2>3, <2>4
<1>9. PageTypeOK'
    <2>1. pageRows' \in PageAnswers
        BY <1>2, <1>3
    <2> QED BY <2>1, <1>1, <1>3 DEF PageTypeOK, PageAnswers, PageQueries
<1>10. WhatIsSent'
    <2>1. acting'.on \in BOOLEAN /\ (acting'.on => acting'.query \in PageQueries)
        BY <1>3 DEF ListInv, WhatIsSent
    <2>2. acting'.rows \in 0..version'
        BY <1>1, <1>3 DEF ListInv, WhatIsSent
    <2>3. {overtaken', fetchFailed', movedOn', panelsCrossed'} \subseteq BOOLEAN
        BY <1>3, <1>4 DEF ListInv, WhatIsSent
    <2> QED BY <1>1, <1>5, <2>1, <2>2, <2>3 DEF WhatIsSent, PageQueries
<1>11. ActsOnThePage'
    BY <1>3, <1>4 DEF ListInv, ActsOnThePage
<1>12. ~overtaken' /\ ~movedOn => pageRows'.version >= pageRows.version
    BY <1>1, <1>2, <1>3, <1>4 DEF ListInv, NothingOlderComes
<1> QED BY <1>5, <1>7, <1>8, <1>9, <1>10, <1>11, <1>12 DEF ListInv

LEMMA FetchFails ==
    ASSUME PageTypeOK, ListInv, NEW i \in DOMAIN fetches, FailFetch(i) PROVE PageTypeOK' /\ ListInv'
<1> USE DEF panelVars
<1>1. /\ version' = version /\ version \in Nat /\ PageAnswers' = PageAnswers /\ fetches \in Seq(PageAnswers)
      /\ i \in 1..Len(fetches) /\ Len(fetches) \in Nat
    BY DEF FailFetch, ListInv, WhatIsSent, PageAnswers, PageQueries
<1>2. /\ fetches' = RemoveAt(fetches, i) /\ fetchFailed' = TRUE /\ view' = view /\ query' = query
      /\ pageRows' = pageRows /\ acting' = acting /\ mine' = mine /\ overtaken' = overtaken /\ movedOn' = movedOn
      /\ UNCHANGED panelVars
    BY DEF FailFetch
<1>3. /\ fetches' \in Seq(PageAnswers') /\ AnsweredInOrder' /\ Len(fetches') = Len(fetches) - 1
      /\ \A k \in 1..Len(fetches') : fetches'[k] = IF k < i THEN fetches[k] ELSE fetches[k + 1]
    BY <1>1, <1>2, OneTaken
<1>4. NothingOlderComes'
    <2>1. \A k \in 1..Len(fetches') : \E j \in 1..Len(fetches) : fetches'[k] = fetches[j]
        BY <1>1, <1>3
    <2> QED BY <2>1, <1>2 DEF ListInv, NothingOlderComes
<1>5. LastIsForTheQuery'
    BY <1>2 DEF LastIsForTheQuery
<1>6. PageTypeOK'
    BY <1>1, <1>2 DEF PageTypeOK
<1>7. WhatIsSent'
    <2>1. acting'.on \in BOOLEAN /\ (acting'.on => acting'.query \in PageQueries)
        BY <1>2 DEF ListInv, WhatIsSent
    <2>2. acting'.rows \in 0..version'
        BY <1>1, <1>2 DEF ListInv, WhatIsSent
    <2>3. {overtaken', fetchFailed', movedOn', panelsCrossed'} \subseteq BOOLEAN
        BY <1>2 DEF ListInv, WhatIsSent
    <2> QED BY <1>1, <1>3, <2>1, <2>2, <2>3 DEF WhatIsSent, PageQueries
<1>8. ActsOnThePage'
    BY <1>2 DEF ListInv, ActsOnThePage
<1> QED BY <1>3, <1>4, <1>5, <1>6, <1>7, <1>8 DEF ListInv

LEMMA ActionStarted ==
    ASSUME PageTypeOK, ListInv, StartAction PROVE PageTypeOK' /\ ListInv'
<1>1. /\ version' = version /\ version \in Nat /\ PageAnswers' = PageAnswers /\ view' = view /\ query' = query
      /\ pageRows' = pageRows /\ fetches' = fetches /\ mine' = mine /\ overtaken' = overtaken
      /\ fetchFailed' = fetchFailed /\ movedOn' = movedOn /\ UNCHANGED panelVars
    BY DEF StartAction, ListInv, WhatIsSent, PageAnswers, PageQueries
<1>2. acting'.on = TRUE /\ acting'.query = query /\ acting'.rows = pageRows.version
    BY DEF StartAction
<1>3. PageTypeOK'
    BY <1>1 DEF PageTypeOK, panelVars
<1>4. WhatIsSent'
    <2>1. acting'.rows \in 0..version'
        BY <1>1, <1>2 DEF PageTypeOK
    <2>2. acting'.query \in PageQueries
        BY <1>2 DEF PageTypeOK, PageQueries
    <2>3. acting'.on \in BOOLEAN
        BY <1>2
    <2> QED BY <1>1, <2>1, <2>2, <2>3 DEF ListInv, WhatIsSent, panelVars, PageQueries
<1>5. AnsweredInOrder' /\ NothingOlderComes' /\ LastIsForTheQuery'
    BY <1>1 DEF ListInv, AnsweredInOrder, NothingOlderComes, LastIsForTheQuery
<1>6. ActsOnThePage'
    BY <1>1, <1>2 DEF ActsOnThePage
<1> QED BY <1>3, <1>4, <1>5, <1>6 DEF ListInv

LEMMA ActionFinished ==
    ASSUME PageTypeOK, ListInv, FinishAction PROVE PageTypeOK' /\ ListInv'
<1>1. /\ view' = view /\ query' = query /\ pageRows' = pageRows /\ overtaken' = overtaken
      /\ fetchFailed' = fetchFailed /\ movedOn' = movedOn /\ UNCHANGED panelVars
      /\ version' = version + 1 /\ mine' = version + 1 /\ acting.on /\ acting' = NoAction
      /\ fetches' = Append(fetches, Fetch(acting.query))
    BY DEF FinishAction
<1>2. version \in Nat /\ version' \in Nat /\ version' >= version /\ acting.query \in PageQueries
    BY <1>1 DEF ListInv, WhatIsSent
<1>3. fetches' \in Seq(PageAnswers') /\ AnsweredInOrder' /\ NothingOlderComes' /\ LastIsForTheQuery'
    <2>1. ~movedOn' => acting.query = query'
        BY <1>1 DEF ListInv, ActsOnThePage
    <2> QED BY <1>1, <1>2, <2>1, OneSent
<1>4. PageTypeOK'
    BY <1>1, <1>2 DEF PageTypeOK, panelVars
<1>5. acting'.on = FALSE /\ acting'.rows = 0
    BY <1>1 DEF NoAction
<1>6. WhatIsSent'
    <2>1. acting'.rows \in 0..version'
        BY <1>2, <1>5
    <2>2. acting'.on \in BOOLEAN /\ ~acting'.on
        BY <1>5
    <2> QED BY <1>1, <1>2, <1>3, <2>1, <2>2 DEF ListInv, WhatIsSent, panelVars
<1>7. ActsOnThePage'
    BY <1>5 DEF ActsOnThePage
<1> QED BY <1>3, <1>4, <1>6, <1>7 DEF ListInv

LEMMA ReplyFinished ==
    ASSUME PageTypeOK, ListInv, FinishReply
    PROVE  PageTypeOK' /\ ListInv' /\ (~movedOn => pageRows'.version = pageRows.version)
<1>1. /\ view' = view /\ query' = query /\ overtaken' = overtaken /\ fetches' = fetches /\ mine' = mine
      /\ fetchFailed' = fetchFailed /\ movedOn' = movedOn /\ UNCHANGED panelVars
      /\ version' = version + 1 /\ acting.on /\ acting' = NoAction /\ view.name = "support"
      /\ pageRows' = [pageRows EXCEPT !.version = acting.rows]
    BY DEF FinishReply
<1>2. version \in Nat /\ version' \in Nat /\ version' >= version /\ PageAnswers \subseteq PageAnswers'
    BY <1>1 DEF ListInv, WhatIsSent, PageAnswers, PageQueries
<1>3. pageRows \in PageAnswers /\ acting.rows \in 0..version
    BY DEF PageTypeOK, ListInv, WhatIsSent, PageAnswers, PageQueries
<1>4. pageRows' \in PageAnswers' /\ pageRows'.query = pageRows.query /\ pageRows'.version = acting.rows
    BY <1>1, <1>2, <1>3 DEF PageAnswers, PageQueries
<1>5. ~movedOn => pageRows'.version = pageRows.version
    BY <1>1, <1>4 DEF ListInv, ActsOnThePage
<1>6. PageTypeOK'
    BY <1>1, <1>2, <1>4 DEF PageTypeOK, panelVars, PageAnswers, PageQueries
<1>7. acting'.on = FALSE /\ acting'.rows = 0
    BY <1>1 DEF NoAction
<1>8. WhatIsSent'
    <2>1. acting'.rows \in 0..version'
        BY <1>2, <1>7
    <2>2. acting'.on \in BOOLEAN /\ ~acting'.on
        BY <1>7
    <2> QED BY <1>1, <1>2, <2>1, <2>2 DEF ListInv, WhatIsSent, panelVars
<1>9. AnsweredInOrder' /\ NothingOlderComes' /\ LastIsForTheQuery'
    BY <1>1, <1>4, <1>5 DEF ListInv, AnsweredInOrder, NothingOlderComes, LastIsForTheQuery
<1>10. ActsOnThePage'
    BY <1>7 DEF ActsOnThePage
<1> QED BY <1>5, <1>6, <1>8, <1>9, <1>10 DEF ListInv

LEMMA ActionFails ==
    ASSUME PageTypeOK, ListInv, FailAction PROVE PageTypeOK' /\ ListInv'
<1>1. /\ version' = version /\ version \in Nat /\ PageAnswers' = PageAnswers /\ view' = view /\ query' = query
      /\ pageRows' = pageRows /\ fetches' = fetches /\ mine' = mine /\ overtaken' = overtaken
      /\ fetchFailed' = fetchFailed /\ movedOn' = movedOn /\ UNCHANGED panelVars
    BY DEF FailAction, ListInv, WhatIsSent, PageAnswers, PageQueries
<1>2. acting'.on = FALSE /\ acting'.rows = 0
    BY DEF FailAction, NoAction
<1>3. PageTypeOK'
    BY <1>1 DEF PageTypeOK, panelVars
<1>4. WhatIsSent'
    <2>1. acting'.rows \in 0..version'
        BY <1>1, <1>2
    <2>2. acting'.on \in BOOLEAN /\ ~acting'.on
        BY <1>2
    <2> QED BY <1>1, <2>1, <2>2 DEF ListInv, WhatIsSent, panelVars
<1>5. AnsweredInOrder' /\ NothingOlderComes' /\ LastIsForTheQuery' /\ ActsOnThePage'
    BY <1>1, <1>2 DEF ListInv, AnsweredInOrder, NothingOlderComes, LastIsForTheQuery, ActsOnThePage
<1> QED BY <1>3, <1>4, <1>5 DEF ListInv

LEMMA ApprovedFetches ==
    ASSUME PageTypeOK, ListInv, ApproveTicket PROVE PageTypeOK' /\ ListInv'
<1>1. /\ view' = view /\ query' = query /\ pageRows' = pageRows /\ overtaken' = overtaken /\ acting' = acting
      /\ fetchFailed' = fetchFailed /\ movedOn' = movedOn /\ version' = version + 1 /\ mine' = version + 1
      /\ fetches' = Append(fetches, Fetch(query)) /\ selected' = Nothing /\ prefill' = prefill /\ logsOf' = logsOf
      /\ panelsCrossed' = panelsCrossed /\ view.name = "tickets"
    BY DEF ApproveTicket
<1>2. version \in Nat /\ version' \in Nat /\ version' >= version /\ query \in PageQueries
    BY <1>1 DEF ListInv, WhatIsSent, PageTypeOK, PageQueries
<1>3. fetches' \in Seq(PageAnswers') /\ AnsweredInOrder' /\ NothingOlderComes' /\ LastIsForTheQuery'
    BY <1>1, <1>2, OneSent
<1>4. PageTypeOK'
    BY <1>1, <1>2 DEF PageTypeOK
<1>5. WhatIsSent'
    <2>1. acting'.rows \in 0..version'
        BY <1>1, <1>2 DEF ListInv, WhatIsSent
    <2>2. acting'.on \in BOOLEAN /\ (acting'.on => acting'.query \in PageQueries)
        BY <1>1 DEF ListInv, WhatIsSent
    <2>3. {overtaken', fetchFailed', movedOn', panelsCrossed'} \subseteq BOOLEAN
        BY <1>1 DEF ListInv, WhatIsSent
    <2> QED BY <1>2, <1>3, <2>1, <2>2, <2>3 DEF WhatIsSent, PageQueries
<1>6. ActsOnThePage'
    BY <1>1 DEF ListInv, ActsOnThePage
<1> QED BY <1>3, <1>4, <1>5, <1>6 DEF ListInv

(* The panels' steps, each with what it does to the invariant of the panels. *)
PanelOpened(s) == OpenTicketRow(s) \/ OpenUser(s)

LEMMA PanelOpens ==
    ASSUME PageTypeOK, PanelInv, NEW s \in Subjects, PanelOpened(s), panelsCrossed \in BOOLEAN
    PROVE  PanelInv' /\ panelsCrossed' \in BOOLEAN /\ {selected', prefill', logsOf'} \subseteq Subjects \cup {Nothing}
<1> DEFINE f == [kind |-> "details", of |-> s]
<1>1. /\ panelFetches' = panelFetches \cup {f} /\ panelsCrossed' = (panelsCrossed \/ panelFetches # {})
      /\ view' = view /\ approved' = approved
    BY DEF PanelOpened, OpenTicketRow, OpenUser
<1>2. f.kind = "details" /\ f.of = s /\ f \in [kind : {"details", "logs"}, of : Subjects \cup {Nothing}]
    OBVIOUS
<1> HIDE DEF f
<1>3. panelsCrossed' \in BOOLEAN /\ (~panelsCrossed' => ~panelsCrossed /\ panelFetches' = {f})
    BY <1>1
<1>4. panelFetches' \subseteq [kind : {"details", "logs"}, of : Subjects \cup {Nothing}]
    BY <1>1, <1>2 DEF PanelInv, LogsOfUsersOnly
<1>5. ApprovedItsAmount'
    BY <1>1 DEF PanelInv, ApprovedItsAmount
<1>6. CASE OpenTicketRow(s)
    <2>1. view.name = "tickets" /\ selected' = Nothing /\ prefill' = s /\ logsOf' = logsOf
        BY <1>6 DEF OpenTicketRow
    <2>2. view.name # "users" /\ logsOf' = Nothing
        BY <2>1 DEF PanelInv, LogsOfUsersOnly
    <2>3. LogsOfUsersOnly'
        BY <1>1, <1>2, <1>4, <2>2 DEF PanelInv, LogsOfUsersOnly
    <2>4. OnePanelAtATime' /\ AmountIsOfTheTicket'
        BY <1>2, <1>3, <2>1, <2>2 DEF OnePanelAtATime, AmountIsOfTheTicket
    <2>5. LogsAreTheUsers'
        BY <2>2 DEF LogsAreTheUsers
    <2> QED BY <1>3, <1>5, <2>1, <2>2, <2>3, <2>4, <2>5 DEF PanelInv
<1>7. CASE OpenUser(s)
    <2>1. view.name = "users" /\ selected' = selected /\ prefill' = prefill /\ logsOf' = Nothing
        BY <1>7 DEF OpenUser
    <2>2. LogsOfUsersOnly' /\ AmountIsOfTheTicket' /\ LogsAreTheUsers'
        BY <1>1, <1>4, <2>1 DEF LogsOfUsersOnly, AmountIsOfTheTicket, LogsAreTheUsers
    <2>3. OnePanelAtATime'
        BY <1>2, <1>3, <2>1 DEF OnePanelAtATime
    <2>4. {selected', prefill', logsOf'} \subseteq Subjects \cup {Nothing}
        BY <2>1 DEF PageTypeOK
    <2> QED BY <1>3, <1>5, <2>2, <2>3, <2>4 DEF PanelInv
<1> QED BY <1>6, <1>7 DEF PanelOpened

LEMMA LogsOpen ==
    ASSUME PageTypeOK, PanelInv, OpenUserLogs, panelsCrossed \in BOOLEAN
    PROVE  PanelInv' /\ panelsCrossed' \in BOOLEAN /\ {selected', prefill', logsOf'} \subseteq Subjects \cup {Nothing}
<1> DEFINE f == [kind |-> "logs", of |-> selected]
<1>1. /\ panelFetches' = panelFetches \cup {f} /\ panelsCrossed' = (panelsCrossed \/ panelFetches # {})
      /\ view' = view /\ approved' = approved /\ selected' = selected /\ prefill' = prefill /\ logsOf' = logsOf
      /\ view.name = "users"
    BY DEF OpenUserLogs
<1>2. f.kind = "logs" /\ f.of = selected /\ f \in [kind : {"details", "logs"}, of : Subjects \cup {Nothing}]
    BY DEF PageTypeOK
<1> HIDE DEF f
<1>3. panelsCrossed' \in BOOLEAN /\ (~panelsCrossed' => ~panelsCrossed /\ panelFetches' = {f})
    BY <1>1
<1>4. LogsOfUsersOnly' /\ AmountIsOfTheTicket'
    BY <1>1, <1>2 DEF PanelInv, LogsOfUsersOnly, AmountIsOfTheTicket
<1>5. ApprovedItsAmount' /\ LogsAreTheUsers'
    BY <1>1, <1>3 DEF PanelInv, ApprovedItsAmount, LogsAreTheUsers
<1>6. OnePanelAtATime'
    BY <1>1, <1>2, <1>3 DEF OnePanelAtATime
<1>7. {selected', prefill', logsOf'} \subseteq Subjects \cup {Nothing}
    BY <1>1 DEF PageTypeOK
<1> QED BY <1>3, <1>4, <1>5, <1>6, <1>7 DEF PanelInv

LEMMA PanelComes ==
    ASSUME PageTypeOK, PanelInv, NEW f \in panelFetches, PanelArrives(f), panelsCrossed \in BOOLEAN
    PROVE  PanelInv' /\ panelsCrossed' \in BOOLEAN /\ {selected', prefill', logsOf'} \subseteq Subjects \cup {Nothing}
<1>1. /\ panelFetches' = panelFetches \ {f} /\ panelsCrossed' = panelsCrossed
      /\ view' = view /\ approved' = approved /\ prefill' = prefill
      /\ selected' = IF f.kind = "details" THEN f.of ELSE selected
      /\ logsOf' = IF f.kind = "logs" THEN f.of ELSE logsOf
    BY DEF PanelArrives
<1>2. f.kind \in {"details", "logs"} /\ f.of \in Subjects \cup {Nothing}
    BY DEF PanelInv, LogsOfUsersOnly
<1>3. ~panelsCrossed => panelFetches' = {}
    BY <1>1 DEF PanelInv, OnePanelAtATime
<1>4. LogsOfUsersOnly'
    BY <1>1, <1>2 DEF PanelInv, LogsOfUsersOnly
<1>5. OnePanelAtATime' /\ AmountIsOfTheTicket'
    BY <1>1, <1>3 DEF PanelInv, OnePanelAtATime, AmountIsOfTheTicket
<1>6. ApprovedItsAmount'
    BY <1>1 DEF PanelInv, ApprovedItsAmount
<1>7. LogsAreTheUsers'
    BY <1>1, <1>2 DEF PanelInv, OnePanelAtATime, LogsAreTheUsers
<1>8. {selected', prefill', logsOf'} \subseteq Subjects \cup {Nothing}
    BY <1>1, <1>2 DEF PageTypeOK
<1> QED BY <1>1, <1>4, <1>5, <1>6, <1>7, <1>8 DEF PanelInv

LEMMA TicketApproved ==
    ASSUME PanelInv, ApproveTicket PROVE PanelInv'
<1>1. /\ panelFetches' = panelFetches /\ panelsCrossed' = panelsCrossed /\ view' = view /\ prefill' = prefill
      /\ logsOf' = logsOf /\ selected' = Nothing /\ approved' = approved \cup {<<selected, prefill>>}
      /\ view.name = "tickets" /\ selected # Nothing
    BY DEF ApproveTicket
<1>2. panelsCrossed \/ selected = prefill
    BY <1>1 DEF PanelInv, AmountIsOfTheTicket
<1>3. ApprovedItsAmount'
    BY <1>1, <1>2 DEF PanelInv, ApprovedItsAmount
<1>4. logsOf = Nothing /\ \A f \in panelFetches : f.kind # "logs"
    BY <1>1 DEF PanelInv, LogsOfUsersOnly
<1>5. LogsAreTheUsers' /\ LogsOfUsersOnly' /\ OnePanelAtATime' /\ AmountIsOfTheTicket'
    BY <1>1, <1>4 DEF PanelInv, LogsAreTheUsers, LogsOfUsersOnly, OnePanelAtATime, AmountIsOfTheTicket
<1> QED BY <1>3, <1>5 DEF PanelInv

LEMMA PanelsRest ==
    ASSUME PanelInv, UNCHANGED panelVars, view' = view PROVE PanelInv'
BY DEF PanelInv, panelVars, OnePanelAtATime, AmountIsOfTheTicket, LogsOfUsersOnly, ApprovedItsAmount, LogsAreTheUsers

LEMMA PageStep ==
    ASSUME PageInv, [PageNext]_pageVars
    PROVE  PageInv' /\ (UNCHANGED pageVars \/ (~overtaken' /\ ~movedOn => pageRows'.version >= pageRows.version))
<1> USE DEF PageInv
<1>0. pageRows.version \in Int /\ version \in Nat /\ panelsCrossed \in BOOLEAN
    BY DEF PageTypeOK, ListInv, WhatIsSent
<1>r. ASSUME pageRows' = pageRows PROVE ~overtaken' /\ ~movedOn => pageRows'.version >= pageRows.version
    BY <1>0, <1>r
<1>1. ASSUME NEW f \in Filters, ChooseFilter(f) PROVE PageInv' /\ pageRows' = pageRows
    <2>1. PICK q \in PageQueries : ChangeQuery(q)
        <3>1. query.page \in 1..LastPage /\ 1 \in 1..LastPage
            BY PageAssumption DEF PageTypeOK
        <3> QED BY <1>1, <3>1 DEF ChooseFilter, PageQueries
    <2> QED BY <2>1, QueryChanges, PanelsRest DEF ChangeQuery
<1>2. ASSUME NEW p \in 1..LastPage, TurnPage(p) PROVE PageInv' /\ pageRows' = pageRows
    <2>1. PICK q \in PageQueries : ChangeQuery(q)
        <3>1. [query EXCEPT !.page = p] \in PageQueries
            BY DEF PageTypeOK, PageQueries
        <3> QED BY <1>2, <3>1 DEF TurnPage
    <2> QED BY <2>1, QueryChanges, PanelsRest DEF ChangeQuery
<1>3. ASSUME SubmitSearch PROVE PageInv' /\ pageRows' = pageRows
    BY <1>3, SearchSubmitted, PanelsRest DEF SubmitSearch
<1>4. ASSUME Refresh PROVE PageInv' /\ pageRows' = pageRows
    BY <1>4, Refreshed, PanelsRest DEF Refresh
<1>5. ASSUME OthersAct PROVE PageInv' /\ pageRows' = pageRows
    <2>1. UNCHANGED listVars /\ UNCHANGED panelVars /\ view' = view /\ version' = version + 1
        BY <1>5 DEF OthersAct
    <2>2. {selected', prefill', logsOf'} \subseteq Subjects \cup {Nothing} /\ panelsCrossed' \in BOOLEAN
        BY <1>0, <2>1 DEF panelVars, PageTypeOK
    <2>3. version' \in Nat /\ version' >= version
        BY <1>0, <2>1
    <2>4. mine' = mine /\ pageRows' = pageRows
        BY <2>1 DEF listVars
    <2> QED BY <2>1, <2>2, <2>3, <2>4, ListsRest, PanelsRest
<1>6. ASSUME NEW i \in DOMAIN fetches, Answer(i) PROVE PageInv' /\ pageRows' = pageRows
    BY <1>6, Answered, PanelsRest DEF Answer
<1>7. ASSUME NEW i \in DOMAIN fetches, Arrive(i)
      PROVE  PageInv' /\ (~overtaken' /\ ~movedOn => pageRows'.version >= pageRows.version)
    BY <1>7, Arrived, PanelsRest DEF Arrive
<1>8. ASSUME NEW i \in DOMAIN fetches, FailFetch(i) PROVE PageInv' /\ pageRows' = pageRows
    BY <1>8, FetchFails, PanelsRest DEF FailFetch
<1>9. ASSUME StartAction PROVE PageInv' /\ pageRows' = pageRows
    BY <1>9, ActionStarted, PanelsRest DEF StartAction
<1>10. ASSUME FinishAction PROVE PageInv' /\ pageRows' = pageRows
    BY <1>10, ActionFinished, PanelsRest DEF FinishAction
<1>11. ASSUME FinishReply PROVE PageInv' /\ (~movedOn => pageRows'.version = pageRows.version)
    BY <1>11, ReplyFinished, PanelsRest DEF FinishReply
<1>12. ASSUME FailAction PROVE PageInv' /\ pageRows' = pageRows
    BY <1>12, ActionFails, PanelsRest DEF FailAction
<1>13. ASSUME NEW s \in Subjects, OpenTicketRow(s) \/ OpenUser(s) PROVE PageInv' /\ pageRows' = pageRows
    <2>1. UNCHANGED listVars /\ view' = view /\ version' = version
        BY <1>13 DEF OpenTicketRow, OpenUser
    <2>2. PanelInv' /\ panelsCrossed' \in BOOLEAN /\ {selected', prefill', logsOf'} \subseteq Subjects \cup {Nothing}
        BY <1>0, <1>13, PanelOpens DEF PanelOpened
    <2>3. version' \in Nat /\ version' >= version
        BY <1>0, <2>1
    <2>4. mine' = mine /\ pageRows' = pageRows
        BY <2>1 DEF listVars
    <2> QED BY <2>1, <2>2, <2>3, <2>4, ListsRest
<1>14. ASSUME OpenUserLogs PROVE PageInv' /\ pageRows' = pageRows
    <2>1. UNCHANGED listVars /\ view' = view /\ version' = version
        BY <1>14 DEF OpenUserLogs
    <2>2. PanelInv' /\ panelsCrossed' \in BOOLEAN /\ {selected', prefill', logsOf'} \subseteq Subjects \cup {Nothing}
        BY <1>0, <1>14, LogsOpen
    <2>3. version' \in Nat /\ version' >= version
        BY <1>0, <2>1
    <2>4. mine' = mine /\ pageRows' = pageRows
        BY <2>1 DEF listVars
    <2> QED BY <2>1, <2>2, <2>3, <2>4, ListsRest
<1>15. ASSUME ApproveTicket PROVE PageInv' /\ pageRows' = pageRows
    BY <1>15, ApprovedFetches, TicketApproved DEF ApproveTicket
<1>16. ASSUME NEW f \in panelFetches, PanelArrives(f) PROVE PageInv' /\ pageRows' = pageRows
    <2>1. UNCHANGED listVars /\ view' = view /\ version' = version
        BY <1>16 DEF PanelArrives
    <2>2. PanelInv' /\ panelsCrossed' \in BOOLEAN /\ {selected', prefill', logsOf'} \subseteq Subjects \cup {Nothing}
        BY <1>0, <1>16, PanelComes
    <2>3. version' \in Nat /\ version' >= version
        BY <1>0, <2>1
    <2>4. mine' = mine /\ pageRows' = pageRows
        BY <2>1 DEF listVars
    <2> QED BY <2>1, <2>2, <2>3, <2>4, ListsRest
<1>17. CASE UNCHANGED pageVars
    <2>1. UNCHANGED listVars /\ UNCHANGED panelVars /\ view' = view /\ version' = version
        BY <1>17 DEF pageVars
    <2>2. {selected', prefill', logsOf'} \subseteq Subjects \cup {Nothing} /\ panelsCrossed' \in BOOLEAN
        BY <1>0, <2>1 DEF panelVars, PageTypeOK
    <2>3. version' \in Nat /\ version' >= version /\ mine' = mine
        BY <1>0, <2>1 DEF listVars
    <2> QED BY <1>17, <2>1, <2>2, <2>3, ListsRest, PanelsRest
<1>18. ASSUME FinishReply PROVE ~overtaken' /\ ~movedOn => pageRows'.version >= pageRows.version
    BY <1>0, <1>11, <1>18
<1> QED BY <1>r, <1>1, <1>2, <1>3, <1>4, <1>5, <1>6, <1>7, <1>8, <1>9, <1>10, <1>11, <1>12, <1>13, <1>14, <1>15,
        <1>16, <1>17, <1>18 DEF PageNext

LEMMA PageInvHolds == PageSpec => []PageInv
<1>1. PageInit => PageInv
    BY PageInitially
<1>2. PageInv /\ [PageNext]_pageVars => PageInv'
    BY PageStep
<1> QED BY <1>1, <1>2, PTL DEF PageSpec

(* Whatever is asked, changed and answered in any order on the panel's      *)
(* pages, with any filters and any number of fetches on their way: rows     *)
(* shown at rest are of the query shown, an approval carries the amount of  *)
(* its ticket, and a log is of the user shown, but for the crossings named. *)
THEOREM PagesHold == PageSpec => []PagesSafe
<1>1. ASSUME PageInv PROVE PagesSafe
    <2>1. RowsMatchQuery
        BY <1>1 DEF PageInv, ListInv, LastIsForTheQuery, RowsMatchQuery
    <2> QED BY <1>1, <2>1 DEF PageInv, PanelInv, PagesSafe
<1>2. PageInv => PagesSafe
    BY <1>1
<1> QED BY <1>2, PageInvHolds, PTL

(* Rows on the screen are never replaced by older ones, unless answers      *)
(* overtook each other or a list arrived under a reply.                     *)
THEOREM RowsOnlyStepForward == PageSpec => RowsStepForward
<1>1. PageInv /\ [PageNext]_pageVars => [~overtaken' /\ ~movedOn => pageRows'.version >= pageRows.version]_pageVars
    BY PageStep
<1> QED BY <1>1, PageInvHolds, PTL DEF PageSpec, RowsStepForward

-----------------------------------------------------------------------------
(* The panel's forms, for any number of rows and of forms opened.            *)

FormNumbers == 0..Len(intent)
ListedRows == [by : FormNumbers, image : FormNumbers]
OpenedForms == [open : BOOLEAN, target : 0..MaxRows, no : FormNumbers, image : FormNumbers]

FormsTyped ==
    /\ formView \in FormViews /\ intent \in Seq(0..MaxRows)
    /\ saved \in [RowIds -> ListedRows] /\ screen \in [RowIds -> ListedRows] /\ made \in [RowIds -> FormNumbers]
    /\ form \in OpenedForms /\ saving \in OpenedForms
    /\ uploads \subseteq 1..Len(intent) /\ crossed \in BOOLEAN

\* An image that was uploaded from the form a row was created from, or one opened for it.
OfRow(image, i) == image = made[i] \/ intent[image] = i

\* A form is the one that was opened for its row, which is there, and holds an image of its own or its row's.
FormFits(f) ==
    f.open =>
        /\ f.no \in 1..Len(intent) /\ intent[f.no] = f.target
        /\ f.target # 0 => saved[f.target] # Unsaved
        /\ f.image # 0 /\ ~crossed => f.image = f.no \/ (f.target # 0 /\ OfRow(f.image, f.target))

\* The list shows rows that are still there, with images of theirs.
ScreenFits ==
    \A i \in RowIds :
        /\ screen[i] # Unsaved => saved[i] # Unsaved
        /\ screen[i].image # 0 /\ ~crossed => OfRow(screen[i].image, i)

FormInv == FormsTyped /\ ImageIsOfItsForm /\ ScreenFits /\ FormFits(form) /\ FormFits(saving)

LEMMA FormInitially == FormInit => FormInv
<1> SUFFICES ASSUME FormInit PROVE FormInv
    OBVIOUS
<1>1. intent = <<>> /\ Len(intent) = 0 /\ intent \in Seq(0..MaxRows)
    BY DEF FormInit
<1>2. Unsaved \in ListedRows /\ Unsaved.image = 0
    BY <1>1 DEF Unsaved, ListedRows, FormNumbers
<1>3. NoForm \in OpenedForms /\ ~NoForm.open
    BY <1>1, FormAssumption DEF NoForm, OpenedForms, FormNumbers
<1>4. FormsTyped
    <2>1. saved \in [RowIds -> ListedRows] /\ screen \in [RowIds -> ListedRows]
        BY <1>2 DEF FormInit
    <2>2. made \in [RowIds -> FormNumbers] /\ uploads = {}
        BY <1>1 DEF FormInit, FormNumbers
    <2> QED BY <1>1, <1>3, <2>1, <2>2 DEF FormInit, FormsTyped
<1>5. ImageIsOfItsForm /\ ScreenFits
    BY <1>2 DEF FormInit, ImageIsOfItsForm, ScreenFits
<1>6. FormFits(form) /\ FormFits(saving)
    BY <1>3 DEF FormInit, FormFits
<1> QED BY <1>4, <1>5, <1>6 DEF FormInv

LEMMA NoFormFits ==
    ASSUME FormsTyped PROVE NoForm \in OpenedForms /\ NoForm.open = FALSE
<1>1. Len(intent) \in Nat
    BY DEF FormsTyped
<1> QED BY <1>1, FormAssumption DEF NoForm, OpenedForms, FormNumbers

LEMMA FormKinds ==
    ASSUME NEW f \in OpenedForms
    PROVE  /\ f.open \in BOOLEAN /\ f.target \in 0..MaxRows /\ f.no \in FormNumbers /\ f.image \in FormNumbers
           /\ [f EXCEPT !.open = FALSE] \in OpenedForms /\ [f EXCEPT !.open = FALSE].open = FALSE
BY DEF OpenedForms

(* A form is opened: what was opened before is where it was.                 *)
LEMMA FormOpens ==
    ASSUME FormInv, NEW target \in 0..MaxRows, NEW image \in FormNumbers, Opens(target, image),
           intent' = Append(intent, target),
           target # 0 => saved[target] # Unsaved,
           image # 0 /\ ~crossed => target # 0 /\ OfRow(image, target)
    PROVE  FormInv' /\ saved' = saved
<1>1. /\ form' = [open |-> TRUE, target |-> target, no |-> Len(intent) + 1, image |-> image]
      /\ UNCHANGED <<formView, saved, screen, uploads, saving, crossed, made>>
    BY DEF Opens
<1>2. intent \in Seq(0..MaxRows) /\ Len(intent) \in Nat
    BY DEF FormInv, FormsTyped
<1>3. /\ intent' \in Seq(0..MaxRows) /\ Len(intent') = Len(intent) + 1 /\ intent'[Len(intent) + 1] = target
      /\ \A n \in 1..Len(intent) : intent'[n] = intent[n]
    BY <1>2
<1>4. FormNumbers \subseteq FormNumbers' /\ Len(intent) + 1 \in FormNumbers'
    BY <1>2, <1>3 DEF FormNumbers
<1>5. form' \in OpenedForms'
    BY <1>1, <1>4 DEF OpenedForms
<1>6. ListedRows \subseteq ListedRows' /\ OpenedForms \subseteq OpenedForms'
    BY <1>4 DEF ListedRows, OpenedForms
<1>7. FormsTyped'
    BY <1>1, <1>2, <1>3, <1>4, <1>5, <1>6 DEF FormInv, FormsTyped
<1>8. ASSUME NEW n \in FormNumbers, n # 0 PROVE intent'[n] = intent[n]
    BY <1>3, <1>8, <1>2 DEF FormNumbers
<1>9. ASSUME NEW n \in FormNumbers, NEW i \in RowIds, n # 0, OfRow(n, i) PROVE OfRow(n, i)'
    BY <1>1, <1>8, <1>9 DEF OfRow
<1>10. ImageIsOfItsForm' /\ ScreenFits'
    <2>1. \A i \in RowIds : saved[i].image \in FormNumbers /\ screen[i].image \in FormNumbers
        BY DEF FormInv, FormsTyped, ListedRows
    <2>2. ImageIsOfItsForm'
        BY <1>1, <1>8, <2>1 DEF FormInv, ImageIsOfItsForm
    <2>3. ScreenFits'
        BY <1>1, <1>9, <2>1 DEF FormInv, ScreenFits
    <2> QED BY <2>2, <2>3
<1>11. FormFits(saving)'
    <2>0. saving' = saving /\ saving \in OpenedForms
        BY <1>1 DEF FormInv, FormsTyped
    <2> SUFFICES ASSUME saving.open
                 PROVE  /\ saving.no \in 1..Len(intent') /\ intent'[saving.no] = saving.target
                        /\ saving.target # 0 => saved'[saving.target] # Unsaved
                        /\ saving.image # 0 /\ ~crossed' =>
                              saving.image = saving.no \/ (saving.target # 0 /\ OfRow(saving.image, saving.target)')
        BY <2>0 DEF FormFits, OfRow
    <2>1. saving.target \in 0..MaxRows /\ saving.no \in FormNumbers /\ saving.image \in FormNumbers
        BY <2>0, FormKinds
    <2>2. saving.target # 0 => saving.target \in RowIds
        BY <2>1, FormAssumption DEF RowIds
    <2> QED BY <1>1, <1>2, <1>3, <1>9, <2>1, <2>2 DEF FormInv, FormFits
<1>12. FormFits(form)'
    <2>1. form'.open /\ form'.target = target /\ form'.no = Len(intent) + 1 /\ form'.image = image
        BY <1>1
    <2>2. target # 0 => target \in RowIds
        BY FormAssumption DEF RowIds
    <2>3. image # 0 /\ ~crossed' => target # 0 /\ OfRow(image, target)'
        BY <1>1, <1>9, <2>2
    <2>4. OfRow(image, target)' = OfRow(form.image, form.target)'
        BY <2>1 DEF OfRow
    <2> QED BY <1>1, <1>2, <1>3, <2>1, <2>3, <2>4 DEF FormFits
<1> QED BY <1>1, <1>7, <1>10, <1>11, <1>12 DEF FormInv

LEMMA FormShut ==
    ASSUME FormsTyped
    PROVE  LET shut == IF formView.forgets THEN NoForm ELSE [form EXCEPT !.open = FALSE]
           IN  shut \in OpenedForms /\ shut.open = FALSE
BY NoFormFits, FormKinds DEF FormsTyped

(* Steps that write no row and open no form.                                 *)
LEMMA FormRests ==
    ASSUME FormInv, UNCHANGED <<formView, saved, screen, intent, made>>, crossed => crossed', crossed' \in BOOLEAN,
           form' \in OpenedForms, saving' \in OpenedForms, uploads' \subseteq 1..Len(intent),
           FormFits(form)', FormFits(saving)'
    PROVE  FormInv' /\ saved' = saved
<1>1. FormsTyped'
    BY DEF FormInv, FormsTyped, FormNumbers, ListedRows, OpenedForms
<1>2. ImageIsOfItsForm' /\ ScreenFits'
    BY DEF FormInv, ImageIsOfItsForm, ScreenFits, OfRow
<1> QED BY <1>1, <1>2 DEF FormInv

(* An answered save writes one row, with an image that is its own.           *)
LEMMA RowWritten ==
    ASSUME FormInv, saving.open, NEW i \in RowIds, Written(i), UNCHANGED <<formView, screen, uploads, intent, crossed>>,
           saving' = NoForm, form' \in OpenedForms, form' = form \/ form'.open = FALSE
    PROVE  /\ FormInv'
           /\ \A j \in RowIds : saved[j] # Unsaved /\ saved'[j] # saved[j] => intent[saved'[j].by] = j
<1>0. saving \in OpenedForms /\ form \in OpenedForms /\ Len(intent) \in Nat
    BY DEF FormInv, FormsTyped
<1>1. saving.target \in 0..MaxRows /\ saving.no \in FormNumbers /\ saving.image \in FormNumbers
    BY <1>0, FormKinds
<1>2. /\ saving.no \in 1..Len(intent) /\ intent[saving.no] = saving.target
      /\ saving.image # 0 /\ ~crossed =>
            saving.image = saving.no \/ (saving.target # 0 /\ OfRow(saving.image, saving.target))
    BY DEF FormInv, FormFits
<1> DEFINE row == [by |-> saving.no, image |-> saving.image]
<1>3. row \in ListedRows /\ row.by = saving.no /\ row.image = saving.image /\ row # Unsaved
    BY <1>0, <1>1, <1>2 DEF ListedRows, Unsaved
<1>4. saved' = [saved EXCEPT ![i] = row]
    BY DEF Written
<1> HIDE DEF row
<1>5. /\ saved \in [RowIds -> ListedRows] /\ made \in [RowIds -> FormNumbers]
      /\ saved' \in [RowIds -> ListedRows] /\ saved'[i] = row
      /\ \A j \in RowIds : j # i => saved'[j] = saved[j]
    BY <1>3, <1>4 DEF FormInv, FormsTyped
<1>6. \/ saving.target = 0 /\ saved[i] = Unsaved /\ made' = [made EXCEPT ![i] = saving.no]
      \/ saving.target = i /\ saved[i] # Unsaved /\ made' = made
    BY FormAssumption DEF Written, RowIds
<1>7. /\ made' \in [RowIds -> FormNumbers]
      /\ \A j \in RowIds : saved[j] # Unsaved => made'[j] = made[j]
      /\ saving.target = 0 => made'[i] = saving.no
    <2>1. CASE saving.target = 0 /\ saved[i] = Unsaved /\ made' = [made EXCEPT ![i] = saving.no]
        BY <2>1, <1>1, <1>5
    <2>2. CASE saving.target = i /\ saved[i] # Unsaved /\ made' = made
        <3>1. saving.target # 0
            BY <2>2 DEF RowIds
        <3> QED BY <2>2, <3>1, <1>5
    <2> QED BY <2>1, <2>2, <1>6
<1>8. FormsTyped'
    <2>1. saving' \in OpenedForms
        BY NoFormFits DEF FormInv
    <2> QED BY <1>5, <1>7, <2>1 DEF FormInv, FormsTyped, FormNumbers, ListedRows, OpenedForms
<1>9. ASSUME NEW n, NEW j \in RowIds, saved[j] # Unsaved, OfRow(n, j) PROVE OfRow(n, j)'
    BY <1>7, <1>9 DEF OfRow
<1>10. ImageIsOfItsForm'
    <2> SUFFICES ASSUME NEW j \in RowIds, saved'[j].image # 0, ~crossed
                 PROVE  saved'[j].image = made'[j] \/ intent[saved'[j].image] = j
        BY DEF ImageIsOfItsForm
    <2>1. CASE j # i
        <3>1. saved'[j] = saved[j] /\ (saved[j].image = made[j] \/ intent[saved[j].image] = j)
            BY <1>5, <2>1 DEF FormInv, ImageIsOfItsForm
        <3>2. saved[j] # Unsaved
            BY <3>1 DEF Unsaved
        <3> QED BY <3>1, <3>2, <1>7
    <2>2. CASE j = i
        <3>1. saved'[j].image = saving.image
            BY <2>2, <1>3, <1>5
        <3>2. CASE saving.target = 0
            BY <3>1, <3>2, <2>2, <1>2, <1>7
        <3>3. CASE saving.target = i /\ made' = made
            BY <3>1, <3>3, <2>2, <1>2 DEF OfRow
        <3> QED BY <3>2, <3>3, <1>6
    <2> QED BY <2>1, <2>2
<1>11. ASSUME NEW j \in RowIds, saved[j] # Unsaved PROVE saved'[j] # Unsaved
    BY <1>3, <1>5, <1>11
<1>12. ScreenFits'
    <2> SUFFICES ASSUME NEW j \in RowIds
                 PROVE  /\ screen[j] # Unsaved => saved'[j] # Unsaved
                        /\ screen[j].image # 0 /\ ~crossed => OfRow(screen[j].image, j)'
        BY DEF ScreenFits, OfRow
    <2>1. screen[j].image # 0 => screen[j] # Unsaved
        BY DEF Unsaved
    <2> QED BY <2>1, <1>9, <1>11 DEF FormInv, ScreenFits
<1>13. FormFits(saving)'
    BY NoFormFits DEF FormFits, FormInv
<1>14. FormFits(form)'
    <2>0. CASE form'.open = FALSE
        BY <2>0 DEF FormFits
    <2>1. CASE form' = form
        <3>0. form.target \in 0..MaxRows
            BY <1>0, FormKinds
        <3>1. form.target # 0 => form.target \in RowIds
            BY <3>0, FormAssumption DEF RowIds
        <3>2. ASSUME form.open, form.target # 0 PROVE saved'[form.target] # Unsaved
            BY <3>1, <3>2, <1>11 DEF FormInv, FormFits
        <3>3. ASSUME form.open, form.target # 0, OfRow(form.image, form.target)
              PROVE  form.image = made'[form.target] \/ intent[form.image] = form.target
            <4>1. made'[form.target] = made[form.target]
                BY <3>1, <3>3, <1>7 DEF FormInv, FormFits
            <4> QED BY <3>3, <4>1 DEF OfRow
        <3> QED BY <2>1, <3>2, <3>3 DEF FormInv, FormFits, OfRow
    <2> QED BY <2>0, <2>1
<1>15. ASSUME NEW j \in RowIds, saved[j] # Unsaved, saved'[j] # saved[j] PROVE intent[saved'[j].by] = j
    BY <1>2, <1>3, <1>5, <1>6, <1>15
<1> QED BY <1>8, <1>10, <1>12, <1>13, <1>14, <1>15 DEF FormInv

RowEdited == \A i \in RowIds : saved[i] # Unsaved /\ saved'[i] # saved[i] => intent[saved'[i].by] = i

LEMMA FormStep ==
    ASSUME FormInv, [FormNext]_formVars PROVE FormInv' /\ RowEdited
<1>0. /\ FormsTyped /\ form \in OpenedForms /\ saving \in OpenedForms /\ crossed \in BOOLEAN
      /\ Len(intent) \in Nat /\ uploads \subseteq 1..Len(intent)
    BY DEF FormInv, FormsTyped
<1>s. ASSUME saved' = saved PROVE RowEdited
    BY <1>s DEF RowEdited
<1>1. CASE OpenCreate
    <2>1. 0 \in 0..MaxRows /\ 0 \in FormNumbers
        BY <1>0, FormAssumption DEF FormNumbers
    <2> QED BY <1>1, <1>s, <2>1, FormOpens DEF OpenCreate
<1>2. ASSUME NEW i \in RowIds, OpenEdit(i) PROVE FormInv' /\ RowEdited
    <2>1. i \in 0..MaxRows /\ i # 0 /\ screen[i].image \in FormNumbers
        BY FormAssumption DEF RowIds, FormInv, FormsTyped, ListedRows
    <2>2. saved[i] # Unsaved /\ (screen[i].image # 0 /\ ~crossed => OfRow(screen[i].image, i))
        BY <1>2 DEF OpenEdit, FormInv, ScreenFits
    <2> QED BY <1>2, <1>s, <2>1, <2>2, FormOpens DEF OpenEdit
<1>3. CASE CloseForm
    <2>1. form' \in OpenedForms /\ form'.open = FALSE /\ saving' = saving
        BY <1>0, <1>3, FormShut DEF CloseForm
    <2>2. FormFits(form)' /\ FormFits(saving)'
        BY <1>3, <2>1 DEF CloseForm, FormFits, FormInv, OfRow
    <2>3. /\ UNCHANGED <<formView, saved, screen, intent, made>> /\ crossed' = crossed /\ uploads' = uploads
        BY <1>3 DEF CloseForm
    <2> QED BY <1>0, <1>s, <2>1, <2>2, <2>3, FormRests
<1>4. CASE Upload
    <2>1. /\ UNCHANGED <<formView, saved, screen, intent, made>> /\ crossed' = crossed /\ saving' = saving /\ form' = form
          /\ uploads' = uploads \cup {form.no} /\ form.open
        BY <1>4 DEF Upload
    <2>2. form.no \in 1..Len(intent)
        BY <2>1 DEF FormInv, FormFits
    <2>3. FormFits(form)' /\ FormFits(saving)'
        BY <2>1 DEF FormFits, FormInv, OfRow
    <2> QED BY <1>0, <1>s, <2>1, <2>2, <2>3, FormRests
<1>5. CASE Save
    <2>1. /\ UNCHANGED <<formView, saved, screen, intent, made>> /\ crossed' = crossed /\ saving' = form /\ form' = form
          /\ uploads' = uploads
        BY <1>5 DEF Save
    <2>2. FormFits(form)' /\ FormFits(saving)'
        BY <2>1 DEF FormFits, FormInv, OfRow
    <2> QED BY <1>0, <1>s, <2>1, <2>2, FormRests
<1>6. ASSUME NEW lost \in BOOLEAN, SaveDone(lost) PROVE FormInv' /\ RowEdited
    <2>1. /\ saving.open /\ saving' = NoForm /\ UNCHANGED <<formView, screen, uploads, intent, crossed>>
          /\ \E i \in RowIds : Written(i)
        BY <1>6 DEF SaveDone
    <2>2. form' \in OpenedForms /\ (form' = form \/ form'.open = FALSE)
        BY <1>0, <1>6, FormShut DEF SaveDone, AfterSave
    <2> QED BY <2>1, <2>2, RowWritten DEF RowEdited
<1>7. CASE SaveFails
    <2>1. /\ UNCHANGED <<formView, saved, screen, intent, made>> /\ crossed' = crossed /\ saving' = NoForm /\ form' = form
          /\ uploads' = uploads
        BY <1>7 DEF SaveFails
    <2>2. FormFits(form)' /\ FormFits(saving)'
        BY <1>0, <2>1, NoFormFits DEF FormFits, FormInv, OfRow
    <2>3. saving' \in OpenedForms
        BY <1>0, <2>1, NoFormFits
    <2> QED BY <1>0, <1>s, <2>1, <2>2, <2>3, FormRests
<1>8. CASE Load
    <2>1. /\ UNCHANGED <<formView, saved, form, uploads, saving, intent, crossed, made>> /\ screen' = saved
        BY <1>8 DEF Load
    <2>2. FormsTyped'
        BY <2>1 DEF FormInv, FormsTyped, FormNumbers, ListedRows, OpenedForms
    <2>3. ScreenFits' /\ ImageIsOfItsForm' /\ FormFits(form)' /\ FormFits(saving)'
        BY <2>1 DEF FormInv, ScreenFits, ImageIsOfItsForm, FormFits, OfRow
    <2> QED BY <1>s, <2>1, <2>2, <2>3 DEF FormInv
<1>9. ASSUME NEW n \in uploads, UploadArrives(n) PROVE FormInv' /\ RowEdited
    <2>1. /\ UNCHANGED <<formView, saved, screen, intent, made>> /\ saving' = saving
          /\ uploads' = uploads \ {n} /\ crossed' = (crossed \/ (~formView.own /\ form.open /\ form.no # n))
          /\ form' = IF formView.own /\ form.no # n THEN form ELSE [form EXCEPT !.image = n]
        BY <1>9 DEF UploadArrives
    <2>2. crossed' \in BOOLEAN /\ (crossed => crossed')
        BY <1>0, <2>1 DEF FormInv, FormsTyped, FormViews, TransparencyForm, BroadcastForm, OfferMinerForm, BannerFormView
    <2>3. n \in FormNumbers /\ n \in 1..Len(intent)
        BY <1>0 DEF FormNumbers
    <2>4. /\ [form EXCEPT !.image = n] \in OpenedForms /\ [form EXCEPT !.image = n].image = n
          /\ [form EXCEPT !.image = n].open = form.open /\ [form EXCEPT !.image = n].no = form.no
          /\ [form EXCEPT !.image = n].target = form.target
        BY <1>0, <2>3 DEF OpenedForms
    <2>5. form' \in OpenedForms
        BY <1>0, <2>1, <2>4
    <2>6. FormFits(saving)'
        BY <2>1, <2>2 DEF FormInv, FormFits, OfRow
    <2>7. FormFits(form)'
        <3>1. CASE formView.own /\ form.no # n
            BY <3>1, <2>1, <2>2 DEF FormInv, FormFits, OfRow
        <3>2. CASE ~(formView.own /\ form.no # n)
            <4>1. form' = [form EXCEPT !.image = n]
                BY <3>2, <2>1
            <4>2. form'.open = form.open /\ form'.no = form.no /\ form'.target = form.target /\ form'.image = n
                BY <4>1, <2>4
            <4>3. form.open /\ ~crossed' => n = form.no
                BY <3>2, <2>1
            <4> QED BY <4>2, <4>3, <2>1, <2>2 DEF FormInv, FormFits
        <3> QED BY <3>1, <3>2
    <2> QED BY <1>0, <1>s, <2>1, <2>2, <2>5, <2>6, <2>7, FormRests
<1>10. ASSUME NEW n \in uploads, UploadFails(n) PROVE FormInv' /\ RowEdited
    <2>1. /\ UNCHANGED <<formView, saved, screen, intent, made>> /\ crossed' = crossed /\ saving' = saving /\ form' = form
          /\ uploads' = uploads \ {n}
        BY <1>10 DEF UploadFails
    <2>2. FormFits(form)' /\ FormFits(saving)'
        BY <2>1 DEF FormFits, FormInv, OfRow
    <2> QED BY <1>0, <1>s, <2>1, <2>2, FormRests
<1>11. CASE UNCHANGED formVars
    <2>1. /\ UNCHANGED <<formView, saved, screen, intent, made>> /\ crossed' = crossed /\ saving' = saving /\ form' = form
          /\ uploads' = uploads
        BY <1>11 DEF formVars
    <2>2. FormFits(form)' /\ FormFits(saving)'
        BY <2>1 DEF FormFits, FormInv, OfRow
    <2> QED BY <1>0, <1>s, <2>1, <2>2, FormRests
<1> QED BY <1>1, <1>2, <1>3, <1>4, <1>5, <1>6, <1>7, <1>8, <1>9, <1>10, <1>11 DEF FormNext

LEMMA FormInvHolds == FormSpec => []FormInv
<1>1. FormInit => FormInv
    BY FormInitially
<1>2. FormInv /\ [FormNext]_formVars => FormInv'
    BY FormStep
<1> QED BY <1>1, <1>2, PTL DEF FormSpec

(* However slowly uploads and saves of the panel's forms are answered, with *)
(* any number of rows and of forms opened: a row's image was uploaded from  *)
(* the form that created it or one opened for it, unless an upload was      *)
(* answered when another form was on the page.                              *)
THEOREM FormsHold == FormSpec => []FormsSafe
<1>1. ASSUME FormInv PROVE FormsSafe
    <2>0. FormsTyped
        BY <1>1 DEF FormInv
    <2>1. \A r \in {saved[i] : i \in RowIds} \cup {screen[i] : i \in RowIds} : {r.by, r.image} \subseteq 0..Len(intent)
        BY <2>0 DEF FormsTyped, FormNumbers, ListedRows
    <2>2. \A f \in {form, saving} : f.target \in 0..MaxRows /\ {f.no, f.image} \subseteq 0..Len(intent)
        <3>1. \A f \in {form, saving} : f \in OpenedForms
            BY <2>0 DEF FormsTyped
        <3> QED BY <3>1, FormKinds DEF FormNumbers
    <2>3. FormTypeOK
        BY <2>0, <2>1, <2>2 DEF FormTypeOK, FormsTyped, FormNumbers
    <2> QED BY <1>1, <2>3 DEF FormInv, FormsSafe
<1>2. FormInv => FormsSafe
    BY <1>1
<1> QED BY <1>2, FormInvHolds, PTL

(* A row is overwritten only from a form that was opened to edit it: one    *)
(* opened to create never changes the row that was edited before.           *)
THEOREM FormsEditTheirRows == FormSpec => RowsKeepTheirForms
<1>1. FormInv /\ [FormNext]_formVars =>
        [\A i \in RowIds : saved[i] # Unsaved /\ saved'[i] # saved[i] => intent[saved'[i].by] = i]_formVars
    BY FormStep DEF RowEdited
<1> QED BY <1>1, FormInvHolds, PTL DEF FormSpec, RowsKeepTheirForms

(* A non-empty set of numbers up to n has a largest one.                     *)
LEMMA MaxIsThere ==
    ASSUME NEW n \in Nat, NEW S, S \subseteq 0..n, S # {}
    PROVE  Max(S) \in S /\ \A y \in S : Max(S) >= y
<1> DEFINE R == OpToRel(<, Nat)
           T == {n - x : x \in S}
<1>1. \A x, y \in Nat : x < y => <<x, y>> \in R
    BY DEF OpToRel
<1>2. IsWellFoundedOn(R, Nat)
    BY NatLessThanWellFounded
<1> HIDE DEF R
<1>3. T \subseteq Nat /\ T # {}
    <2>1. \A x \in S : n - x \in Nat
        OBVIOUS
    <2> QED BY <2>1
<1> HIDE DEF T
<1>4. PICK m \in T : \A y \in T : ~(<<y, m>> \in R)
    BY <1>2, <1>3, WFMin
<1>5. PICK x \in S : m = n - x
    BY DEF T
<1>6. \A y \in S : x >= y
    <2> SUFFICES ASSUME NEW y \in S PROVE x >= y
        OBVIOUS
    <2>1. n - y \in T /\ n - y \in Nat /\ m \in Nat /\ x \in Nat /\ y \in Nat
        BY <1>3, <1>5 DEF T
    <2>2. ~(n - y < m)
        BY <2>1, <1>1, <1>4
    <2> QED BY <2>1, <2>2, <1>5
<1> QED BY <1>6 DEF Max

-----------------------------------------------------------------------------
(* What administrators publish, for any number of them and of readers, any   *)
(* zones and any digits typed.                                               *)

BroadcastRows == [live : BOOLEAN, active : BOOLEAN]
EditRequests == [pc : {"idle", "deactivate", "write"}, id : 0..Len(broadcasts), active : BOOLEAN]

BroadcastsTyped ==
    /\ broadcasts \in Seq(BroadcastRows) /\ seen \subseteq Readers \X Live
    /\ popup \in [Readers -> 0..Len(broadcasts)] /\ editorCall \in [Editors -> EditRequests]
    /\ editsCrossed \in BOOLEAN /\ onlyActive \in 0..Len(broadcasts)

LoneEdit ==
    ~editsCrossed => \A a, b \in Editors : editorCall[a].pc # "idle" /\ editorCall[b].pc # "idle" => a = b

\* The active message is the one that was activated last, also while a request is under way.
LastIsActive == ~editsCrossed => Active = IF onlyActive = 0 THEN {} ELSE {onlyActive}

\* An activation that is about to write has no other message active.
OthersAreCleared ==
    ~editsCrossed => \A a \in Editors :
        editorCall[a].pc = "write" /\ editorCall[a].active => Active \subseteq {editorCall[a].id}

BroadcastInv == BroadcastsTyped /\ LoneEdit /\ LastIsActive /\ OthersAreCleared

BannerRows == [live : BOOLEAN, startsAt : Int, endsAt : Int, active : BOOLEAN]
OfferWindows == [startsAt : Int, endsAt : Int]
EntryRows == [type : {"expense", "income"}, category : ExpenseCategories, income : IncomeCategories \cup {NotSet}]
CreatorRows == [isCreator : BOOLEAN, url : {NotSet, "channel"}]

PublishedTyped ==
    /\ serverZone \in Int /\ browserZone \in Int /\ typedWindows \subseteq Int \X Int
    /\ banner \in BannerRows /\ offerWindow \in OfferWindows /\ entry \in EntryRows /\ creator \in CreatorRows
    /\ copy \in [Editors -> [banner : BannerRows, offer : OfferWindows, entry : EntryRows, creator : CreatorRows]]

\* A window as long as one that was typed, and where digits are read in UTC one that was typed.
WindowKept(w) ==
    /\ \E t \in typedWindows : w.endsAt - w.startsAt = t[2] - t[1]
    /\ serverZone = 0 /\ browserZone = 0 => <<w.startsAt, w.endsAt>> \in typedWindows

\* So are the windows, and the copies of them on the pages.
WindowsAreKept ==
    /\ WindowKept(offerWindow) /\ (banner.live => WindowKept(banner))
    /\ \A a \in Editors : WindowKept(copy[a].offer) /\ (copy[a].banner.live => WindowKept(copy[a].banner))

PublishedInv == PublishedTyped /\ WindowsAreKept /\ EntriesAreLabelled /\ ChannelsAreCreators

-----------------------------------------------------------------------------

LEMMA LiveRows ==
    ASSUME BroadcastsTyped
    PROVE  /\ Len(broadcasts) \in Nat /\ DOMAIN broadcasts = 1..Len(broadcasts)
           /\ \A i \in 1..Len(broadcasts) : broadcasts[i] \in BroadcastRows
           /\ Live = {i \in 1..Len(broadcasts) : broadcasts[i].live}
           /\ Active = {i \in 1..Len(broadcasts) : broadcasts[i].live /\ broadcasts[i].active}
<1>1. /\ broadcasts \in Seq(BroadcastRows) /\ Len(broadcasts) \in Nat /\ DOMAIN broadcasts = 1..Len(broadcasts)
    BY DEF BroadcastsTyped
<1>2. \A i \in 1..Len(broadcasts) : broadcasts[i] \in BroadcastRows
    BY <1>1
<1> QED BY <1>1, <1>2 DEF Live, Active

LEMMA EditKinds ==
    ASSUME BroadcastsTyped, NEW a \in Editors
    PROVE  /\ editorCall[a] \in EditRequests /\ editorCall[a].pc \in {"idle", "deactivate", "write"}
           /\ editorCall[a].id \in 0..Len(broadcasts) /\ editorCall[a].active \in BOOLEAN
<1>1. editorCall[a] \in EditRequests
    BY DEF BroadcastsTyped
<1> QED BY <1>1 DEF EditRequests

LEMMA ContentInitially == ContentInit => BroadcastInv /\ PublishedInv
<1> SUFFICES ASSUME ContentInit PROVE BroadcastInv /\ PublishedInv
    OBVIOUS
<1>1. broadcasts = <<>> /\ Len(broadcasts) = 0 /\ broadcasts \in Seq(BroadcastRows) /\ seen = {} /\ onlyActive = 0
    BY DEF ContentInit
<1>2. NoEdit \in EditRequests /\ NoEdit.pc = "idle"
    BY <1>1 DEF NoEdit, EditRequests
<1>3. \A a \in Editors : editorCall[a].pc = "idle"
    BY <1>2 DEF ContentInit
<1>4. BroadcastsTyped
    <2>0. 0 \in 0..Len(broadcasts)
        BY <1>1
    <2>1. popup \in [Readers -> 0..Len(broadcasts)] /\ editsCrossed \in BOOLEAN
        BY <2>0 DEF ContentInit
    <2>2. editorCall \in [Editors -> EditRequests]
        BY <1>2 DEF ContentInit
    <2>3. onlyActive \in 0..Len(broadcasts)
        BY <1>1
    <2> QED BY <1>1, <2>1, <2>2, <2>3 DEF BroadcastsTyped
<1>5. Active = {}
    BY <1>1, <1>4, LiveRows
<1>6. BroadcastInv
    BY <1>1, <1>3, <1>4, <1>5 DEF BroadcastInv, LoneEdit, LastIsActive, OthersAreCleared
<1>7. /\ banner \in BannerRows /\ ~banner.live /\ offerWindow \in OfferWindows /\ entry \in EntryRows
      /\ creator \in CreatorRows /\ creator.url = NotSet /\ entry.type = "expense" /\ entry.category \in ExpenseCategories
      /\ offerWindow.startsAt = 0 /\ offerWindow.endsAt = 1
    BY DEF ContentInit, Absent, BannerRows, OfferWindows, EntryRows, CreatorRows, ExpenseCategories, IncomeCategories
<1>8. copy \in [Editors -> [banner : BannerRows, offer : OfferWindows, entry : EntryRows, creator : CreatorRows]]
      /\ \A a \in Editors : copy[a].offer = offerWindow /\ copy[a].banner = banner
    BY <1>7 DEF ContentInit, Listed
<1>9. serverZone \in Int /\ browserZone \in Int /\ typedWindows = {<<0, 1>>}
    BY ContentAssumption DEF ContentInit
<1>10. WindowKept(offerWindow)
    <2>1. <<0, 1>> \in typedWindows /\ offerWindow.endsAt - offerWindow.startsAt = <<0, 1>>[2] - <<0, 1>>[1]
          /\ <<offerWindow.startsAt, offerWindow.endsAt>> = <<0, 1>>
        BY <1>7, <1>9
    <2> QED BY <2>1 DEF WindowKept
<1>11. PublishedInv
    BY <1>7, <1>8, <1>9, <1>10 DEF PublishedInv, PublishedTyped, WindowsAreKept, EntriesAreLabelled, ChannelsAreCreators
<1> QED BY <1>6, <1>11

LEMMA BroadcastAsked ==
    ASSUME BroadcastInv, NEW a \in Editors, NEW id \in 0..Len(broadcasts), NEW active \in BOOLEAN,
           AskBroadcast(a, id, active)
    PROVE  BroadcastInv'
<1> DEFINE request == [pc |-> IF active THEN "deactivate" ELSE "write", id |-> id, active |-> active]
<1>1. /\ broadcasts' = broadcasts /\ seen' = seen /\ popup' = popup /\ onlyActive' = onlyActive
      /\ editsCrossed' = (editsCrossed \/ \E b \in Editors : editorCall[b].pc # "idle")
      /\ editorCall' = [editorCall EXCEPT ![a] = request] /\ editorCall[a].pc = "idle"
    BY DEF AskBroadcast
<1>2. request \in EditRequests /\ request.active = active /\ (request.pc = "write" => ~active)
    BY DEF EditRequests
<1> HIDE DEF request
<1>3. /\ editorCall \in [Editors -> EditRequests] /\ editorCall'[a] = request
      /\ \A b \in Editors : b # a => editorCall'[b] = editorCall[b]
    BY <1>1 DEF BroadcastInv, BroadcastsTyped
<1>4. editsCrossed' \in BOOLEAN /\ Live' = Live /\ Active' = Active /\ EditRequests' = EditRequests
    BY <1>1 DEF BroadcastInv, BroadcastsTyped, Live, Active, EditRequests
<1>5. BroadcastsTyped'
    BY <1>1, <1>2, <1>3, <1>4 DEF BroadcastInv, BroadcastsTyped
<1>6. LoneEdit'
    BY <1>1, <1>3 DEF LoneEdit
<1>7. LastIsActive' /\ OthersAreCleared'
    BY <1>1, <1>2, <1>3, <1>4 DEF BroadcastInv, LastIsActive, OthersAreCleared
<1> QED BY <1>5, <1>6, <1>7 DEF BroadcastInv

LEMMA BroadcastDeactivated ==
    ASSUME BroadcastInv, NEW a \in Editors, Deactivate(a) PROVE BroadcastInv'
<1>0. BroadcastsTyped
    BY DEF BroadcastInv
<1> DEFINE id == editorCall[a].id
           request == [editorCall[a] EXCEPT !.pc = "write"]
           row(i) == IF i = id THEN broadcasts[i] ELSE [broadcasts[i] EXCEPT !.active = FALSE]
<1>1. /\ seen' = seen /\ popup' = popup /\ editsCrossed' = editsCrossed /\ editorCall[a].pc = "deactivate"
      /\ onlyActive' = IF onlyActive = id THEN onlyActive ELSE 0
      /\ editorCall' = [editorCall EXCEPT ![a] = request]
      /\ broadcasts' = [i \in DOMAIN broadcasts |-> row(i)]
    BY DEF Deactivate
<1>2. id \in 0..Len(broadcasts) /\ request \in EditRequests /\ request.id = id
    <2>1. editorCall[a] \in EditRequests
        BY <1>0, EditKinds
    <2> QED BY <2>1 DEF EditRequests
<1> HIDE DEF request
<1>3. ASSUME NEW i \in 1..Len(broadcasts)
      PROVE  row(i) \in BroadcastRows /\ row(i).live = broadcasts[i].live
             /\ row(i).active = (broadcasts[i].active /\ i = id)
    <2>1. broadcasts[i] \in BroadcastRows
        BY <1>0, LiveRows
    <2> QED BY <2>1 DEF BroadcastRows
<1>4. /\ Len(broadcasts) \in Nat /\ DOMAIN broadcasts = 1..Len(broadcasts)
    BY <1>0, LiveRows
<1> HIDE DEF row
<1>5. broadcasts' \in Seq(BroadcastRows) /\ Len(broadcasts') = Len(broadcasts)
      /\ \A i \in 1..Len(broadcasts) : broadcasts'[i] = row(i)
    BY <1>1, <1>3, <1>4
<1>6. /\ editorCall \in [Editors -> EditRequests] /\ editorCall'[a] = request
      /\ \A b \in Editors : b # a => editorCall'[b] = editorCall[b]
    BY <1>0, <1>1 DEF BroadcastsTyped
<1>7. EditRequests' = EditRequests
    BY <1>5 DEF EditRequests
<1>8. /\ Live' = {i \in 1..Len(broadcasts) : broadcasts[i].live}
      /\ Active' = {i \in 1..Len(broadcasts) : broadcasts[i].live /\ broadcasts[i].active /\ i = id}
    <2>1. DOMAIN broadcasts' = 1..Len(broadcasts)
        BY <1>4, <1>5
    <2>2. Live' = {i \in 1..Len(broadcasts) : broadcasts[i].live}
        BY <2>1, <1>3, <1>5 DEF Live
    <2>3. Active' = {i \in Live' : broadcasts'[i].active}
        BY DEF Active
    <2> QED BY <2>2, <2>3, <1>3, <1>5
<1>9. Live' = Live /\ Active' = Active \cap {id}
    BY <1>0, <1>8, LiveRows
<1>10. onlyActive' \in 0..Len(broadcasts)
    BY <1>0, <1>1, <1>2, <1>4 DEF BroadcastsTyped
<1>11. BroadcastsTyped'
    <2>1. editorCall' \in [Editors -> EditRequests']
        BY <1>1, <1>2, <1>6, <1>7
    <2> QED BY <1>0, <1>1, <1>5, <1>9, <1>10, <2>1 DEF BroadcastsTyped
<1>12. LoneEdit'
    BY <1>1, <1>6 DEF BroadcastInv, LoneEdit
<1>13. LastIsActive'
    BY <1>1, <1>9 DEF BroadcastInv, LastIsActive
<1>14. OthersAreCleared'
    <2> SUFFICES ASSUME ~editsCrossed, NEW b \in Editors, editorCall'[b].pc = "write"
                 PROVE  Active' \subseteq {editorCall'[b].id}
        BY <1>1 DEF OthersAreCleared
    <2>1. b = a
        BY <1>1, <1>6 DEF BroadcastInv, LoneEdit
    <2> QED BY <2>1, <1>2, <1>6, <1>9
<1> QED BY <1>11, <1>12, <1>13, <1>14 DEF BroadcastInv

LEMMA BroadcastWritten ==
    ASSUME BroadcastInv, NEW a \in Editors, WriteBroadcast(a) PROVE BroadcastInv'
<1>0. BroadcastsTyped
    BY DEF BroadcastInv
<1> DEFINE c == editorCall[a]
           n == Len(broadcasts)
           id == IF c.id = 0 THEN n + 1 ELSE c.id
           added == [live |-> TRUE, active |-> c.active]
<1>1. /\ seen' = seen /\ popup' = popup /\ editsCrossed' = editsCrossed /\ c.pc = "write"
      /\ editorCall' = [editorCall EXCEPT ![a] = NoEdit]
      /\ broadcasts' = IF c.id = 0 THEN Append(broadcasts, added)
                       ELSE IF id \in Live THEN [broadcasts EXCEPT ![id].active = c.active] ELSE broadcasts
      /\ onlyActive' = IF c.id # 0 /\ id \notin Live THEN onlyActive
                       ELSE IF c.active THEN id ELSE IF onlyActive = id THEN 0 ELSE onlyActive
    BY DEF WriteBroadcast
<1>2. /\ n \in Nat /\ DOMAIN broadcasts = 1..n /\ broadcasts \in Seq(BroadcastRows)
      /\ \A i \in 1..n : broadcasts[i] \in BroadcastRows
      /\ Live = {i \in 1..n : broadcasts[i].live}
      /\ Active = {i \in 1..n : broadcasts[i].live /\ broadcasts[i].active}
    BY <1>0, LiveRows DEF BroadcastsTyped
<1>3. c.id \in 0..n /\ c.active \in BOOLEAN /\ onlyActive \in 0..n
    BY <1>0, EditKinds DEF BroadcastsTyped
<1>4. /\ NoEdit.pc = "idle" /\ NoEdit.id = 0 /\ NoEdit.active = FALSE /\ editorCall \in [Editors -> EditRequests]
      /\ editorCall'[a] = NoEdit /\ \A b \in Editors : b # a => editorCall'[b] = editorCall[b]
    BY <1>0, <1>1 DEF BroadcastsTyped, NoEdit
<1>5. \A b \in Editors : ~editsCrossed => editorCall'[b].pc = "idle"
    BY <1>1, <1>4 DEF BroadcastInv, LoneEdit
<1>6. LoneEdit' /\ OthersAreCleared'
    BY <1>1, <1>5 DEF LoneEdit, OthersAreCleared
<1>7. ~editsCrossed => /\ Active = IF onlyActive = 0 THEN {} ELSE {onlyActive}
                       /\ c.active => Active \subseteq {c.id}
    BY <1>1 DEF BroadcastInv, LastIsActive, OthersAreCleared
<1>8. CASE c.id = 0
    <2>1. added \in BroadcastRows /\ added.live = TRUE /\ added.active = c.active
        BY <1>3 DEF BroadcastRows
    <2> HIDE DEF added
    <2>2. broadcasts' = Append(broadcasts, added) /\ id = n + 1
        BY <1>1, <1>8
    <2>3. /\ broadcasts' \in Seq(BroadcastRows) /\ Len(broadcasts') = n + 1 /\ broadcasts'[n + 1] = added
          /\ \A i \in 1..n : broadcasts'[i] = broadcasts[i]
        BY <2>1, <2>2, <1>2
    <2>4. DOMAIN broadcasts' = 1..(n + 1)
        BY <2>3, <1>2
    <2>5. Live' = Live \cup {n + 1}
        BY <2>1, <2>3, <2>4, <1>2 DEF Live
    <2>6. Active' = {i \in Live' : broadcasts'[i].active}
        BY DEF Active
    <2>7. Active' = IF c.active THEN Active \cup {n + 1} ELSE Active
        BY <2>1, <2>3, <2>5, <2>6, <1>2, <1>3
    <2>8. onlyActive' = IF c.active THEN n + 1 ELSE onlyActive
        BY <1>1, <1>2, <1>3, <1>8
    <2>9. EditRequests \subseteq EditRequests' /\ NoEdit \in EditRequests'
        BY <2>3, <1>2 DEF EditRequests, NoEdit
    <2>10. BroadcastsTyped'
        <3>1. popup' \in [Readers -> 0..Len(broadcasts')]
            BY <1>0, <1>1, <1>2, <2>3 DEF BroadcastsTyped
        <3>2. seen' \subseteq Readers \X Live' /\ editsCrossed' \in BOOLEAN
            BY <1>0, <1>1, <2>5 DEF BroadcastsTyped
        <3>3. editorCall' \in [Editors -> EditRequests']
            BY <1>1, <1>4, <2>9
        <3>4. onlyActive' \in 0..Len(broadcasts')
            BY <1>2, <1>3, <2>3, <2>8
        <3> QED BY <2>3, <3>1, <3>2, <3>3, <3>4 DEF BroadcastsTyped
    <2>11. LastIsActive'
        <3> SUFFICES ASSUME ~editsCrossed PROVE Active' = IF onlyActive' = 0 THEN {} ELSE {onlyActive'}
            BY <1>1 DEF LastIsActive
        <3>1. CASE c.active
            <4>1. 0 \notin Active
                BY <1>2
            <4>2. Active = {}
                BY <4>1, <3>1, <1>7, <1>8
            <4> QED BY <4>2, <3>1, <2>7, <2>8, <1>2
        <3>2. CASE ~c.active
            BY <3>2, <2>7, <2>8, <1>7
        <3> QED BY <3>1, <3>2
    <2> QED BY <1>6, <2>10, <2>11 DEF BroadcastInv
<1>9. CASE c.id # 0 /\ id \in Live
    <2>1. id = c.id /\ id \in 1..n
        BY <1>9, <1>2
    <2>2. broadcasts' = [broadcasts EXCEPT ![id].active = c.active]
        BY <1>1, <1>9
    <2> DEFINE row == [broadcasts[id] EXCEPT !.active = c.active]
    <2>3. broadcasts' = [broadcasts EXCEPT ![id] = row]
        BY <2>2
    <2>4. row \in BroadcastRows /\ row.live = broadcasts[id].live /\ row.active = c.active
        BY <2>1, <1>2, <1>3 DEF BroadcastRows
    <2> HIDE DEF row
    <2>5. /\ broadcasts' \in Seq(BroadcastRows) /\ Len(broadcasts') = n /\ DOMAIN broadcasts' = 1..n
          /\ broadcasts'[id] = row /\ \A i \in 1..n : i # id => broadcasts'[i] = broadcasts[i]
        BY <2>1, <2>3, <2>4, <1>2
    <2>6. Live' = Live
        BY <2>4, <2>5, <1>2 DEF Live
    <2>7. Active' = {i \in Live' : broadcasts'[i].active}
        BY DEF Active
    <2>8. Active' = IF c.active THEN Active \cup {id} ELSE Active \ {id}
        BY <2>4, <2>5, <2>6, <2>7, <1>2, <1>3, <1>9
    <2>9. onlyActive' = IF c.active THEN id ELSE IF onlyActive = id THEN 0 ELSE onlyActive
        BY <1>1, <1>9
    <2>10. EditRequests' = EditRequests /\ NoEdit \in EditRequests
        BY <2>5, <1>2 DEF EditRequests, NoEdit
    <2>11. BroadcastsTyped'
        <3>1. popup' \in [Readers -> 0..Len(broadcasts')] /\ seen' \subseteq Readers \X Live'
            BY <1>0, <1>1, <2>5, <2>6 DEF BroadcastsTyped
        <3>2. editorCall' \in [Editors -> EditRequests'] /\ editsCrossed' \in BOOLEAN
            BY <1>0, <1>1, <1>4, <2>10 DEF BroadcastsTyped
        <3>3. onlyActive' \in 0..Len(broadcasts')
            BY <1>2, <1>3, <2>1, <2>5, <2>9
        <3> QED BY <2>5, <3>1, <3>2, <3>3 DEF BroadcastsTyped
    <2>12. LastIsActive'
        <3> SUFFICES ASSUME ~editsCrossed PROVE Active' = IF onlyActive' = 0 THEN {} ELSE {onlyActive'}
            BY <1>1 DEF LastIsActive
        <3>1. CASE c.active
            BY <3>1, <2>1, <2>8, <2>9, <1>7
        <3>2. CASE ~c.active
            BY <3>2, <2>1, <2>8, <2>9, <1>7
        <3> QED BY <3>1, <3>2
    <2> QED BY <1>6, <2>11, <2>12 DEF BroadcastInv
<1>10. CASE c.id # 0 /\ id \notin Live
    <2>1. broadcasts' = broadcasts /\ onlyActive' = onlyActive
        BY <1>1, <1>10
    <2>2. Live' = Live /\ Active' = Active /\ EditRequests' = EditRequests /\ NoEdit \in EditRequests
        BY <2>1, <1>2 DEF Live, Active, EditRequests, NoEdit
    <2>3. BroadcastsTyped'
        BY <1>0, <1>1, <1>4, <2>1, <2>2 DEF BroadcastsTyped
    <2>4. LastIsActive'
        BY <1>1, <2>1, <2>2 DEF BroadcastInv, LastIsActive
    <2> QED BY <1>6, <2>3, <2>4 DEF BroadcastInv
<1> QED BY <1>8, <1>9, <1>10

LEMMA BroadcastRemoved ==
    ASSUME BroadcastInv, NEW a \in Editors, NEW id, RemoveBroadcast(a, id) PROVE BroadcastInv'
<1>0. BroadcastsTyped
    BY DEF BroadcastInv
<1> DEFINE gone == [live |-> FALSE, active |-> FALSE]
<1>1. /\ popup' = popup /\ editorCall' = editorCall /\ editsCrossed' = editsCrossed /\ id \in Live
      /\ broadcasts' = [broadcasts EXCEPT ![id] = gone] /\ seen' = {s \in seen : s[2] # id}
      /\ onlyActive' = IF onlyActive = id THEN 0 ELSE onlyActive
    BY DEF RemoveBroadcast
<1>2. gone \in BroadcastRows /\ gone.live = FALSE
    BY DEF BroadcastRows
<1> HIDE DEF gone
<1>3. /\ Len(broadcasts) \in Nat /\ DOMAIN broadcasts = 1..Len(broadcasts) /\ broadcasts \in Seq(BroadcastRows)
      /\ Live = {i \in 1..Len(broadcasts) : broadcasts[i].live}
      /\ Active = {i \in 1..Len(broadcasts) : broadcasts[i].live /\ broadcasts[i].active}
    BY <1>0, LiveRows DEF BroadcastsTyped
<1>4. /\ broadcasts' \in Seq(BroadcastRows) /\ Len(broadcasts') = Len(broadcasts)
      /\ DOMAIN broadcasts' = 1..Len(broadcasts) /\ id \in 1..Len(broadcasts) /\ broadcasts'[id] = gone
      /\ \A i \in 1..Len(broadcasts) : i # id => broadcasts'[i] = broadcasts[i]
    BY <1>1, <1>2, <1>3
<1>5. Live' = Live \ {id}
    BY <1>2, <1>3, <1>4 DEF Live
<1>6. Active' = {i \in Live' : broadcasts'[i].active}
    BY DEF Active
<1>7. Active' = Active \ {id}
    BY <1>3, <1>4, <1>5, <1>6
<1>8. BroadcastsTyped'
    <2>1. seen' \subseteq Readers \X Live'
        BY <1>0, <1>1, <1>5 DEF BroadcastsTyped
    <2>2. EditRequests' = EditRequests
        BY <1>4 DEF EditRequests
    <2>3. onlyActive' \in 0..Len(broadcasts')
        BY <1>0, <1>1, <1>3, <1>4 DEF BroadcastsTyped
    <2> QED BY <1>0, <1>1, <1>4, <2>1, <2>2, <2>3 DEF BroadcastsTyped
<1>9. LoneEdit' /\ OthersAreCleared'
    BY <1>1, <1>7 DEF BroadcastInv, LoneEdit, OthersAreCleared
<1>10. LastIsActive'
    BY <1>1, <1>4, <1>7 DEF BroadcastInv, LastIsActive
<1> QED BY <1>8, <1>9, <1>10 DEF BroadcastInv

LEMMA PopupMoves ==
    ASSUME BroadcastInv, NEW u \in Readers, ShowPopup(u) \/ DismissPopup(u) PROVE BroadcastInv'
<1>0. BroadcastsTyped
    BY DEF BroadcastInv
<1>1. /\ broadcasts' = broadcasts /\ editorCall' = editorCall /\ editsCrossed' = editsCrossed
      /\ onlyActive' = onlyActive
    BY DEF ShowPopup, DismissPopup
<1>2. Live' = Live /\ Active' = Active /\ EditRequests' = EditRequests
    BY <1>1 DEF Live, Active, EditRequests
<1>3. Len(broadcasts) \in Nat /\ Active \subseteq 0..Len(broadcasts) /\ Live \subseteq 1..Len(broadcasts)
    BY <1>0, LiveRows
<1>4. popup' \in [Readers -> 0..Len(broadcasts)] /\ seen' \subseteq Readers \X Live
    <2>1. CASE ShowPopup(u)
        <3> DEFINE unseen == {i \in Active : <<u, i>> \notin seen}
                   shown == IF unseen = {} THEN 0 ELSE Max(unseen)
        <3>1. popup' = [popup EXCEPT ![u] = shown] /\ seen' = seen
            BY <2>1 DEF ShowPopup
        <3>2. unseen \subseteq 0..Len(broadcasts)
            BY <1>3
        <3> HIDE DEF unseen
        <3>3. shown \in 0..Len(broadcasts)
            <4>1. CASE unseen = {}
                BY <4>1, <1>3
            <4>2. CASE unseen # {}
                BY <4>2, <3>2, <1>3, MaxIsThere
            <4> QED BY <4>1, <4>2
        <3> HIDE DEF shown
        <3> QED BY <3>1, <3>3, <1>0 DEF BroadcastsTyped
    <2>2. CASE DismissPopup(u)
        <3>1. /\ popup' = [popup EXCEPT ![u] = 0]
              /\ seen' = IF popup[u] \in Live THEN seen \cup {<<u, popup[u]>>} ELSE seen
            BY <2>2 DEF DismissPopup
        <3>2. 0 \in 0..Len(broadcasts)
            BY <1>3
        <3> QED BY <3>1, <3>2, <1>0 DEF BroadcastsTyped
    <2> QED BY <2>1, <2>2
<1>5. BroadcastsTyped'
    BY <1>0, <1>1, <1>2, <1>4 DEF BroadcastsTyped
<1>6. LoneEdit' /\ LastIsActive' /\ OthersAreCleared'
    BY <1>1, <1>2 DEF BroadcastInv, LoneEdit, LastIsActive, OthersAreCleared
<1> QED BY <1>5, <1>6 DEF BroadcastInv

LEMMA BroadcastsRest ==
    ASSUME BroadcastInv, UNCHANGED broadcastVars PROVE BroadcastInv'
BY DEF BroadcastInv, BroadcastsTyped, LoneEdit, LastIsActive, OthersAreCleared, broadcastVars, Live, Active, EditRequests

-----------------------------------------------------------------------------

LEMMA BannerStored ==
    ASSUME PublishedTyped, NEW b \in BannerRows
    PROVE  /\ StoreBanner(b) \in BannerRows /\ StoreBanner(b).live = b.live
           /\ StoreBanner(b).startsAt = b.startsAt - serverZone /\ StoreBanner(b).endsAt = b.endsAt - serverZone
<1>1. b.startsAt \in Int /\ b.endsAt \in Int /\ serverZone \in Int
    BY DEF PublishedTyped, BannerRows
<1> DEFINE s == b.startsAt - serverZone
           e == b.endsAt - serverZone
<1>2. s \in Int /\ e \in Int
    BY <1>1
<1>3. StoreBanner(b) = [[b EXCEPT !.startsAt = s] EXCEPT !.endsAt = e]
    BY DEF StoreBanner, ParseInZone, BannerRows
<1> HIDE DEF s, e
<1>4. /\ StoreBanner(b) \in BannerRows /\ StoreBanner(b).startsAt = s /\ StoreBanner(b).endsAt = e
      /\ StoreBanner(b).live = b.live
    BY <1>2, <1>3 DEF BannerRows
<1> QED BY <1>4 DEF s, e

LEMMA BannerShown ==
    ASSUME NEW b \in BannerRows
    PROVE  /\ BannerForm(b) \in BannerRows /\ BannerForm(b).live = b.live
           /\ BannerForm(b).startsAt = b.startsAt /\ BannerForm(b).endsAt = b.endsAt
<1>1. b.startsAt \in Int /\ b.endsAt \in Int
    BY DEF BannerRows
<1>2. b.startsAt + 0 = b.startsAt /\ b.endsAt + 0 = b.endsAt
    BY <1>1
<1>3. BannerForm(b) = [[b EXCEPT !.startsAt = b.startsAt] EXCEPT !.endsAt = b.endsAt]
    BY <1>2 DEF BannerForm, Digits, BannerRows
<1> QED BY <1>1, <1>3 DEF BannerRows

LEMMA EventIsSent ==
    ASSUME PublishedTyped, NEW w \in OfferWindows
    PROVE  /\ EventSent(w) \in OfferWindows
           /\ EventSent(w).startsAt = w.startsAt - browserZone /\ EventSent(w).endsAt = w.endsAt - browserZone
<1>1. w.startsAt \in Int /\ w.endsAt \in Int /\ browserZone \in Int
    BY DEF PublishedTyped, OfferWindows
<1> DEFINE s == w.startsAt - browserZone
           e == w.endsAt - browserZone
<1>2. s \in Int /\ e \in Int
    BY <1>1
<1>3. EventSent(w) = [[w EXCEPT !.startsAt = s] EXCEPT !.endsAt = e]
    BY DEF EventSent, ParseInZone, OfferWindows
<1> HIDE DEF s, e
<1>4. /\ EventSent(w) \in OfferWindows /\ EventSent(w).startsAt = s /\ EventSent(w).endsAt = e
    BY <1>2, <1>3 DEF OfferWindows
<1> QED BY <1>4 DEF s, e

LEMMA EventShown ==
    ASSUME NEW w \in OfferWindows
    PROVE  /\ EventForm(w) \in OfferWindows
           /\ EventForm(w).startsAt = w.startsAt /\ EventForm(w).endsAt = w.endsAt
<1>1. w.startsAt \in Int /\ w.endsAt \in Int
    BY DEF OfferWindows
<1>2. w.startsAt + 0 = w.startsAt /\ w.endsAt + 0 = w.endsAt
    BY <1>1
<1>3. EventForm(w) = [[w EXCEPT !.startsAt = w.startsAt] EXCEPT !.endsAt = w.endsAt]
    BY <1>2 DEF EventForm, Digits, OfferWindows
<1> QED BY <1>1, <1>3 DEF OfferWindows

(* A window that was moved whole is as long as before.                       *)
LEMMA WindowMoves ==
    ASSUME PublishedTyped, NEW w, NEW v, NEW z \in Int, z = serverZone \/ z = browserZone,
           w.startsAt \in Int, w.endsAt \in Int, WindowKept(w),
           v.startsAt = w.startsAt - z, v.endsAt = w.endsAt - z
    PROVE  WindowKept(v)
<1>1. PICK t \in typedWindows : w.endsAt - w.startsAt = t[2] - t[1]
    BY DEF WindowKept
<1>2. v.endsAt - v.startsAt = w.endsAt - w.startsAt
    OBVIOUS
<1>3. ASSUME serverZone = 0, browserZone = 0 PROVE <<v.startsAt, v.endsAt>> \in typedWindows
    <2>1. v.startsAt = w.startsAt /\ v.endsAt = w.endsAt
        BY <1>3
    <2> QED BY <1>3, <2>1 DEF WindowKept
<1> QED BY <1>1, <1>2, <1>3 DEF WindowKept

(* What is typed is a window that was typed, whatever is done with it later. *)
LEMMA WindowTyped ==
    ASSUME PublishedTyped, NEW w, w.startsAt \in Int, w.endsAt \in Int, serverZone' = serverZone, browserZone' = browserZone,
           typedWindows' = typedWindows \cup {<<w.startsAt, w.endsAt>>}
    PROVE  /\ typedWindows' \subseteq Int \X Int
           /\ \E t \in typedWindows' : w.endsAt - w.startsAt = t[2] - t[1]
           /\ <<w.startsAt, w.endsAt>> \in typedWindows'
<1> DEFINE t == <<w.startsAt, w.endsAt>>
<1>1. t \in Int \X Int /\ t[1] = w.startsAt /\ t[2] = w.endsAt
    OBVIOUS
<1> HIDE DEF t
<1>2. t \in typedWindows' /\ typedWindows' \subseteq Int \X Int
    BY <1>1 DEF t, PublishedTyped
<1> QED BY <1>1, <1>2 DEF t

(* Pages that only keep or load what there is: nothing is published.         *)
LEMMA KeptStays ==
    ASSUME UNCHANGED zones, typedWindows \subseteq typedWindows', NEW w, WindowKept(w)
    PROVE  /\ \E t \in typedWindows' : w.endsAt - w.startsAt = t[2] - t[1]
           /\ serverZone' = 0 /\ browserZone' = 0 => <<w.startsAt, w.endsAt>> \in typedWindows'
BY DEF WindowKept, zones

LEMMA BannerPublished ==
    ASSUME PublishedInv, NEW b \in BannerRows, banner' = b,
           UNCHANGED <<zones, offerWindow, entry, creator, copy>>,
           typedWindows' \subseteq Int \X Int, typedWindows \subseteq typedWindows',
           b.live => /\ \E t \in typedWindows' : b.endsAt - b.startsAt = t[2] - t[1]
                     /\ serverZone' = 0 /\ browserZone' = 0 => <<b.startsAt, b.endsAt>> \in typedWindows'
    PROVE  PublishedInv'
<1>1. PublishedTyped'
    BY DEF PublishedInv, PublishedTyped, zones
<1>2. WindowKept(offerWindow)'
    BY KeptStays DEF PublishedInv, WindowsAreKept, WindowKept
<1>3. banner'.live => WindowKept(banner)'
    BY DEF WindowKept
<1>4. \A a \in Editors : WindowKept(copy[a].offer)' /\ (copy[a].banner.live => WindowKept(copy[a].banner)')
    BY KeptStays DEF PublishedInv, WindowsAreKept, WindowKept
<1>5. EntriesAreLabelled' /\ ChannelsAreCreators'
    BY DEF PublishedInv, EntriesAreLabelled, ChannelsAreCreators
<1> QED BY <1>1, <1>2, <1>3, <1>4, <1>5 DEF PublishedInv, WindowsAreKept

LEMMA EventPublished ==
    ASSUME PublishedInv, NEW w \in OfferWindows, offerWindow' = w,
           UNCHANGED <<zones, banner, entry, creator, copy>>,
           typedWindows' \subseteq Int \X Int, typedWindows \subseteq typedWindows',
           \E t \in typedWindows' : w.endsAt - w.startsAt = t[2] - t[1],
           serverZone' = 0 /\ browserZone' = 0 => <<w.startsAt, w.endsAt>> \in typedWindows'
    PROVE  PublishedInv'
<1>1. PublishedTyped'
    BY DEF PublishedInv, PublishedTyped, zones
<1>2. WindowKept(offerWindow)'
    BY DEF WindowKept
<1>3. banner.live => WindowKept(banner)'
    BY KeptStays DEF PublishedInv, WindowsAreKept, WindowKept
<1>4. \A a \in Editors : WindowKept(copy[a].offer)' /\ (copy[a].banner.live => WindowKept(copy[a].banner)')
    BY KeptStays DEF PublishedInv, WindowsAreKept, WindowKept
<1>5. EntriesAreLabelled' /\ ChannelsAreCreators'
    BY DEF PublishedInv, EntriesAreLabelled, ChannelsAreCreators
<1> QED BY <1>1, <1>2, <1>3, <1>4, <1>5 DEF PublishedInv, WindowsAreKept

(* Entries and creators are written beside the windows.                      *)
LEMMA OthersPublished ==
    ASSUME PublishedInv, UNCHANGED <<zones, banner, offerWindow, copy, typedWindows>>,
           entry' \in EntryRows, creator' \in CreatorRows, EntriesAreLabelled', ChannelsAreCreators'
    PROVE  PublishedInv'
BY DEF PublishedInv, PublishedTyped, WindowsAreKept, WindowKept, zones

LEMMA CopiesTyped ==
    ASSUME PublishedTyped, NEW a \in Editors
    PROVE  /\ copy[a].banner \in BannerRows /\ copy[a].offer \in OfferWindows /\ copy[a].entry \in EntryRows
           /\ copy[a].banner.live \in BOOLEAN
           /\ {copy[a].banner.startsAt, copy[a].banner.endsAt, copy[a].offer.startsAt, copy[a].offer.endsAt} \subseteq Int
<1>1. copy[a].banner \in BannerRows /\ copy[a].offer \in OfferWindows /\ copy[a].entry \in EntryRows
    BY DEF PublishedTyped
<1> QED BY <1>1 DEF BannerRows, OfferWindows

LEMMA PageLoaded ==
    ASSUME PublishedInv, NEW a \in Editors, LoadPage(a) PROVE PublishedInv'
<1>1. /\ UNCHANGED <<zones, banner, offerWindow, entry, creator, typedWindows>>
      /\ copy' = [copy EXCEPT ![a] = Listed]
    BY DEF LoadPage
<1>2. /\ Listed \in [banner : BannerRows, offer : OfferWindows, entry : EntryRows, creator : CreatorRows]
      /\ Listed.banner = banner /\ Listed.offer = offerWindow
    BY DEF PublishedInv, PublishedTyped, Listed
<1>3. PublishedTyped'
    BY <1>1, <1>2 DEF PublishedInv, PublishedTyped, zones
<1>4. \A b \in Editors : copy'[b] = copy[b] \/ (copy'[b].banner = banner /\ copy'[b].offer = offerWindow)
    BY <1>1, <1>2 DEF PublishedInv, PublishedTyped
<1>5. WindowsAreKept'
    BY <1>1, <1>4 DEF PublishedInv, WindowsAreKept, WindowKept, zones
<1>6. EntriesAreLabelled' /\ ChannelsAreCreators'
    BY <1>1 DEF PublishedInv, EntriesAreLabelled, ChannelsAreCreators
<1> QED BY <1>3, <1>5, <1>6 DEF PublishedInv

LEMMA BannerSteps ==
    ASSUME PublishedInv,
           \/ \E s, e \in Typed : CreateBanner(s, e)
           \/ \E a \in Editors : SaveBanner(a) \/ ToggleBanner(a)
           \/ DeleteBanner
    PROVE  PublishedInv'
<1>0. PublishedTyped /\ serverZone \in Int /\ typedWindows \subseteq Int \X Int
    BY DEF PublishedInv, PublishedTyped
<1>1. ASSUME NEW s \in Typed, NEW e \in Typed, CreateBanner(s, e) PROVE PublishedInv'
    <2> DEFINE typed == [live |-> TRUE, startsAt |-> s, endsAt |-> e, active |-> TRUE]
               windowed == StoreBanner(typed)
    <2>1. typed \in BannerRows
        BY ContentAssumption DEF BannerRows
    <2>2. banner' = windowed /\ typedWindows' = typedWindows \cup {<<windowed.startsAt, windowed.endsAt>>}
          /\ UNCHANGED <<zones, offerWindow, entry, creator, copy>>
        BY <1>1 DEF CreateBanner
    <2> HIDE DEF typed
    <2>3. windowed \in BannerRows
        BY <2>1, <1>0, BannerStored
    <2> HIDE DEF windowed
    <2>4. windowed.startsAt \in Int /\ windowed.endsAt \in Int
        BY <2>3 DEF BannerRows
    <2> QED BY <1>0, <2>2, <2>3, <2>4, WindowTyped, BannerPublished DEF zones
<1>2. ASSUME NEW a \in Editors, SaveBanner(a) PROVE PublishedInv'
    <2> DEFINE shown == BannerForm(copy[a].banner)
               windowed == StoreBanner(shown)
    <2>1. copy[a].banner \in BannerRows /\ {copy[a].banner.startsAt, copy[a].banner.endsAt} \subseteq Int
        BY <1>0, CopiesTyped
    <2>2. banner' = windowed /\ UNCHANGED <<zones, offerWindow, entry, creator, copy, typedWindows>> /\ copy[a].banner.live
        BY <1>2 DEF SaveBanner
    <2>3. shown \in BannerRows /\ shown.startsAt = copy[a].banner.startsAt /\ shown.endsAt = copy[a].banner.endsAt
        BY <2>1, BannerShown
    <2> HIDE DEF shown
    <2>4. /\ windowed \in BannerRows /\ windowed.startsAt = copy[a].banner.startsAt - serverZone
          /\ windowed.endsAt = copy[a].banner.endsAt - serverZone
        BY <2>3, <1>0, BannerStored
    <2> HIDE DEF windowed
    <2>5. WindowKept(copy[a].banner)
        BY <2>2 DEF PublishedInv, WindowsAreKept
    <2>6. WindowKept(windowed)
        BY <1>0, <2>1, <2>4, <2>5, WindowMoves
    <2> QED BY <1>0, <2>2, <2>4, <2>6, KeptStays, BannerPublished
<1>3. ASSUME NEW a \in Editors, ToggleBanner(a) PROVE PublishedInv'
    <2> DEFINE toggled == [copy[a].banner EXCEPT !.active = ~copy[a].banner.active]
    <2>1. copy[a].banner \in BannerRows
        BY <1>0, CopiesTyped
    <2>2. banner' = toggled /\ UNCHANGED <<zones, offerWindow, entry, creator, copy, typedWindows>> /\ copy[a].banner.live
        BY <1>3 DEF ToggleBanner
    <2>3. /\ toggled \in BannerRows /\ toggled.startsAt = copy[a].banner.startsAt
          /\ toggled.endsAt = copy[a].banner.endsAt
        BY <2>1 DEF BannerRows
    <2> HIDE DEF toggled
    <2>4. WindowKept(copy[a].banner)
        BY <2>2 DEF PublishedInv, WindowsAreKept
    <2>5. WindowKept(toggled)
        BY <2>3, <2>4 DEF WindowKept
    <2> QED BY <1>0, <2>2, <2>3, <2>5, KeptStays, BannerPublished
<1>4. ASSUME DeleteBanner PROVE PublishedInv'
    <2>1. banner' = Absent /\ UNCHANGED <<zones, offerWindow, entry, creator, copy, typedWindows>>
        BY <1>4 DEF DeleteBanner
    <2>2. Absent \in BannerRows /\ ~Absent.live
        BY DEF Absent, BannerRows
    <2> QED BY <1>0, <2>1, <2>2, BannerPublished
<1> QED BY <1>1, <1>2, <1>3, <1>4

LEMMA EventSteps ==
    ASSUME PublishedInv,
           \/ \E s, e \in Typed : RetypeEvent(s, e)
           \/ \E a \in Editors : SaveEvent(a)
    PROVE  PublishedInv'
<1>0. PublishedTyped /\ browserZone \in Int /\ typedWindows \subseteq Int \X Int
    BY DEF PublishedInv, PublishedTyped
<1>1. ASSUME NEW s \in Typed, NEW e \in Typed, RetypeEvent(s, e) PROVE PublishedInv'
    <2> DEFINE typed == [startsAt |-> s, endsAt |-> e]
               sent == EventSent(typed)
    <2>1. typed \in OfferWindows
        BY ContentAssumption DEF OfferWindows
    <2>2. offerWindow' = sent /\ typedWindows' = typedWindows \cup {<<sent.startsAt, sent.endsAt>>}
          /\ UNCHANGED <<zones, banner, entry, creator, copy>>
        BY <1>1 DEF RetypeEvent, StoreEvent
    <2> HIDE DEF typed
    <2>3. sent \in OfferWindows
        BY <2>1, <1>0, EventIsSent
    <2> HIDE DEF sent
    <2>4. sent.startsAt \in Int /\ sent.endsAt \in Int
        BY <2>3 DEF OfferWindows
    <2> QED BY <1>0, <2>2, <2>3, <2>4, WindowTyped, EventPublished DEF zones
<1>2. ASSUME NEW a \in Editors, SaveEvent(a) PROVE PublishedInv'
    <2> DEFINE shown == EventForm(copy[a].offer)
               sent == EventSent(shown)
    <2>1. copy[a].offer \in OfferWindows /\ {copy[a].offer.startsAt, copy[a].offer.endsAt} \subseteq Int
        BY <1>0, CopiesTyped
    <2>2. offerWindow' = sent /\ UNCHANGED <<zones, banner, entry, creator, copy, typedWindows>>
        BY <1>2 DEF SaveEvent, StoreEvent
    <2>3. shown \in OfferWindows /\ shown.startsAt = copy[a].offer.startsAt /\ shown.endsAt = copy[a].offer.endsAt
        BY <2>1, EventShown
    <2> HIDE DEF shown
    <2>4. /\ sent \in OfferWindows /\ sent.startsAt = copy[a].offer.startsAt - browserZone
          /\ sent.endsAt = copy[a].offer.endsAt - browserZone
        BY <2>3, <1>0, EventIsSent
    <2> HIDE DEF sent
    <2>5. WindowKept(copy[a].offer)
        BY DEF PublishedInv, WindowsAreKept
    <2>6. WindowKept(sent)
        BY <1>0, <2>1, <2>4, <2>5, WindowMoves
    <2> QED BY <1>0, <2>2, <2>4, <2>6, KeptStays, EventPublished
<1> QED BY <1>1, <1>2

LEMMA EntrySteps ==
    ASSUME PublishedInv,
           \/ \E type \in {"expense", "income"}, c \in ExpenseCategories, i \in IncomeCategories : CreateEntry(type, c, i)
           \/ \E a \in Editors : \E type \in {"expense", "income"} : SaveEntry(a, type)
    PROVE  PublishedInv'
<1>0. PublishedTyped /\ creator \in CreatorRows
    BY DEF PublishedInv, PublishedTyped
<1>s. ASSUME UNCHANGED <<zones, banner, offerWindow, creator, copy, typedWindows>>, entry' \in EntryRows, EntriesAreLabelled'
      PROVE  PublishedInv'
    BY <1>0, <1>s, OthersPublished DEF PublishedInv, ChannelsAreCreators
<1>1. ASSUME NEW type \in {"expense", "income"}, NEW c \in ExpenseCategories, NEW i \in IncomeCategories,
             CreateEntry(type, c, i)
      PROVE  PublishedInv'
    <2>1. /\ UNCHANGED <<zones, banner, offerWindow, creator, copy, typedWindows>>
          /\ entry' = [type |-> type, category |-> IF type = "expense" THEN c ELSE "misc",
                       income |-> IF type = "income" THEN i ELSE NotSet]
        BY <1>1 DEF CreateEntry
    <2>2. entry' \in EntryRows /\ EntriesAreLabelled'
        BY <2>1 DEF EntryRows, EntriesAreLabelled, ExpenseCategories
    <2> QED BY <1>s, <2>1, <2>2
<1>2. ASSUME NEW a \in Editors, NEW type \in {"expense", "income"}, SaveEntry(a, type) PROVE PublishedInv'
    <2> DEFINE shown == EntryForm(copy[a].entry)
    <2>1. /\ UNCHANGED <<zones, banner, offerWindow, creator, copy, typedWindows>>
          /\ entry' = [shown EXCEPT !.type = type]
        BY <1>2 DEF SaveEntry, StoreEntry
    <2>2. shown \in EntryRows /\ shown.income \in IncomeCategories
        <3>1. copy[a].entry \in EntryRows
            BY <1>0, CopiesTyped
        <3> QED BY <3>1 DEF EntryRows, EntryForm, IncomeCategories, NotSet
    <2> HIDE DEF shown
    <2>3. entry' \in EntryRows /\ EntriesAreLabelled'
        BY <2>1, <2>2 DEF EntryRows, EntriesAreLabelled
    <2> QED BY <1>s, <2>1, <2>3
<1> QED BY <1>1, <1>2

LEMMA CreatorSteps ==
    ASSUME PublishedInv, RemoveCreator \/ \E url \in {NotSet, "channel"} : UpsertCreator(url) PROVE PublishedInv'
<1>1. UNCHANGED <<zones, banner, offerWindow, entry, copy, typedWindows>>
    BY DEF RemoveCreator, UpsertCreator
<1>2. \/ creator' = [isCreator |-> FALSE, url |-> NotSet]
      \/ \E url \in {NotSet, "channel"} : creator' = [isCreator |-> TRUE, url |-> url]
    BY DEF RemoveCreator, UpsertCreator
<1>4. creator' \in CreatorRows
    <2>1. \A url \in {NotSet, "channel"} : \A is \in BOOLEAN : [isCreator |-> is, url |-> url] \in CreatorRows
        BY DEF CreatorRows
    <2> QED BY <1>2, <2>1
<1>5. ChannelsAreCreators'
    BY <1>2 DEF ChannelsAreCreators
<1>3. entry' \in EntryRows /\ EntriesAreLabelled'
    BY <1>1 DEF PublishedInv, PublishedTyped, EntriesAreLabelled
<1> QED BY <1>1, <1>3, <1>4, <1>5, OthersPublished

LEMMA PublishedRests ==
    ASSUME PublishedInv, UNCHANGED <<zones, banner, offerWindow, entry, creator, copy, typedWindows>> PROVE PublishedInv'
BY DEF PublishedInv, PublishedTyped, WindowsAreKept, WindowKept, EntriesAreLabelled, ChannelsAreCreators, zones

LEMMA ContentStep ==
    ASSUME BroadcastInv, PublishedInv, [ContentNext]_contentVars PROVE BroadcastInv' /\ PublishedInv'
<1>0. Len(broadcasts) \in Nat /\ DOMAIN broadcasts = 1..Len(broadcasts)
    BY LiveRows DEF BroadcastInv
<1>1. ASSUME NEW a \in Editors, NEW active \in BOOLEAN,
             PostBroadcast(a, active) \/ \E id \in DOMAIN broadcasts : PatchBroadcast(a, id, active)
      PROVE  BroadcastInv' /\ PublishedInv'
    <2>1. PICK id \in 0..Len(broadcasts) : AskBroadcast(a, id, active)
        BY <1>0, <1>1 DEF PostBroadcast, PatchBroadcast
    <2> QED BY <2>1, BroadcastAsked, PublishedRests DEF AskBroadcast
<1>2. ASSUME NEW a \in Editors, Deactivate(a) PROVE BroadcastInv' /\ PublishedInv'
    BY <1>2, BroadcastDeactivated, PublishedRests DEF Deactivate
<1>3. ASSUME NEW a \in Editors, WriteBroadcast(a) PROVE BroadcastInv' /\ PublishedInv'
    BY <1>3, BroadcastWritten, PublishedRests DEF WriteBroadcast
<1>4. ASSUME NEW a \in Editors, NEW id \in DOMAIN broadcasts, RemoveBroadcast(a, id) PROVE BroadcastInv' /\ PublishedInv'
    BY <1>4, BroadcastRemoved, PublishedRests DEF RemoveBroadcast
<1>5. ASSUME NEW u \in Readers, ShowPopup(u) \/ DismissPopup(u) PROVE BroadcastInv' /\ PublishedInv'
    BY <1>5, PopupMoves, PublishedRests DEF ShowPopup, DismissPopup
<1>6. ASSUME NEW a \in Editors, LoadPage(a) PROVE BroadcastInv' /\ PublishedInv'
    BY <1>6, PageLoaded, BroadcastsRest DEF LoadPage
<1>7. ASSUME NEW a \in Editors, SaveBanner(a) \/ ToggleBanner(a) PROVE BroadcastInv' /\ PublishedInv'
    BY <1>7, BannerSteps, BroadcastsRest DEF SaveBanner, ToggleBanner
<1>8. ASSUME NEW s \in Typed, NEW e \in Typed, CreateBanner(s, e) PROVE BroadcastInv' /\ PublishedInv'
    BY <1>8, BannerSteps, BroadcastsRest DEF CreateBanner
<1>9. ASSUME DeleteBanner PROVE BroadcastInv' /\ PublishedInv'
    BY <1>9, BannerSteps, BroadcastsRest DEF DeleteBanner
<1>10. ASSUME NEW a \in Editors, SaveEvent(a) PROVE BroadcastInv' /\ PublishedInv'
    BY <1>10, EventSteps, BroadcastsRest DEF SaveEvent, StoreEvent
<1>11. ASSUME NEW s \in Typed, NEW e \in Typed, RetypeEvent(s, e) PROVE BroadcastInv' /\ PublishedInv'
    BY <1>11, EventSteps, BroadcastsRest DEF RetypeEvent, StoreEvent
<1>12. ASSUME NEW type \in {"expense", "income"}, NEW c \in ExpenseCategories, NEW i \in IncomeCategories,
              CreateEntry(type, c, i)
       PROVE  BroadcastInv' /\ PublishedInv'
    BY <1>12, EntrySteps, BroadcastsRest DEF CreateEntry
<1>13. ASSUME NEW a \in Editors, NEW type \in {"expense", "income"}, SaveEntry(a, type) PROVE BroadcastInv' /\ PublishedInv'
    BY <1>13, EntrySteps, BroadcastsRest DEF SaveEntry
<1>14. ASSUME RemoveCreator \/ \E url \in {NotSet, "channel"} : UpsertCreator(url) PROVE BroadcastInv' /\ PublishedInv'
    BY <1>14, CreatorSteps, BroadcastsRest DEF RemoveCreator, UpsertCreator
<1>15. CASE UNCHANGED contentVars
    BY <1>15, BroadcastsRest, PublishedRests DEF contentVars, broadcastVars, zones
<1> QED BY <1>1, <1>2, <1>3, <1>4, <1>5, <1>6, <1>7, <1>8, <1>9, <1>10, <1>11, <1>12, <1>13, <1>14, <1>15 DEF ContentNext

(* For any number of administrators and readers, any zones and any digits   *)
(* typed: one broadcast is active unless two requests crossed, a window     *)
(* keeps the length it was typed with however often it is saved from an old *)
(* copy, and is one that was typed where digits are read in UTC.            *)
THEOREM ContentHolds == ContentSpec => []ContentSafe
<1>1. ASSUME BroadcastInv, PublishedInv PROVE ContentSafe
    <2>1. BroadcastsTyped /\ PublishedTyped
        BY <1>1 DEF BroadcastInv, PublishedInv
    <2>2. ContentTypeOK
        <3>1. \A i \in DOMAIN broadcasts : broadcasts[i] \in [live : BOOLEAN, active : BOOLEAN]
            BY <2>1, LiveRows DEF BroadcastRows
        <3>2. {banner.startsAt, banner.endsAt, offerWindow.startsAt, offerWindow.endsAt} \subseteq Int
            BY <2>1 DEF PublishedTyped, BannerRows, OfferWindows
        <3>3. creator.isCreator \in BOOLEAN
            BY <2>1 DEF PublishedTyped, CreatorRows
        <3> QED BY <2>1, <3>1, <3>2, <3>3 DEF ContentTypeOK, BroadcastsTyped
    <2>3. OneActive
        BY <1>1 DEF BroadcastInv, LastIsActive, OneActive
    <2>4. WindowsKeepTheirLength
        BY <1>1 DEF PublishedInv, WindowsAreKept, WindowKept, WindowsKeepTheirLength
    <2> QED BY <1>1, <2>2, <2>3, <2>4 DEF PublishedInv, ContentSafe
<1>2. BroadcastInv /\ PublishedInv => ContentSafe
    BY <1>1
<1>3. ContentInit => BroadcastInv /\ PublishedInv
    BY ContentInitially
<1>4. BroadcastInv /\ PublishedInv /\ [ContentNext]_contentVars => BroadcastInv' /\ PublishedInv'
    BY ContentStep
<1> QED BY <1>2, <1>3, <1>4, PTL DEF ContentSpec

-----------------------------------------------------------------------------
(* What is written, for any number of users, requests and rows and for any   *)
(* sizes of the pages.                                                       *)

ChatRows == [by : Talkers, reply : Nat]
PrivateRows == [from : Talkers, to : Talkers, read : BOOLEAN]
NoticeRows == [user : Talkers, about : Nat, read : BOOLEAN]
SupportRows == [user : Talkers \cup {Visitor}, read : BOOLEAN, replied : BOOLEAN, thread : Seq(Talkers \cup {"admin"})]
TalkRequests ==
    [pc : {"idle", "notify", "read", "received", "mark"}, user : Talkers \cup {Visitor},
     with : Talkers \cup {Visitor}, row : Nat, found : SUBSET Nat]

WrittenTyped ==
    /\ chat \in Seq(ChatRows) /\ \A i \in 1..Len(chat) : chat[i].reply <= i - 1
    /\ private \in Seq(PrivateRows)
    /\ notice \in Seq(NoticeRows) /\ \A a \in 1..Len(notice) : notice[a].about \in 1..Len(private)
    /\ support \in Seq(SupportRows)
    /\ talkCall \in [TalkCalls -> TalkRequests]
    /\ listed \in [Talkers -> SUBSET Nat] /\ late \subseteq Nat

\* A message that is beyond its page, was listed, or came too late to be.
OnPage(i) == i \in Oldest(Conversation(private[i].from, private[i].to), PageSize)
Shown(i) == i \in listed[private[i].to] \cup late \/ ~OnPage(i)

\* A request that is about to mark messages has shown them.
ListIsShown ==
    \A k \in TalkCalls :
        LET c == talkCall[k]
        IN  c.pc = "read" =>
              /\ c.user \in Talkers /\ c.with \in Talkers
              /\ \A i \in 1..Len(private) : private[i].from = c.with /\ private[i].to = c.user => Shown(i)

\* A message waits for its notification in one request, or has one, or lost it.
Notified(i) == \E a \in 1..Len(notice) : notice[a].about = i
AwaitsNotice(k, i) == talkCall[k].pc = "notify" /\ talkCall[k].row = i
OneNoticeEach ==
    /\ \A k \in TalkCalls : talkCall[k].pc = "notify" =>
         /\ talkCall[k].row \in 1..Len(private) /\ talkCall[k].with = private[talkCall[k].row].to
         /\ ~Notified(talkCall[k].row)
         /\ \A other \in TalkCalls : AwaitsNotice(other, talkCall[k].row) => other = k
    /\ \A a, b \in 1..Len(notice) : notice[a].about = notice[b].about => a = b
    /\ \A a \in 1..Len(notice) : notice[a].user = private[notice[a].about].to
    /\ \A i \in 1..Len(private) : i \in unannounced \/ Notified(i) \/ \E k \in TalkCalls : AwaitsNotice(k, i)

\* A list of conversations half made has what the user had sent.
HalfListed ==
    \A k \in TalkCalls :
        LET c == talkCall[k]
        IN  c.pc = "received" =>
              /\ c.row <= Len(private) /\ c.found \subseteq 1..Len(private)
              /\ \A i \in 1..c.row : private[i].from = c.user => i \in c.found

ListingsArePast == \A l \in listings : l.since \in 0..Len(private)

\* A ticket about to be marked is there and was shown.
MarksWereOpened ==
    \A k \in TalkCalls : talkCall[k].pc = "mark" => talkCall[k].row \in 1..Len(support) \cap opened

TalkInv ==
    /\ WrittenTyped /\ ListIsShown /\ OneNoticeEach /\ HalfListed /\ ListingsArePast /\ MarksWereOpened
    /\ ReadWasShown /\ ListingIsComplete /\ RepliedHasReply /\ ReadTicketWasOpened

-----------------------------------------------------------------------------

LEMMA TalkKinds ==
    ASSUME WrittenTyped
    PROVE  /\ Len(chat) \in Nat /\ DOMAIN chat = 1..Len(chat) /\ \A i \in 1..Len(chat) : chat[i] \in ChatRows
           /\ Len(private) \in Nat /\ DOMAIN private = 1..Len(private)
           /\ \A i \in 1..Len(private) : private[i] \in PrivateRows
           /\ Len(notice) \in Nat /\ DOMAIN notice = 1..Len(notice)
           /\ \A i \in 1..Len(notice) : notice[i] \in NoticeRows
           /\ Len(support) \in Nat /\ DOMAIN support = 1..Len(support)
           /\ \A i \in 1..Len(support) : support[i] \in SupportRows
BY LenProperties, ElementOfSeq DEF WrittenTyped

(* A sequence that grows by an element of its kind.                          *)
LEMMA Grown ==
    ASSUME NEW S, NEW s \in Seq(S), NEW e \in S
    PROVE  /\ Append(s, e) \in Seq(S) /\ Len(Append(s, e)) = Len(s) + 1 /\ Len(s) \in Nat
           /\ \A i \in 1..Len(s) : i \in 1..(Len(s) + 1) /\ Append(s, e)[i] = s[i]
           /\ Append(s, e)[Len(s) + 1] = e
           /\ \A i \in 1..(Len(s) + 1) : i \in 1..Len(s) \/ i = Len(s) + 1
<1>1. Len(s) \in Nat
    BY LenProperties
<1>2. /\ Append(s, e) \in Seq(S) /\ Len(Append(s, e)) = Len(s) + 1
      /\ \A i \in 1..Len(s) : Append(s, e)[i] = s[i]
      /\ Append(s, e)[Len(s) + 1] = e
    BY AppendProperties
<1> QED BY <1>1, <1>2

(* A sequence whose elements are replaced, each by one of its kind.          *)
LEMMA Mapped ==
    ASSUME NEW S, NEW s \in Seq(S), NEW f \in [1..Len(s) -> S]
    PROVE  f \in Seq(S) /\ Len(f) = Len(s)
<1>1. Len(s) \in Nat
    BY LenProperties
<1>2. f \in Seq(S)
    BY <1>1, IsASeq
<1>3. DOMAIN f = 1..Len(f) /\ DOMAIN f = 1..Len(s) /\ Len(f) \in Nat
    BY <1>2, LenProperties
<1> QED BY <1>1, <1>2, <1>3

(* The elements of a thread that grows.                                      *)
LEMMA GrownSet ==
    ASSUME NEW S, NEW s \in Seq(S), NEW e \in S
    PROVE  ToSet(Append(s, e)) = ToSet(s) \cup {e}
<1>1. DOMAIN s = 1..Len(s) /\ DOMAIN Append(s, e) = 1..(Len(s) + 1)
    BY Grown, LenProperties
<1>2. /\ \A i \in 1..Len(s) : i \in 1..(Len(s) + 1) /\ Append(s, e)[i] = s[i]
      /\ Append(s, e)[Len(s) + 1] = e
      /\ \A i \in 1..(Len(s) + 1) : i \in 1..Len(s) \/ i = Len(s) + 1
      /\ Len(s) \in Nat
    BY Grown
<1>3. Len(s) + 1 \in 1..(Len(s) + 1)
    BY <1>2
<1> QED BY <1>1, <1>2, <1>3 DEF ToSet

(* Whether a message is on its page does not change with later messages or   *)
(* with marks.                                                               *)
LEMMA PagesStay ==
    ASSUME private \in Seq(PrivateRows), private' \in Seq(PrivateRows), Len(private) <= Len(private'),
           \A j \in 1..Len(private) : private'[j].from = private[j].from /\ private'[j].to = private[j].to
    PROVE  \A i \in 1..Len(private) : OnPage(i)' <=> OnPage(i)
<1> SUFFICES ASSUME NEW i \in 1..Len(private) PROVE OnPage(i)' <=> OnPage(i)
    OBVIOUS
<1>1. /\ Len(private) \in Nat /\ DOMAIN private = 1..Len(private)
      /\ Len(private') \in Nat /\ DOMAIN private' = 1..Len(private')
    BY LenProperties
<1>2. PICK u, v : u = private[i].from /\ v = private[i].to /\ u = private'[i].from /\ v = private'[i].to
    OBVIOUS
<1> DEFINE Is(s, j) == {s[j].from, s[j].to} = {u, v}
           C == {j \in DOMAIN private : Is(private, j)}
           D == {j \in DOMAIN private' : Is(private', j)}
<1> HIDE DEF Is
<1>3. ASSUME NEW j \in 1..Len(private) PROVE j \in C <=> j \in D
    <2>1. j \in DOMAIN private /\ j \in DOMAIN private'
        BY <1>1
    <2>2. Is(private, j) <=> Is(private', j)
        <3>1. private'[j].from = private[j].from /\ private'[j].to = private[j].to
            OBVIOUS
        <3> QED BY <3>1 DEF Is
    <2> QED BY <2>1, <2>2
<1>4. {j \in C : j < i} = {j \in D : j < i}
    <2>1. C \subseteq 1..Len(private) /\ D \subseteq 1..Len(private')
        BY <1>1
    <2> HIDE DEF C, D
    <2>2. ASSUME NEW j \in D, j < i PROVE j \in 1..Len(private)
        BY <1>1, <2>1, <2>2
    <2>3. ASSUME NEW j PROVE j \in {m \in C : m < i} <=> j \in {m \in D : m < i}
        BY <1>3, <2>1, <2>2
    <2> QED BY <2>3
<1>5. OnPage(i) <=> i \in C /\ Cardinality({j \in C : j < i}) < PageSize
    BY <1>2 DEF Is, OnPage, Oldest, Conversation, Rows
<1>6. OnPage(i)' <=> i \in D /\ Cardinality({j \in D : j < i}) < PageSize
    BY <1>2 DEF Is, OnPage, Oldest, Conversation, Rows
<1> HIDE DEF C, D
<1> QED BY <1>3, <1>4, <1>5, <1>6

(* A request goes on: its record is of its kind, the others stay.            *)
LEMMA TalkGoesOn ==
    ASSUME WrittenTyped, NEW k \in TalkCalls, NEW call \in TalkRequests, TalkGoes(k, call)
    PROVE  /\ talkCall' \in [TalkCalls -> TalkRequests] /\ talkCall'[k] = call
           /\ \A other \in TalkCalls \ {k} : talkCall'[other] = talkCall[other]
BY DEF WrittenTyped, TalkGoes

LEMMA NoTalkIsOne == NoTalk \in TalkRequests /\ NoTalk.pc = "idle"
BY DEF NoTalk, TalkRequests

LEMMA TalkInitially == MessageInit => TalkInv
<1> SUFFICES ASSUME MessageInit PROVE TalkInv
    OBVIOUS
<1>1. chat = <<>> /\ private = <<>> /\ notice = <<>> /\ support = <<>> /\ listings = {}
    BY DEF MessageInit
<1>2. Len(chat) = 0 /\ Len(private) = 0 /\ Len(notice) = 0 /\ Len(support) = 0
    BY <1>1, EmptySeq
<1>3. /\ chat \in Seq(ChatRows) /\ private \in Seq(PrivateRows) /\ notice \in Seq(NoticeRows)
      /\ support \in Seq(SupportRows)
    BY <1>1, EmptySeq
<1>4. DOMAIN private = 1..Len(private) /\ DOMAIN support = 1..Len(support)
    BY <1>3, LenProperties
<1>5. \A k \in TalkCalls : talkCall[k] = NoTalk
    BY DEF MessageInit
<1>6. \A i \in 1..0 : FALSE
    OBVIOUS
<1>7. WrittenTyped
    <2>1. talkCall \in [TalkCalls -> TalkRequests]
        BY NoTalkIsOne DEF MessageInit
    <2>2. listed \in [Talkers -> SUBSET Nat] /\ late \subseteq Nat
        BY DEF MessageInit
    <2> QED BY <1>2, <1>3, <1>6, <2>1, <2>2 DEF WrittenTyped
<1>8. ListIsShown /\ OneNoticeEach /\ HalfListed /\ MarksWereOpened
    BY <1>2, <1>5, <1>6, NoTalkIsOne DEF ListIsShown, OneNoticeEach, HalfListed, MarksWereOpened
<1>9. ListingsArePast /\ ReadWasShown /\ ListingIsComplete /\ RepliedHasReply /\ ReadTicketWasOpened
    BY <1>1, <1>2, <1>4, <1>6
       DEF ListingsArePast, ReadWasShown, ListingIsComplete, RepliedHasReply, ReadTicketWasOpened
<1> QED BY <1>7, <1>8, <1>9 DEF TalkInv

\* Private messages are not taken away, nor is it changed whose they are.
PrivateStay ==
    /\ private' \in Seq(PrivateRows) /\ Len(private) <= Len(private')
    /\ \A j \in 1..Len(private) : private'[j].from = private[j].from /\ private'[j].to = private[j].to

LEMMA UnchangedStays == WrittenTyped /\ UNCHANGED private => PrivateStay
BY TalkKinds DEF PrivateStay, WrittenTyped

(* The parts of the invariant about requests that list, as long as no        *)
(* request begins to and no message comes.                                   *)
LEMMA ShownKept ==
    ASSUME TalkInv, PrivateStay, Len(private') = Len(private), late' = late,
           \A u \in Talkers : listed[u] \subseteq listed'[u],
           \A k \in TalkCalls : talkCall'[k].pc = "read" => talkCall'[k] = talkCall[k]
    PROVE  ListIsShown'
<1>1. /\ Len(private) \in Nat /\ \A i \in 1..Len(private) : private[i] \in PrivateRows
      /\ \A i \in 1..Len(private) : OnPage(i)' <=> OnPage(i)
    BY TalkKinds, PagesStay DEF TalkInv, WrittenTyped, PrivateStay
<1>2. \A i \in 1..Len(private) : Shown(i) => Shown(i)'
    BY <1>1 DEF Shown, PrivateStay, PrivateRows
<1>3. \A i \in 1..Len(private) : private'[i].from = private[i].from /\ private'[i].to = private[i].to
    BY DEF PrivateStay
<1>4. SUFFICES ASSUME NEW k \in TalkCalls, talkCall'[k].pc = "read"
               PROVE  /\ talkCall'[k].user \in Talkers /\ talkCall'[k].with \in Talkers
                      /\ \A i \in 1..Len(private') :
                            private'[i].from = talkCall'[k].with /\ private'[i].to = talkCall'[k].user => Shown(i)'
    BY DEF ListIsShown
<1>5. talkCall'[k] = talkCall[k] /\ talkCall[k].pc = "read"
    BY <1>4
<1>6. /\ talkCall[k].user \in Talkers /\ talkCall[k].with \in Talkers
      /\ \A i \in 1..Len(private) :
            private[i].from = talkCall[k].with /\ private[i].to = talkCall[k].user => Shown(i)
    BY <1>5 DEF TalkInv, ListIsShown
<1> QED BY <1>2, <1>3, <1>5, <1>6

LEMMA ReadKept ==
    ASSUME TalkInv, UNCHANGED <<private, late>>, \A u \in Talkers : listed[u] \subseteq listed'[u]
    PROVE  ReadWasShown'
<1>1. /\ DOMAIN private = 1..Len(private) /\ \A i \in 1..Len(private) : private[i].to \in Talkers
    BY TalkKinds DEF TalkInv, PrivateRows
<1>2. \A i \in 1..Len(private) : private[i].read => Shown(i)
    BY <1>1 DEF TalkInv, ReadWasShown, Shown, OnPage
<1>3. \A i \in 1..Len(private) : Shown(i) => Shown(i)'
    BY <1>1 DEF Shown, OnPage, Oldest, Conversation, Rows
<1>4. \A i \in DOMAIN private' : private'[i].read => Shown(i)'
    BY <1>1, <1>2, <1>3
<1> QED BY <1>4 DEF ReadWasShown, Shown, OnPage

(* The notifications, as long as none comes and no message does.             *)
LEMMA NoticesKept ==
    ASSUME TalkInv, PrivateStay, Len(private') = Len(private), notice' \in Seq(NoticeRows), Len(notice') = Len(notice),
           \A a \in 1..Len(notice) : notice'[a].user = notice[a].user /\ notice'[a].about = notice[a].about,
           unannounced' = unannounced,
           \A k \in TalkCalls : /\ talkCall'[k].pc = "notify" <=> talkCall[k].pc = "notify"
                                /\ talkCall'[k].pc = "notify" => talkCall'[k] = talkCall[k]
    PROVE  OneNoticeEach'
<1>1. \A i : Notified(i)' <=> Notified(i)
    BY DEF Notified
<1>2. \A k \in TalkCalls : \A i : AwaitsNotice(k, i)' <=> AwaitsNotice(k, i)
    BY DEF AwaitsNotice
<1>3. \A a \in 1..Len(notice) : notice[a].about \in 1..Len(private)
    BY DEF TalkInv, WrittenTyped
<1>4. \A i \in 1..Len(private) : private'[i].to = private[i].to
    BY DEF PrivateStay
<1>5. ASSUME NEW k \in TalkCalls, talkCall'[k].pc = "notify", NEW r, r = talkCall'[k].row
      PROVE  r \in 1..Len(private') /\ talkCall'[k].with = private'[r].to /\ ~Notified(r)'
             /\ \A other \in TalkCalls : AwaitsNotice(other, r)' => other = k
    <2>1. talkCall'[k] = talkCall[k] /\ talkCall[k].pc = "notify" /\ r = talkCall[k].row
        BY <1>5
    <2>2. /\ r \in 1..Len(private) /\ talkCall[k].with = private[r].to
          /\ ~Notified(r) /\ \A other \in TalkCalls : AwaitsNotice(other, r) => other = k
        BY <2>1 DEF TalkInv, OneNoticeEach
    <2>3. ~Notified(r)' /\ \A other \in TalkCalls : AwaitsNotice(other, r)' => other = k
        BY <1>1, <1>2, <2>2
    <2> QED BY <1>4, <2>1, <2>2, <2>3
<1>6. \A a, b \in 1..Len(notice') : notice'[a].about = notice'[b].about => a = b
    BY DEF TalkInv, OneNoticeEach
<1>7. \A a \in 1..Len(notice') : notice'[a].user = private'[notice'[a].about].to
    BY <1>3, <1>4 DEF TalkInv, OneNoticeEach
<1>8. \A i \in 1..Len(private') : i \in unannounced' \/ Notified(i)' \/ \E k \in TalkCalls : AwaitsNotice(k, i)'
    BY <1>1, <1>2 DEF TalkInv, OneNoticeEach
<1>9. \A k \in TalkCalls : talkCall'[k].pc = "notify" =>
         /\ talkCall'[k].row \in 1..Len(private') /\ talkCall'[k].with = private'[talkCall'[k].row].to
         /\ \A a \in 1..Len(notice') : notice'[a].about # talkCall'[k].row
         /\ \A other \in TalkCalls : talkCall'[other].pc = "notify" /\ talkCall'[other].row = talkCall'[k].row => other = k
    BY <1>5 DEF Notified, AwaitsNotice
<1> QED BY <1>6, <1>7, <1>8, <1>9 DEF OneNoticeEach, Notified, AwaitsNotice

(* The lists of conversations, as long as no list begins or ends.            *)
LEMMA ListingsKept ==
    ASSUME TalkInv, PrivateStay, listings' = listings,
           \A k \in TalkCalls : talkCall'[k].pc = "received" => talkCall'[k] = talkCall[k]
    PROVE  HalfListed' /\ ListingsArePast' /\ ListingIsComplete'
<1>1. Len(private) \in Nat /\ Len(private') \in Nat /\ Len(private) <= Len(private')
    BY TalkKinds, LenProperties DEF TalkInv, WrittenTyped, PrivateStay
<1>2. \A i \in 1..Len(private) : private'[i].from = private[i].from /\ private'[i].to = private[i].to
    BY DEF PrivateStay
<1>3. \A k \in TalkCalls : talkCall[k].row \in Nat
    BY DEF TalkInv, WrittenTyped, TalkRequests
<1>4. HalfListed'
    <2> SUFFICES ASSUME NEW k \in TalkCalls, talkCall'[k].pc = "received"
                 PROVE  /\ talkCall'[k].row <= Len(private') /\ talkCall'[k].found \subseteq 1..Len(private')
                        /\ \A i \in 1..talkCall'[k].row : private'[i].from = talkCall'[k].user => i \in talkCall'[k].found
        BY DEF HalfListed
    <2>1. talkCall'[k] = talkCall[k] /\ talkCall[k].pc = "received"
        OBVIOUS
    <2>2. /\ talkCall[k].row <= Len(private) /\ talkCall[k].found \subseteq 1..Len(private)
          /\ \A i \in 1..talkCall[k].row : private[i].from = talkCall[k].user => i \in talkCall[k].found
        BY <2>1 DEF TalkInv, HalfListed
    <2>3. \A i \in 1..talkCall[k].row : i \in 1..Len(private)
        BY <1>1, <1>3, <2>2
    <2>4. \A i \in 1..Len(private) : i \in 1..Len(private')
        BY <1>1
    <2>5. talkCall[k].found \subseteq 1..Len(private')
        BY <2>2, <2>4
    <2>6. talkCall[k].row <= Len(private')
        BY <1>1, <1>3, <2>2
    <2> QED BY <1>2, <2>1, <2>2, <2>3, <2>5, <2>6
<1>5. ListingsArePast'
    BY <1>1 DEF TalkInv, ListingsArePast
<1>6. ListingIsComplete'
    <2> SUFFICES ASSUME NEW l \in listings, NEW i \in 1..l.since, l.user \in {private'[i].from, private'[i].to}
                 PROVE  \E e \in l.entries : e.with = Other(l.user, i)' /\ e.at >= i
        BY DEF ListingIsComplete
    <2>1. i \in 1..Len(private)
        BY <1>1 DEF TalkInv, ListingsArePast
    <2>2. Other(l.user, i)' = Other(l.user, i) /\ l.user \in {private[i].from, private[i].to}
        BY <1>2, <2>1 DEF Other
    <2> QED BY <2>2 DEF TalkInv, ListingIsComplete
<1> QED BY <1>4, <1>5, <1>6

(* The tickets, as long as no request about one begins.                      *)
LEMMA TicketsKept ==
    ASSUME TalkInv, UNCHANGED <<support, opened>>,
           \A k \in TalkCalls : talkCall'[k].pc = "mark" => talkCall'[k] = talkCall[k]
    PROVE  MarksWereOpened' /\ RepliedHasReply' /\ ReadTicketWasOpened'
<1>1. MarksWereOpened'
    BY DEF TalkInv, MarksWereOpened
<1>2. RepliedHasReply' /\ ReadTicketWasOpened'
    BY DEF TalkInv, RepliedHasReply, ReadTicketWasOpened
<1> QED BY <1>1, <1>2

\* The public chat.
LEMMA SendMessageKeeps ==
    ASSUME TalkInv, NEW k \in TalkCalls, NEW u \in Talkers, SendMessage(k, u) PROVE TalkInv'
<1>1. PICK reply \in 0..Len(chat) : chat' = Append(chat, [by |-> u, reply |-> reply])
    BY DEF SendMessage
<1>2. UNCHANGED <<private, notice, support, talkCall, listed, late, listings, opened, unannounced>>
    BY DEF SendMessage
<1>3. WrittenTyped
    BY DEF TalkInv
<1> DEFINE row == [by |-> u, reply |-> reply]
<1>4. Len(chat) \in Nat /\ row \in ChatRows /\ row.reply = reply /\ chat \in Seq(ChatRows)
    BY <1>3, TalkKinds DEF ChatRows, WrittenTyped
<1> HIDE DEF row
<1>5. /\ chat' \in Seq(ChatRows) /\ Len(chat') = Len(chat) + 1
      /\ \A i \in 1..Len(chat) : chat'[i] = chat[i]
      /\ chat'[Len(chat) + 1] = row
      /\ \A i \in 1..(Len(chat) + 1) : i \in 1..Len(chat) \/ i = Len(chat) + 1
    BY <1>1, <1>4, Grown DEF row
<1>6. \A i \in 1..Len(chat') : chat'[i].reply <= i - 1
    <2>1. \A i \in 1..Len(chat) : chat'[i].reply <= i - 1
        BY <1>3, <1>5 DEF WrittenTyped
    <2>2. chat'[Len(chat) + 1].reply <= (Len(chat) + 1) - 1
        BY <1>4, <1>5
    <2> QED BY <1>5, <2>1, <2>2
<1>7. WrittenTyped'
    BY <1>2, <1>3, <1>5, <1>6 DEF WrittenTyped
<1>8. PrivateStay
    BY <1>2, <1>3, UnchangedStays
<1>9. ListIsShown' /\ ReadWasShown' /\ OneNoticeEach' /\ HalfListed' /\ ListingsArePast' /\ ListingIsComplete'
    BY <1>2, <1>3, <1>8, ShownKept, ReadKept, NoticesKept, ListingsKept DEF WrittenTyped
<1>10. MarksWereOpened' /\ RepliedHasReply' /\ ReadTicketWasOpened'
    BY <1>2, TicketsKept
<1> QED BY <1>7, <1>9, <1>10 DEF TalkInv

\* A private message: one that its receiver is just reading comes too late for the list.
LEMMA SendPrivateMessageKeeps ==
    ASSUME TalkInv, NEW k \in TalkCalls, NEW u \in Talkers, NEW v \in Talkers, SendPrivateMessage(k, u, v)
    PROVE  TalkInv'
<1>0. PICK n : n = Len(private) + 1
    OBVIOUS
<1> DEFINE row == [from |-> u, to |-> v, read |-> FALSE]
           call == [NoTalk EXCEPT !.pc = "notify", !.user = u, !.with = v, !.row = Len(private')]
<1>1. /\ private' = Append(private, row) /\ talkCall[k].pc = "idle" /\ TalkGoes(k, call)
      /\ UNCHANGED <<chat, notice, support, listed, listings, opened, unannounced>>
      /\ late' = IF \E c \in TalkCalls : talkCall[c].pc = "read" /\ talkCall[c].user = v /\ talkCall[c].with = u
                 THEN late \cup {Len(private')} ELSE late
    BY DEF SendPrivateMessage, AskTalk
<1>2. WrittenTyped /\ private \in Seq(PrivateRows)
    BY DEF TalkInv, WrittenTyped
<1>3. Len(private) \in Nat /\ \A i \in 1..Len(private) : private[i] \in PrivateRows
    BY <1>2, TalkKinds
<1>4. row \in PrivateRows /\ row.from = u /\ row.to = v /\ row.read = FALSE
    BY DEF PrivateRows
<1> HIDE DEF row
<1>5. /\ private' \in Seq(PrivateRows) /\ Len(private') = n /\ n \in Nat
      /\ \A i \in 1..Len(private) : i \in 1..n /\ private'[i] = private[i]
      /\ private'[n] = row
      /\ \A i \in 1..n : i \in 1..Len(private) \/ i = n
      /\ n \in 1..n /\ n \notin 1..Len(private) /\ Len(private) <= n
    BY <1>0, <1>1, <1>2, <1>3, <1>4, Grown
<1>6. /\ call \in TalkRequests /\ call.pc = "notify" /\ call.user = u /\ call.with = v /\ call.row = n
    BY <1>5 DEF TalkRequests, NoTalk
<1> HIDE DEF call
<1>7. /\ talkCall' \in [TalkCalls -> TalkRequests] /\ talkCall'[k] = call
      /\ \A other \in TalkCalls \ {k} : talkCall'[other] = talkCall[other]
    BY <1>1, <1>2, <1>6, TalkGoesOn
<1>8. PrivateStay
    BY <1>5 DEF PrivateStay
<1>9. /\ late' \subseteq late \cup {n} /\ late \subseteq late'
      /\ \A c \in TalkCalls : talkCall[c].pc = "read" /\ talkCall[c].user = v /\ talkCall[c].with = u => n \in late'
    BY <1>1, <1>5
<1>10. WrittenTyped'
    <2>1. \A a \in 1..Len(notice') : notice'[a].about \in 1..Len(private')
        BY <1>1, <1>2, <1>5 DEF WrittenTyped
    <2>2. late' \subseteq Nat
        BY <1>2, <1>5, <1>9 DEF WrittenTyped
    <2> QED BY <1>1, <1>2, <1>5, <1>7, <2>1, <2>2 DEF WrittenTyped
<1>11. \A i \in 1..Len(private) : Shown(i) => Shown(i)'
    <2>1. \A i \in 1..Len(private) : OnPage(i)' <=> OnPage(i)
        BY <1>2, <1>8, PagesStay DEF PrivateStay
    <2> QED BY <1>1, <1>5, <1>9, <2>1 DEF Shown
<1>12. ListIsShown'
    <2>1. SUFFICES ASSUME NEW c \in TalkCalls, talkCall'[c].pc = "read"
                   PROVE  /\ talkCall'[c].user \in Talkers /\ talkCall'[c].with \in Talkers
                          /\ \A i \in 1..Len(private') :
                                private'[i].from = talkCall'[c].with /\ private'[i].to = talkCall'[c].user => Shown(i)'
        BY DEF ListIsShown
    <2>2. c # k /\ talkCall'[c] = talkCall[c] /\ talkCall[c].pc = "read"
        BY <1>6, <1>7, <2>1
    <2>3. /\ talkCall[c].user \in Talkers /\ talkCall[c].with \in Talkers
          /\ \A i \in 1..Len(private) :
                private[i].from = talkCall[c].with /\ private[i].to = talkCall[c].user => Shown(i)
        BY <2>2 DEF TalkInv, ListIsShown
    <2>4. ASSUME NEW i \in 1..n, private'[i].from = talkCall[c].with, private'[i].to = talkCall[c].user
          PROVE  Shown(i)'
        <3>1. CASE i \in 1..Len(private)
            BY <1>5, <1>11, <2>3, <2>4, <3>1
        <3>2. CASE i = n
            <4>1. n \in late'
                BY <1>4, <1>5, <1>9, <2>2, <2>4, <3>2
            <4> QED BY <3>2, <4>1 DEF Shown
        <3> QED BY <1>5, <3>1, <3>2
    <2> QED BY <1>5, <2>2, <2>3, <2>4
<1>13. ReadWasShown'
    <2>1. DOMAIN private = 1..Len(private) /\ DOMAIN private' = 1..n
        BY <1>2, <1>5, LenProperties
    <2>2. \A i \in 1..Len(private) : private[i].read => Shown(i)
        BY <2>1 DEF TalkInv, ReadWasShown, Shown, OnPage
    <2>3. \A i \in 1..n : private'[i].read => Shown(i)'
        BY <1>4, <1>5, <1>11, <2>2
    <2> QED BY <2>1, <2>3 DEF ReadWasShown, Shown, OnPage
<1>14. OneNoticeEach'
    <2>1. \A a \in 1..Len(notice) : notice[a].about \in 1..Len(private)
        BY <1>2 DEF WrittenTyped
    <2>2. ~Notified(n) /\ \A i : Notified(i)' <=> Notified(i)
        BY <1>1, <1>5, <2>1 DEF Notified
    <2>3. \A c \in TalkCalls : talkCall[c].pc = "notify" =>
              /\ talkCall[c].row \in 1..Len(private) /\ talkCall[c].with = private[talkCall[c].row].to
              /\ ~Notified(talkCall[c].row)
              /\ \A other \in TalkCalls : AwaitsNotice(other, talkCall[c].row) => other = c
        BY DEF TalkInv, OneNoticeEach
    <2>4. /\ \A i : AwaitsNotice(k, i)' <=> i = n
          /\ \A c \in TalkCalls \ {k} : \A i : AwaitsNotice(c, i)' <=> AwaitsNotice(c, i)
          /\ \A i : ~AwaitsNotice(k, i)
        BY <1>1, <1>6, <1>7 DEF AwaitsNotice
    <2>5. \A c \in TalkCalls : ~AwaitsNotice(c, n)
        BY <1>5, <2>3 DEF AwaitsNotice
    <2>6. ASSUME NEW c \in TalkCalls, talkCall'[c].pc = "notify", NEW r, r = talkCall'[c].row
          PROVE  r \in 1..Len(private') /\ talkCall'[c].with = private'[r].to /\ ~Notified(r)'
                 /\ \A other \in TalkCalls : AwaitsNotice(other, r)' => other = c
        <3>1. CASE c = k
            <4>1. r = n
                BY <1>6, <1>7, <2>6, <3>1
            <4>2. \A other \in TalkCalls : AwaitsNotice(other, n)' => other = k
                BY <2>4, <2>5
            <4> QED BY <1>4, <1>5, <1>6, <1>7, <2>2, <3>1, <4>1, <4>2
        <3>2. CASE c # k
            <4>1. talkCall'[c] = talkCall[c] /\ talkCall[c].pc = "notify" /\ r = talkCall[c].row
                BY <1>7, <2>6, <3>2
            <4>2. r \in 1..Len(private) /\ talkCall[c].with = private[r].to /\ ~Notified(r)
                  /\ \A other \in TalkCalls : AwaitsNotice(other, r) => other = c
                BY <2>3, <4>1
            <4>3. r # n
                BY <1>5, <4>2
            <4>4. \A other \in TalkCalls : AwaitsNotice(other, r)' => other = c
                BY <2>4, <4>2, <4>3
            <4> QED BY <1>5, <2>2, <4>1, <4>2, <4>4
        <3> QED BY <3>1, <3>2
    <2>7. /\ \A a, b \in 1..Len(notice') : notice'[a].about = notice'[b].about => a = b
          /\ \A a \in 1..Len(notice') : notice'[a].user = private'[notice'[a].about].to
        BY <1>1, <1>5, <2>1 DEF TalkInv, OneNoticeEach
    <2>8. \A i \in 1..Len(private') : i \in unannounced' \/ Notified(i)' \/ \E c \in TalkCalls : AwaitsNotice(c, i)'
        <3>1. ASSUME NEW i \in 1..Len(private) PROVE i \in unannounced' \/ Notified(i)' \/ \E c \in TalkCalls : AwaitsNotice(c, i)'
            <4>1. i \in unannounced \/ Notified(i) \/ \E c \in TalkCalls : AwaitsNotice(c, i)
                BY DEF TalkInv, OneNoticeEach
            <4> QED BY <1>1, <2>2, <2>4, <4>1
        <3> QED BY <1>5, <2>4, <3>1
    <2>9. \A c \in TalkCalls : talkCall'[c].pc = "notify" =>
             /\ talkCall'[c].row \in 1..Len(private') /\ talkCall'[c].with = private'[talkCall'[c].row].to
             /\ \A a \in 1..Len(notice') : notice'[a].about # talkCall'[c].row
             /\ \A other \in TalkCalls : talkCall'[other].pc = "notify" /\ talkCall'[other].row = talkCall'[c].row => other = c
        BY <2>6 DEF Notified, AwaitsNotice
    <2> QED BY <2>7, <2>8, <2>9 DEF OneNoticeEach, Notified, AwaitsNotice
<1>15. HalfListed' /\ ListingsArePast' /\ ListingIsComplete'
    BY <1>1, <1>6, <1>7, <1>8, ListingsKept
<1>16. MarksWereOpened' /\ RepliedHasReply' /\ ReadTicketWasOpened'
    BY <1>1, <1>6, <1>7, TicketsKept
<1> QED BY <1>10, <1>12, <1>13, <1>14, <1>15, <1>16 DEF TalkInv

\* The notification of a private message comes, or its creation fails.
LEMMA NotifyReceiverKeeps ==
    ASSUME TalkInv, NEW k \in TalkCalls, NotifyReceiver(k) PROVE TalkInv'
<1>0. PICK r, w : r = talkCall[k].row /\ w = talkCall[k].with
    OBVIOUS
<1> DEFINE row == [user |-> w, about |-> r, read |-> FALSE]
<1>1. /\ talkCall[k].pc = "notify" /\ TalkGoes(k, NoTalk)
      /\ UNCHANGED <<chat, private, support, listed, late, listings, opened>>
    BY DEF NotifyReceiver
<1>2. \/ notice' = Append(notice, row) /\ unannounced' = unannounced
      \/ notice' = notice /\ unannounced' = unannounced \cup {r}
    BY <1>0 DEF NotifyReceiver
<1>3. WrittenTyped /\ notice \in Seq(NoticeRows) /\ Len(notice) \in Nat
    BY TalkKinds DEF TalkInv, WrittenTyped
<1>4. /\ talkCall' \in [TalkCalls -> TalkRequests] /\ talkCall'[k].pc = "idle"
      /\ \A other \in TalkCalls \ {k} : talkCall'[other] = talkCall[other]
    BY <1>1, <1>3, TalkGoesOn, NoTalkIsOne
<1>5. /\ r \in 1..Len(private) /\ w = private[r].to /\ ~Notified(r)
      /\ \A other \in TalkCalls : AwaitsNotice(other, r) => other = k
    BY <1>0, <1>1 DEF TalkInv, OneNoticeEach
<1>6. r \in Nat /\ w \in Talkers /\ row \in NoticeRows /\ row.user = w /\ row.about = r
    <2>1. Len(private) \in Nat /\ private[r] \in PrivateRows
        BY <1>3, <1>5, TalkKinds
    <2> QED BY <1>5, <2>1 DEF PrivateRows, NoticeRows
<1> HIDE DEF row
<1>7. \A c \in TalkCalls : talkCall'[c].pc # "idle" => c # k /\ talkCall'[c] = talkCall[c]
    BY <1>4
<1>8. PrivateStay
    BY <1>1, <1>3, UnchangedStays
<1>9. ListIsShown' /\ ReadWasShown'
    BY <1>1, <1>7, <1>8, ShownKept, ReadKept
<1>10. HalfListed' /\ ListingsArePast' /\ ListingIsComplete'
    BY <1>1, <1>7, <1>8, ListingsKept
<1>11. MarksWereOpened' /\ RepliedHasReply' /\ ReadTicketWasOpened'
    BY <1>1, <1>7, TicketsKept
<1>12. /\ \A i : ~AwaitsNotice(k, i)' /\ (AwaitsNotice(k, i) => i = r)
       /\ \A c \in TalkCalls \ {k} : \A i : AwaitsNotice(c, i)' <=> AwaitsNotice(c, i)
    BY <1>0, <1>1, <1>4 DEF AwaitsNotice
<1>13. \A c \in TalkCalls : talkCall'[c].pc = "notify" =>
           /\ talkCall'[c].row \in 1..Len(private) /\ talkCall'[c].with = private[talkCall'[c].row].to
           /\ ~Notified(talkCall'[c].row) /\ talkCall'[c].row # r
           /\ \A other \in TalkCalls : talkCall'[other].pc = "notify" /\ talkCall'[other].row = talkCall'[c].row => other = c
    <2> SUFFICES ASSUME NEW c \in TalkCalls, talkCall'[c].pc = "notify", NEW q, q = talkCall'[c].row
                 PROVE  /\ q \in 1..Len(private) /\ talkCall'[c].with = private[q].to /\ ~Notified(q) /\ q # r
                        /\ \A other \in TalkCalls : talkCall'[other].pc = "notify" /\ talkCall'[other].row = q => other = c
        OBVIOUS
    <2>1. c # k /\ talkCall'[c] = talkCall[c] /\ talkCall[c].pc = "notify" /\ q = talkCall[c].row
        BY <1>7
    <2>2. /\ q \in 1..Len(private) /\ talkCall[c].with = private[q].to /\ ~Notified(q)
          /\ \A other \in TalkCalls : AwaitsNotice(other, q) => other = c
        BY <2>1 DEF TalkInv, OneNoticeEach
    <2>3. q # r
        BY <1>5, <2>1 DEF AwaitsNotice
    <2>4. \A other \in TalkCalls : talkCall'[other].pc = "notify" /\ talkCall'[other].row = q => other = c
        BY <1>7, <2>2 DEF AwaitsNotice
    <2> QED BY <2>1, <2>2, <2>3, <2>4
<1>14. \A a \in 1..Len(notice) : notice[a].about \in 1..Len(private) /\ notice[a].about # r
    BY <1>3, <1>5 DEF WrittenTyped, Notified
<1>15. /\ \A a, b \in 1..Len(notice) : notice[a].about = notice[b].about => a = b
       /\ \A a \in 1..Len(notice) : notice[a].user = private[notice[a].about].to
       /\ \A i \in 1..Len(private) : i \in unannounced \/ Notified(i) \/ \E c \in TalkCalls : AwaitsNotice(c, i)
    BY DEF TalkInv, OneNoticeEach
<1>16. CASE notice' = Append(notice, row) /\ unannounced' = unannounced
    <2>1. /\ notice' \in Seq(NoticeRows) /\ Len(notice') = Len(notice) + 1
          /\ \A a \in 1..Len(notice) : a \in 1..(Len(notice) + 1) /\ notice'[a] = notice[a]
          /\ notice'[Len(notice) + 1] = row
          /\ \A a \in 1..(Len(notice) + 1) : a \in 1..Len(notice) \/ a = Len(notice) + 1
          /\ Len(notice) + 1 \in 1..(Len(notice) + 1) /\ Len(notice) + 1 \notin 1..Len(notice)
        BY <1>3, <1>6, <1>16, Grown
    <2>2. /\ \A a \in 1..Len(notice) : notice'[a].about = notice[a].about /\ notice'[a].user = notice[a].user
          /\ notice'[Len(notice) + 1].about = r /\ notice'[Len(notice) + 1].user = w
        BY <1>6, <2>1
    <2>3. WrittenTyped'
        <3>1. \A a \in 1..Len(notice') : notice'[a].about \in 1..Len(private')
            BY <1>1, <1>5, <1>14, <2>1, <2>2
        <3> QED BY <1>1, <1>3, <1>4, <2>1, <3>1 DEF WrittenTyped
    <2>4. \A i : Notified(i)' <=> Notified(i) \/ i = r
        BY <2>1, <2>2 DEF Notified
    <2>5. \A a, b \in 1..Len(notice') : notice'[a].about = notice'[b].about => a = b
        BY <1>14, <1>15, <2>1, <2>2
    <2>6. \A a \in 1..Len(notice') : notice'[a].user = private'[notice'[a].about].to
        BY <1>1, <1>5, <1>15, <2>1, <2>2
    <2>7. \A i \in 1..Len(private') : i \in unannounced' \/ Notified(i)' \/ \E c \in TalkCalls : AwaitsNotice(c, i)'
        BY <1>1, <1>12, <1>15, <1>16, <2>4
    <2>8. \A c \in TalkCalls : talkCall'[c].pc = "notify" =>
              /\ talkCall'[c].row \in 1..Len(private') /\ talkCall'[c].with = private'[talkCall'[c].row].to
              /\ \A a \in 1..Len(notice') : notice'[a].about # talkCall'[c].row
              /\ \A other \in TalkCalls : talkCall'[other].pc = "notify" /\ talkCall'[other].row = talkCall'[c].row => other = c
        BY <1>1, <1>13, <2>1, <2>2 DEF Notified
    <2>9. OneNoticeEach'
        BY <2>5, <2>6, <2>7, <2>8 DEF OneNoticeEach, Notified, AwaitsNotice
    <2> QED BY <1>9, <1>10, <1>11, <2>3, <2>9 DEF TalkInv
<1>17. CASE notice' = notice /\ unannounced' = unannounced \cup {r}
    <2>1. WrittenTyped'
        BY <1>1, <1>3, <1>4, <1>17 DEF WrittenTyped
    <2>2. \A i : Notified(i)' <=> Notified(i)
        BY <1>17 DEF Notified
    <2>3. \A i \in 1..Len(private') : i \in unannounced' \/ Notified(i)' \/ \E c \in TalkCalls : AwaitsNotice(c, i)'
        BY <1>1, <1>12, <1>15, <1>17, <2>2
    <2>4. \A c \in TalkCalls : talkCall'[c].pc = "notify" =>
              /\ talkCall'[c].row \in 1..Len(private') /\ talkCall'[c].with = private'[talkCall'[c].row].to
              /\ \A a \in 1..Len(notice') : notice'[a].about # talkCall'[c].row
              /\ \A other \in TalkCalls : talkCall'[other].pc = "notify" /\ talkCall'[other].row = talkCall'[c].row => other = c
        BY <1>1, <1>13, <1>17 DEF Notified
    <2>5. OneNoticeEach'
        BY <1>1, <1>15, <1>17, <2>3, <2>4 DEF OneNoticeEach, Notified, AwaitsNotice
    <2> QED BY <1>9, <1>10, <1>11, <2>1, <2>5 DEF TalkInv
<1> QED BY <1>2, <1>16, <1>17

\* The oldest messages of a conversation are returned ...
LEMMA ListPrivateKeeps ==
    ASSUME TalkInv, NEW k \in TalkCalls, NEW u \in Talkers, NEW v \in Talkers, ListPrivate(k, u, v) PROVE TalkInv'
<1> DEFINE call == [NoTalk EXCEPT !.pc = "read", !.user = u, !.with = v]
           page == Oldest(Conversation(u, v), PageSize)
<1>1. /\ talkCall[k].pc = "idle" /\ TalkGoes(k, call) /\ listed' = [listed EXCEPT ![u] = @ \cup page]
      /\ UNCHANGED <<chat, private, notice, support, late, listings, opened, unannounced>>
    BY DEF ListPrivate, AskTalk
<1>2. WrittenTyped
    BY DEF TalkInv
<1>3. page \subseteq 1..Len(private) /\ Len(private) \in Nat
    BY <1>2, TalkKinds DEF Oldest, Conversation, Rows
<1>4. \A i \in 1..Len(private) : private[i].from = v /\ private[i].to = u => i \in page \/ ~OnPage(i)
    <2> SUFFICES ASSUME NEW i \in 1..Len(private), private[i].from = v, private[i].to = u, OnPage(i) PROVE i \in page
        OBVIOUS
    <2>1. Conversation(private[i].from, private[i].to) = Conversation(u, v)
        <3>1. {private[i].from, private[i].to} = {u, v}
            OBVIOUS
        <3> QED BY <3>1 DEF Conversation, Rows
    <2> QED BY <2>1 DEF OnPage
<1> HIDE DEF page
<1>5. call \in TalkRequests /\ call.pc = "read" /\ call.user = u /\ call.with = v
    BY DEF TalkRequests, NoTalk
<1> HIDE DEF call
<1>6. /\ talkCall' \in [TalkCalls -> TalkRequests] /\ talkCall'[k] = call
      /\ \A other \in TalkCalls \ {k} : talkCall'[other] = talkCall[other]
    BY <1>1, <1>2, <1>5, TalkGoesOn
<1>7. /\ listed' \in [Talkers -> SUBSET Nat] /\ listed'[u] = listed[u] \cup page
      /\ \A t \in Talkers : listed[t] \subseteq listed'[t]
    <2>1. listed \in [Talkers -> SUBSET Nat]
        BY <1>2 DEF WrittenTyped
    <2>2. page \subseteq Nat
        BY <1>3
    <2>3. listed'[u] = listed[u] \cup page /\ \A t \in Talkers : t # u => listed'[t] = listed[t]
        BY <1>1, <2>1
    <2>4. listed' \in [Talkers -> SUBSET Nat]
        BY <1>1, <2>1, <2>2
    <2> QED BY <2>3, <2>4
<1>8. WrittenTyped'
    BY <1>1, <1>2, <1>6, <1>7 DEF WrittenTyped
<1>9. PrivateStay
    BY <1>1, <1>2, UnchangedStays
<1>10. ReadWasShown'
    BY <1>1, <1>7, ReadKept
<1>11. ListIsShown'
    <2>1. \A i \in 1..Len(private) : private[i].to \in Talkers
        BY <1>2, TalkKinds DEF PrivateRows
    <2>2. \A i \in 1..Len(private) : OnPage(i)' <=> OnPage(i)
        BY <1>1 DEF OnPage, Oldest, Conversation, Rows
    <2>3. \A i \in 1..Len(private) : Shown(i) => Shown(i)'
        BY <1>1, <1>7, <2>1, <2>2 DEF Shown
    <2>4. \A i \in 1..Len(private) : private[i].from = v /\ private[i].to = u => Shown(i)'
        BY <1>1, <1>4, <1>7, <2>2 DEF Shown
    <2>5. ASSUME NEW c \in TalkCalls, talkCall'[c].pc = "read"
          PROVE  /\ talkCall'[c].user \in Talkers /\ talkCall'[c].with \in Talkers
                 /\ \A i \in 1..Len(private') :
                       private'[i].from = talkCall'[c].with /\ private'[i].to = talkCall'[c].user => Shown(i)'
        <3>1. CASE c = k
            BY <1>1, <1>5, <1>6, <2>4, <3>1
        <3>2. CASE c # k
            <4>1. talkCall'[c] = talkCall[c] /\ talkCall[c].pc = "read"
                BY <1>6, <2>5, <3>2
            <4>2. /\ talkCall[c].user \in Talkers /\ talkCall[c].with \in Talkers
                  /\ \A i \in 1..Len(private) :
                        private[i].from = talkCall[c].with /\ private[i].to = talkCall[c].user => Shown(i)
                BY <4>1 DEF TalkInv, ListIsShown
            <4> QED BY <1>1, <2>3, <4>1, <4>2
        <3> QED BY <3>1, <3>2
    <2> QED BY <2>5 DEF ListIsShown
<1>12. OneNoticeEach'
    BY <1>1, <1>2, <1>5, <1>6, <1>9, NoticesKept DEF WrittenTyped
<1>13. HalfListed' /\ ListingsArePast' /\ ListingIsComplete'
    BY <1>1, <1>5, <1>6, <1>9, ListingsKept
<1>14. MarksWereOpened' /\ RepliedHasReply' /\ ReadTicketWasOpened'
    BY <1>1, <1>5, <1>6, TicketsKept
<1> QED BY <1>8, <1>10, <1>11, <1>12, <1>13, <1>14 DEF TalkInv

\* ... and all of its messages are marked.
LEMMA MarkPrivateKeeps ==
    ASSUME TalkInv, NEW k \in TalkCalls, MarkPrivate(k) PROVE TalkInv'
<1>0. PICK c : c = talkCall[k]
    OBVIOUS
<1>1. /\ c.pc = "read" /\ TalkGoes(k, NoTalk)
      /\ UNCHANGED <<chat, notice, support, listed, late, listings, opened, unannounced>>
      /\ private' = [i \in DOMAIN private |->
                       IF private[i].from = c.with /\ private[i].to = c.user
                       THEN [private[i] EXCEPT !.read = TRUE] ELSE private[i]]
    BY <1>0 DEF MarkPrivate
<1>2. /\ WrittenTyped /\ private \in Seq(PrivateRows) /\ Len(private) \in Nat /\ DOMAIN private = 1..Len(private)
      /\ \A i \in 1..Len(private) : private[i] \in PrivateRows
    BY TalkKinds DEF TalkInv, WrittenTyped
<1>3. /\ talkCall' \in [TalkCalls -> TalkRequests] /\ talkCall'[k].pc = "idle"
      /\ \A other \in TalkCalls \ {k} : talkCall'[other] = talkCall[other]
    BY <1>1, <1>2, TalkGoesOn, NoTalkIsOne
<1>4. \A o \in TalkCalls : talkCall'[o].pc # "idle" => talkCall'[o] = talkCall[o]
    BY <1>3
<1>5. \A i \in 1..Len(private) :
          /\ private'[i] \in PrivateRows /\ private'[i].from = private[i].from /\ private'[i].to = private[i].to
          /\ private'[i].read => private[i].read \/ (private[i].from = c.with /\ private[i].to = c.user)
    BY <1>1, <1>2 DEF PrivateRows
<1>6. private' \in Seq(PrivateRows) /\ Len(private') = Len(private)
    <2>1. private' \in [1..Len(private) -> PrivateRows]
        BY <1>1, <1>2, <1>5
    <2> QED BY <1>2, <2>1, Mapped
<1>7. PrivateStay
    BY <1>2, <1>5, <1>6 DEF PrivateStay
<1>8. WrittenTyped'
    BY <1>1, <1>2, <1>3, <1>6 DEF WrittenTyped
<1>9. ListIsShown'
    BY <1>1, <1>4, <1>6, <1>7, ShownKept
<1>10. ReadWasShown'
    <2>1. \A i \in 1..Len(private) : OnPage(i)' <=> OnPage(i)
        BY <1>2, <1>7, PagesStay DEF PrivateStay
    <2>2. \A i \in 1..Len(private) : Shown(i) => Shown(i)'
        BY <1>1, <1>5, <2>1 DEF Shown
    <2>3. \A i \in 1..Len(private) : private[i].read => Shown(i)
        BY <1>2 DEF TalkInv, ReadWasShown, Shown, OnPage
    <2>4. \A i \in 1..Len(private) : private[i].from = c.with /\ private[i].to = c.user => Shown(i)
        BY <1>0, <1>1 DEF TalkInv, ListIsShown
    <2>5. \A i \in 1..Len(private) : private'[i].read => Shown(i)'
        BY <1>5, <2>2, <2>3, <2>4
    <2>6. DOMAIN private' = 1..Len(private)
        BY <1>6, LenProperties
    <2> QED BY <2>5, <2>6 DEF ReadWasShown, Shown, OnPage
<1>11. OneNoticeEach'
    BY <1>0, <1>1, <1>2, <1>3, <1>4, <1>6, <1>7, NoticesKept DEF WrittenTyped
<1>12. HalfListed' /\ ListingsArePast' /\ ListingIsComplete'
    BY <1>1, <1>4, <1>7, ListingsKept
<1>13. MarksWereOpened' /\ RepliedHasReply' /\ ReadTicketWasOpened'
    BY <1>1, <1>4, TicketsKept
<1> QED BY <1>8, <1>9, <1>10, <1>11, <1>12, <1>13 DEF TalkInv

\* A list of conversations reads what its user sent, ...
LEMMA ListSentKeeps ==
    ASSUME TalkInv, NEW k \in TalkCalls, NEW u \in Talkers, ListSent(k, u) PROVE TalkInv'
<1> DEFINE call == [NoTalk EXCEPT !.pc = "received", !.user = u, !.row = Len(private), !.found = Sent(u)]
<1>1. /\ talkCall[k].pc = "idle" /\ TalkGoes(k, call)
      /\ UNCHANGED <<chat, private, notice, support, listed, late, listings, opened, unannounced>>
    BY DEF ListSent, AskTalk
<1>2. WrittenTyped /\ Len(private) \in Nat /\ DOMAIN private = 1..Len(private)
    BY TalkKinds DEF TalkInv
<1>3. /\ Sent(u) \subseteq 1..Len(private) /\ Sent(u) \in SUBSET Nat
      /\ \A i \in 1..Len(private) : private[i].from = u => i \in Sent(u)
    BY <1>2 DEF Sent, Rows
<1>4. /\ call \in TalkRequests /\ call.pc = "received" /\ call.user = u /\ call.row = Len(private)
      /\ call.found = Sent(u)
    BY <1>2, <1>3 DEF TalkRequests, NoTalk
<1> HIDE DEF call
<1>5. /\ talkCall' \in [TalkCalls -> TalkRequests] /\ talkCall'[k] = call
      /\ \A other \in TalkCalls \ {k} : talkCall'[other] = talkCall[other]
    BY <1>1, <1>2, <1>4, TalkGoesOn
<1>6. WrittenTyped'
    BY <1>1, <1>2, <1>5 DEF WrittenTyped
<1>7. PrivateStay
    BY <1>1, <1>2, UnchangedStays
<1>8. ListIsShown' /\ ReadWasShown'
    BY <1>1, <1>4, <1>5, <1>7, ShownKept, ReadKept
<1>9. OneNoticeEach'
    BY <1>1, <1>2, <1>4, <1>5, <1>7, NoticesKept DEF WrittenTyped
<1>10. HalfListed'
    <2> SUFFICES ASSUME NEW c \in TalkCalls, talkCall'[c].pc = "received"
                 PROVE  /\ talkCall'[c].row <= Len(private') /\ talkCall'[c].found \subseteq 1..Len(private')
                        /\ \A i \in 1..talkCall'[c].row : private'[i].from = talkCall'[c].user => i \in talkCall'[c].found
        BY DEF HalfListed
    <2>1. CASE c = k
        BY <1>1, <1>2, <1>3, <1>4, <1>5, <2>1
    <2>2. CASE c # k
        BY <1>1, <1>5, <2>2 DEF TalkInv, HalfListed
    <2> QED BY <2>1, <2>2
<1>11. ListingsArePast' /\ ListingIsComplete'
    BY <1>1 DEF TalkInv, ListingsArePast, ListingIsComplete, Other
<1>12. MarksWereOpened' /\ RepliedHasReply' /\ ReadTicketWasOpened'
    BY <1>1, <1>4, <1>5, TicketsKept
<1> QED BY <1>6, <1>8, <1>9, <1>10, <1>11, <1>12 DEF TalkInv

(* A list made of what was found names everyone who wrote or was written to. *)
LEMMA EntriesNameAll ==
    ASSUME WrittenTyped, NEW u, NEW S, S \subseteq 1..Len(private), NEW i \in S
    PROVE  \E e \in Entries(u, S) : e.with = Other(u, i) /\ e.at >= i
<1> DEFINE v == Other(u, i)
           T == {j \in S : Other(u, j) = v}
           e == [with |-> v, at |-> Max(T)]
<1>1. Len(private) \in Nat
    BY TalkKinds
<1>2. T \subseteq 0..Len(private) /\ T # {} /\ i \in T
    <2>1. i \in T
        OBVIOUS
    <2>2. T \subseteq S /\ S \subseteq 0..Len(private)
        BY <1>1
    <2> HIDE DEF T
    <2> QED BY <2>1, <2>2
<1>3. e \in Entries(u, S)
    BY DEF Entries
<1> HIDE DEF T
<1>4. Max(T) >= i
    BY <1>1, <1>2, MaxIsThere
<1>5. e.with = Other(u, i) /\ e.at >= i
    BY <1>4
<1> QED BY <1>3, <1>5

\* ... then what the user received.
LEMMA ListReceivedKeeps ==
    ASSUME TalkInv, NEW k \in TalkCalls, ListReceived(k) PROVE TalkInv'
<1>0. PICK c : c = talkCall[k]
    OBVIOUS
<1> DEFINE S == c.found \cup Received(c.user)
           l == [user |-> c.user, since |-> c.row, entries |-> Entries(c.user, S)]
<1>1. /\ c.pc = "received" /\ TalkGoes(k, NoTalk) /\ listings' = listings \cup {l}
      /\ UNCHANGED <<chat, private, notice, support, listed, late, opened, unannounced>>
    BY <1>0 DEF ListReceived
<1>2. WrittenTyped /\ Len(private) \in Nat /\ DOMAIN private = 1..Len(private)
    BY TalkKinds DEF TalkInv
<1>3. c.row \in Nat /\ c.row <= Len(private) /\ c.found \subseteq 1..Len(private)
      /\ \A i \in 1..c.row : private[i].from = c.user => i \in c.found
    BY <1>0, <1>1, <1>2 DEF TalkInv, HalfListed, WrittenTyped, TalkRequests
<1>4. /\ S \subseteq 1..Len(private)
      /\ \A i \in 1..c.row : c.user \in {private[i].from, private[i].to} => i \in S
    <2>1. Received(c.user) = {i \in 1..Len(private) : private[i].to = c.user}
        BY <1>2 DEF Received, Rows
    <2>2. \A i \in 1..c.row : i \in 1..Len(private)
        BY <1>2, <1>3
    <2> QED BY <1>3, <2>1, <2>2
<1>5. l.user = c.user /\ l.since = c.row /\ l.entries = Entries(c.user, S)
    OBVIOUS
<1> HIDE DEF S, l
<1>6. \A i \in 1..l.since : l.user \in {private[i].from, private[i].to} =>
          \E e \in l.entries : e.with = Other(l.user, i) /\ e.at >= i
    <2>1. ASSUME NEW i \in S PROVE \E e \in Entries(c.user, S) : e.with = Other(c.user, i) /\ e.at >= i
        BY <1>2, <1>4, EntriesNameAll
    <2> QED BY <1>4, <1>5, <2>1
<1>7. /\ talkCall' \in [TalkCalls -> TalkRequests] /\ talkCall'[k].pc = "idle"
      /\ \A other \in TalkCalls \ {k} : talkCall'[other] = talkCall[other]
    BY <1>1, <1>2, TalkGoesOn, NoTalkIsOne
<1>8. \A o \in TalkCalls : talkCall'[o].pc # "idle" => talkCall'[o] = talkCall[o]
    BY <1>7
<1>9. WrittenTyped'
    BY <1>1, <1>2, <1>7 DEF WrittenTyped
<1>10. PrivateStay
    BY <1>1, <1>2, UnchangedStays
<1>11. ListIsShown' /\ ReadWasShown'
    BY <1>1, <1>8, <1>10, ShownKept, ReadKept
<1>12. OneNoticeEach'
    BY <1>0, <1>1, <1>2, <1>7, <1>8, <1>10, NoticesKept DEF WrittenTyped
<1>13. HalfListed'
    BY <1>1, <1>8 DEF TalkInv, HalfListed
<1>14. ListingsArePast'
    BY <1>1, <1>2, <1>3, <1>5 DEF TalkInv, ListingsArePast
<1>15. ListingIsComplete'
    <2> SUFFICES ASSUME NEW m \in listings', NEW i \in 1..m.since, m.user \in {private[i].from, private[i].to}
                 PROVE  \E e \in m.entries : e.with = Other(m.user, i) /\ e.at >= i
        BY <1>1 DEF ListingIsComplete, Other
    <2>1. CASE m \in listings
        BY <2>1 DEF TalkInv, ListingIsComplete
    <2>2. CASE m = l
        BY <1>6, <2>2
    <2> QED BY <1>1, <2>1, <2>2
<1>16. MarksWereOpened' /\ RepliedHasReply' /\ ReadTicketWasOpened'
    BY <1>1, <1>8, TicketsKept
<1> QED BY <1>9, <1>11, <1>12, <1>13, <1>14, <1>15, <1>16 DEF TalkInv

\* Notifications are marked as read.
LEMMA MarkAsReadKeeps ==
    ASSUME TalkInv, NEW k \in TalkCalls, NEW u \in Talkers, MarkAsRead(k, u) PROVE TalkInv'
<1>1. PICK marked : notice' = [i \in DOMAIN notice |->
                                 IF i \in marked THEN [notice[i] EXCEPT !.read = TRUE] ELSE notice[i]]
    BY DEF MarkAsRead
<1>2. UNCHANGED <<chat, private, support, talkCall, listed, late, listings, opened, unannounced>>
    BY DEF MarkAsRead
<1>3. /\ WrittenTyped /\ notice \in Seq(NoticeRows) /\ Len(notice) \in Nat /\ DOMAIN notice = 1..Len(notice)
      /\ \A i \in 1..Len(notice) : notice[i] \in NoticeRows
    BY TalkKinds DEF TalkInv, WrittenTyped
<1>4. \A i \in 1..Len(notice) :
          notice'[i] \in NoticeRows /\ notice'[i].user = notice[i].user /\ notice'[i].about = notice[i].about
    BY <1>1, <1>3 DEF NoticeRows
<1>5. notice' \in Seq(NoticeRows) /\ Len(notice') = Len(notice)
    <2>1. notice' \in [1..Len(notice) -> NoticeRows]
        BY <1>1, <1>3, <1>4
    <2> QED BY <1>3, <2>1, Mapped
<1>6. WrittenTyped'
    BY <1>2, <1>3, <1>4, <1>5 DEF WrittenTyped
<1>7. PrivateStay
    BY <1>2, <1>3, UnchangedStays
<1>8. ListIsShown' /\ ReadWasShown' /\ OneNoticeEach' /\ HalfListed' /\ ListingsArePast' /\ ListingIsComplete'
    BY <1>2, <1>4, <1>5, <1>7, ShownKept, ReadKept, NoticesKept, ListingsKept
<1>9. MarksWereOpened' /\ RepliedHasReply' /\ ReadTicketWasOpened'
    BY <1>2, TicketsKept
<1> QED BY <1>6, <1>8, <1>9 DEF TalkInv

-----------------------------------------------------------------------------

\* What a support row says of itself: replied is that an administrator's reply is there.
RepliedFits(row) == row.replied <=> "admin" \in ToSet(row.thread)

LEMMA SupportFits ==
    ASSUME WrittenTyped
    PROVE  /\ RepliedHasReply <=> \A t \in 1..Len(support) : RepliedFits(support[t])
           /\ ReadTicketWasOpened <=> \A t \in 1..Len(support) : support[t].read => t \in opened
BY TalkKinds DEF RepliedHasReply, ReadTicketWasOpened, RepliedFits

(* The rest of the invariant, where only tickets change.                     *)
LEMMA OnlyTickets ==
    ASSUME TalkInv, UNCHANGED <<chat, private, notice, listed, late, listings, unannounced>>,
           support' \in Seq(SupportRows), talkCall' \in [TalkCalls -> TalkRequests],
           \A k \in TalkCalls : talkCall'[k].pc \in {"read", "received", "notify"} => talkCall'[k] = talkCall[k],
           \A k \in TalkCalls : talkCall[k].pc = "notify" => talkCall'[k] = talkCall[k]
    PROVE  /\ WrittenTyped' /\ ListIsShown' /\ OneNoticeEach' /\ HalfListed' /\ ListingsArePast'
           /\ ReadWasShown' /\ ListingIsComplete'
<1>1. WrittenTyped
    BY DEF TalkInv
<1>2. WrittenTyped'
    BY <1>1 DEF WrittenTyped
<1>3. PrivateStay
    BY <1>1, UnchangedStays
<1>4. ListIsShown' /\ ReadWasShown' /\ HalfListed' /\ ListingsArePast' /\ ListingIsComplete'
    BY <1>3, ShownKept, ReadKept, ListingsKept
<1>5. OneNoticeEach'
    BY <1>1, <1>3, NoticesKept DEF WrittenTyped
<1> QED BY <1>2, <1>4, <1>5

LEMMA CreateTicketKeeps ==
    ASSUME TalkInv, NEW k \in TalkCalls, NEW u \in Talkers \cup {Visitor}, CreateTicket(k, u) PROVE TalkInv'
<1> DEFINE row == [user |-> u, read |-> FALSE, replied |-> FALSE, thread |-> <<>>]
<1>1. /\ support' = Append(support, row)
      /\ UNCHANGED <<chat, private, notice, talkCall, listed, late, listings, opened, unannounced>>
    BY DEF CreateTicket
<1>2. WrittenTyped /\ support \in Seq(SupportRows) /\ talkCall \in [TalkCalls -> TalkRequests]
    BY DEF TalkInv, WrittenTyped
<1>3. row \in SupportRows /\ row.read = FALSE /\ RepliedFits(row)
    <2>1. <<>> \in Seq(Talkers \cup {"admin"}) /\ DOMAIN <<>> = {}
        BY EmptySeq
    <2>2. ToSet(<<>>) = {}
        BY <2>1 DEF ToSet
    <2> QED BY <2>1, <2>2 DEF SupportRows, RepliedFits
<1> HIDE DEF row
<1>4. /\ support' \in Seq(SupportRows) /\ Len(support') = Len(support) + 1
      /\ \A t \in 1..Len(support) : t \in 1..(Len(support) + 1) /\ support'[t] = support[t]
      /\ support'[Len(support) + 1] = row
      /\ \A t \in 1..(Len(support) + 1) : t \in 1..Len(support) \/ t = Len(support) + 1
    BY <1>1, <1>2, <1>3, Grown
<1>5. /\ WrittenTyped' /\ ListIsShown' /\ OneNoticeEach' /\ HalfListed' /\ ListingsArePast'
      /\ ReadWasShown' /\ ListingIsComplete'
    BY <1>1, <1>2, <1>4, OnlyTickets
<1>6. MarksWereOpened'
    BY <1>1, <1>4 DEF TalkInv, MarksWereOpened
<1>7. /\ \A t \in 1..Len(support') : RepliedFits(support'[t])
      /\ \A t \in 1..Len(support') : support'[t].read => t \in opened'
    <2>1. /\ \A t \in 1..Len(support) : RepliedFits(support[t])
          /\ \A t \in 1..Len(support) : support[t].read => t \in opened
        BY <1>2, SupportFits DEF TalkInv
    <2> QED BY <1>1, <1>3, <1>4, <2>1
<1>8. DOMAIN support' = 1..Len(support')
    BY <1>4, LenProperties
<1>9. RepliedHasReply' /\ ReadTicketWasOpened'
    BY <1>7, <1>8 DEF RepliedHasReply, ReadTicketWasOpened, RepliedFits
<1> QED BY <1>5, <1>6, <1>9 DEF TalkInv

(* A row of the tickets is replaced by one that fits.                        *)
LEMMA TicketReplaced ==
    ASSUME TalkInv, NEW t \in 1..Len(support), NEW row \in SupportRows, support' = [support EXCEPT ![t] = row],
           RepliedFits(row), row.read => t \in opened, opened' = opened,
           UNCHANGED <<chat, private, notice, listed, late, listings, unannounced>>,
           talkCall' \in [TalkCalls -> TalkRequests],
           \A k \in TalkCalls : talkCall'[k].pc # "idle" => talkCall'[k] = talkCall[k],
           \A k \in TalkCalls : talkCall[k].pc = "notify" => talkCall'[k] = talkCall[k]
    PROVE  TalkInv'
<1>1. WrittenTyped /\ support \in Seq(SupportRows)
    BY DEF TalkInv, WrittenTyped
<1>2. /\ support' \in Seq(SupportRows) /\ Len(support') = Len(support)
      /\ \A s \in 1..Len(support) : support'[s] = IF s = t THEN row ELSE support[s]
    <2>1. support \in [1..Len(support) -> SupportRows]
        BY <1>1, LenProperties, TalkKinds
    <2>2. support' \in [1..Len(support) -> SupportRows]
        BY <2>1
    <2> QED BY <1>1, <2>1, <2>2, Mapped
<1>3. /\ WrittenTyped' /\ ListIsShown' /\ OneNoticeEach' /\ HalfListed' /\ ListingsArePast'
      /\ ReadWasShown' /\ ListingIsComplete'
    BY <1>2, OnlyTickets
<1>4. MarksWereOpened'
    BY <1>2 DEF TalkInv, MarksWereOpened
<1>5. /\ \A s \in 1..Len(support) : RepliedFits(support[s])
      /\ \A s \in 1..Len(support) : support[s].read => s \in opened
    BY <1>1, SupportFits DEF TalkInv
<1>6. DOMAIN support' = 1..Len(support')
    BY <1>2, LenProperties
<1>7. RepliedHasReply'
    BY <1>2, <1>5, <1>6 DEF RepliedHasReply, RepliedFits
<1>8. ReadTicketWasOpened'
    BY <1>2, <1>5, <1>6 DEF ReadTicketWasOpened
<1> QED BY <1>3, <1>4, <1>7, <1>8 DEF TalkInv

LEMMA TicketRow ==
    ASSUME TalkInv, NEW t \in 1..Len(support)
    PROVE  /\ support[t] \in SupportRows /\ RepliedFits(support[t]) /\ (support[t].read => t \in opened)
           /\ DOMAIN support = 1..Len(support)
BY TalkKinds, SupportFits DEF TalkInv

LEMMA UserRepliesKeeps ==
    ASSUME TalkInv, NEW k \in TalkCalls, NEW u \in Talkers, NEW t \in DOMAIN support, UserReplies(k, u, t)
    PROVE  TalkInv'
<1>1. /\ support' = [support EXCEPT ![t].thread = Append(@, u)]
      /\ UNCHANGED <<chat, private, notice, talkCall, listed, late, listings, opened, unannounced>>
    BY DEF UserReplies
<1>2. t \in 1..Len(support) /\ talkCall \in [TalkCalls -> TalkRequests]
    BY TalkKinds DEF TalkInv, WrittenTyped
<1>3. /\ support[t] \in SupportRows /\ RepliedFits(support[t]) /\ (support[t].read => t \in opened)
    BY <1>2, TicketRow
<1> DEFINE thread == Append(support[t].thread, u)
           row == [support[t] EXCEPT !.thread = thread]
<1>4. support[t].thread \in Seq(Talkers \cup {"admin"}) /\ u \in Talkers \cup {"admin"} /\ u # "admin"
    BY <1>3, TalkAssumption DEF SupportRows
<1>5. thread \in Seq(Talkers \cup {"admin"}) /\ ToSet(thread) = ToSet(support[t].thread) \cup {u}
    BY <1>4, Grown, GrownSet
<1>6. support' = [support EXCEPT ![t] = row]
    BY <1>1
<1> HIDE DEF thread
<1>7. /\ row \in SupportRows /\ row.thread = thread /\ row.replied = support[t].replied /\ row.read = support[t].read
    BY <1>3, <1>5 DEF SupportRows
<1> HIDE DEF row
<1>8. RepliedFits(row)
    BY <1>3, <1>4, <1>5, <1>7 DEF RepliedFits
<1> QED BY <1>1, <1>2, <1>3, <1>6, <1>7, <1>8, TicketReplaced

LEMMA AdminRepliesKeeps ==
    ASSUME TalkInv, NEW k \in TalkCalls, NEW t \in DOMAIN support, AdminReplies(k, t) PROVE TalkInv'
<1>1. /\ support' = [support EXCEPT ![t].thread = Append(@, "admin"), ![t].replied = TRUE]
      /\ UNCHANGED <<chat, private, notice, talkCall, listed, late, listings, opened, unannounced>>
    BY DEF AdminReplies
<1>2. t \in 1..Len(support) /\ talkCall \in [TalkCalls -> TalkRequests] /\ t \in DOMAIN support
    BY TalkKinds DEF TalkInv, WrittenTyped
<1>3. /\ support[t] \in SupportRows /\ RepliedFits(support[t]) /\ (support[t].read => t \in opened)
    BY <1>2, TicketRow
<1> DEFINE thread == Append(support[t].thread, "admin")
           row == [support[t] EXCEPT !.thread = thread, !.replied = TRUE]
<1>4. support[t].thread \in Seq(Talkers \cup {"admin"}) /\ "admin" \in Talkers \cup {"admin"}
    BY <1>3 DEF SupportRows
<1>5. thread \in Seq(Talkers \cup {"admin"}) /\ ToSet(thread) = ToSet(support[t].thread) \cup {"admin"}
    BY <1>4, Grown, GrownSet
<1>6. support' = [support EXCEPT ![t] = row]
    BY <1>1, <1>2
<1> HIDE DEF thread
<1>7. /\ row \in SupportRows /\ row.thread = thread /\ row.replied = TRUE /\ row.read = support[t].read
    BY <1>3, <1>5 DEF SupportRows
<1> HIDE DEF row
<1>8. RepliedFits(row)
    BY <1>5, <1>7 DEF RepliedFits
<1> QED BY <1>1, <1>2, <1>3, <1>6, <1>7, <1>8, TicketReplaced

LEMMA MarkTicketKeeps ==
    ASSUME TalkInv, NEW k \in TalkCalls, MarkTicket(k) PROVE TalkInv'
<1>0. PICK t : t = talkCall[k].row
    OBVIOUS
<1>1. /\ talkCall[k].pc = "mark" /\ TalkGoes(k, NoTalk) /\ support' = [support EXCEPT ![t].read = TRUE]
      /\ UNCHANGED <<chat, private, notice, listed, late, listings, opened, unannounced>>
    BY <1>0 DEF MarkTicket
<1>2. t \in 1..Len(support) /\ t \in opened
    BY <1>0, <1>1 DEF TalkInv, MarksWereOpened
<1>3. /\ talkCall' \in [TalkCalls -> TalkRequests] /\ talkCall'[k].pc = "idle"
      /\ \A other \in TalkCalls \ {k} : talkCall'[other] = talkCall[other]
    BY <1>1, TalkGoesOn, NoTalkIsOne DEF TalkInv
<1>4. support[t] \in SupportRows /\ RepliedFits(support[t])
    BY <1>2, TicketRow
<1> DEFINE row == [support[t] EXCEPT !.read = TRUE]
<1>5. support' = [support EXCEPT ![t] = row]
    BY <1>1
<1>6. row \in SupportRows /\ row.thread = support[t].thread /\ row.replied = support[t].replied
    BY <1>4 DEF SupportRows
<1> HIDE DEF row
<1>7. RepliedFits(row)
    BY <1>4, <1>6 DEF RepliedFits
<1> QED BY <1>1, <1>2, <1>3, <1>5, <1>6, <1>7, TicketReplaced

LEMMA OpenTicketKeeps ==
    ASSUME TalkInv, NEW k \in TalkCalls, NEW t \in DOMAIN support, OpenTicket(k, t) PROVE TalkInv'
<1> DEFINE call == [NoTalk EXCEPT !.pc = "mark", !.row = t]
<1>1. /\ talkCall[k].pc = "idle" /\ opened' = opened \cup {t}
      /\ talkCall' = talkCall \/ TalkGoes(k, call)
      /\ UNCHANGED <<chat, private, notice, support, listed, late, listings, unannounced>>
    BY DEF OpenTicket, AskTalk
<1>2. WrittenTyped /\ t \in 1..Len(support) /\ Len(support) \in Nat
    BY TalkKinds DEF TalkInv
<1>3. call \in TalkRequests /\ call.pc = "mark" /\ call.row = t
    <2>1. t \in Nat
        BY <1>2
    <2> QED BY <2>1 DEF TalkRequests, NoTalk
<1> HIDE DEF call
<1>4. /\ talkCall' \in [TalkCalls -> TalkRequests] /\ talkCall'[k] \in {talkCall[k], call}
      /\ \A other \in TalkCalls \ {k} : talkCall'[other] = talkCall[other]
    <2>1. CASE talkCall' = talkCall
        BY <1>2, <2>1 DEF WrittenTyped
    <2>2. CASE TalkGoes(k, call)
        BY <1>2, <1>3, <2>2, TalkGoesOn
    <2> QED BY <1>1, <2>1, <2>2
<1>5. /\ WrittenTyped' /\ ListIsShown' /\ OneNoticeEach' /\ HalfListed' /\ ListingsArePast'
      /\ ReadWasShown' /\ ListingIsComplete'
    <2>1. /\ \A c \in TalkCalls : talkCall'[c].pc \in {"read", "received", "notify"} => talkCall'[c] = talkCall[c]
          /\ \A c \in TalkCalls : talkCall[c].pc = "notify" => talkCall'[c] = talkCall[c]
        BY <1>1, <1>3, <1>4
    <2> QED BY <1>1, <1>2, <1>4, <2>1, OnlyTickets DEF WrittenTyped
<1>6. MarksWereOpened'
    <2> SUFFICES ASSUME NEW c \in TalkCalls, talkCall'[c].pc = "mark"
                 PROVE  talkCall'[c].row \in 1..Len(support') /\ talkCall'[c].row \in opened'
        BY DEF MarksWereOpened
    <2>1. CASE talkCall'[c] = call
        BY <1>1, <1>2, <1>3, <2>1
    <2>2. CASE talkCall'[c] = talkCall[c]
        BY <1>1, <2>2 DEF TalkInv, MarksWereOpened
    <2> QED BY <1>4, <2>1, <2>2
<1>7. RepliedHasReply' /\ ReadTicketWasOpened'
    BY <1>1 DEF TalkInv, RepliedHasReply, ReadTicketWasOpened
<1> QED BY <1>5, <1>6, <1>7 DEF TalkInv

\* A restart ends the requests, and with them the notifications that were to come.
LEMMA MessageRestartKeeps == ASSUME TalkInv, MessageRestart PROVE TalkInv'
<1>1. /\ \A k \in TalkCalls : talkCall'[k] = NoTalk
      /\ unannounced' = unannounced \cup {talkCall[k].row : k \in {c \in TalkCalls : talkCall[c].pc = "notify"}}
      /\ talkCall' \in [TalkCalls -> TalkRequests]
      /\ UNCHANGED <<chat, private, notice, support, listed, late, listings, opened>>
    BY NoTalkIsOne DEF MessageRestart
<1>2. \A k \in TalkCalls : talkCall'[k].pc = "idle"
    BY <1>1, NoTalkIsOne
<1>3. WrittenTyped /\ WrittenTyped'
    BY <1>1 DEF TalkInv, WrittenTyped
<1>4. PrivateStay
    BY <1>1, <1>3, UnchangedStays
<1>5. ListIsShown' /\ ReadWasShown' /\ HalfListed' /\ ListingsArePast' /\ ListingIsComplete'
    BY <1>1, <1>2, <1>4, ShownKept, ReadKept, ListingsKept
<1>6. MarksWereOpened' /\ RepliedHasReply' /\ ReadTicketWasOpened'
    BY <1>1, <1>2, TicketsKept
<1>7. OneNoticeEach'
    <2>1. \A i \in 1..Len(private) : i \in unannounced \/ Notified(i) \/ \E k \in TalkCalls : AwaitsNotice(k, i)
        BY DEF TalkInv, OneNoticeEach
    <2>2. \A i \in 1..Len(private) : i \in unannounced' \/ Notified(i)
        BY <1>1, <2>1 DEF AwaitsNotice
    <2>3. \A i : Notified(i)' <=> Notified(i)
        BY <1>1 DEF Notified
    <2>4. \A i \in 1..Len(private') : i \in unannounced' \/ Notified(i)' \/ \E k \in TalkCalls : AwaitsNotice(k, i)'
        BY <1>1, <2>2, <2>3
    <2> QED BY <1>1, <1>2, <2>4 DEF TalkInv, OneNoticeEach
<1> QED BY <1>3, <1>5, <1>6, <1>7 DEF TalkInv

LEMMA TalkStep == ASSUME TalkInv, [MessageNext]_messageVars PROVE TalkInv'
<1>1. CASE UNCHANGED messageVars
    <2>1. UNCHANGED <<chat, private, notice, support, talkCall, listed, late, listings, opened, unannounced>>
        BY <1>1 DEF messageVars
    <2>2. WrittenTyped /\ WrittenTyped' /\ PrivateStay
        BY <2>1, UnchangedStays DEF TalkInv, WrittenTyped
    <2>3. ListIsShown' /\ ReadWasShown' /\ HalfListed' /\ ListingsArePast' /\ ListingIsComplete' /\ OneNoticeEach'
        BY <2>1, <2>2, ShownKept, ReadKept, ListingsKept, NoticesKept DEF WrittenTyped
    <2>4. MarksWereOpened' /\ RepliedHasReply' /\ ReadTicketWasOpened'
        BY <2>1, TicketsKept
    <2> QED BY <2>2, <2>3, <2>4 DEF TalkInv
<1>2. ASSUME NEW k \in TalkCalls, NotifyReceiver(k) \/ MarkPrivate(k) \/ ListReceived(k) \/ MarkTicket(k)
      PROVE  TalkInv'
    BY <1>2, NotifyReceiverKeeps, MarkPrivateKeeps, ListReceivedKeeps, MarkTicketKeeps
<1>3. ASSUME NEW k \in TalkCalls, NEW u \in Talkers, SendMessage(k, u) \/ ListSent(k, u) \/ MarkAsRead(k, u)
      PROVE  TalkInv'
    BY <1>3, SendMessageKeeps, ListSentKeeps, MarkAsReadKeeps
<1>4. ASSUME NEW k \in TalkCalls, NEW u \in Talkers, NEW v \in Talkers, SendPrivateMessage(k, u, v) \/ ListPrivate(k, u, v)
      PROVE  TalkInv'
    BY <1>4, SendPrivateMessageKeeps, ListPrivateKeeps
<1>5. ASSUME NEW k \in TalkCalls, NEW u \in Talkers \cup {Visitor}, CreateTicket(k, u) PROVE TalkInv'
    BY <1>5, CreateTicketKeeps
<1>6. ASSUME NEW k \in TalkCalls, NEW t \in DOMAIN support,
             OpenTicket(k, t) \/ AdminReplies(k, t) \/ \E u \in Talkers : UserReplies(k, u, t)
      PROVE  TalkInv'
    BY <1>6, OpenTicketKeeps, AdminRepliesKeeps, UserRepliesKeeps
<1>7. CASE MessageNext
    BY <1>2, <1>3, <1>4, <1>5, <1>6, <1>7, MessageRestartKeeps DEF MessageNext
<1> QED BY <1>1, <1>7

(* With any users, requests, rows and sizes of the pages: what is marked as *)
(* read was shown to its receiver or lies beyond its page, a message whose  *)
(* request is over has one notification unless its creation failed, a list  *)
(* of conversations misses no partner there was when it began, and tickets  *)
(* count as replied and read exactly when they were.                        *)
THEOREM MessagesHold == MessageSpec => []MessagesSafe
<1>1. TalkInv => MessagesSafe
    <2> SUFFICES ASSUME TalkInv PROVE MessagesSafe
        OBVIOUS
    <2>1. WrittenTyped
        BY DEF TalkInv
    <2>2. MessageTypeOK
        <3>1. \A i \in DOMAIN chat : chat[i].by \in Talkers /\ chat[i].reply \in 0..(i - 1)
            <4>1. \A i \in 1..Len(chat) : chat[i].by \in Talkers /\ chat[i].reply \in Nat /\ chat[i].reply <= i - 1
                BY <2>1, TalkKinds DEF WrittenTyped, ChatRows
            <4>2. DOMAIN chat = 1..Len(chat) /\ Len(chat) \in Nat
                BY <2>1, TalkKinds
            <4> QED BY <4>1, <4>2
        <3>2. \A i \in DOMAIN notice : notice[i] \in [user : Talkers, about : DOMAIN private, read : BOOLEAN]
            BY <2>1, TalkKinds DEF WrittenTyped, NoticeRows
        <3>3. /\ \A i \in DOMAIN private : private[i] \in [from : Talkers, to : Talkers, read : BOOLEAN]
              /\ \A i \in DOMAIN support : support[i].user \in Talkers \cup {Visitor}
            BY <2>1, TalkKinds DEF PrivateRows, SupportRows
        <3>4. ChatPage \subseteq DOMAIN chat
            BY DEF ChatPage, Newest
        <3> QED BY <3>1, <3>2, <3>3, <3>4 DEF MessageTypeOK
    <2>3. MessageIsAnnounced
        <3> SUFFICES ASSUME NEW i \in DOMAIN private, i \notin unannounced, ~ \E k \in TalkCalls : AwaitsNotice(k, i)
                     PROVE  /\ Cardinality(Rows(notice, LAMBDA n : n.about = i)) = 1
                            /\ Rows(notice, LAMBDA n : n.about = i /\ n.user = private[i].to) # {}
            BY DEF MessageIsAnnounced, AwaitsNotice
        <3>1. /\ DOMAIN private = 1..Len(private) /\ DOMAIN notice = 1..Len(notice)
            BY <2>1, TalkKinds
        <3>2. PICK a \in 1..Len(notice) : notice[a].about = i
            BY <3>1 DEF TalkInv, OneNoticeEach, Notified
        <3>3. notice[a].user = private[i].to /\ \A b \in 1..Len(notice) : notice[b].about = i => b = a
            BY <3>2 DEF TalkInv, OneNoticeEach
        <3>4. {b \in DOMAIN notice : notice[b].about = i} = {a}
            BY <3>1, <3>2, <3>3
        <3>5. Cardinality({a}) = 1
            BY FS_Singleton
        <3>6. a \in {b \in DOMAIN notice : notice[b].about = i /\ notice[b].user = private[i].to}
            BY <3>1, <3>2, <3>3
        <3> QED BY <3>4, <3>5, <3>6 DEF Rows
    <2> QED BY <2>2, <2>3 DEF TalkInv, MessagesSafe
<1> QED BY <1>1, TalkInitially, TalkStep, PTL DEF MessageSpec

-----------------------------------------------------------------------------
(* The composition: one part of the back office in each behaviour, payouts   *)
(* either by the cron or by processApprovedWithdrawal.                       *)

(* One cron run, one administrator and one payer, as the server has them;    *)
(* administrators approve what their list shows as pending.                  *)
OneOfEach ==
    /\ r1 \in Requests
    /\ \A p, q \in Payers : p = q
    /\ \A p, q \in Admins : p = q
    /\ \A p, q \in AutoPayers : p = q
    /\ PendingSeen

backOfficeVars == <<vars, pageVars, formVars, gateVars, messageVars, contentVars, focus>>

\* processApprovedWithdrawal makes the payouts in this behaviour.
ByPayer == focus = "single"

LEMMA PayoutSteps ==
    ASSUME OneOfEach, [MCNext]_backOfficeVars
    PROVE  /\ ByPayer' <=> ByPayer
           /\ [Next]_vars
           /\ ByPayer => [SingleNext]_vars
           /\ ~ByPayer => [CronNext]_vars
<1>1. SingleNext => Next
  BY DEF OneOfEach, SingleNext, HandlerStep, Next
<1>2. CronNext => Next
  BY DEF CronNext, HandlerStep, Next
<1>4. CASE UNCHANGED backOfficeVars
  BY <1>4 DEF backOfficeVars, ByPayer
<1>5. CASE MCNext
  BY <1>1, <1>2, <1>5 DEF MCNext, ByPayer
<1> QED BY <1>4, <1>5

(* Every behaviour of the composition is one of the payouts' own.            *)
LEMMA PayoutsAreWithdrawals ==
    ASSUME OneOfEach
    PROVE  /\ MCSpec => Spec
           /\ MCSpec => []ByPayer \/ []~ByPayer
           /\ MCSpec /\ []ByPayer => Init /\ [][SingleNext]_vars
           /\ MCSpec /\ []~ByPayer => Init /\ [][CronNext]_vars
<1>1. MCInit => Init
  BY DEF MCInit
<1>2. [MCNext]_backOfficeVars =>
          /\ ByPayer' <=> ByPayer
          /\ [Next]_vars
          /\ ByPayer => [SingleNext]_vars
          /\ ~ByPayer => [CronNext]_vars
  BY PayoutSteps
<1>3. MCSpec => Init /\ [][MCNext]_backOfficeVars
  BY <1>1 DEF MCSpec, backOfficeVars
<1> QED BY <1>2, <1>3, PTL DEF Spec

(* Alone, the cron is at work by itself, whatever fails.                     *)
LEMMA CronByItself == ASSUME OneOfEach PROVE Init /\ [][CronNext]_vars /\ []TypeInv => []CronAtWork
<1>1. Init => CronAtWork
  BY DEF Init, CronAtWork, OneAtWork, IdleWork, Workers
<1>2. ASSUME TypeInv, CronAtWork, [CronNext]_vars PROVE CronAtWork'
  <2>1. TypeOK /\ \A p, q \in Payers : p = q
    BY <1>2 DEF TypeInv, OneOfEach
  <2>2. SUFFICES \A q \in Workers \ Payers : work'[q].pc = "idle"
    BY <2>1 DEF CronAtWork, OneAtWork
  <2>3. CASE UNCHANGED work
    BY <1>2, <2>3 DEF CronAtWork
  <2>4. ASSUME NEW p \in Payers, PayerStep(p) PROVE \A q \in Workers \ Payers : work'[q].pc = "idle"
    <3>1. p \in Workers
      BY DEF Workers
    <3>2. \A q \in Workers : q # p => work'[q] = work[q]
      BY <2>1, <2>4, <3>1, AtWork
    <3> QED BY <1>2, <3>2 DEF CronAtWork
  <2>5. CASE Crash
    BY <2>5 DEF Crash, IdleWork
  <2> QED BY <1>2, <2>3, <2>4, <2>5
          DEF CronNext, RequestStep, Request, CheckFunds, ReserveFunds, CommitRequest, RequestThrows, vars
<1> QED BY <1>1, <1>2, PTL

(* Calls of each kind, one at a time: the cron rests.                        *)
OneCallEach == PayerAtWork /\ OneRequest /\ \A r \in Requests \ {r1} : req[r].pc = "idle"

LEMMA OneCallByOne == ASSUME OneOfEach PROVE Init /\ [][SingleNext]_vars /\ []TypeInv => []OneCallEach
<1>1. Init => OneCallEach
  BY DEF Init, OneCallEach, PayerAtWork, OneRequest, IdleWork, IdleReq, Workers
<1>2. ASSUME TypeInv, OneCallEach, [SingleNext]_vars PROVE OneCallEach'
  <2>1. /\ TypeOK /\ r1 \in Requests
        /\ \A p, q \in Admins : p = q
        /\ \A p, q \in AutoPayers : p = q
        /\ Admins \cap Payers = {} /\ AutoPayers \cap Payers = {}
        /\ Payers \subseteq Workers
    BY <1>2, WithdrawalsAssumption DEF TypeInv, OneOfEach, Workers
  <2>2. SUFFICES /\ \A q \in Payers : work'[q].pc = "idle"
                 /\ \A r \in Requests \ {r1} : req'[r].pc = "idle"
    BY <2>1 DEF OneCallEach, PayerAtWork, OneRequest
  <2>3. CASE UNCHANGED vars
    BY <1>2, <2>3 DEF vars, OneCallEach, PayerAtWork
  <2>4. CASE RequestStep(r1)
    <3>1. UNCHANGED work /\ \A r \in Requests \ {r1} : req'[r] = req[r]
      BY <2>1, <2>4 DEF RequestStep, Request, CheckFunds, ReserveFunds, CommitRequest, RequestThrows, TypeOK
    <3> QED BY <1>2, <3>1 DEF OneCallEach, PayerAtWork
  <2>5. ASSUME NEW p \in Workers \ Payers, AdminStep(p) \/ AutoStep(p)
        PROVE  /\ \A q \in Payers : work'[q].pc = "idle"
               /\ \A r \in Requests \ {r1} : req'[r].pc = "idle"
    <3>1. \A q \in Workers : q # p => work'[q] = work[q]
      BY <2>1, <2>5, AtWork
    <3>2. UNCHANGED req
      BY <2>5, WorkersKeepRequests
    <3> QED BY <1>2, <2>1, <3>1, <3>2 DEF OneCallEach, PayerAtWork
  <2>6. \A p \in Admins \cup AutoPayers : p \in Workers \ Payers
    BY <2>1 DEF Workers
  <2>7. CASE Crash
    BY <2>1, <2>7 DEF Crash, IdleWork, IdleReq
  <2> QED BY <1>2, <2>3, <2>4, <2>5, <2>6, <2>7 DEF SingleNext
<1> QED BY <1>1, <1>2, PTL

(* With one handler of each kind, and either the cron or                     *)
(* processApprovedWithdrawal making the payouts, whatever fails and however  *)
(* often the server dies, no debit is lost, doubled or refunded twice, and a *)
(* row is settled again only where something failed, for any users, rows and *)
(* amounts; what the cron marks failed has its funds back, and next to the   *)
(* single payer, with one request at a time, a user has one pending row.     *)
THEOREM PayoutsHold == ASSUME OneOfEach PROVE MCSpec => []PayoutsSafe
<1>1. OpenSeen
  BY DEF OneOfEach, PendingSeen, OpenSeen, Open
<1>2. CronAtWork => OneAtWork
  BY DEF CronAtWork
<1>3. OneCallEach => PayerAtWork /\ OneRequest
  BY DEF OneCallEach
<1>4. Spec /\ []CronAtWork =>
          []FundsConserved /\ []RefundedAtMostOnce /\ []RepeatsFollowFaults /\ []FailedIsRefunded
  BY <1>1, <1>2, FundsAddUp, RefundedOnce, CronRepeats, CronRefundsFailedRows, PTL
<1>5. Spec /\ []OneCallEach =>
          []FundsConserved /\ []RefundedAtMostOnce /\ []RepeatsFollowFaults /\ []OnePending
  <2>1. PendingSeen
    BY DEF OneOfEach
  <2>2. Spec /\ []PayerAtWork => []FundsConserved
    BY <2>1, OnePayerKeepsFunds
  <2>3. Spec /\ []PayerAtWork => []RepeatsFollowFaults
    BY <2>1, OnePayerRepeats
  <2>4. Spec /\ []PayerAtWork => []RefundedAtMostOnce
    BY <2>1, OnePayerKeepsHashes
  <2> QED BY <1>3, <2>2, <2>3, <2>4, OneRequestOnePending, PTL
<1>6. ~ByPayer /\ FundsConserved /\ RefundedAtMostOnce /\ RepeatsFollowFaults /\ FailedIsRefunded => PayoutsSafe
  BY DEF PayoutsSafe, CronRefundsFailed, SingleOnePending, ByPayer
<1>7. ByPayer /\ FundsConserved /\ RefundedAtMostOnce /\ RepeatsFollowFaults /\ OnePending => PayoutsSafe
  BY DEF PayoutsSafe, CronRefundsFailed, SingleOnePending, ByPayer
<1> QED BY <1>4, <1>5, <1>6, <1>7, TypeInvariant, PayoutsAreWithdrawals, CronByItself, OneCallByOne, PTL

LEMMA PagesAndForms == MCSpec => PageSpec /\ FormSpec
<1>1. MCInit => PageInit /\ FormInit
  BY DEF MCInit
<1>2. [MCNext]_backOfficeVars => [PageNext]_pageVars /\ [FormNext]_formVars
  BY DEF MCNext, backOfficeVars
<1>3. MCSpec => MCInit /\ [][MCNext]_backOfficeVars
  BY DEF MCSpec, backOfficeVars
<1> QED BY <1>1, <1>2, <1>3, PTL DEF PageSpec, FormSpec

(* No step of the back office loses a recorded hash, shows older rows than   *)
(* it has shown, or saves a form over another row than it was opened for.    *)
THEOREM RowsStay == ASSUME OneOfEach PROVE MCSpec => RowsKept
<1>1. OpenSeen /\ PendingSeen
  BY DEF OneOfEach, PendingSeen, OpenSeen, Open
<1>2. CronAtWork => OneAtWork
  BY DEF CronAtWork
<1>3. OneCallEach => PayerAtWork
  BY DEF OneCallEach
<1>4. Spec /\ []OneAtWork => HashKept
  BY <1>1, HashesStay
<1>5. Spec /\ []PayerAtWork => HashKept
  BY <1>1, OnePayerKeepsHashes
<1>6. MCSpec => HashKept
  BY <1>2, <1>3, <1>4, <1>5, TypeInvariant, PayoutsAreWithdrawals, CronByItself, OneCallByOne, PTL
<1> QED BY <1>6, PagesAndForms, RowsOnlyStepForward, FormsEditTheirRows, PTL DEF RowsKept
=============================================================================
