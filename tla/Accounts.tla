------------------------------ MODULE Accounts ------------------------------
(***************************************************************************)
(* Accounts: registration, sessions, passwords and their resets, names,    *)
(* the second factor and who referred whom.  Every handler reads the user, *)
(* waits (bcrypt, a QR code, another query) and writes; nothing is locked, *)
(* and only the unique columns of the database hold between the two.       *)
(***************************************************************************)
EXTENDS Integers, FiniteSets

CONSTANTS
    People,        \* one e-mail address each; an account is known by its owner
    Names, SameName(_, _), \* user names, and whether two are equal up to case
    Nets,          \* addresses requests come from
    Passwords, Secrets,
    AccountCalls,  \* requests in flight together
    NetLimit,      \* accounts a network may register
    MaxAccountAsks \* bound on the requests

Nobody == "none"

ASSUME AccountAssumption ==
    /\ IsFiniteSet(People) /\ Nobody \notin People \cup Nets
    /\ NetLimit \in Nat \ {0} /\ MaxAccountAsks \in Nat
    /\ \A a, b \in Names : SameName(a, b) \in BOOLEAN /\ (SameName(a, b) => SameName(b, a))

VARIABLES
    account,       \* users
    referral,      \* referrals: who referred the user
    session,       \* users with a valid access token
    mailed,        \* users with a valid reset token
    accountCall,
    links,         \* history: rows of each user inserted into referrals
    registeredAt,  \* history: the network of the registration
    confirmed,     \* history: the secret whose code enabled the second factor
    moved,         \* history: a login came from another network
    renamed,       \* history: a name was changed
    accountsCrossed, \* history: two requests were in flight together
    accountAsks

accountVars == <<account, referral, session, mailed, accountCall, links, registeredAt,
                 confirmed, moved, renamed, accountsCrossed, accountAsks>>
rowVars == <<account, referral, session, mailed>>
accountHistory == <<links, registeredAt, confirmed, moved, renamed>>
accountCount == <<accountsCrossed, accountAsks>>

NoAccount == [exists |-> FALSE, name |-> Nobody, password |-> Nobody, net |-> Nobody, banned |-> FALSE,
              secret |-> Nobody, twoFactor |-> FALSE, referredBy |-> Nobody]
NoAccountCall == [pc |-> "idle", user |-> Nobody, name |-> Nobody, net |-> Nobody, given |-> Nobody,
                  new |-> Nobody, other |-> Nobody]
Registered == {u \in People : account[u].exists}

\* Some people are registered already, one of them in each network at most,
\* and some of those have confirmed a second factor.
AccountInit ==
    \E R \in SUBSET People :
    \E name \in [R -> Names], net \in [R -> Nets], secret \in [R -> Secrets \cup {Nobody}], p \in Passwords :
        /\ \A u, v \in R : u # v => ~SameName(name[u], name[v]) /\ net[u] # net[v]
        /\ account = [u \in People |-> IF u \notin R THEN NoAccount ELSE
              [NoAccount EXCEPT !.exists = TRUE, !.name = name[u], !.password = p, !.net = net[u],
                                !.secret = secret[u], !.twoFactor = secret[u] # Nobody]]
        /\ registeredAt = [u \in People |-> IF u \in R THEN net[u] ELSE Nobody]
        /\ referral = [u \in People |-> Nobody] /\ links = [u \in People |-> 0]
        /\ session = R /\ mailed = {}
        /\ accountCall = [k \in AccountCalls |-> NoAccountCall]
        /\ confirmed = [u \in People |-> IF u \in R THEN secret[u] ELSE Nobody]
        /\ moved = FALSE /\ renamed = FALSE /\ accountsCrossed = FALSE
        /\ accountAsks = 0

AskAccount(k, call) ==
    /\ accountCall[k].pc = "idle"
    /\ accountAsks < MaxAccountAsks
    /\ accountAsks' = accountAsks + 1
    /\ accountsCrossed' = (accountsCrossed \/ \E other \in AccountCalls : accountCall[other].pc # "idle")
    /\ accountCall' = [accountCall EXCEPT ![k] = call]
    /\ UNCHANGED <<rowVars, accountHistory>>

\* requireAuth: a token that verifies, of a user that is there and not banned.
Authenticated(u) == u \in session /\ account[u].exists /\ ~account[u].banned

AskSigned(k, u, call) == Authenticated(u) /\ AskAccount(k, [call EXCEPT !.user = u])

\* A request answered at once.
Asked ==
    /\ accountAsks < MaxAccountAsks
    /\ accountAsks' = accountAsks + 1
    /\ UNCHANGED <<accountCall, accountHistory, accountsCrossed>>

At(k, pc) == accountCall[k].pc = pc
Then(k, call) == accountCall' = [accountCall EXCEPT ![k] = call] /\ UNCHANGED accountCount
\* The handler has read what it needs: it goes on, or answers an error.
ThenIf(k, holds, pc) ==
    /\ Then(k, IF holds THEN [accountCall[k] EXCEPT !.pc = pc] ELSE NoAccountCall)
    /\ UNCHANGED <<rowVars, accountHistory>>

-----------------------------------------------------------------------------
(* POST /register                                                           *)

AskRegister(k, u, name, net, password, referrer) ==
    AskAccount(k, [NoAccountCall EXCEPT !.pc = "count", !.user = u, !.name = name, !.net = net,
                                        !.new = password, !.other = referrer])

HasRoom(net) == Cardinality({u \in Registered : account[u].net = net}) < NetLimit

CountNet(k) == At(k, "count") /\ ThenIf(k, HasRoom(accountCall[k].net), "existing")

Taken(u, name) == account[u].exists \/ \E v \in Registered : SameName(account[v].name, name)

FindExisting(k) ==
    At(k, "existing") /\ ThenIf(k, ~Taken(accountCall[k].user, accountCall[k].name), "referrer")

\* A referrer that is not there, or was last seen on the same network, is none.
Counts(c) == c.other \in Registered /\ account[c.other].net # c.net

ResolveReferrer(k) ==
    LET c == accountCall[k]
    IN  /\ At(k, "referrer")
        /\ Then(k, [c EXCEPT !.pc = "create", !.other = IF Counts(c) THEN c.other ELSE Nobody])
        /\ UNCHANGED <<rowVars, accountHistory>>

\* One transaction; the columns email and username are unique, up to case.
CreateAccount(k) ==
    LET c == accountCall[k]
    IN  /\ At(k, "create")
        /\ ~account[c.user].exists /\ \A v \in Registered : account[v].name # c.name
        /\ account' = [account EXCEPT ![c.user] = [NoAccount EXCEPT !.exists = TRUE, !.name = c.name,
                                                       !.password = c.new, !.net = c.net]]
        /\ referral' = [referral EXCEPT ![c.user] = c.other]
        /\ links' = [links EXCEPT ![c.user] = @ + (IF c.other = Nobody THEN 0 ELSE 1)]
        /\ registeredAt' = [registeredAt EXCEPT ![c.user] = c.net]
        /\ Then(k, [c EXCEPT !.pc = "token"])
        /\ UNCHANGED <<session, mailed, confirmed, moved, renamed>>

\* The access token, and the row of a refresh token nothing reads again.
GiveToken(k) ==
    /\ At(k, "token")
    /\ session' = session \cup {accountCall[k].user}
    /\ Then(k, NoAccountCall)
    /\ UNCHANGED <<account, referral, mailed, accountHistory>>

-----------------------------------------------------------------------------
(* POST /login, GET /session, POST /logout                                  *)

AskLogin(k, name, password, code, net) ==
    AskAccount(k, [NoAccountCall EXCEPT !.pc = "login", !.name = name, !.given = password,
                                        !.new = code, !.net = net])

PassesTwoFactor(u, code) == account[u].twoFactor => code = account[u].secret

\* findFirst: any user whose name, or e-mail address, is equal up to case.
FindByIdentifier(name) == {u \in Registered : SameName(account[u].name, name)}

ReadLogin(k) ==
    LET c == accountCall[k]
        good(u) == /\ account[u].password = c.given
                   /\ ~account[u].banned
                   /\ PassesTwoFactor(u, c.new)
    IN  /\ At(k, "login")
        /\ \E u \in FindByIdentifier(c.name) :
              Then(k, IF good(u) THEN [c EXCEPT !.pc = "seen", !.user = u] ELSE NoAccountCall)
        /\ UNCHANGED <<rowVars, accountHistory>>

RememberLogin(k) ==
    LET c == accountCall[k]
    IN  /\ At(k, "seen")
        /\ account' = [account EXCEPT ![c.user].net = c.net]
        /\ moved' = (moved \/ c.net # registeredAt[c.user])
        /\ Then(k, [c EXCEPT !.pc = "token"])
        /\ UNCHANGED <<referral, session, mailed, links, registeredAt, confirmed, renamed>>

\* The browser drops its cookies, or the token expires.
UserLogout(u) ==
    /\ u \in session
    /\ session' = session \ {u}
    /\ UNCHANGED <<account, referral, mailed>> /\ Asked

-----------------------------------------------------------------------------
(* Passwords                                                                *)

AskChangePassword(k, u, current, new) ==
    AskSigned(k, u, [NoAccountCall EXCEPT !.pc = "compare", !.given = current, !.new = new])

CompareNot(k) == At(k, "compare") /\ ThenIf(k, TRUE, "password")

Compare(k) ==
    At(k, "compare") /\ ThenIf(k, accountCall[k].given = account[accountCall[k].user].password, "password")

\* The link of /forgot-password; it is good until it expires.
Forget(u) ==
    /\ u \in Registered \ mailed
    /\ mailed' = mailed \cup {u}
    /\ UNCHANGED <<account, referral, session>> /\ Asked

ExpireLink(u) ==
    /\ u \in mailed
    /\ mailed' = mailed \ {u}
    /\ UNCHANGED <<account, referral, session, accountCall, accountHistory, accountCount>>

AskReset(k, u, new) ==
    u \in mailed /\ AskAccount(k, [NoAccountCall EXCEPT !.pc = "reset", !.user = u, !.new = new])

\* Either of the two routes that take an administrator's key.
AskForce(k, u, new) ==
    AskAccount(k, [NoAccountCall EXCEPT !.pc = "reset", !.user = u, !.new = new])

ReadReset(k) == At(k, "reset") /\ ThenIf(k, accountCall[k].user \in Registered, "password")

WritePassword(k) ==
    LET c == accountCall[k]
    IN  /\ At(k, "password")
        /\ account' = [account EXCEPT ![c.user].password = c.new]
        /\ Then(k, NoAccountCall)
        /\ UNCHANGED <<referral, session, mailed, accountHistory>>

-----------------------------------------------------------------------------
(* changeUsername                                                           *)

AskRename(k, u, name) == AskSigned(k, u, [NoAccountCall EXCEPT !.pc = "rename", !.name = name])

\* Compared as it is written, and with other users' user names only.
NameFree(u, name) == \A v \in Registered \ {u} : account[v].name # name

ReadNames(k) == At(k, "rename") /\ ThenIf(k, NameFree(accountCall[k].user, accountCall[k].name), "name")

WriteName(k) ==
    LET c == accountCall[k]
    IN  /\ At(k, "name")
        /\ NameFree(c.user, c.name)        \* else the unique column refuses
        /\ account' = [account EXCEPT ![c.user].name = c.name]
        /\ renamed' = TRUE
        /\ Then(k, NoAccountCall)
        /\ UNCHANGED <<referral, session, mailed, links, registeredAt, confirmed, moved>>

-----------------------------------------------------------------------------
(* The second factor                                                        *)

AskGenerate(k, u, secret) == AskSigned(k, u, [NoAccountCall EXCEPT !.pc = "generate", !.new = secret])
AskEnable(k, u, code) == AskSigned(k, u, [NoAccountCall EXCEPT !.pc = "enable", !.given = code])
AskDisable(k, u, code) == AskSigned(k, u, [NoAccountCall EXCEPT !.pc = "disable", !.given = code])

ReadGenerateAnyway(k) == At(k, "generate") /\ ThenIf(k, TRUE, "secret")
ReadGenerate(k) == At(k, "generate") /\ ThenIf(k, ~account[accountCall[k].user].twoFactor, "secret")

WriteSecret(k) ==
    LET c == accountCall[k]
    IN  /\ At(k, "secret")
        /\ account' = [account EXCEPT ![c.user].secret = c.new]
        /\ Then(k, NoAccountCall)
        /\ UNCHANGED <<referral, session, mailed, accountHistory>>

ReadEnable(k) ==
    LET a == account[accountCall[k].user]
    IN  At(k, "enable") /\ ThenIf(k, ~a.twoFactor /\ a.secret # Nobody /\ accountCall[k].given = a.secret, "on")

TurnOn(k) ==
    LET c == accountCall[k]
    IN  /\ At(k, "on")
        /\ account' = [account EXCEPT ![c.user].twoFactor = TRUE]
        /\ confirmed' = [confirmed EXCEPT ![c.user] = c.given]
        /\ Then(k, NoAccountCall)
        /\ UNCHANGED <<referral, session, mailed, links, registeredAt, moved, renamed>>

ReadDisable(k) ==
    LET a == account[accountCall[k].user]
    IN  At(k, "disable") /\ ThenIf(k, a.twoFactor /\ accountCall[k].given = a.secret, "off")

TurnOff(k) ==
    LET c == accountCall[k]
    IN  /\ At(k, "off")
        /\ account' = [account EXCEPT ![c.user].twoFactor = FALSE, ![c.user].secret = Nobody]
        /\ Then(k, NoAccountCall)
        /\ UNCHANGED <<referral, session, mailed, accountHistory>>

-----------------------------------------------------------------------------
(* linkReferral                                                             *)

AskReferral(k, u, referrer, net) ==
    AskSigned(k, u, [NoAccountCall EXCEPT !.pc = "linked", !.other = referrer, !.net = net])

ReadReferral(k) == At(k, "linked") /\ ThenIf(k, referral[accountCall[k].user] = Nobody, "resolve")

Eligible(c) == c.other \in Registered \ {c.user} /\ account[c.other].net # c.net

ReadReferrer(k) == At(k, "resolve") /\ ThenIf(k, Eligible(accountCall[k]), "link")

WriteReferralAnyway(k) ==
    LET c == accountCall[k]
    IN  /\ At(k, "link")
        /\ referral' = [referral EXCEPT ![c.user] = c.other]
        /\ links' = [links EXCEPT ![c.user] = @ + (IF c.other = Nobody THEN 0 ELSE 1)]
        /\ account' = [account EXCEPT ![c.user].referredBy = c.other]
        /\ Then(k, NoAccountCall)
        /\ UNCHANGED <<session, mailed, registeredAt, confirmed, moved, renamed>>

\* One transaction of two statements; a user has one row in referrals.
WriteReferral(k) == At(k, "link") /\ referral[accountCall[k].user] = Nobody /\ WriteReferralAnyway(k)

-----------------------------------------------------------------------------
(* setUserBan, and failures                                                 *)

SetUserBan(u, isBanned) ==
    /\ u \in Registered /\ account[u].banned # isBanned
    /\ account' = [account EXCEPT ![u].banned = isBanned]
    /\ UNCHANGED <<referral, session, mailed>> /\ Asked

\* A query throws, a unique column refuses, nobody is found, or the process stops.
AccountThrows(k) ==
    /\ accountCall[k].pc # "idle"
    /\ Then(k, NoAccountCall)
    /\ UNCHANGED <<rowVars, accountHistory>>

AccountAsk(k) ==
    \/ \E u \in People, name \in Names, net \in Nets, p \in Passwords, r \in People \cup {Nobody} :
          AskRegister(k, u, name, net, p, r)
    \/ \E name \in Names, p \in Passwords, code \in Secrets \cup {Nobody}, net \in Nets :
          AskLogin(k, name, p, code, net)
    \/ \E u \in People, p, q \in Passwords : AskChangePassword(k, u, p, q)
    \/ \E u \in People, p \in Passwords : AskReset(k, u, p) \/ AskForce(k, u, p)
    \/ \E u \in People, name \in Names : AskRename(k, u, name)
    \/ \E u \in People, s \in Secrets : AskGenerate(k, u, s) \/ AskEnable(k, u, s) \/ AskDisable(k, u, s)
    \/ \E u, r \in People, net \in Nets : AskReferral(k, u, r, net)

AccountStep(k) ==
    \/ CountNet(k) \/ FindExisting(k) \/ ResolveReferrer(k) \/ CreateAccount(k) \/ GiveToken(k)
    \/ ReadLogin(k) \/ RememberLogin(k)
    \/ Compare(k) \/ ReadReset(k) \/ WritePassword(k)
    \/ ReadNames(k) \/ WriteName(k)
    \/ ReadGenerate(k) \/ WriteSecret(k) \/ ReadEnable(k) \/ TurnOn(k) \/ ReadDisable(k) \/ TurnOff(k)
    \/ ReadReferral(k) \/ ReadReferrer(k) \/ WriteReferral(k)
    \/ AccountThrows(k)

AccountNext ==
    \/ \E k \in AccountCalls : AccountAsk(k) \/ AccountStep(k)
    \/ \E u \in People : UserLogout(u) \/ Forget(u) \/ ExpireLink(u)
    \/ \E u \in People, isBanned \in BOOLEAN : SetUserBan(u, isBanned)

AccountSpec == AccountInit /\ [][AccountNext]_accountVars

-----------------------------------------------------------------------------
(* Accounts, links and requests hold values of their kind.                  *)
AccountTypeOK ==
    /\ account \in [People -> [exists : BOOLEAN, name : Names \cup {Nobody}, password : Passwords \cup {Nobody},
                               net : Nets \cup {Nobody}, banned : BOOLEAN, secret : Secrets \cup {Nobody},
                               twoFactor : BOOLEAN, referredBy : People \cup {Nobody}]]
    /\ \A u \in Registered : account[u].name \in Names /\ account[u].password \in Passwords
    /\ referral \in [People -> People \cup {Nobody}] /\ links \in [People -> Nat]
    /\ session \subseteq Registered /\ mailed \subseteq Registered
    /\ \A k \in AccountCalls : accountCall[k].user \in People \cup {Nobody}
    /\ registeredAt \in [People -> Nets \cup {Nobody}] /\ confirmed \in [People -> Secrets \cup {Nobody}]
    /\ moved \in BOOLEAN /\ renamed \in BOOLEAN /\ accountsCrossed \in BOOLEAN /\ accountAsks \in Nat

(* A name, however it is typed at the login, leads to one account, as long  *)
(* as nobody changed names and no two requests were in flight together.     *)
NamesApart ==
    renamed \/ accountsCrossed \/
    \A u, v \in Registered : SameName(account[u].name, account[v].name) => u = v

(* A network registers no more accounts than allowed, as long as no login   *)
(* moved a user to another network and no two registrations overlapped.     *)
NetsWithinLimit ==
    moved \/ accountsCrossed \/
    \A net \in Nets : Cardinality({u \in People : registeredAt[u] = net}) <= NetLimit

(* A user who must give a code has the secret the codes come from: it is    *)
(* the one confirmed, unless two requests were in flight together.          *)
SecondFactorKnown ==
    accountsCrossed \/ \A u \in Registered : account[u].twoFactor => account[u].secret = confirmed[u] /\ confirmed[u] # Nobody

\* The request is a reset, or gave the password that is being replaced.
MayReplace(c, u) == c.user = u /\ c.given \in {Nobody, account[u].password}

(* Who replaces a password gave the one it replaces, unless it is a reset,  *)
(* or another request replaced it in between.                               *)
PasswordsReplaced ==
    [][\A u \in Registered : account'[u].password # account[u].password =>
          accountsCrossed \/ \E k \in AccountCalls : At(k, "password") /\ MayReplace(accountCall[k], u)]_accountVars

(* Who referred a user is written down once, and it is never the user,      *)
(* however many requests to link one are in flight.                         *)
ReferredOnce == \A u \in People : links[u] <= 1 /\ referral[u] # u

(* Unless requests overlapped no two users have one name, no network has    *)
(* more users than its limit, a second factor's secret is the confirmed     *)
(* one, and a user is referred once.                                        *)
AccountsSafe ==
    /\ AccountTypeOK /\ NamesApart /\ NetsWithinLimit /\ SecondFactorKnown
    /\ ReferredOnce
=============================================================================
