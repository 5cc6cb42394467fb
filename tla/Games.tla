------------------------------- MODULE Games -------------------------------
(***************************************************************************)
(* The games played over web sockets: one session per socket, a cooldown   *)
(* per user and game that is checked when a game starts and set when it    *)
(* ends, and the power a won game grants.  What a move does to the boards  *)
(* is in MatchThree; here a move brings the session nearer to its goal.    *)
(***************************************************************************)
EXTENDS Integers, FiniteSets, FiniteSetsExt

CONSTANTS
    Sockets, PlayerOf(_), \* each connection, and who plays on it
    GameNames,
    GameCalls,     \* starts and finishes in flight together
    Goal,          \* moves to win
    GameCooldown, MinPlay, LongPower, ShortPower, \* times
    MaxPowers,     \* powers a user may hold, as the comment in finishGame has it
    MaxGameTime, MaxGameAsks \* bounds

ASSUME GameAssumption ==
    /\ {Goal, GameCooldown, MinPlay, LongPower, ShortPower, MaxPowers, MaxGameTime, MaxGameAsks} \subseteq Nat
    /\ Goal > 0 /\ MaxGameTime > 0

Players == {PlayerOf(s) : s \in Sockets}
NoGame == "none"
NoSession == [game |-> NoGame, start |-> 0, score |-> 0]
NoGameCall == [pc |-> "idle", socket |-> NoGame, game |-> NoGame, expires |-> 0, total |-> 0]

VARIABLES
    gameTime,
    socket,        \* whether each connection is open
    gameSession,   \* GAME_SESSIONS
    lastFinish,    \* LAST_GAME_FINISH, 0 when there is none
    paused,        \* games an administrator paused
    checkedIn,     \* players with a confirmed check-in today
    powers,        \* users_powers_games: how many rows expire at each time
    gameRate,      \* the engine's copy of the power of each player
    gameCall,
    tooQuick,      \* history: rewards that came too soon after the last finish, or too soon after the start
    sessionsCrossed, \* history: a game was started while the player had one of its sessions or starts
    rateMissed,    \* history: two rewards of a player overlapped, or one threw after its power was granted
    leftEarly,     \* history: a socket closed while it was starting a game
    gameAsks

gameVars == <<gameTime, socket, gameSession, lastFinish, paused, checkedIn, powers, gameRate, gameCall,
              tooQuick, sessionsCrossed, rateMissed, leftEarly, gameAsks>>
gameRest == <<paused, checkedIn, sessionsCrossed, leftEarly, gameAsks>>

GameInit ==
    /\ gameTime = 1
    /\ socket = [s \in Sockets |-> "open"]
    /\ gameSession = [s \in Sockets |-> NoSession]
    /\ lastFinish = [u \in Players |-> [g \in GameNames |-> 0]]
    /\ paused = {} /\ checkedIn \in SUBSET Players
    /\ powers = [u \in Players |-> [t \in 1 .. MaxGameTime + LongPower + ShortPower |-> 0]]
    /\ gameRate = [u \in Players |-> 0]
    /\ gameCall = [k \in GameCalls |-> NoGameCall]
    /\ tooQuick = {} /\ rateMissed = FALSE /\ sessionsCrossed = FALSE /\ leftEarly = FALSE
    /\ gameAsks = 0

GameTick ==
    /\ gameTime < MaxGameTime
    /\ gameTime' = gameTime + 1
    /\ UNCHANGED <<socket, gameSession, lastFinish, powers, gameRate, gameCall, tooQuick, rateMissed, gameRest>>

-----------------------------------------------------------------------------
(* game:start                                                               *)

Cooled(u, g) == lastFinish[u][g] = 0 \/ gameTime - lastFinish[u][g] >= GameCooldown

Plays(u, g) ==
    \/ \E s \in Sockets : PlayerOf(s) = u /\ gameSession[s].game = g
    \/ \E k \in GameCalls : gameCall[k].pc = "upsert" /\ gameCall[k].game = g /\ PlayerOf(gameCall[k].socket) = u

StartGame(k, s, g) ==
    /\ socket[s] = "open" /\ gameCall[k].pc = "idle"
    /\ gameAsks < MaxGameAsks
    /\ gameAsks' = gameAsks + 1
    /\ Cooled(PlayerOf(s), g)
    /\ gameCall' = [gameCall EXCEPT ![k] = [NoGameCall EXCEPT !.pc = "upsert", !.socket = s, !.game = g]]
    /\ sessionsCrossed' = (sessionsCrossed \/ Plays(PlayerOf(s), g))
    /\ UNCHANGED <<gameTime, socket, gameSession, lastFinish, paused, checkedIn, powers, gameRate, tooQuick, rateMissed, leftEarly>>

\* The row of the game has arrived; the socket may be closed, and a session it had is replaced.
OpenSession(k) ==
    LET c == gameCall[k]
    IN  /\ c.pc = "upsert"
        /\ gameSession' = IF c.game \in paused THEN gameSession ELSE
              [gameSession EXCEPT ![c.socket] = [game |-> c.game, start |-> gameTime, score |-> 0]]
        /\ gameCall' = [gameCall EXCEPT ![k] = NoGameCall]
        /\ UNCHANGED <<gameTime, socket, lastFinish, powers, gameRate, tooQuick, rateMissed, gameRest>>

-----------------------------------------------------------------------------
(* game:action, game:end and finishGame                                     *)

Playing(s) == socket[s] = "open" /\ gameSession[s].game # NoGame

Move(s) ==
    /\ Playing(s) /\ gameSession[s].score + 1 < Goal
    /\ gameSession' = [gameSession EXCEPT ![s].score = @ + 1]
    /\ UNCHANGED <<gameTime, socket, lastFinish, powers, gameRate, gameCall, tooQuick, rateMissed, gameRest>>

\* The part of finishGame every finish runs, before it waits for anything.
Close(s) ==
    /\ gameSession' = [gameSession EXCEPT ![s] = NoSession]
    /\ lastFinish' = [lastFinish EXCEPT ![PlayerOf(s)][gameSession[s].game] = gameTime]
    /\ UNCHANGED <<gameTime, socket, powers, gameRate, gameRest>>

EndGame(s) == Playing(s) /\ Close(s) /\ UNCHANGED <<gameCall, tooQuick, rateMissed>>

LongEnoughAnyway(s) == TRUE
LongEnough(s) == gameTime - gameSession[s].start >= MinPlay

WinTooFast(s) ==
    /\ Playing(s) /\ gameSession[s].score + 1 = Goal
    /\ ~LongEnough(s)
    /\ Close(s) /\ UNCHANGED <<gameCall, tooQuick, rateMissed>>

Rewarding == {"checkin", "power", "sync", "tell"}

\* The move that wins; the reward waits for two queries.
Win(k, s) ==
    LET u == PlayerOf(s)
        g == gameSession[s].game
        soon == lastFinish[u][g] # 0 /\ gameTime - lastFinish[u][g] < GameCooldown
        short == gameTime - gameSession[s].start < MinPlay
    IN  /\ Playing(s) /\ gameSession[s].score + 1 = Goal
        /\ LongEnough(s) /\ gameCall[k].pc = "idle"
        /\ Close(s)
        /\ gameCall' = [gameCall EXCEPT ![k] = [NoGameCall EXCEPT !.pc = "checkin", !.socket = s, !.game = g]]
        /\ tooQuick' = tooQuick \cup (IF soon THEN {"cooldown"} ELSE {}) \cup (IF short THEN {"play"} ELSE {})
        /\ rateMissed' = (rateMissed \/ \E other \in GameCalls :
              gameCall[other].pc \in Rewarding /\ PlayerOf(gameCall[other].socket) = u)

ReadCheckin(k) ==
    LET c == gameCall[k]
        days == IF PlayerOf(c.socket) \in checkedIn THEN LongPower ELSE ShortPower
    IN  /\ c.pc = "checkin"
        /\ gameCall' = [gameCall EXCEPT ![k] = [c EXCEPT !.pc = "power", !.expires = gameTime + days]]
        /\ UNCHANGED <<gameTime, socket, gameSession, lastFinish, powers, gameRate, tooQuick, rateMissed, gameRest>>

GrantPower(k) ==
    LET c == gameCall[k]
    IN  /\ c.pc = "power"
        /\ powers' = [powers EXCEPT ![PlayerOf(c.socket)][c.expires] = @ + 1]
        /\ gameCall' = [gameCall EXCEPT ![k].pc = "sync"]
        /\ UNCHANGED <<gameTime, socket, gameSession, lastFinish, gameRate, tooQuick, rateMissed, gameRest>>

LivePowers(u) == SumFunctionOnSet(powers[u], {t \in DOMAIN powers[u] : t > gameTime})

\* syncUserBaseHashRate, as far as games go; the engine is told in the same turn it answers.
SyncGames(k) ==
    LET c == gameCall[k]
    IN  /\ c.pc = "sync"
        /\ gameCall' = [gameCall EXCEPT ![k] = [c EXCEPT !.pc = "tell", !.total = LivePowers(PlayerOf(c.socket))]]
        /\ UNCHANGED <<gameTime, socket, gameSession, lastFinish, powers, gameRate, tooQuick, rateMissed, gameRest>>

TellGames(k) ==
    LET c == gameCall[k]
    IN  /\ c.pc = "tell"
        /\ gameRate' = [gameRate EXCEPT ![PlayerOf(c.socket)] = c.total]
        /\ gameCall' = [gameCall EXCEPT ![k] = NoGameCall]
        /\ UNCHANGED <<gameTime, socket, gameSession, lastFinish, powers, tooQuick, rateMissed, gameRest>>

\* A query of a start or of a finish throws: the cooldown stays as it was set.
GameThrows(k) ==
    /\ gameCall[k].pc \notin {"idle", "tell"}
    /\ gameCall' = [gameCall EXCEPT ![k] = NoGameCall]
    /\ rateMissed' = (rateMissed \/ gameCall[k].pc = "sync")
    /\ UNCHANGED <<gameTime, socket, gameSession, lastFinish, powers, gameRate, tooQuick, gameRest>>

-----------------------------------------------------------------------------
(* The world around                                                         *)

Disconnect(s) ==
    /\ socket[s] = "open"
    /\ socket' = [socket EXCEPT ![s] = "closed"]
    /\ gameSession' = [gameSession EXCEPT ![s] = NoSession]
    /\ leftEarly' = (leftEarly \/ \E k \in GameCalls : gameCall[k].pc = "upsert" /\ gameCall[k].socket = s)
    /\ UNCHANGED <<gameTime, lastFinish, paused, checkedIn, powers, gameRate, gameCall, tooQuick, rateMissed, sessionsCrossed, gameAsks>>

PauseGame(g) ==
    /\ g \notin paused /\ paused' = paused \cup {g}
    /\ UNCHANGED <<gameTime, socket, gameSession, lastFinish, checkedIn, powers, gameRate, gameCall, tooQuick,
                   rateMissed, sessionsCrossed, leftEarly, gameAsks>>

GameNext ==
    \/ GameTick
    \/ \E k \in GameCalls :
          \/ \E s \in Sockets : Win(k, s) \/ \E g \in GameNames : StartGame(k, s, g)
          \/ OpenSession(k) \/ ReadCheckin(k) \/ GrantPower(k) \/ SyncGames(k) \/ TellGames(k) \/ GameThrows(k)
    \/ \E s \in Sockets : Move(s) \/ EndGame(s) \/ WinTooFast(s) \/ Disconnect(s)
    \/ \E g \in GameNames : PauseGame(g)

GameSpec == GameInit /\ [][GameNext]_gameVars

-----------------------------------------------------------------------------
(* Sessions, calls and powers hold values of their kind.                    *)
GameTypeOK ==
    /\ gameTime \in 1 .. MaxGameTime /\ gameAsks \in 0 .. MaxGameAsks
    /\ socket \in [Sockets -> {"open", "closed"}]
    /\ gameSession \in [Sockets -> [game : GameNames \cup {NoGame}, start : Nat, score : 0 .. Goal - 1]]
    /\ lastFinish \in [Players -> [GameNames -> Nat]] /\ gameRate \in [Players -> Nat]
    /\ paused \subseteq GameNames /\ checkedIn \subseteq Players
    /\ \A u \in Players : \A t \in DOMAIN powers[u] : powers[u][t] \in Nat
    /\ \A k \in GameCalls :
          /\ gameCall[k].pc \in {"idle", "upsert", "checkin", "power", "sync", "tell"}
          /\ gameCall[k].pc # "idle" => gameCall[k].socket \in Sockets /\ gameCall[k].game \in GameNames
    /\ tooQuick \subseteq {"cooldown", "play"} /\ sessionsCrossed \in BOOLEAN /\ leftEarly \in BOOLEAN /\ rateMissed \in BOOLEAN

(* Rewards of a game come a cooldown after the last finish of it and a      *)
(* minimum of play after the start; only a player who had two of its        *)
(* sessions, or a session and a start, may be rewarded twice in a cooldown. *)
RewardsApart == "play" \notin tooQuick /\ ("cooldown" \in tooQuick => sessionsCrossed)

(* A session belongs to an open socket, so that nothing keeps sessions of   *)
(* players who left, unless one left while a game was starting.             *)
SessionsAreOpen == leftEarly \/ \A s \in Sockets : gameSession[s].game # NoGame => socket[s] = "open"

(* Once its rewards were told, the engine counts the powers a player holds, *)
(* unless two of them overlapped or one was cut short.                      *)
RateCountsPowers ==
    rateMissed \/ \A u \in Players :
        (\A k \in GameCalls : gameCall[k].pc \notin {"sync", "tell"}) => gameRate[u] >= LivePowers(u)

(* What the comment in finishGame says: the powers a player holds at once   *)
(* are limited to a safe number.                                            *)
PowersLimited == \A u \in Players : LivePowers(u) <= MaxPowers

(* A player's rewards are a cooldown apart, a session belongs to an open    *)
(* connection, and the rate mined with counts the powers that were won.     *)
GamesSafe ==
    /\ GameTypeOK /\ RewardsApart /\ SessionsAreOpen /\ RateCountsPowers
=============================================================================
