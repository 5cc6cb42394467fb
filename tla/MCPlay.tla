------------------------------- MODULE MCPlay -------------------------------
(* What users do to earn, on small sets: the faucet, the shortlink, watched *)
(* time and cards, the games and the match board, with the request limiter. *)
(* The parts share no variable, so every interleaving of them projects to   *)
(* behaviours of each alone: a behaviour of this module is one part's,      *)
(* chosen in focus.                                                         *)
EXTENDS Faucet, Shortlink, WatchTime, Games, MatchThree, RateLimit, TLC

CONSTANTS s1, s2, k1, k2, g1, g2, y1, y2

VARIABLE focus

MCOnePlayer(s) == "player"

\* Every part treats the members of these pairs alike.
Turn(a, b) == (a :> b) @@ (b :> a)
Symmetry == Permutations({k1, k2}) \cup {Turn(s1, s2) @@ Turn(g1, g2) @@ Turn(y1, y2)}

MCInit ==
    /\ focus \in {"faucet", "link", "watch", "games", "match", "limit"}
    /\ FaucetInit
    /\ LinkInit
    /\ (focus = "link" \/ (linkReward /\ linkRuns = {}))
    /\ WatchInit
    /\ GameInit
    /\ (focus = "games" \/ checkedIn = {})
    /\ MatchInit
    /\ (focus = "match" \/ board = CHOOSE b \in StableBoards : TRUE)
    /\ LimitInit

MCNext ==
    \/ focus = "faucet" /\ FaucetNext
       /\ UNCHANGED <<linkVars, watchVars, gameVars, matchVars, limitVars, focus>>
    \/ focus = "link" /\ LinkNext
       /\ UNCHANGED <<faucetVars, watchVars, gameVars, matchVars, limitVars, focus>>
    \/ focus = "watch" /\ WatchNext
       /\ UNCHANGED <<faucetVars, linkVars, gameVars, matchVars, limitVars, focus>>
    \/ focus = "games" /\ GameNext
       /\ UNCHANGED <<faucetVars, linkVars, watchVars, matchVars, limitVars, focus>>
    \/ focus = "match" /\ MatchNext
       /\ UNCHANGED <<faucetVars, linkVars, watchVars, gameVars, limitVars, focus>>
    \/ focus = "limit" /\ LimitNext
       /\ UNCHANGED <<faucetVars, linkVars, watchVars, gameVars, matchVars, focus>>

MCSpec == MCInit /\ [][MCNext]_<<faucetVars, linkVars, watchVars, gameVars, matchVars, limitVars, focus>>

-----------------------------------------------------------------------------
(* The match board: symbols fall straight down in the order they had, and   *)
(* every move leaves the board full and without three in line.              *)
BoardKept == SymbolsFall /\ []MatchSafe
=============================================================================
