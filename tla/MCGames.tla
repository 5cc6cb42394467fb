------------------------------ MODULE MCGames -------------------------------
(* Games for one player on one socket.                                      *)
EXTENDS Games

MCOnePlayer(s) == "player"
=============================================================================
