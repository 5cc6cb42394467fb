--------------------------- MODULE MCWithdrawals ---------------------------
(* Withdrawals on small sets: the users, the rows and the overlapping calls *)
(* are named in the cfg of each run.                                        *)
EXTENDS Withdrawals, TLC

MCAmounts == {1, 2}
MCOneAmount == {2}

MCNoGoal == {}
MCAnyGoal == {"approved", "completed", "failed"}

MCOpen == {"pending", "approved"}
MCPending == {"pending"}

MCUnmarked == {"lostAnswer", "crash"}
MCAnyFault == {"dbError", "lostAnswer", "crash"}

Symmetry == Permutations(Users) \cup Permutations(Ids) \cup Permutations(Requests)
=============================================================================
