----------------------------- MODULE MCDeposits -----------------------------
(* Deposits on small sets.                                                  *)
EXTENDS Deposits, TLC

MCNoFault == {}
MCCrash == {"crash"}
MCAnyFault == {"dbError", "crash"}

Symmetry == Permutations(Users) \cup Permutations(Ids)
            \cup Permutations(Submits) \cup Permutations(Runs)
=============================================================================
