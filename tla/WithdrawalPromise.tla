------------------------- MODULE WithdrawalPromise -------------------------
(***************************************************************************)
(* What a withdrawal promises its user, whatever handlers, cron runs and   *)
(* administrators do in between: once accepted it is owed, an owed         *)
(* withdrawal is settled one way, by a transfer or by a refund, and a      *)
(* settled one stays so.                                                   *)
(***************************************************************************)
CONSTANT Ids
VARIABLE outcome

Init == outcome = [i \in Ids |-> "none"]

Accept(i) == outcome[i] = "none" /\ outcome' = [outcome EXCEPT ![i] = "owed"]

Settle(i) ==
    /\ outcome[i] = "owed"
    /\ \E way \in {"paid", "refunded"} : outcome' = [outcome EXCEPT ![i] = way]

Next == \E i \in Ids : Accept(i) \/ Settle(i)

Spec == Init /\ [][Next]_outcome /\ \A i \in Ids : WF_outcome(Settle(i))
=============================================================================
