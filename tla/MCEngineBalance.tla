--------------------------- MODULE MCEngineBalance ---------------------------
(* EngineBalance on small sets: the first user of a pair referred the other. *)
EXTENDS EngineBalance, TLC

CONSTANTS u1, u2

MCNobody == [u \in Users |-> u]
MCPair == (u1 :> u1) @@ (u2 :> u1)
MCPrice == {-1}
MCBoth == {-1, 1}

MCNoFault == {}
MCCrashAndBlock == {"block", "crash"}
MCCrash == {"crash"}
MCRecoverable == {"save", "handler", "crash"}
=============================================================================
