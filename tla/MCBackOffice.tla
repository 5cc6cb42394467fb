---------------------------- MODULE MCBackOffice ----------------------------
(* What administrators do, on small sets: payouts by the cron and by        *)
(* processApprovedWithdrawal, the admin panel's session, pages and forms,   *)
(* support and chat messages, and the content they publish. The parts share *)
(* no variable, so every interleaving of them projects to behaviours of     *)
(* each alone: a behaviour of this module is one part's, chosen in focus.   *)
EXTENDS Withdrawals, AdminPages, AdminForms, AdminGate, Messages, Content, TLC

CONSTANTS f1, r1, r2, i1, i2, x1, x2, k1, k2, b1, b2, e1, e2, z1, z2

VARIABLE focus

MCOneAmount == {2}
MCGoals == {"approved"}
MCPending == {"pending"}
MCFaults == {"dbError", "lostAnswer", "crash"}
MCGateUsers == {"root", "helper"}
MCLevels == [a \in MCGateUsers |-> IF a = "root" THEN 0 ELSE 2]
MCZones == {0, -3}

\* Every part treats the members of these pairs alike.
Turn(a, b) == (a :> b) @@ (b :> a)
Symmetry == Permutations({k1, k2}) \cup {Turn(x1, x2) @@ Turn(b1, b2) @@ Turn(e1, e2) @@ Turn(i1, i2) @@ Turn(z1, z2)}

\* The cron works alone, whatever fails.
CronNext == (\E r \in Requests : RequestStep(r)) \/ (\E p \in Payers : PayerStep(p)) \/ Crash

\* One user request, one administrator and one processApprovedWithdrawal at a time.
SingleNext ==
    \/ RequestStep(r1)
    \/ \E p \in Admins : AdminStep(p)
    \/ \E p \in AutoPayers : AutoStep(p)
    \/ Crash

MCInit ==
    /\ focus \in {"cron", "single", "pages", "forms", "gate", "messages", "content"}
    /\ Init
    /\ PageInit
    /\ (focus = "pages" \/ (view = TicketsView /\ query.filter = f1))
    /\ FormInit
    /\ (focus = "forms" \/ formView.name = "banner")
    /\ GateInit
    /\ MessageInit
    /\ ContentInit
    /\ (focus = "content" \/ (serverZone = 0 /\ browserZone = 0))

MCNext ==
    \/ focus = "cron" /\ CronNext
       /\ UNCHANGED <<pageVars, formVars, gateVars, messageVars, contentVars, focus>>
    \/ focus = "single" /\ SingleNext
       /\ UNCHANGED <<pageVars, formVars, gateVars, messageVars, contentVars, focus>>
    \/ focus = "pages" /\ PageNext
       /\ UNCHANGED <<vars, formVars, gateVars, messageVars, contentVars, focus>>
    \/ focus = "forms" /\ FormNext
       /\ UNCHANGED <<vars, pageVars, gateVars, messageVars, contentVars, focus>>
    \/ focus = "gate" /\ GateNext
       /\ UNCHANGED <<vars, pageVars, formVars, messageVars, contentVars, focus>>
    \/ focus = "messages" /\ MessageNext
       /\ UNCHANGED <<vars, pageVars, formVars, gateVars, contentVars, focus>>
    \/ focus = "content" /\ ContentNext
       /\ UNCHANGED <<vars, pageVars, formVars, gateVars, messageVars, focus>>

MCSpec == MCInit /\ [][MCNext]_<<vars, pageVars, formVars, gateVars, messageVars, contentVars, focus>>

-----------------------------------------------------------------------------
(* One request at a time finds the user's pending withdrawal.               *)
SingleOnePending == focus = "single" => OnePending

(* A row the cron says failed has its funds back with the user.             *)
CronRefundsFailed == focus = "cron" => FailedIsRefunded

(* No debit is lost, doubled or refunded twice by the cron or by            *)
(* processApprovedWithdrawal, whatever fails or dies half way, and a row is *)
(* sent again, or refunded after it was sent, only where something failed.  *)
PayoutsSafe ==
    /\ FundsConserved /\ RefundedAtMostOnce /\ RepeatsFollowFaults
    /\ CronRefundsFailed /\ SingleOnePending

(* What steps may not do: lose a recorded hash, show older rows than were   *)
(* shown, or save a form over a row it was not opened for.                  *)
RowsKept == HashKept /\ RowsStepForward /\ RowsKeepTheirForms
=============================================================================
