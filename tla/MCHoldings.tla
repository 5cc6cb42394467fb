----------------------------- MODULE MCHoldings -----------------------------
(* What users own, on small sets: deposits the chain reports and those an   *)
(* administrator credits by hand, the daily check-in, the workshop's rooms, *)
(* racks and machines, the runner of the crons, and the lists that are read *)
(* page by page. The parts share no variable, so every interleaving of them *)
(* projects to behaviours of each alone: a behaviour of this module is one  *)
(* part's, chosen in focus.                                                 *)
EXTENDS Deposits, DepositTickets, CheckIn, Workshop, CronRunner, Listings, TLC

CONSTANTS u1, u2, h1, h2, h3, x1, x2, k1, k2, a1, a2, r1, r2, c1, c2, t1, t2

VARIABLE focus

MCFaults == {"dbError", "crash"}
\* The first transaction has two spellings.
MCTxOf == (h1 :> x1) @@ (h2 :> x2) @@ (h3 :> x1)
MCSentBy == (x1 :> c1) @@ (x2 :> c2)

\* Every part treats the members of these sets alike.
Turn(a, b) == (a :> b) @@ (b :> a)
Symmetry == Permutations(Ids) \cup Permutations({k1, k2})
            \cup {Turn(u1, u2) @@ Turn(a1, a2) @@ Turn(r1, r2) @@ Turn(t1, t2) @@ Turn(h1, h3)}

MCInit ==
    /\ focus \in {"deposits", "desk", "checkin", "workshop", "crons", "lists"}
    /\ Init
    /\ TicketInit
    /\ CheckInit
    /\ WorkshopInit
    /\ CronInit
    /\ ListInit
    /\ (focus = "lists" \/ (list = ShopList /\ listed = {}))

MCNext ==
    \/ focus = "deposits" /\ Next
       /\ UNCHANGED <<ticketVars, checkVars, workshopVars, cronVars, listVars, focus>>
    \/ focus = "desk" /\ TicketNext
       /\ UNCHANGED <<vars, checkVars, workshopVars, cronVars, listVars, focus>>
    \/ focus = "checkin" /\ CheckNext
       /\ UNCHANGED <<vars, ticketVars, workshopVars, cronVars, listVars, focus>>
    \/ focus = "workshop" /\ WorkshopNext
       /\ UNCHANGED <<vars, ticketVars, checkVars, cronVars, listVars, focus>>
    \/ focus = "crons" /\ CronNext
       /\ UNCHANGED <<vars, ticketVars, checkVars, workshopVars, listVars, focus>>
    \/ focus = "lists" /\ ListNext
       /\ UNCHANGED <<vars, ticketVars, checkVars, workshopVars, cronVars, focus>>

MCSpec == MCInit /\ [][MCNext]_<<vars, ticketVars, checkVars, workshopVars, cronVars, listVars, focus>>

-----------------------------------------------------------------------------
(* What was decided stays decided, stale writes named by each part aside: a *)
(* deposit's outcome, a ticket's, a confirmed day and the streak it made.   *)
OutcomesAreFinal == ResolvedIsFinal /\ TicketStaysResolved /\ ConfirmedStays /\ StreakKept
=============================================================================
