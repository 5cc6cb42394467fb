------------------------------ MODULE MCSales -------------------------------
(* Users' accounts, what they buy, swap and advertise, on small sets:       *)
(* registrations and passwords, offer events, the shop, and the swaps and   *)
(* advertisements that partners pay for. The parts share no variable, so    *)
(* every interleaving of them projects to behaviours of each alone: a       *)
(* behaviour of this module is one part's, chosen in focus.                 *)
EXTENDS OfferEvents, Shop, Partners, Accounts, TLC

CONSTANTS k1, k2, u1, u2, o1, o2, w1, w2, v1, v2, n1, n2, x1, x2, pw, bob, Bob, ann

VARIABLE focus

MCFaults == {"dbError"}

\* A swap may be asked for less than nothing.
MCSwapAmounts == {-2, 2}

\* People have registered before from their own networks; ann has a second factor.
MCRegistered(name, net) == [NoAccount EXCEPT !.exists = TRUE, !.name = name, !.password = pw, !.net = net]
MCSecured(a, secret) == [a EXCEPT !.secret = secret, !.twoFactor = TRUE]
MCAccounts == [People -> {NoAccount, MCRegistered(bob, n1)} \cup {MCSecured(MCRegistered(ann, n2), secret) : secret \in Secrets}]
MCAnyCase(a, b) == a = b \/ {a, b} = {bob, Bob}

\* Every part treats the members of these pairs alike.
Turn(a, b) == (a :> b) @@ (b :> a)
Symmetry == Permutations({k1, k2}) \cup Permutations({x1, x2})
            \cup {Turn(u1, u2) @@ Turn(o1, o2) @@ Turn(w1, w2) @@ Turn(v1, v2)}

AtMostOne(S) == \A a, b \in S : a = b

\* Purchases race for one offer that is sold, without a limit for each user.
StockNext ==
    /\ Next
    /\ AtMostOne({o \in Offers : offer'[o].exists})
    /\ \A o \in Offers : offer'[o].exists => offer'[o].price > 0 /\ offer'[o].limit = 0

\* One user makes one purchase at a time, of free and of paid offers.
AloneNext ==
    /\ (\E b \in Buyers : BuyStep(b)) \/ (\E o \in Offers : OfferStep(o)) \/ EventStep
    /\ AtMostOne({b \in Buyers : buy'[b].pc # "idle"})
    /\ AtMostOne({u \in Users : inventory'[u] > 0 \/ \E b \in Buyers : buy'[b].user = u})
    /\ UNCHANGED faults

MCInit ==
    /\ focus \in {"stock", "alone", "shop", "partners", "accounts"}
    /\ Init
    /\ ShopInit
    /\ PartnerInit
    /\ AccountInit
    /\ account \in MCAccounts /\ (focus = "accounts" \/ account = [u \in People |-> NoAccount])

MCNext ==
    \/ focus = "stock" /\ StockNext
       /\ UNCHANGED <<shopVars, partnerVars, accountVars, focus>>
    \/ focus = "alone" /\ AloneNext
       /\ UNCHANGED <<shopVars, partnerVars, accountVars, focus>>
    \/ focus = "shop" /\ ShopNext
       /\ UNCHANGED <<vars, partnerVars, accountVars, focus>>
    \/ focus = "partners" /\ PartnerNext
       /\ UNCHANGED <<vars, shopVars, accountVars, focus>>
    \/ focus = "accounts" /\ AccountNext
       /\ UNCHANGED <<vars, shopVars, partnerVars, focus>>

MCSpec == MCInit /\ [][MCNext]_<<vars, shopVars, partnerVars, accountVars, focus>>

-----------------------------------------------------------------------------
(* A user whose purchases do not overlap never pays with money they do not  *)
(* have: it is the overlapping ones that may.                               *)
AloneNeverOverdrawn == focus = "alone" => NeverOverdrawn

(* What steps may not do: claim beyond an offer's limit or pay with money   *)
(* that is not there while no purchases of the user overlap, or replace a   *)
(* password by one who did not give it and did not reset it.                *)
SalesSteps == ClaimsWithinLimit /\ PasswordsReplaced /\ []AloneNeverOverdrawn
=============================================================================
