----------------------------- MODULE OfferEvents -----------------------------
(***************************************************************************)
(* Offer events: machines on sale, or free, while an event lasts.  A       *)
(* purchase reads the offer, checks it, claims pieces with a compare-and-  *)
(* swap on soldCount, retried when another purchase came first, and writes *)
(* the rest in the same READ COMMITTED transaction: its reads are steps of *)
(* their own, its writes appear together.  Administrators edit the event   *)
(* and its offers meanwhile and a sweep closes what has ended.             *)
(***************************************************************************)
EXTENDS Integers, FiniteSets, FiniteSetsExt

CONSTANTS
    Users,
    Offers,       \* ids of event miners; an id is never used again
    Buyers,       \* purchases in flight together
    Admins,       \* removals of an offer in flight together
    Quantities,   \* pieces a request may ask for, 1 .. 25 in the code
    Stocks,       \* values an administrator gives stockCount
    Limits,       \* values of claimLimitPerUser, 0 for none
    Prices,       \* what an offer's piece costs; 0 marks a free offer
    Funds,        \* every user's balance to begin with
    MaxTries,     \* attempts of incrementSoldCountOptimistic
    MaxPieces,    \* bound on the pieces an offer without a stock sells
    MaxEdits,     \* bound on administrators' edits and on the clock
    FaultKinds,   \* "dbError": a database call of a purchase throws
    MaxFaults     \* bound on how many happen

ASSUME OfferEventsAssumption ==
    /\ IsFiniteSet(Users) /\ IsFiniteSet(Offers) /\ IsFiniteSet(Buyers)
    /\ Quantities \subseteq Nat \ {0}
    /\ Stocks \subseteq Nat /\ Limits \subseteq Nat /\ Prices \subseteq Nat
    /\ Funds \in Nat /\ MaxTries \in Nat /\ MaxPieces \in Nat /\ MaxEdits \in Nat
    /\ FaultKinds \subseteq {"dbError"}
    /\ MaxFaults \in Nat

VARIABLES
    event,      \* the event's row, and where now lies in its window
    offer,      \* the event miners' rows
    published,  \* the largest stock an offer has had, or that it had no limit
    purchases,  \* event_purchases: pieces each user has of each offer
    inventory,  \* machines the purchases put in each user's inventory
    balance,
    live,       \* the engine's copy of it
    buy,        \* purchaseEventMinerForUser calls
    removal,    \* adminRemoveEventMiner calls
    edits,
    faults

vars == <<event, offer, published, purchases, inventory, balance, live, buy, removal, edits, faults>>

NoOffer == [exists |-> FALSE, active |-> FALSE, unlimited |-> FALSE, stock |-> 0,
            sold |-> 0, price |-> 0, limit |-> 0]
IdleBuy == [pc |-> "idle", user |-> "nobody", offer |-> "none", quantity |-> 0,
            price |-> 0, limit |-> 0, sold |-> 0, tries |-> 0]
IdleRemoval == [pc |-> "idle", offer |-> "none"]

Init ==
    /\ event = [active |-> TRUE, deleted |-> FALSE, window |-> "open"]
    /\ offer = [o \in Offers |-> NoOffer]
    /\ published = [o \in Offers |-> [unlimited |-> FALSE, stock |-> 0]]
    /\ purchases = [u \in Users |-> [o \in Offers |-> 0]]
    /\ inventory = [u \in Users |-> 0]
    /\ balance = [u \in Users |-> Funds]
    /\ live = balance
    /\ buy = [b \in Buyers |-> IdleBuy]
    /\ removal = [a \in Admins |-> IdleRemoval]
    /\ edits = 0
    /\ faults = 0

-----------------------------------------------------------------------------
(* A purchase.                                                              *)

IsOfferEventLive == event.active /\ ~event.deleted /\ event.window = "open"

HasStock(o) == offer[o].unlimited \/ offer[o].sold < offer[o].stock

\* The first read of the transaction, and the refusals that follow from it.
Buy(b, u, o, quantity) ==
    /\ buy[b].pc = "idle"
    /\ offer[o].exists /\ offer[o].active /\ HasStock(o)
    /\ IsOfferEventLive
    /\ offer[o].unlimited => offer[o].sold + quantity <= MaxPieces
    /\ buy' = [buy EXCEPT ![b] =
                 [pc |-> IF offer[o].price > 0 THEN "funds"
                         ELSE IF offer[o].limit > 0 THEN "claims" ELSE "stock",
                  user |-> u, offer |-> o, quantity |-> quantity,
                  price |-> offer[o].price, limit |-> offer[o].limit,
                  sold |-> 0, tries |-> 0]]
    /\ UNCHANGED <<event, offer, published, purchases, inventory, balance, live, removal, edits, faults>>

Advance(b, ok, pc) == buy' = [buy EXCEPT ![b] = IF ok THEN [@ EXCEPT !.pc = pc] ELSE IdleBuy]

CheckClaims(b) ==
    LET claimed == purchases[buy[b].user][buy[b].offer]
    IN  /\ buy[b].pc = "claims"
        /\ Advance(b, claimed + buy[b].quantity <= buy[b].limit, "stock")
        /\ UNCHANGED <<event, offer, published, purchases, inventory, balance, live, removal, edits, faults>>

Total(b) == buy[b].price * buy[b].quantity

CheckFunds(b) ==
    /\ buy[b].pc = "funds"
    /\ Advance(b, balance[buy[b].user] >= Total(b), "stock")
    /\ UNCHANGED <<event, offer, published, purchases, inventory, balance, live, removal, edits, faults>>

Remains(b) ==
    LET o == buy[b].offer
    IN  /\ offer[o].exists
        /\ offer[o].unlimited \/ offer[o].stock - offer[o].sold >= buy[b].quantity

\* One turn of incrementSoldCountOptimistic: the offer is read again.
ReadStock(b) ==
    /\ buy[b].pc = "stock"
    /\ buy' = [buy EXCEPT ![b] =
                 IF Remains(b) /\ buy[b].tries < MaxTries
                   THEN [buy[b] EXCEPT !.pc = "swap", !.sold = offer[buy[b].offer].sold,
                                       !.tries = buy[b].tries + 1]
                   ELSE IdleBuy]
    /\ UNCHANGED <<event, offer, published, purchases, inventory, balance, live, removal, edits, faults>>

SwapUnchecked(b) == offer[buy[b].offer].exists

SwapMatches(b) ==
    LET o == buy[b].offer
    IN  offer[o].exists /\ offer[o].sold = buy[b].sold

\* The conditional update succeeds, and the transaction commits with it.
Claim(b) ==
    LET o == buy[b].offer
        u == buy[b].user
        quantity == buy[b].quantity
    IN  /\ buy[b].pc = "swap"
        /\ SwapMatches(b)
        /\ offer' = [offer EXCEPT ![o] = [@ EXCEPT !.sold = offer[o].sold + quantity]]
        /\ purchases' = [purchases EXCEPT ![u][o] = @ + quantity]
        /\ inventory' = [inventory EXCEPT ![u] = @ + quantity]
        /\ balance' = [balance EXCEPT ![u] = @ - Total(b)]
        /\ Advance(b, buy[b].price > 0, "tell")
        /\ UNCHANGED <<event, published, live, removal, edits, faults>>

Retry(b) ==
    /\ buy[b].pc = "swap"
    /\ ~SwapMatches(b)
    /\ buy' = [buy EXCEPT ![b].pc = "stock"]
    /\ UNCHANGED <<event, offer, published, purchases, inventory, balance, live, removal, edits, faults>>

\* applyUserBalanceDelta, after the commit.
Tell(b) ==
    /\ buy[b].pc = "tell"
    /\ live' = [live EXCEPT ![buy[b].user] = @ - Total(b)]
    /\ buy' = [buy EXCEPT ![b] = IdleBuy]
    /\ UNCHANGED <<event, offer, published, purchases, inventory, balance, removal, edits, faults>>

BuyThrows(b) ==
    /\ "dbError" \in FaultKinds /\ faults < MaxFaults
    /\ faults' = faults + 1
    /\ buy[b].pc \in {"claims", "funds", "stock", "swap"}
    /\ buy' = [buy EXCEPT ![b] = IdleBuy]
    /\ UNCHANGED <<event, offer, published, purchases, inventory, balance, live, removal, edits>>

-----------------------------------------------------------------------------
(* Administrators, the clock and the sweep.                                 *)

Edit == edits < MaxEdits /\ edits' = edits + 1

Publish(o, unlimited, stock) ==
    published' = [published EXCEPT ![o] =
                    [unlimited |-> @.unlimited \/ unlimited,
                     stock |-> IF stock > @.stock THEN stock ELSE @.stock]]

CreateOffer(o, active, unlimited, stock, price, limit) ==
    /\ Edit
    /\ offer[o] = NoOffer
    /\ unlimited => stock = 0
    /\ offer' = [offer EXCEPT ![o] =
                   [exists |-> TRUE, active |-> active, unlimited |-> unlimited,
                    stock |-> stock, sold |-> 0, price |-> price, limit |-> limit]]
    /\ Publish(o, unlimited, stock)
    /\ UNCHANGED <<event, purchases, inventory, balance, live, buy, removal, faults>>

\* adminUpdateEventMiner; what it leaves out of the row is decoration.
UpdateOffer(o, active, unlimited, stock, price, limit) ==
    /\ Edit
    /\ offer[o].exists
    /\ unlimited => stock = 0
    /\ offer' = [offer EXCEPT ![o] = [offer[o] EXCEPT !.active = active,
                                                      !.unlimited = unlimited, !.stock = stock,
                                                      !.price = price, !.limit = limit]]
    /\ Publish(o, unlimited, stock)
    /\ UNCHANGED <<event, purchases, inventory, balance, live, buy, removal, faults>>

Bought(o) == \E u \in Users : purchases[u][o] > 0

\* adminRemoveEventMiner counts the purchases first.
StartRemoval(a, o) ==
    /\ Edit
    /\ removal[a].pc = "idle"
    /\ offer[o].exists
    /\ removal' = [removal EXCEPT ![a] =
                     [pc |-> IF Bought(o) THEN "deactivate" ELSE "delete", offer |-> o]]
    /\ UNCHANGED <<event, offer, published, purchases, inventory, balance, live, buy, faults>>

\* The purchases' foreign key (onDelete: Restrict) refuses a late deletion.
DeleteOffer(a) ==
    LET o == removal[a].offer
    IN  /\ removal[a].pc = "delete"
        /\ offer' = IF Bought(o) THEN offer ELSE [offer EXCEPT ![o].exists = FALSE]
        /\ removal' = [removal EXCEPT ![a] = IdleRemoval]
        /\ UNCHANGED <<event, published, purchases, inventory, balance, live, buy, edits, faults>>

\* The row is still there: an offer that was bought is never deleted.
DeactivateOffer(a) ==
    /\ removal[a].pc = "deactivate"
    /\ offer' = [offer EXCEPT ![removal[a].offer].active = FALSE]
    /\ removal' = [removal EXCEPT ![a] = IdleRemoval]
    /\ UNCHANGED <<event, published, purchases, inventory, balance, live, buy, edits, faults>>

\* adminUpdateOfferEvent moves the window or switches the event.
UpdateEvent(active, window) ==
    /\ Edit
    /\ event' = [event EXCEPT !.active = active, !.window = window]
    /\ UNCHANGED <<offer, published, purchases, inventory, balance, live, buy, removal, faults>>

SoftDeleteEvent ==
    /\ Edit
    /\ event' = [event EXCEPT !.active = FALSE, !.deleted = TRUE]
    /\ UNCHANGED <<offer, published, purchases, inventory, balance, live, buy, removal, faults>>

TimePasses ==
    /\ Edit
    /\ \/ event.window = "before" /\ event' = [event EXCEPT !.window = "open"]
       \/ event.window = "open" /\ event' = [event EXCEPT !.window = "after"]
    /\ UNCHANGED <<offer, published, purchases, inventory, balance, live, buy, removal, faults>>

\* deactivateExpiredOfferEvents
Sweep ==
    /\ event.active /\ ~event.deleted /\ event.window = "after"
    /\ event' = [event EXCEPT !.active = FALSE]
    /\ UNCHANGED <<offer, published, purchases, inventory, balance, live, buy, removal, edits, faults>>

BuyStep(b) ==
    \/ \E u \in Users, o \in Offers, quantity \in Quantities : Buy(b, u, o, quantity)
    \/ CheckClaims(b)
    \/ CheckFunds(b)
    \/ ReadStock(b)
    \/ Claim(b)
    \/ Retry(b)
    \/ Tell(b)
    \/ BuyThrows(b)

OfferStep(o) ==
    \E active \in BOOLEAN, unlimited \in BOOLEAN, stock \in Stocks \cup {0},
       price \in Prices, limit \in Limits :
        \/ CreateOffer(o, active, unlimited, stock, price, limit)
        \/ UpdateOffer(o, active, unlimited, stock, price, limit)

RemovalStep(a) ==
    \/ \E o \in Offers : StartRemoval(a, o)
    \/ DeleteOffer(a)
    \/ DeactivateOffer(a)

EventStep ==
    \/ \E active \in BOOLEAN, window \in {"before", "open", "after"} : UpdateEvent(active, window)
    \/ SoftDeleteEvent
    \/ TimePasses
    \/ Sweep

Next ==
    \/ \E b \in Buyers : BuyStep(b)
    \/ \E o \in Offers : OfferStep(o)
    \/ \E a \in Admins : RemovalStep(a)
    \/ EventStep

Spec == Init /\ [][Next]_vars

-----------------------------------------------------------------------------
Event == [active : BOOLEAN, deleted : BOOLEAN, window : {"before", "open", "after"}]
Offer == [exists : BOOLEAN, active : BOOLEAN, unlimited : BOOLEAN, stock : Nat,
          sold : Nat, price : Nat, limit : Nat]
Purchase == [pc : {"idle", "claims", "funds", "stock", "swap", "tell"},
             user : Users \cup {"nobody"}, offer : Offers \cup {"none"}, quantity : Nat,
             price : Nat, limit : Nat, sold : Nat, tries : Nat]
Removal == [pc : {"idle", "delete", "deactivate"}, offer : Offers \cup {"none"}]

(* Every variable holds values of the kind its column or local has.         *)
TypeOK ==
    /\ event \in Event
    /\ offer \in [Offers -> Offer]
    /\ published \in [Offers -> [unlimited : BOOLEAN, stock : Nat]]
    /\ purchases \in [Users -> [Offers -> Nat]]
    /\ inventory \in [Users -> Nat]
    /\ balance \in [Users -> Int]
    /\ live \in [Users -> Int]
    /\ buy \in [Buyers -> Purchase]
    /\ removal \in [Admins -> Removal]
    /\ edits \in Nat
    /\ faults \in Nat

(* An offer never sells more than the largest stock it was ever given:      *)
(* purchases that race for the last pieces, and the stale counts they read, *)
(* are all caught by the compare-and-swap.                                  *)
NeverOversold ==
    \A o \in Offers : published[o].unlimited \/ offer[o].sold <= published[o].stock

(* soldCount counts exactly the purchases, and each put a machine in its    *)
(* buyer's inventory.                                                       *)
SalesAddUp ==
    /\ \A o \in Offers :
         offer[o].sold = SumFunction([u \in Users |-> purchases[u][o]])
    /\ \A u \in Users : inventory[u] = SumFunction(purchases[u])

(* Whoever collects a free offer stays within the limit that was checked.   *)
ClaimsWithinLimit ==
    [][\A u \in Users, o \in Offers :
         purchases'[u][o] > purchases[u][o] =>
           \E b \in Buyers :
             /\ buy[b].pc = "swap" /\ buy'[b].pc # "swap"
             /\ buy[b].user = u /\ buy[b].offer = o
             /\ buy[b].price > 0 \/ buy[b].limit = 0 \/ purchases'[u][o] <= buy[b].limit]_vars

(* A purchase is never paid with money the buyer does not have.             *)
NeverOverdrawn == \A u \in Users : balance[u] >= 0

(* The engine's copy of a balance is that of the database but for purchases *)
(* that have committed and not come to applyUserBalanceDelta.               *)
LiveAgrees ==
    \A u \in Users :
        (\A b \in Buyers : buy[b].pc = "tell" => buy[b].user # u) => live[u] = balance[u]

(* What someone has bought stays on record: a removal that counted no       *)
(* purchases does not delete an offer bought meanwhile.                     *)
BoughtIsKept == \A o \in Offers : Bought(o) => offer[o].exists

(* However purchases race and fail and administrators edit, an offer is not *)
(* sold beyond its stock, the stock's numbers agree with the rows sold,     *)
(* balances with each other, and a bought machine stays.                    *)
OffersSafe ==
    /\ TypeOK /\ NeverOversold /\ SalesAddUp /\ LiveAgrees /\ BoughtIsKept
=============================================================================
