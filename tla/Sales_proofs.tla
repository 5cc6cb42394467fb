---------------------------- MODULE Sales_proofs ----------------------------
(***************************************************************************)
(* Proofs about what is sold and who buys it, for every number of users,   *)
(* offers, calls and administrators and for all stocks, prices and limits. *)
(* Of OfferEvents: type correctness; that no offer is oversold, however    *)
(* purchases race; that units sold, purchases, inventories and what the    *)
(* engine has been told add up; and that a user whose purchases do not     *)
(* overlap is neither overdrawn nor given more than a claim allows.  Of    *)
(* Shop: what is paid, held and charged agrees.  Of Partners: a view is    *)
(* paid once, swaps of what one has do not overdraw, and the engine follows*)
(* the column.  Of Accounts: names stay apart, networks keep within their  *)
(* limit, second factors are known, referrers single, and a password       *)
(* changes only in a request that replaces it.  Of the composition MCSales:*)
(* that no step of it breaks the rules of claims, prices and passwords.    *)
(***************************************************************************)
EXTENDS MCSales, Sums, FiniteSetTheorems, TLAPS

-----------------------------------------------------------------------------
(* A function keeps its type when one value is replaced by one of its type. *)
LEMMA Put ==
    ASSUME NEW S, NEW T, NEW f \in [S -> T], NEW x, NEW v, x \in S => v \in T
    PROVE  [f EXCEPT ![x] = v] \in [S -> T]
OBVIOUS

LEMMA IdleTyped == IdleBuy \in Purchase /\ IdleRemoval \in Removal /\ NoOffer \in Offer
BY DEF IdleBuy, IdleRemoval, NoOffer, Purchase, Removal, Offer

(* A call that is under way has a user and an offer.                        *)
Named ==
    /\ \A b \in Buyers : buy[b].pc # "idle" => buy[b].user \in Users /\ buy[b].offer \in Offers
    /\ \A a \in Admins : removal[a].pc # "idle" => removal[a].offer \in Offers

TypeInv == TypeOK /\ Named

LEMMA Locals ==
    ASSUME TypeInv, NEW b \in Buyers
    PROVE  /\ buy[b] \in Purchase
           /\ buy[b].quantity \in Nat /\ buy[b].price \in Nat /\ buy[b].limit \in Nat
           /\ buy[b].sold \in Nat /\ buy[b].tries \in Nat /\ Total(b) \in Nat
           /\ buy[b].pc # "idle" => buy[b].user \in Users /\ buy[b].offer \in Offers
<1>1. buy[b] \in Purchase
  BY DEF TypeInv, TypeOK
<1>2. /\ buy[b].quantity \in Nat /\ buy[b].price \in Nat /\ buy[b].limit \in Nat
      /\ buy[b].sold \in Nat /\ buy[b].tries \in Nat
  BY <1>1 DEF Purchase
<1>3. Total(b) \in Nat
  BY <1>2 DEF Total
<1> QED BY <1>1, <1>2, <1>3 DEF TypeInv, Named

LEMMA OfferTyped ==
    ASSUME TypeInv, NEW o \in Offers
    PROVE  /\ offer[o] \in Offer
           /\ offer[o].sold \in Nat /\ offer[o].stock \in Nat
           /\ offer[o].price \in Nat /\ offer[o].limit \in Nat
           /\ offer[o].unlimited \in BOOLEAN
           /\ published[o].stock \in Nat /\ published[o].unlimited \in BOOLEAN
BY DEF TypeInv, TypeOK, Offer

(* A call that changes only itself keeps the types.                         *)
LEMMA BuyOnly ==
    ASSUME TypeInv, NEW b \in Buyers, NEW call \in Purchase,
           call.pc # "idle" => call.user \in Users /\ call.offer \in Offers,
           buy' = [buy EXCEPT ![b] = call], removal' = removal
    PROVE  buy' \in [Buyers -> Purchase] /\ Named'
<1>1. buy \in [Buyers -> Purchase]
  BY DEF TypeInv, TypeOK
<1>2. buy' \in [Buyers -> Purchase]
  BY <1>1, Put
<1>3. ASSUME NEW c \in Buyers, buy'[c].pc # "idle"
      PROVE  buy'[c].user \in Users /\ buy'[c].offer \in Offers
  BY <1>1, <1>3 DEF TypeInv, Named
<1> QED BY <1>2, <1>3 DEF TypeInv, Named

LEMMA Advances ==
    ASSUME TypeInv, NEW b \in Buyers, NEW ok,
           NEW pc \in {"claims", "funds", "stock", "swap", "tell"},
           buy[b].pc # "idle", Advance(b, ok, pc), removal' = removal
    PROVE  buy' \in [Buyers -> Purchase] /\ Named'
<1> DEFINE call == [buy[b] EXCEPT !.pc = pc]
<1>0. /\ buy[b] \in Purchase /\ buy[b].user \in Users /\ buy[b].offer \in Offers
      /\ buy \in [Buyers -> Purchase]
  BY Locals DEF TypeInv, TypeOK
<1>1. call \in Purchase /\ call.user \in Users /\ call.offer \in Offers
  BY <1>0 DEF Purchase
<1>2. IdleBuy.pc = "idle" /\ IdleBuy \in Purchase
  BY IdleTyped DEF IdleBuy
<1> HIDE DEF call
<1>3. CASE ok
  <2>1. buy' = [buy EXCEPT ![b] = call]
    BY <1>3 DEF Advance, call
  <2> QED BY <1>1, <2>1, BuyOnly
<1>4. CASE ~ok
  <2>1. buy' = [buy EXCEPT ![b] = IdleBuy]
    BY <1>4 DEF Advance
  <2> QED BY <1>2, <2>1, BuyOnly
<1> QED BY <1>3, <1>4

LEMMA BuyTyped ==
    ASSUME TypeInv, NEW b \in Buyers, BuyStep(b)
    PROVE  TypeInv'
<1>0. /\ TypeOK
      /\ buy[b] \in Purchase
      /\ buy[b].quantity \in Nat /\ buy[b].price \in Nat
      /\ buy[b].sold \in Nat /\ buy[b].tries \in Nat /\ Total(b) \in Nat
      /\ buy[b].pc # "idle" => buy[b].user \in Users /\ buy[b].offer \in Offers
  BY Locals DEF TypeInv
<1>i. IdleBuy.pc = "idle" /\ IdleBuy \in Purchase
  BY IdleTyped DEF IdleBuy
<1>1. ASSUME NEW u \in Users, NEW o \in Offers, NEW quantity \in Quantities,
             Buy(b, u, o, quantity)
      PROVE  TypeInv'
  <2> DEFINE pc == IF offer[o].price > 0 THEN "funds"
                   ELSE IF offer[o].limit > 0 THEN "claims" ELSE "stock"
             call == [pc |-> pc, user |-> u, offer |-> o, quantity |-> quantity,
                      price |-> offer[o].price, limit |-> offer[o].limit,
                      sold |-> 0, tries |-> 0]
  <2>1. pc \in {"funds", "claims", "stock"}
    OBVIOUS
  <2>2. quantity \in Nat /\ offer[o].price \in Nat /\ offer[o].limit \in Nat
    BY OfferTyped, OfferEventsAssumption
  <2>3. buy' = [buy EXCEPT ![b] = call]
    BY <1>1 DEF Buy
  <2> HIDE DEF pc
  <2>4. call \in Purchase /\ call.user \in Users /\ call.offer \in Offers
    BY <2>1, <2>2 DEF Purchase
  <2> HIDE DEF call
  <2>5. removal' = removal
    BY <1>1 DEF Buy
  <2>6. buy' \in [Buyers -> Purchase] /\ Named'
    BY <2>3, <2>4, <2>5, BuyOnly
  <2> QED BY <1>0, <1>1, <2>6 DEF TypeInv, TypeOK, Buy
<1>2. CASE CheckClaims(b)
  <2>1. buy' \in [Buyers -> Purchase] /\ Named'
    BY <1>2, Advances DEF CheckClaims
  <2> QED BY <1>0, <1>2, <2>1 DEF TypeInv, TypeOK, CheckClaims
<1>3. CASE CheckFunds(b)
  <2>1. buy' \in [Buyers -> Purchase] /\ Named'
    BY <1>3, Advances DEF CheckFunds
  <2> QED BY <1>0, <1>3, <2>1 DEF TypeInv, TypeOK, CheckFunds
<1>4. CASE ReadStock(b)
  <2> DEFINE call == [buy[b] EXCEPT !.pc = "swap", !.sold = offer[buy[b].offer].sold,
                                    !.tries = buy[b].tries + 1]
  <2>0. /\ buy[b].user \in Users /\ buy[b].offer \in Offers
        /\ offer[buy[b].offer].sold \in Nat /\ removal' = removal
    BY <1>0, <1>4, OfferTyped DEF ReadStock
  <2>1. call \in Purchase /\ call.user \in Users /\ call.offer \in Offers
    <3>1. buy[b].tries + 1 \in Nat
      BY <1>0
    <3>2. \A sold, tries \in Nat :
            LET c == [buy[b] EXCEPT !.pc = "swap", !.sold = sold, !.tries = tries]
            IN  c \in Purchase /\ c.user = buy[b].user /\ c.offer = buy[b].offer
      BY <1>0 DEF Purchase
    <3> QED BY <2>0, <3>1, <3>2
  <2>2. buy' = [buy EXCEPT ![b] = call] \/ buy' = [buy EXCEPT ![b] = IdleBuy]
    <3>1. CASE Remains(b) /\ buy[b].tries < MaxTries
      BY <1>4, <3>1 DEF ReadStock
    <3>2. CASE ~(Remains(b) /\ buy[b].tries < MaxTries)
      BY <1>4, <3>2 DEF ReadStock
    <3> QED BY <3>1, <3>2
  <2> HIDE DEF call
  <2>3. buy' \in [Buyers -> Purchase] /\ Named'
    BY <1>i, <2>0, <2>1, <2>2, BuyOnly
  <2> QED BY <1>0, <1>4, <2>3 DEF TypeInv, TypeOK, ReadStock
<1>5. CASE Claim(b)
  <2> DEFINE o == buy[b].offer
             u == buy[b].user
  <2>0. u \in Users /\ o \in Offers /\ offer[o] \in Offer /\ offer[o].sold \in Nat
    BY <1>0, <1>5, OfferTyped DEF Claim
  <2>1. [offer[o] EXCEPT !.sold = offer[o].sold + buy[b].quantity] \in Offer
    BY <1>0, <2>0 DEF Offer
  <2>2. offer' \in [Offers -> Offer]
    BY <1>0, <1>5, <2>1, Put DEF Claim, TypeOK
  <2>3. purchases' \in [Users -> [Offers -> Nat]]
    BY <1>0, <1>5, <2>0 DEF Claim, TypeOK
  <2>4. inventory' \in [Users -> Nat] /\ balance' \in [Users -> Int]
    BY <1>0, <1>5, <2>0 DEF Claim, TypeOK
  <2>5. buy' \in [Buyers -> Purchase] /\ Named'
    BY <1>5, Advances DEF Claim
  <2> QED BY <1>0, <1>5, <2>2, <2>3, <2>4, <2>5 DEF TypeInv, TypeOK, Claim
<1>6. CASE Retry(b)
  <2> DEFINE call == [buy[b] EXCEPT !.pc = "stock"]
  <2>1. call \in Purchase /\ call.user \in Users /\ call.offer \in Offers
    BY <1>0, <1>6 DEF Purchase, Retry
  <2>2. buy' = [buy EXCEPT ![b] = call] /\ removal' = removal
    BY <1>6 DEF Retry
  <2> HIDE DEF call
  <2>3. buy' \in [Buyers -> Purchase] /\ Named'
    BY <2>1, <2>2, BuyOnly
  <2> QED BY <1>0, <1>6, <2>3 DEF TypeInv, TypeOK, Retry
<1>7. CASE Tell(b)
  <2>1. buy' \in [Buyers -> Purchase] /\ Named'
    BY <1>i, <1>7, BuyOnly DEF Tell
  <2>2. live' \in [Users -> Int]
    BY <1>0, <1>7 DEF Tell, TypeOK
  <2> QED BY <1>0, <1>7, <2>1, <2>2 DEF TypeInv, TypeOK, Tell
<1>8. CASE BuyThrows(b)
  <2>1. buy' \in [Buyers -> Purchase] /\ Named'
    BY <1>i, <1>8, BuyOnly DEF BuyThrows
  <2>2. faults' \in Nat
    BY <1>0, <1>8 DEF BuyThrows, TypeOK
  <2> QED BY <1>0, <1>8, <2>1, <2>2 DEF TypeInv, TypeOK, BuyThrows
<1> QED BY <1>1, <1>2, <1>3, <1>4, <1>5, <1>6, <1>7, <1>8 DEF BuyStep

LEMMA PublishTyped ==
    ASSUME TypeInv, NEW o \in Offers, NEW unlimited \in BOOLEAN, NEW stock \in Nat,
           Publish(o, unlimited, stock)
    PROVE  /\ published' \in [Offers -> [unlimited : BOOLEAN, stock : Nat]]
           /\ published'[o].unlimited = (published[o].unlimited \/ unlimited)
           /\ published'[o].stock >= published[o].stock
           /\ published'[o].stock >= stock
           /\ \A p \in Offers \ {o} : published'[p] = published[p]
<1> DEFINE top == IF stock > published[o].stock THEN stock ELSE published[o].stock
           value == [unlimited |-> published[o].unlimited \/ unlimited, stock |-> top]
<1>0. published \in [Offers -> [unlimited : BOOLEAN, stock : Nat]]
  BY DEF TypeInv, TypeOK
<1>1. published[o].stock \in Nat /\ published[o].unlimited \in BOOLEAN
  BY OfferTyped
<1>2. top \in Nat /\ top >= published[o].stock /\ top >= stock
  BY <1>1
<1>3. published' = [published EXCEPT ![o] = value]
  BY DEF Publish
<1> HIDE DEF top
<1>4. /\ value \in [unlimited : BOOLEAN, stock : Nat]
      /\ value.unlimited = (published[o].unlimited \/ unlimited) /\ value.stock = top
  BY <1>1, <1>2
<1> HIDE DEF value
<1>5. published' \in [Offers -> [unlimited : BOOLEAN, stock : Nat]]
  BY <1>0, <1>3, <1>4, Put
<1>6. published'[o] = value /\ \A p \in Offers \ {o} : published'[p] = published[p]
  BY <1>0, <1>3
<1> QED BY <1>2, <1>4, <1>5, <1>6

LEMMA OfferStepTyped ==
    ASSUME TypeInv, NEW o \in Offers, OfferStep(o)
    PROVE  TypeInv'
<1>0. TypeOK /\ offer \in [Offers -> Offer] /\ offer[o] \in Offer
  BY OfferTyped DEF TypeInv, TypeOK
<1> PICK active \in BOOLEAN, unlimited \in BOOLEAN, stock \in Stocks \cup {0},
         price \in Prices, limit \in Limits :
      \/ CreateOffer(o, active, unlimited, stock, price, limit)
      \/ UpdateOffer(o, active, unlimited, stock, price, limit)
  BY DEF OfferStep
<1>1. stock \in Nat /\ price \in Nat /\ limit \in Nat
  BY OfferEventsAssumption
<1>2. ASSUME NEW row \in Offer, offer' = [offer EXCEPT ![o] = row], Edit,
             Publish(o, unlimited, stock),
             UNCHANGED <<event, purchases, inventory, balance, live, buy, removal, faults>>
      PROVE  TypeInv'
  <2>1. offer' \in [Offers -> Offer]
    BY <1>0, <1>2, Put
  <2>2. edits' \in Nat
    BY <1>0, <1>2 DEF Edit, TypeOK
  <2>3. published' \in [Offers -> [unlimited : BOOLEAN, stock : Nat]]
    BY <1>1, <1>2, PublishTyped
  <2> QED BY <1>0, <1>2, <2>1, <2>2, <2>3 DEF TypeInv, TypeOK, Named
<1>3. CASE CreateOffer(o, active, unlimited, stock, price, limit)
  <2> DEFINE row == [exists |-> TRUE, active |-> active, unlimited |-> unlimited,
                     stock |-> stock, sold |-> 0, price |-> price, limit |-> limit]
  <2>1. row \in Offer
    BY <1>1 DEF Offer
  <2>2. offer' = [offer EXCEPT ![o] = row]
    BY <1>3 DEF CreateOffer
  <2> HIDE DEF row
  <2> QED BY <1>2, <1>3, <2>1, <2>2 DEF CreateOffer
<1>4. CASE UpdateOffer(o, active, unlimited, stock, price, limit)
  <2> DEFINE row == [offer[o] EXCEPT !.active = active, !.unlimited = unlimited,
                                     !.stock = stock, !.price = price, !.limit = limit]
  <2>1. row \in Offer
    BY <1>0, <1>1 DEF Offer
  <2>2. offer' = [offer EXCEPT ![o] = row]
    BY <1>4 DEF UpdateOffer
  <2> HIDE DEF row
  <2> QED BY <1>2, <1>4, <2>1, <2>2 DEF UpdateOffer
<1> QED BY <1>3, <1>4

LEMMA RemovalTyped ==
    ASSUME TypeInv, NEW a \in Admins, RemovalStep(a)
    PROVE  TypeInv'
<1>0. /\ TypeOK /\ offer \in [Offers -> Offer] /\ removal \in [Admins -> Removal]
      /\ IdleRemoval \in Removal /\ IdleRemoval.pc = "idle"
      /\ removal[a].pc # "idle" => removal[a].offer \in Offers
  BY IdleTyped DEF TypeInv, TypeOK, Named, IdleRemoval
<1>1. ASSUME NEW o \in Offers, StartRemoval(a, o) PROVE TypeInv'
  <2> DEFINE call == [pc |-> IF Bought(o) THEN "deactivate" ELSE "delete", offer |-> o]
  <2>1. call \in Removal /\ call.offer \in Offers
    BY DEF Removal
  <2>2. removal' = [removal EXCEPT ![a] = call]
    BY <1>1 DEF StartRemoval
  <2> HIDE DEF call
  <2>3. removal' \in [Admins -> Removal]
    BY <1>0, <2>1, <2>2, Put
  <2>4. Named'
    BY <1>0, <1>1, <2>1, <2>2 DEF TypeInv, Named, StartRemoval
  <2>5. edits' \in Nat
    BY <1>0, <1>1 DEF StartRemoval, Edit, TypeOK
  <2> QED BY <1>0, <1>1, <2>3, <2>4, <2>5 DEF TypeInv, TypeOK, StartRemoval
<1>2. CASE DeleteOffer(a) \/ DeactivateOffer(a)
  <2>1. removal[a].offer \in Offers /\ offer[removal[a].offer] \in Offer
    BY <1>0, <1>2 DEF DeleteOffer, DeactivateOffer
  <2> DEFINE gone == [offer[removal[a].offer] EXCEPT !.exists = FALSE]
             hidden == [offer[removal[a].offer] EXCEPT !.active = FALSE]
  <2>2. gone \in Offer /\ hidden \in Offer
    BY <2>1 DEF Offer
  <2>3. \/ offer' = offer
        \/ offer' = [offer EXCEPT ![removal[a].offer] = gone]
        \/ offer' = [offer EXCEPT ![removal[a].offer] = hidden]
    BY <1>2 DEF DeleteOffer, DeactivateOffer
  <2> HIDE DEF gone, hidden
  <2>4. offer' \in [Offers -> Offer]
    BY <1>0, <2>2, <2>3, Put
  <2>5. removal' = [removal EXCEPT ![a] = IdleRemoval]
    BY <1>2 DEF DeleteOffer, DeactivateOffer
  <2>6. removal' \in [Admins -> Removal]
    BY <1>0, <2>5, Put
  <2>7. UNCHANGED <<event, published, purchases, inventory, balance, live, buy, edits, faults>>
    BY <1>2 DEF DeleteOffer, DeactivateOffer
  <2>8. Named'
    BY <1>0, <2>5, <2>7 DEF TypeInv, Named
  <2> QED BY <1>0, <2>4, <2>6, <2>7, <2>8 DEF TypeInv, TypeOK
<1> QED BY <1>1, <1>2 DEF RemovalStep

LEMMA EventTyped ==
    ASSUME TypeInv, EventStep
    PROVE  TypeInv'
<1>0. TypeOK /\ event \in Event
  BY DEF TypeInv, TypeOK
<1>1. event' \in Event
  <2>1. ASSUME NEW active \in BOOLEAN, NEW window \in {"before", "open", "after"},
               UpdateEvent(active, window)
        PROVE  event' \in Event
    BY <1>0, <2>1 DEF UpdateEvent, Event
  <2>2. CASE SoftDeleteEvent
    BY <1>0, <2>2 DEF SoftDeleteEvent, Event
  <2>3. CASE TimePasses
    BY <1>0, <2>3 DEF TimePasses, Event
  <2>4. CASE Sweep
    BY <1>0, <2>4 DEF Sweep, Event
  <2> QED BY <2>1, <2>2, <2>3, <2>4 DEF EventStep
<1>2. edits' \in Nat
  <2>1. edits' = edits \/ edits' = edits + 1
    BY DEF EventStep, UpdateEvent, SoftDeleteEvent, TimePasses, Sweep, Edit
  <2> QED BY <1>0, <2>1 DEF TypeOK
<1>3. UNCHANGED <<offer, published, purchases, inventory, balance, live, buy, removal, faults>>
  BY DEF EventStep, UpdateEvent, SoftDeleteEvent, TimePasses, Sweep
<1> QED BY <1>0, <1>1, <1>2, <1>3 DEF TypeInv, TypeOK, Named

LEMMA InitTyped == Init => TypeInv
<1> SUFFICES ASSUME Init PROVE TypeInv
  OBVIOUS
<1>1. /\ IdleBuy \in Purchase /\ IdleBuy.pc = "idle" /\ NoOffer \in Offer
      /\ IdleRemoval \in Removal /\ IdleRemoval.pc = "idle"
  BY IdleTyped DEF IdleBuy, IdleRemoval
<1>2. /\ offer \in [Offers -> Offer] /\ buy \in [Buyers -> Purchase]
      /\ removal \in [Admins -> Removal] /\ Named
  BY <1>1 DEF Init, Named
<1>3. event \in Event
  BY DEF Init, Event
<1>4. /\ published \in [Offers -> [unlimited : BOOLEAN, stock : Nat]]
      /\ purchases \in [Users -> [Offers -> Nat]] /\ inventory \in [Users -> Nat]
      /\ edits \in Nat /\ faults \in Nat
  BY DEF Init
<1>5. Funds \in Int
  BY OfferEventsAssumption
<1>6. balance \in [Users -> Int] /\ live \in [Users -> Int]
  BY <1>5 DEF Init
<1> QED BY <1>2, <1>3, <1>4, <1>6 DEF TypeInv, TypeOK

LEMMA NextTyped == TypeInv /\ [Next]_vars => TypeInv'
<1> SUFFICES ASSUME TypeInv, [Next]_vars PROVE TypeInv'
  OBVIOUS
<1>1. CASE UNCHANGED vars
  BY <1>1 DEF TypeInv, TypeOK, Named, vars
<1> QED BY <1>1, BuyTyped, OfferStepTyped, RemovalTyped, EventTyped DEF Next

(* Type correctness, for all constants.                                     *)
THEOREM TypeCorrect == Spec => []TypeOK
<1>1. TypeInv => TypeOK
  BY DEF TypeInv
<1> QED BY InitTyped, NextTyped, <1>1, PTL DEF Spec

-----------------------------------------------------------------------------
(* No offer is oversold: a stock in force has been published, and a count   *)
(* about to be swapped in fits what was published when it was read, which   *)
(* only grows.                                                              *)
StockPublished(o) ==
    /\ offer[o].unlimited => published[o].unlimited
    /\ offer[o].stock <= published[o].stock
    /\ published[o].unlimited \/ offer[o].sold <= published[o].stock

ClaimFits(b) ==
    LET o == buy[b].offer
    IN  buy[b].pc = "swap" =>
          published[o].unlimited \/ buy[b].sold + buy[b].quantity <= published[o].stock

StockInv ==
    /\ \A o \in Offers : StockPublished(o)
    /\ \A b \in Buyers : ClaimFits(b)

(* Publishing never withdraws what was published.                           *)
LEMMA FitsStill ==
    ASSUME TypeInv, TypeInv', NEW b \in Buyers, ClaimFits(b), buy'[b] = buy[b],
           \A o \in Offers : /\ published[o].unlimited => published'[o].unlimited
                             /\ published'[o].stock >= published[o].stock
    PROVE  ClaimFits(b)'
<1> SUFFICES ASSUME buy[b].pc = "swap"
             PROVE  \/ published'[buy[b].offer].unlimited
                    \/ buy[b].sold + buy[b].quantity <= published'[buy[b].offer].stock
  BY DEF ClaimFits
<1>1. /\ buy[b].offer \in Offers /\ buy[b].sold \in Nat /\ buy[b].quantity \in Nat
  BY Locals
<1>2. published[buy[b].offer].stock \in Nat /\ published'[buy[b].offer].stock \in Nat
  BY <1>1 DEF TypeInv, TypeOK
<1> QED BY <1>1, <1>2 DEF ClaimFits

LEMMA BuyFits ==
    ASSUME TypeInv, TypeInv', StockInv, NEW b \in Buyers, BuyStep(b)
    PROVE  StockInv'
<1>0. /\ buy \in [Buyers -> Purchase] /\ offer \in [Offers -> Offer]
      /\ published' = published
  BY DEF TypeInv, TypeOK, BuyStep, Buy, CheckClaims, CheckFunds, ReadStock, Claim, Retry,
         Tell, BuyThrows
<1>1. ASSUME NEW c \in Buyers, c # b PROVE ClaimFits(c)'
  <2>1. buy'[c] = buy[c]
    BY <1>0, <1>1 DEF BuyStep, Buy, CheckClaims, CheckFunds, ReadStock, Claim, Retry, Tell,
                      BuyThrows, Advance
  <2>2. ClaimFits(c)
    BY DEF StockInv
  <2> QED BY <1>0, <2>1, <2>2, OfferTyped, FitsStill
<1>2. CASE ReadStock(b)
  <2>1. offer' = offer
    BY <1>2 DEF ReadStock
  <2>2. ClaimFits(b)'
    <3>1. CASE Remains(b) /\ buy[b].tries < MaxTries
      <4> DEFINE o == buy[b].offer
      <4>1. /\ o \in Offers /\ offer[o].stock \in Nat /\ offer[o].sold \in Nat
            /\ published[o].stock \in Nat /\ buy[b].quantity \in Nat /\ buy[b] \in Purchase
        BY <1>2, Locals, OfferTyped DEF ReadStock
      <4>2. buy'[b] = [buy[b] EXCEPT !.pc = "swap", !.sold = offer[o].sold,
                                     !.tries = buy[b].tries + 1]
        BY <1>0, <1>2, <3>1 DEF ReadStock
      <4>3. /\ buy'[b].offer = o /\ buy'[b].sold = offer[o].sold
            /\ buy'[b].quantity = buy[b].quantity
        BY <4>1, <4>2 DEF Purchase
      <4>4. offer[o].unlimited \/ offer[o].stock - offer[o].sold >= buy[b].quantity
        BY <3>1 DEF Remains
      <4>5. StockPublished(o)
        BY <4>1 DEF StockInv
      <4>6. published[o].unlimited \/ offer[o].sold + buy[b].quantity <= published[o].stock
        BY <4>1, <4>4, <4>5 DEF StockPublished
      <4> QED BY <1>0, <4>3, <4>6 DEF ClaimFits
    <3>2. CASE ~(Remains(b) /\ buy[b].tries < MaxTries)
      <4>1. buy'[b].pc = "idle"
        BY <1>0, <1>2, <3>2 DEF ReadStock, IdleBuy
      <4> QED BY <4>1 DEF ClaimFits
    <3> QED BY <3>1, <3>2
  <2> QED BY <1>0, <1>1, <2>1, <2>2 DEF StockInv, StockPublished
<1>3. CASE Claim(b)
  <2> DEFINE o == buy[b].offer
  <2>1. /\ o \in Offers /\ buy[b].quantity \in Nat /\ offer[o].sold \in Nat /\ offer[o] \in Offer
        /\ buy[b] \in Purchase
    BY <1>3, Locals, OfferTyped DEF Claim
  <2>2. /\ offer' = [offer EXCEPT ![o] = [offer[o] EXCEPT !.sold = offer[o].sold + buy[b].quantity]]
        /\ offer[o].sold = buy[b].sold
    BY <1>0, <1>3, <2>1 DEF Claim, SwapMatches
  <2>3. /\ offer'[o].sold = buy[b].sold + buy[b].quantity
        /\ offer'[o].unlimited = offer[o].unlimited /\ offer'[o].stock = offer[o].stock
        /\ \A p \in Offers \ {o} : offer'[p] = offer[p]
    BY <1>0, <2>1, <2>2 DEF Offer
  <2>4. published[o].unlimited \/ buy[b].sold + buy[b].quantity <= published[o].stock
    BY <1>3 DEF StockInv, ClaimFits, Claim
  <2>5. ASSUME NEW p \in Offers PROVE StockPublished(p)'
    <3>1. StockPublished(p)
      BY DEF StockInv
    <3> QED BY <1>0, <2>3, <2>4, <3>1 DEF StockPublished
  <2>6. buy'[b].pc \in {"idle", "tell"}
    BY <1>0, <1>3, <2>1 DEF Claim, Advance, IdleBuy, Purchase
  <2>7. ClaimFits(b)'
    BY <2>6 DEF ClaimFits
  <2> QED BY <1>1, <2>5, <2>7 DEF StockInv
<1>4. ASSUME NEW u \in Users, NEW o \in Offers, NEW quantity \in Quantities,
             Buy(b, u, o, quantity)
      PROVE  StockInv'
  <2>1. offer' = offer
    BY <1>4 DEF Buy
  <2>2. buy'[b].pc # "swap"
    BY <1>0, <1>4 DEF Buy
  <2> QED BY <1>0, <1>1, <2>1, <2>2 DEF StockInv, StockPublished, ClaimFits
<1>5. CASE CheckClaims(b) \/ CheckFunds(b) \/ Retry(b) \/ Tell(b) \/ BuyThrows(b)
  <2>1. offer' = offer
    BY <1>5 DEF CheckClaims, CheckFunds, Retry, Tell, BuyThrows
  <2>2. buy'[b].pc # "swap"
    <3>1. buy[b] \in Purchase
      BY <1>0
    <3> QED BY <1>0, <1>5, <3>1 DEF CheckClaims, CheckFunds, Retry, Tell, BuyThrows, Advance,
                                    IdleBuy, Purchase
  <2> QED BY <1>0, <1>1, <2>1, <2>2 DEF StockInv, StockPublished, ClaimFits
<1> QED BY <1>2, <1>3, <1>4, <1>5 DEF BuyStep

LEMMA OfferStepFits ==
    ASSUME TypeInv, TypeInv', StockInv, NEW o \in Offers, OfferStep(o)
    PROVE  StockInv'
<1> PICK active \in BOOLEAN, unlimited \in BOOLEAN, stock \in Stocks \cup {0},
         price \in Prices, limit \in Limits :
      \/ CreateOffer(o, active, unlimited, stock, price, limit)
      \/ UpdateOffer(o, active, unlimited, stock, price, limit)
  BY DEF OfferStep
<1>5. stock \in Nat
  BY OfferEventsAssumption
<1>6. Publish(o, unlimited, stock) /\ buy' = buy
  BY DEF CreateOffer, UpdateOffer
<1>7. offer \in [Offers -> Offer] /\ offer[o] \in Offer /\ offer[o].sold \in Nat
  BY OfferTyped DEF TypeInv, TypeOK
<1>0. /\ stock \in Nat /\ Publish(o, unlimited, stock) /\ buy' = buy
      /\ offer \in [Offers -> Offer] /\ offer[o] \in Offer /\ offer[o].sold \in Nat
  BY <1>5, <1>6, <1>7
<1>1. /\ published'[o].unlimited = (published[o].unlimited \/ unlimited)
      /\ published'[o].stock >= published[o].stock /\ published'[o].stock >= stock
      /\ \A p \in Offers \ {o} : published'[p] = published[p]
  BY <1>0, PublishTyped
<1>2. /\ offer'[o].unlimited = unlimited /\ offer'[o].stock = stock
      /\ offer'[o].sold = offer[o].sold
      /\ \A p \in Offers \ {o} : offer'[p] = offer[p]
  <2>1. CASE CreateOffer(o, active, unlimited, stock, price, limit)
    <3>1. offer[o].sold = 0
      BY <2>1 DEF CreateOffer, NoOffer
    <3> QED BY <1>0, <2>1, <3>1 DEF CreateOffer
  <2>2. CASE UpdateOffer(o, active, unlimited, stock, price, limit)
    <3> DEFINE row == [offer[o] EXCEPT !.active = active, !.unlimited = unlimited,
                                       !.stock = stock, !.price = price, !.limit = limit]
    <3>1. row.unlimited = unlimited /\ row.stock = stock /\ row.sold = offer[o].sold
      BY <1>0 DEF Offer
    <3>2. offer' = [offer EXCEPT ![o] = row]
      BY <2>2 DEF UpdateOffer
    <3> HIDE DEF row
    <3> QED BY <1>0, <3>1, <3>2
  <2> QED BY <2>1, <2>2
<1>3. ASSUME NEW p \in Offers PROVE StockPublished(p)'
  <2>1. StockPublished(p)
    BY DEF StockInv
  <2>2. published[o].stock \in Nat /\ published'[o].stock \in Nat
    BY DEF TypeInv, TypeOK
  <2>3. CASE p = o
    <3>1. StockPublished(o)
      BY DEF StockInv
    <3>2. published[o].unlimited => published'[o].unlimited
      BY <1>1
    <3>3. unlimited => published'[o].unlimited
      BY <1>1
    <3>4. published[o].unlimited \/ offer[o].sold <= published'[o].stock
      BY <1>0, <1>1, <2>2, <3>1 DEF StockPublished
    <3>5. stock <= published'[o].stock
      BY <1>0, <1>1, <2>2
    <3>6. StockPublished(o)'
      BY <1>2, <3>2, <3>3, <3>4, <3>5 DEF StockPublished
    <3> QED BY <2>3, <3>6
  <2>4. CASE p # o
    BY <1>1, <1>2, <2>1, <2>4 DEF StockPublished
  <2> QED BY <2>3, <2>4
<1>4. ASSUME NEW b \in Buyers PROVE ClaimFits(b)'
  <2>1. ClaimFits(b) /\ buy'[b] = buy[b]
    BY <1>0 DEF StockInv
  <2>2. \A p \in Offers : /\ published[p].unlimited => published'[p].unlimited
                          /\ published'[p].stock >= published[p].stock
    BY <1>1, OfferTyped
  <2> QED BY <2>1, <2>2, FitsStill
<1> QED BY <1>3, <1>4 DEF StockInv

LEMMA OthersFit ==
    ASSUME TypeInv, StockInv, EventStep \/ \E a \in Admins : RemovalStep(a)
    PROVE  StockInv'
<1>1. UNCHANGED <<published, buy>>
  BY DEF EventStep, UpdateEvent, SoftDeleteEvent, TimePasses, Sweep,
         RemovalStep, StartRemoval, DeleteOffer, DeactivateOffer
<1>2. ASSUME NEW o \in Offers
      PROVE  /\ offer'[o].unlimited = offer[o].unlimited /\ offer'[o].stock = offer[o].stock
             /\ offer'[o].sold = offer[o].sold
  <2>1. offer[o] \in Offer /\ offer \in [Offers -> Offer]
    BY DEF TypeInv, TypeOK
  <2>2. \/ offer'[o] = offer[o]
        \/ offer'[o] = [offer[o] EXCEPT !.exists = FALSE]
        \/ offer'[o] = [offer[o] EXCEPT !.active = FALSE]
    BY <2>1 DEF EventStep, UpdateEvent, SoftDeleteEvent, TimePasses, Sweep,
                RemovalStep, StartRemoval, DeleteOffer, DeactivateOffer
  <2> QED BY <2>1, <2>2 DEF Offer
<1>3. \A o \in Offers : StockPublished(o)'
  BY <1>1, <1>2 DEF StockInv, StockPublished
<1>4. \A b \in Buyers : ClaimFits(b)'
  BY <1>1 DEF StockInv, ClaimFits
<1> QED BY <1>3, <1>4 DEF StockInv

LEMMA InitFits == Init => StockInv
<1> SUFFICES ASSUME Init PROVE StockInv
  OBVIOUS
<1>1. \A b \in Buyers : buy[b].pc = "idle"
  BY DEF Init, IdleBuy
<1>2. \A o \in Offers : StockPublished(o)
  BY DEF Init, NoOffer, StockPublished
<1> QED BY <1>1, <1>2 DEF StockInv, ClaimFits

(* However purchases race, fail or are retried and whatever administrators  *)
(* do to an offer meanwhile, it never sells more than the largest stock it  *)
(* was given.                                                               *)
THEOREM NotOversold == Spec => []NeverOversold
<1>1. TypeInv /\ StockInv /\ [Next]_vars => TypeInv' /\ StockInv'
  <2> SUFFICES ASSUME TypeInv, StockInv, [Next]_vars PROVE TypeInv' /\ StockInv'
    OBVIOUS
  <2>1. TypeInv'
    BY NextTyped
  <2>2. CASE UNCHANGED vars
    BY <2>1, <2>2 DEF StockInv, StockPublished, ClaimFits, vars
  <2> QED BY <2>1, <2>2, BuyFits, OfferStepFits, OthersFit DEF Next
<1>2. StockInv => NeverOversold
  BY DEF StockInv, StockPublished, NeverOversold
<1> QED BY InitTyped, InitFits, <1>1, <1>2, PTL DEF Spec

-----------------------------------------------------------------------------
(* Accounts, for any number of people and of requests.                      *)

AccountPcs ==
    {"idle", "count", "existing", "referrer", "create", "token", "login", "seen", "compare", "password", "reset",
     "rename", "name", "generate", "secret", "enable", "on", "disable", "off", "linked", "resolve", "link"}
AccountRows ==
    [exists : BOOLEAN, name : Names \cup {Nobody}, password : Passwords \cup {Nobody},
     net : Nets \cup {Nobody}, banned : BOOLEAN, secret : Secrets \cup {Nobody},
     twoFactor : BOOLEAN, referredBy : People \cup {Nobody}]
Given == Passwords \cup Secrets \cup {Nobody}
AccountRequests ==
    [pc : AccountPcs, user : People \cup {Nobody}, name : Names \cup {Nobody}, net : Nets \cup {Nobody},
     given : Given, new : Given, other : People \cup {Nobody}]

\* What a request carries, by how far it has come; an account it has found, among those
\* registered, does not go away.
Carries(c, registered) ==
    /\ c.pc \in {"count", "existing", "referrer", "create"} =>
          c.user \in People /\ c.name \in Names /\ c.net \in Nets /\ c.new \in Passwords
    /\ c.pc = "create" => c.other \in registered \cup {Nobody}
    /\ c.pc \in {"login", "seen"} => c.net \in Nets
    /\ c.pc \in {"token", "seen", "compare", "password", "rename", "name", "generate", "secret", "enable", "on",
                 "disable", "off", "linked", "resolve", "link"} => c.user \in registered
    /\ c.pc \in {"compare", "password", "reset"} => c.new \in Passwords
    /\ c.pc = "reset" => c.user \in People /\ c.given = Nobody
    /\ c.pc \in {"rename", "name"} => c.name \in Names
    /\ c.pc \in {"generate", "secret"} => c.new \in Secrets
    /\ c.pc \in {"enable", "on"} => c.given \in Secrets
    /\ c.pc = "link" => c.other \in registered \ {c.user}
RequestsCarry ==
    /\ accountCall \in [AccountCalls -> AccountRequests]
    /\ \A k \in AccountCalls : Carries(accountCall[k], Registered)

\* While no two requests were in flight together there is one at most, ...
LoneAccountCall ==
    accountsCrossed \/ \A k, other \in AccountCalls :
        accountCall[k].pc = "idle" \/ accountCall[other].pc = "idle" \/ k = other

\* ... and what it has read is still so.
StillSo(c) ==
    /\ c.pc \in {"existing", "referrer", "create"} => HasRoom(c.net)
    /\ c.pc \in {"referrer", "create"} => ~Taken(c.user, c.name)
    /\ c.pc = "secret" => ~account[c.user].twoFactor
    /\ c.pc = "on" => c.given = account[c.user].secret /\ c.given # Nobody
    /\ c.pc = "password" => c.given \in {Nobody, account[c.user].password}
ReadsStand == accountsCrossed \/ \A k \in AccountCalls : StillSo(accountCall[k])

\* A network is remembered for whoever registered, and who has a row in referrals was
\* given it once.
NetsRemembered ==
    \A u \in People : IF u \in Registered THEN moved \/ account[u].net = registeredAt[u] ELSE registeredAt[u] = Nobody
LinksCounted ==
    \A u \in People : /\ links[u] = (IF referral[u] = Nobody THEN 0 ELSE 1)
                      /\ u \notin Registered => referral[u] = Nobody

AccountInv ==
    /\ AccountsSafe /\ RequestsCarry /\ LoneAccountCall /\ ReadsStand /\ NetsRemembered /\ LinksCounted

LEMMA AccountKinds ==
    ASSUME AccountInv
    PROVE  /\ account \in [People -> AccountRows] /\ accountCall \in [AccountCalls -> AccountRequests]
           /\ referral \in [People -> People \cup {Nobody}] /\ links \in [People -> Nat]
           /\ session \subseteq Registered /\ mailed \subseteq Registered /\ Registered \subseteq People
           /\ \A u \in Registered : account[u].name \in Names /\ account[u].password \in Passwords
           /\ registeredAt \in [People -> Nets \cup {Nobody}] /\ confirmed \in [People -> Secrets \cup {Nobody}]
           /\ moved \in BOOLEAN /\ renamed \in BOOLEAN /\ accountsCrossed \in BOOLEAN /\ accountAsks \in Nat
BY DEF AccountInv, AccountsSafe, AccountTypeOK, RequestsCarry, AccountRows, Registered

LEMMA AccountTyped ==
    ASSUME account \in [People -> AccountRows], accountCall \in [AccountCalls -> AccountRequests],
           referral \in [People -> People \cup {Nobody}], links \in [People -> Nat],
           session \subseteq Registered, mailed \subseteq Registered,
           \A u \in Registered : account[u].name \in Names /\ account[u].password \in Passwords,
           registeredAt \in [People -> Nets \cup {Nobody}], confirmed \in [People -> Secrets \cup {Nobody}],
           moved \in BOOLEAN, renamed \in BOOLEAN, accountsCrossed \in BOOLEAN, accountAsks \in Nat
    PROVE  AccountTypeOK
BY DEF AccountTypeOK, AccountRows, AccountRequests

LEMMA NoCallTyped == NoAccountCall \in AccountRequests /\ NoAccountCall.pc = "idle"
BY DEF NoAccountCall, AccountRequests, AccountPcs, Given

LEMMA NoRowTyped == NoAccount \in AccountRows /\ ~NoAccount.exists
BY DEF NoAccount, AccountRows

LEMMA NobodyIsNoOne == Nobody \notin People /\ Nobody \notin Nets
BY AccountAssumption

\* One more person counts for one at most.
LEMMA OneMorePerson ==
    ASSUME NEW S, S \subseteq People, NEW u
    PROVE  /\ IsFiniteSet(S \cup {u}) /\ Cardinality(S) \in Nat
           /\ Cardinality(S \cup {u}) \in Nat /\ Cardinality(S \cup {u}) <= Cardinality(S) + 1
<1>1. IsFiniteSet(S)
    BY FS_Subset, AccountAssumption
<1>2. Cardinality(S) \in Nat
    BY <1>1, FS_CardinalityType
<1>3. IsFiniteSet(S \cup {u}) /\ (Cardinality(S \cup {u}) = Cardinality(S) \/ Cardinality(S \cup {u}) = Cardinality(S) + 1)
    <2>1. CASE u \in S
        BY <2>1, <1>1, FS_AddElement
    <2>2. CASE u \notin S
        BY <2>2, <1>1, FS_AddElement
    <2> QED
        BY <2>1, <2>2
<1> QED
    BY <1>2, <1>3

LEMMA AccountInitially == AccountInit => AccountInv
<1> SUFFICES ASSUME AccountInit PROVE AccountInv
    OBVIOUS
<1>0. PICK R \in SUBSET People :
        \E name \in [R -> Names], net \in [R -> Nets], secret \in [R -> Secrets \cup {Nobody}], p \in Passwords :
           /\ \A u, v \in R : u # v => ~SameName(name[u], name[v]) /\ net[u] # net[v]
           /\ account = [u \in People |-> IF u \notin R THEN NoAccount ELSE
                 [NoAccount EXCEPT !.exists = TRUE, !.name = name[u], !.password = p, !.net = net[u],
                                   !.secret = secret[u], !.twoFactor = secret[u] # Nobody]]
           /\ registeredAt = [u \in People |-> IF u \in R THEN net[u] ELSE Nobody]
           /\ referral = [u \in People |-> Nobody] /\ links = [u \in People |-> 0]
           /\ session = R /\ mailed = {}
           /\ accountCall = [k \in AccountCalls |-> NoAccountCall]
           /\ confirmed = [u \in People |-> IF u \in R THEN secret[u] ELSE Nobody]
           /\ moved = FALSE /\ renamed = FALSE /\ accountsCrossed = FALSE
           /\ accountAsks = 0
    BY DEF AccountInit
<1>1. PICK name \in [R -> Names], net \in [R -> Nets], secret \in [R -> Secrets \cup {Nobody}], p \in Passwords :
        /\ \A u, v \in R : u # v => ~SameName(name[u], name[v]) /\ net[u] # net[v]
        /\ account = [u \in People |-> IF u \notin R THEN NoAccount ELSE
              [NoAccount EXCEPT !.exists = TRUE, !.name = name[u], !.password = p, !.net = net[u],
                                !.secret = secret[u], !.twoFactor = secret[u] # Nobody]]
        /\ registeredAt = [u \in People |-> IF u \in R THEN net[u] ELSE Nobody]
        /\ referral = [u \in People |-> Nobody] /\ links = [u \in People |-> 0]
        /\ session = R /\ mailed = {}
        /\ accountCall = [k \in AccountCalls |-> NoAccountCall]
        /\ confirmed = [u \in People |-> IF u \in R THEN secret[u] ELSE Nobody]
        /\ moved = FALSE /\ renamed = FALSE /\ accountsCrossed = FALSE
        /\ accountAsks = 0
    BY <1>0
<1> DEFINE row(u) == [NoAccount EXCEPT !.exists = TRUE, !.name = name[u], !.password = p, !.net = net[u],
                                       !.secret = secret[u], !.twoFactor = secret[u] # Nobody]
<1>2. \A u \in R : /\ row(u) \in AccountRows /\ row(u).exists /\ row(u).name = name[u] /\ row(u).password = p
                   /\ row(u).net = net[u] /\ row(u).secret = secret[u] /\ row(u).twoFactor = (secret[u] # Nobody)
    BY NoRowTyped DEF NoAccount, AccountRows
<1>3. account = [u \in People |-> IF u \notin R THEN NoAccount ELSE row(u)]
    BY <1>1
<1> HIDE DEF row
<1>4. \A u \in People : account[u] = IF u \notin R THEN NoAccount ELSE row(u)
    BY <1>3
<1>5. Registered = R
    BY <1>2, <1>4, NoRowTyped DEF Registered
<1>6. AccountTypeOK
    <2>1. account \in [People -> AccountRows]
        BY <1>2, <1>3, NoRowTyped
    <2>2. accountCall \in [AccountCalls -> AccountRequests]
        BY <1>1, NoCallTyped
    <2>3. \A u \in Registered : account[u].name \in Names /\ account[u].password \in Passwords
        BY <1>2, <1>4, <1>5
    <2>4. /\ registeredAt \in [People -> Nets \cup {Nobody}] /\ confirmed \in [People -> Secrets \cup {Nobody}]
          /\ referral \in [People -> People \cup {Nobody}] /\ links \in [People -> Nat]
          /\ session \subseteq Registered /\ mailed \subseteq Registered
          /\ moved \in BOOLEAN /\ renamed \in BOOLEAN /\ accountsCrossed \in BOOLEAN /\ accountAsks \in Nat
        BY <1>1, <1>5
    <2> QED
        BY <2>1, <2>2, <2>3, <2>4, AccountTyped
<1>7. NamesApart
    <2> SUFFICES ASSUME NEW u \in R, NEW v \in R, SameName(account[u].name, account[v].name) PROVE u = v
        BY <1>5 DEF NamesApart
    <2>1. account[u].name = name[u] /\ account[v].name = name[v]
        BY <1>2, <1>4
    <2>2. SameName(name[u], name[v])
        BY <2>1
    <2> QED
        BY <2>2, <1>1
<1>8. NetsWithinLimit
    <2> SUFFICES ASSUME NEW n \in Nets PROVE Cardinality({u \in People : registeredAt[u] = n}) <= NetLimit
        BY DEF NetsWithinLimit
    <2>1. CASE {u \in People : registeredAt[u] = n} = {}
        <3>1. Cardinality({}) = 0
            BY FS_EmptySet
        <3>2. Cardinality({u \in People : registeredAt[u] = n}) = 0
            BY <2>1, <3>1
        <3> QED
            BY <3>2, AccountAssumption
    <2>2. CASE {u \in People : registeredAt[u] = n} # {}
        <3>1. PICK u \in People : registeredAt[u] = n
            BY <2>2
        <3>2. {v \in People : registeredAt[v] = n} = {u}
            BY <3>1, <1>1, NobodyIsNoOne
        <3>3. Cardinality({u}) = 1
            BY FS_Singleton
        <3> QED
            BY <3>2, <3>3, AccountAssumption
    <2> QED
        BY <2>1, <2>2
<1>9. SecondFactorKnown
    BY <1>1, <1>2, <1>4, <1>5 DEF SecondFactorKnown
<1>10. ReferredOnce /\ LinksCounted
    <2>1. \A u \in People : referral[u] = Nobody /\ links[u] = 0 /\ u # Nobody
        BY <1>1, NobodyIsNoOne
    <2> QED
        BY <2>1 DEF ReferredOnce, LinksCounted
<1>11. RequestsCarry /\ LoneAccountCall /\ ReadsStand
    <2>1. accountCall \in [AccountCalls -> AccountRequests] /\ \A k \in AccountCalls : accountCall[k].pc = "idle"
        BY <1>1, NoCallTyped
    <2> QED
        BY <2>1 DEF RequestsCarry, LoneAccountCall, ReadsStand, Carries, StillSo
<1>12. NetsRemembered
    <2>1. ASSUME NEW u \in R PROVE account[u].net = registeredAt[u]
        <3>1. registeredAt[u] = net[u]
            BY <1>1
        <3> QED
            BY <3>1, <1>2, <1>4
    <2>2. ASSUME NEW u \in People, u \notin R PROVE registeredAt[u] = Nobody
        BY <2>2, <1>1
    <2> QED
        BY <2>1, <2>2, <1>5 DEF NetsRemembered
<1> QED
    BY <1>6, <1>7, <1>8, <1>9, <1>10, <1>11, <1>12 DEF AccountInv, AccountsSafe

AccountRowsAre == <<account, referral, session, mailed, links, registeredAt, confirmed, moved, renamed>>

\* A request that only reads goes on with what it has found, or ends.
LEMMA AccountCallMoves ==
    ASSUME AccountInv, NEW k \in AccountCalls, NEW request \in AccountRequests,
           accountCall[k].pc # "idle",
           accountCall' = [accountCall EXCEPT ![k] = request],
           UNCHANGED AccountRowsAre, UNCHANGED accountCount,
           Carries(request, Registered), accountsCrossed \/ StillSo(request)
    PROVE  AccountInv'
<1> USE DEF AccountInv, AccountsSafe, AccountRowsAre, accountCount
<1>1. \A other \in AccountCalls : accountCall'[other] = IF other = k THEN request ELSE accountCall[other]
    BY AccountKinds
<1>2. Registered' = Registered
    BY DEF Registered
<1>3. AccountTypeOK'
    <2>1. accountCall' \in [AccountCalls -> AccountRequests]
        BY AccountKinds
    <2> QED
        BY <2>1, <1>2, AccountKinds DEF AccountTypeOK, AccountRows, AccountRequests
<1>4. NamesApart' /\ SecondFactorKnown'
    BY <1>2 DEF NamesApart, SecondFactorKnown
<1>5. NetsWithinLimit' /\ ReferredOnce'
    BY DEF NetsWithinLimit, ReferredOnce
<1>6. NetsRemembered' /\ LinksCounted'
    BY <1>2 DEF NetsRemembered, LinksCounted
<1>7. RequestsCarry'
    <2>1. accountCall' \in [AccountCalls -> AccountRequests]
        BY AccountKinds
    <2>2. \A other \in AccountCalls : Carries(accountCall'[other], Registered')
        BY <1>1, <1>2 DEF RequestsCarry
    <2> QED
        BY <2>1, <2>2 DEF RequestsCarry
<1>8. LoneAccountCall'
    BY <1>1 DEF LoneAccountCall
<1>9. ReadsStand'
    <2> SUFFICES ASSUME ~accountsCrossed, NEW other \in AccountCalls PROVE StillSo(accountCall[other])'
        BY DEF ReadsStand
    <2>1. StillSo(accountCall'[other])
        BY <1>1 DEF ReadsStand
    <2> QED
        BY <2>1, <1>2 DEF StillSo, HasRoom, Taken
<1> QED
    BY <1>3, <1>4, <1>5, <1>6, <1>7, <1>8, <1>9

\* A request writes one account, or one user's rows, and ends or goes on to give the token.
LEMMA AccountWriterAlone ==
    ASSUME AccountInv, NEW k \in AccountCalls, NEW request \in AccountRequests,
           accountCall[k].pc # "idle",
           accountCall' = [accountCall EXCEPT ![k] = request], UNCHANGED accountCount,
           request.pc \in {"idle", "token"}, request.pc = "token" => request.user \in Registered',
           Registered \subseteq Registered'
    PROVE  /\ accountCall' \in [AccountCalls -> AccountRequests]
           /\ RequestsCarry' /\ LoneAccountCall' /\ ReadsStand'
<1> USE DEF AccountInv, AccountsSafe, accountCount
<1>1. \A other \in AccountCalls : accountCall'[other] = IF other = k THEN request ELSE accountCall[other]
    BY AccountKinds
<1>2. accountCall' \in [AccountCalls -> AccountRequests]
    BY AccountKinds
<1>3. RequestsCarry'
    <2>1. Carries(request, Registered')
        BY DEF Carries
    <2>2. ASSUME NEW other \in AccountCalls PROVE Carries(accountCall[other], Registered')
        BY DEF RequestsCarry, Carries
    <2> QED
        BY <1>1, <1>2, <2>1, <2>2 DEF RequestsCarry
<1>4. LoneAccountCall'
    BY <1>1 DEF LoneAccountCall
<1>5. ReadsStand'
    <2> SUFFICES ASSUME ~accountsCrossed, NEW other \in AccountCalls PROVE StillSo(accountCall[other])'
        BY DEF ReadsStand
    <2>1. accountCall'[other].pc \in {"idle", "token"}
        BY <1>1 DEF LoneAccountCall
    <2> QED
        BY <2>1 DEF StillSo
<1> QED
    BY <1>2, <1>3, <1>4, <1>5

LEMMA AccountAsked ==
    ASSUME AccountInv, NEW k \in AccountCalls, NEW request \in AccountRequests,
           request.pc \in {"count", "login", "compare", "reset", "rename", "generate", "enable", "disable", "linked"},
           Carries(request, Registered), AskAccount(k, request)
    PROVE  AccountInv'
<1> USE DEF AccountInv, AccountsSafe, AccountRowsAre
<1>0. /\ accountCall[k].pc = "idle" /\ accountAsks' = accountAsks + 1
      /\ accountsCrossed' = (accountsCrossed \/ \E other \in AccountCalls : accountCall[other].pc # "idle")
      /\ accountCall' = [accountCall EXCEPT ![k] = request]
      /\ UNCHANGED AccountRowsAre
    BY DEF AskAccount, rowVars, accountHistory
<1>1. \A other \in AccountCalls : accountCall'[other] = IF other = k THEN request ELSE accountCall[other]
    BY <1>0, AccountKinds
<1>2. Registered' = Registered
    BY <1>0 DEF Registered
<1>3. accountCall' \in [AccountCalls -> AccountRequests]
    BY <1>0, AccountKinds
<1>4. AccountTypeOK'
    <2>1. accountAsks' \in Nat /\ accountsCrossed' \in BOOLEAN
        BY <1>0, AccountKinds
    <2> QED
        BY <2>1, <1>0, <1>2, <1>3, AccountKinds DEF AccountTypeOK, AccountRows, AccountRequests
<1>5. NamesApart' /\ SecondFactorKnown' /\ NetsWithinLimit'
    BY <1>0, <1>2 DEF NamesApart, SecondFactorKnown, NetsWithinLimit
<1>6. NetsRemembered' /\ LinksCounted' /\ ReferredOnce'
    BY <1>0, <1>2 DEF NetsRemembered, LinksCounted, ReferredOnce
<1>7. RequestsCarry'
    BY <1>1, <1>2, <1>3 DEF RequestsCarry
<1>8. accountsCrossed' \/ \A other \in AccountCalls : other # k => accountCall'[other].pc = "idle"
    BY <1>0, <1>1
<1>9. LoneAccountCall' /\ ReadsStand'
    BY <1>1, <1>8 DEF LoneAccountCall, ReadsStand, StillSo
<1> QED
    BY <1>4, <1>5, <1>6, <1>7, <1>9

LEMMA AccountAskKeeps == ASSUME AccountInv, NEW k \in AccountCalls, AccountAsk(k) PROVE AccountInv'
<1> USE DEF NoAccountCall, AccountRequests, AccountPcs, Given, Carries
<1>1. ASSUME NEW u \in People, NEW name \in Names, NEW net \in Nets, NEW p \in Passwords,
             NEW r \in People \cup {Nobody}, AskRegister(k, u, name, net, p, r)
      PROVE  AccountInv'
    BY <1>1, AccountAsked DEF AskRegister
<1>2. ASSUME NEW name \in Names, NEW p \in Passwords, NEW code \in Secrets \cup {Nobody}, NEW net \in Nets,
             AskLogin(k, name, p, code, net)
      PROVE  AccountInv'
    BY <1>2, AccountAsked DEF AskLogin
<1>3. \A u \in People : Authenticated(u) => u \in Registered
    BY DEF Authenticated, Registered
<1>4. ASSUME NEW u \in People, NEW p \in Passwords, NEW q \in Passwords, AskChangePassword(k, u, p, q)
      PROVE  AccountInv'
    BY <1>3, <1>4, AccountAsked DEF AskChangePassword, AskSigned
<1>5. ASSUME NEW u \in People, NEW p \in Passwords, AskReset(k, u, p) \/ AskForce(k, u, p)
      PROVE  AccountInv'
    BY <1>5, AccountAsked DEF AskReset, AskForce
<1>6. ASSUME NEW u \in People, NEW name \in Names, AskRename(k, u, name) PROVE AccountInv'
    BY <1>3, <1>6, AccountAsked DEF AskRename, AskSigned
<1>7. ASSUME NEW u \in People, NEW s \in Secrets, AskGenerate(k, u, s) \/ AskEnable(k, u, s) \/ AskDisable(k, u, s)
      PROVE  AccountInv'
    BY <1>3, <1>7, AccountAsked DEF AskGenerate, AskEnable, AskDisable, AskSigned
<1>8. ASSUME NEW u \in People, NEW r \in People, NEW net \in Nets, AskReferral(k, u, r, net) PROVE AccountInv'
    BY <1>3, <1>8, AccountAsked DEF AskReferral, AskSigned
<1> HIDE DEF NoAccountCall, AccountRequests, AccountPcs, Given, Carries
<1> QED
    BY <1>1, <1>2, <1>4, <1>5, <1>6, <1>7, <1>8 DEF AccountAsk

\* A read goes on only with what it has found.
LEMMA ReadGoesOn ==
    ASSUME AccountInv, NEW k \in AccountCalls, NEW holds \in BOOLEAN, NEW pc \in AccountPcs, accountCall[k].pc # "idle",
           ThenIf(k, holds, pc),
           holds => /\ Carries([accountCall[k] EXCEPT !.pc = pc], Registered)
                    /\ accountsCrossed \/ StillSo([accountCall[k] EXCEPT !.pc = pc])
    PROVE  AccountInv'
<1> DEFINE request == IF holds THEN [accountCall[k] EXCEPT !.pc = pc] ELSE NoAccountCall
<1>1. /\ accountCall' = [accountCall EXCEPT ![k] = request] /\ UNCHANGED accountCount /\ UNCHANGED AccountRowsAre
    BY DEF ThenIf, Then, AccountRowsAre, rowVars, accountHistory
<1>2. accountCall[k] \in AccountRequests
    BY AccountKinds
<1>3. request \in AccountRequests
    <2>1. [accountCall[k] EXCEPT !.pc = pc] \in AccountRequests
        BY <1>2 DEF AccountRequests
    <2> QED
        BY <2>1, NoCallTyped
<1>4. Carries(request, Registered) /\ (accountsCrossed \/ StillSo(request))
    <2>1. Carries(NoAccountCall, Registered) /\ StillSo(NoAccountCall)
        BY NoCallTyped DEF Carries, StillSo
    <2> QED
        BY <2>1
<1> HIDE DEF request
<1> QED
    BY <1>1, <1>3, <1>4, AccountCallMoves

LEMMA AccountReadsKeep ==
    ASSUME AccountInv, NEW k \in AccountCalls,
           \/ CountNet(k) \/ FindExisting(k) \/ Compare(k) \/ ReadReset(k) \/ ReadNames(k) \/ ReadGenerate(k)
           \/ ReadEnable(k) \/ ReadDisable(k) \/ ReadReferral(k) \/ ReadReferrer(k)
    PROVE  AccountInv'
<1> DEFINE c == accountCall[k]
           to(pc) == [c EXCEPT !.pc = pc]
<1>1. /\ c \in AccountRequests
      /\ \A pc \in AccountPcs : /\ to(pc).pc = pc /\ to(pc).user = c.user /\ to(pc).name = c.name
                                  /\ to(pc).net = c.net /\ to(pc).given = c.given /\ to(pc).new = c.new
                                  /\ to(pc).other = c.other
    BY AccountKinds DEF AccountRequests
<1>2. Carries(c, Registered) /\ (accountsCrossed \/ StillSo(c))
    BY DEF AccountInv, RequestsCarry, ReadsStand
<1>0. {"existing", "referrer", "password", "name", "secret", "on", "off", "resolve", "link"} \subseteq AccountPcs
    BY DEF AccountPcs
<1> HIDE DEF to
<1>3. CASE CountNet(k)
    <2> DEFINE holds == HasRoom(c.net)
    <2>1. c.pc = "count" /\ ThenIf(k, holds, "existing") /\ holds \in BOOLEAN
        BY <1>3 DEF CountNet, At, HasRoom
    <2>2. holds => Carries(to("existing"), Registered) /\ (accountsCrossed \/ StillSo(to("existing")))
        BY <2>1, <1>0, <1>1, <1>2 DEF StillSo, Carries
    <2> HIDE DEF holds
    <2> QED
        BY <2>1, <2>2, <1>0, ReadGoesOn DEF to
<1>4. CASE FindExisting(k)
    <2> DEFINE holds == ~Taken(c.user, c.name)
    <2>1. c.pc = "existing" /\ ThenIf(k, holds, "referrer") /\ holds \in BOOLEAN
        BY <1>4 DEF FindExisting, At, Taken
    <2>2. holds => Carries(to("referrer"), Registered) /\ (accountsCrossed \/ StillSo(to("referrer")))
        BY <2>1, <1>0, <1>1, <1>2 DEF StillSo, Carries
    <2> HIDE DEF holds
    <2> QED
        BY <2>1, <2>2, <1>0, ReadGoesOn DEF to
<1>5. CASE Compare(k)
    <2> DEFINE holds == c.given = account[c.user].password
    <2>1. c.pc = "compare" /\ ThenIf(k, holds, "password") /\ holds \in BOOLEAN
        BY <1>5 DEF Compare, At
    <2>2. holds => Carries(to("password"), Registered) /\ (accountsCrossed \/ StillSo(to("password")))
        BY <2>1, <1>0, <1>1, <1>2 DEF StillSo, Carries
    <2> HIDE DEF holds
    <2> QED
        BY <2>1, <2>2, <1>0, ReadGoesOn DEF to
<1>6. CASE ReadReset(k)
    <2> DEFINE holds == c.user \in Registered
    <2>1. c.pc = "reset" /\ ThenIf(k, holds, "password") /\ holds \in BOOLEAN
        BY <1>6 DEF ReadReset, At
    <2>2. holds => Carries(to("password"), Registered) /\ (accountsCrossed \/ StillSo(to("password")))
        BY <2>1, <1>0, <1>1, <1>2 DEF StillSo, Carries
    <2> HIDE DEF holds
    <2> QED
        BY <2>1, <2>2, <1>0, ReadGoesOn DEF to
<1>7. CASE ReadNames(k)
    <2> DEFINE holds == NameFree(c.user, c.name)
    <2>1. c.pc = "rename" /\ ThenIf(k, holds, "name") /\ holds \in BOOLEAN
        BY <1>7 DEF ReadNames, At, NameFree
    <2>2. holds => Carries(to("name"), Registered) /\ (accountsCrossed \/ StillSo(to("name")))
        BY <2>1, <1>0, <1>1, <1>2 DEF StillSo, Carries
    <2> HIDE DEF holds
    <2> QED
        BY <2>1, <2>2, <1>0, ReadGoesOn DEF to
<1>8. CASE ReadGenerate(k)
    <2> DEFINE holds == ~account[c.user].twoFactor
    <2>1. c.pc = "generate" /\ ThenIf(k, holds, "secret") /\ holds \in BOOLEAN
        BY <1>8 DEF ReadGenerate, At
    <2>2. holds => Carries(to("secret"), Registered) /\ (accountsCrossed \/ StillSo(to("secret")))
        BY <2>1, <1>0, <1>1, <1>2 DEF StillSo, Carries
    <2> HIDE DEF holds
    <2> QED
        BY <2>1, <2>2, <1>0, ReadGoesOn DEF to
<1>9. CASE ReadEnable(k)
    <2> DEFINE a == account[c.user]
               holds == ~a.twoFactor /\ a.secret # Nobody /\ c.given = a.secret
    <2>1. c.pc = "enable" /\ ThenIf(k, holds, "on") /\ holds \in BOOLEAN
        BY <1>9 DEF ReadEnable, At
    <2>2. holds => Carries(to("on"), Registered) /\ (accountsCrossed \/ StillSo(to("on")))
        BY <2>1, <1>0, <1>1, <1>2 DEF StillSo, Carries
    <2> HIDE DEF holds
    <2> QED
        BY <2>1, <2>2, <1>0, ReadGoesOn DEF to
<1>10. CASE ReadDisable(k)
    <2> DEFINE a == account[c.user]
               holds == a.twoFactor /\ c.given = a.secret
    <2>1. c.pc = "disable" /\ ThenIf(k, holds, "off") /\ holds \in BOOLEAN
        <3>1. a.twoFactor \in BOOLEAN
            BY <1>2, <1>10, AccountKinds DEF Carries, ReadDisable, At, AccountRows
        <3> QED
            BY <3>1, <1>10 DEF ReadDisable, At
    <2>2. holds => Carries(to("off"), Registered) /\ (accountsCrossed \/ StillSo(to("off")))
        BY <2>1, <1>0, <1>1, <1>2 DEF StillSo, Carries
    <2> HIDE DEF holds
    <2> QED
        BY <2>1, <2>2, <1>0, ReadGoesOn DEF to
<1>11. CASE ReadReferral(k)
    <2> DEFINE holds == referral[c.user] = Nobody
    <2>1. c.pc = "linked" /\ ThenIf(k, holds, "resolve") /\ holds \in BOOLEAN
        BY <1>11 DEF ReadReferral, At
    <2>2. holds => Carries(to("resolve"), Registered) /\ (accountsCrossed \/ StillSo(to("resolve")))
        BY <2>1, <1>0, <1>1, <1>2 DEF StillSo, Carries
    <2> HIDE DEF holds
    <2> QED
        BY <2>1, <2>2, <1>0, ReadGoesOn DEF to
<1>12. CASE ReadReferrer(k)
    <2> DEFINE holds == Eligible(c)
    <2>1. c.pc = "resolve" /\ ThenIf(k, holds, "link") /\ holds \in BOOLEAN
        BY <1>12 DEF ReadReferrer, At, Eligible
    <2>2. holds => Carries(to("link"), Registered) /\ (accountsCrossed \/ StillSo(to("link")))
        BY <2>1, <1>0, <1>1, <1>2 DEF StillSo, Carries, Eligible
    <2> HIDE DEF holds
    <2> QED
        BY <2>1, <2>2, <1>0, ReadGoesOn DEF to
<1> QED
    BY <1>3, <1>4, <1>5, <1>6, <1>7, <1>8, <1>9, <1>10, <1>11, <1>12

LEMMA ResolveReferrerKeeps == ASSUME AccountInv, NEW k \in AccountCalls, ResolveReferrer(k) PROVE AccountInv'
<1> DEFINE c == accountCall[k]
           request == [c EXCEPT !.pc = "create", !.other = IF Counts(c) THEN c.other ELSE Nobody]
<1>1. /\ c.pc = "referrer" /\ accountCall' = [accountCall EXCEPT ![k] = request]
      /\ UNCHANGED accountCount /\ UNCHANGED AccountRowsAre
    BY DEF ResolveReferrer, At, Then, AccountRowsAre, rowVars, accountHistory
<1>2. c \in AccountRequests
    BY AccountKinds
<1>3. /\ request \in AccountRequests /\ request.pc = "create" /\ request.user = c.user /\ request.name = c.name
      /\ request.net = c.net /\ request.given = c.given /\ request.new = c.new
      /\ request.other \in Registered \cup {Nobody}
    BY <1>2 DEF AccountRequests, AccountPcs, Counts
<1>4. Carries(c, Registered) /\ (accountsCrossed \/ StillSo(c))
    BY DEF AccountInv, RequestsCarry, ReadsStand
<1> HIDE DEF request
<1>5. Carries(request, Registered) /\ (accountsCrossed \/ StillSo(request))
    BY <1>1, <1>3, <1>4 DEF Carries, StillSo
<1> QED
    BY <1>1, <1>3, <1>5, AccountCallMoves

LEMMA ReadLoginKeeps == ASSUME AccountInv, NEW k \in AccountCalls, ReadLogin(k) PROVE AccountInv'
<1> DEFINE c == accountCall[k]
           seen(u) == [c EXCEPT !.pc = "seen", !.user = u]
<1>1. c.pc = "login" /\ UNCHANGED accountCount /\ UNCHANGED AccountRowsAre
    BY DEF ReadLogin, At, Then, AccountRowsAre, rowVars, accountHistory
<1>2. PICK u \in Registered : \/ accountCall' = [accountCall EXCEPT ![k] = seen(u)]
                              \/ accountCall' = [accountCall EXCEPT ![k] = NoAccountCall]
    BY DEF ReadLogin, Then, FindByIdentifier
<1>3. c \in AccountRequests /\ Carries(c, Registered)
    BY AccountKinds DEF AccountInv, RequestsCarry
<1>4. seen(u) \in AccountRequests /\ seen(u).pc = "seen" /\ seen(u).user = u /\ seen(u).net = c.net
    BY <1>3 DEF AccountRequests, AccountPcs, Registered
<1> HIDE DEF seen
<1>5. Carries(seen(u), Registered) /\ StillSo(seen(u))
    BY <1>1, <1>3, <1>4 DEF Carries, StillSo
<1>6. Carries(NoAccountCall, Registered) /\ StillSo(NoAccountCall)
    BY NoCallTyped DEF Carries, StillSo
<1>7. CASE accountCall' = [accountCall EXCEPT ![k] = seen(u)]
    BY <1>1, <1>4, <1>5, <1>7, AccountCallMoves
<1>8. CASE accountCall' = [accountCall EXCEPT ![k] = NoAccountCall]
    BY <1>1, <1>6, <1>8, NoCallTyped, AccountCallMoves
<1> QED
    BY <1>2, <1>7, <1>8

LEMMA AccountThrowsKeeps == ASSUME AccountInv, NEW k \in AccountCalls, AccountThrows(k) PROVE AccountInv'
<1>1. /\ accountCall[k].pc # "idle" /\ accountCall' = [accountCall EXCEPT ![k] = NoAccountCall]
      /\ UNCHANGED accountCount /\ UNCHANGED AccountRowsAre
    BY DEF AccountThrows, Then, AccountRowsAre, rowVars, accountHistory
<1>2. Carries(NoAccountCall, Registered) /\ StillSo(NoAccountCall)
    BY NoCallTyped DEF Carries, StillSo
<1> QED
    BY <1>1, <1>2, NoCallTyped, AccountCallMoves

\* The row of one account is replaced and stays an account; nobody joins or leaves.
LEMMA AccountRowReplaced ==
    ASSUME AccountInv, NEW u \in Registered, NEW row \in AccountRows, row.exists,
           row.name \in Names, row.password \in Passwords, account' = [account EXCEPT ![u] = row]
    PROVE  /\ Registered' = Registered /\ account' \in [People -> AccountRows]
           /\ \A v \in People : account'[v] = IF v = u THEN row ELSE account[v]
           /\ \A v \in Registered' : account'[v].name \in Names /\ account'[v].password \in Passwords
           /\ account[u] \in AccountRows /\ account[u].exists
           /\ account[u].name \in Names /\ account[u].password \in Passwords
<1>1. account \in [People -> AccountRows] /\ u \in People /\ account[u].exists
    BY AccountKinds DEF Registered
<1>2. /\ account' \in [People -> AccountRows]
      /\ \A v \in People : account'[v] = IF v = u THEN row ELSE account[v]
    BY <1>1
<1>3. Registered' = Registered
    BY <1>1, <1>2 DEF Registered
<1>4. \A v \in Registered' : account'[v].name \in Names /\ account'[v].password \in Passwords
    BY <1>2, <1>3, AccountKinds
<1> QED
    BY <1>1, <1>2, <1>3, <1>4, AccountKinds

LEMMA RememberLoginKeeps == ASSUME AccountInv, NEW k \in AccountCalls, RememberLogin(k) PROVE AccountInv'
<1> USE DEF AccountInv, AccountsSafe
<1> DEFINE c == accountCall[k]
           u == c.user
           row == [account[u] EXCEPT !.net = c.net]
           request == [c EXCEPT !.pc = "token"]
<1>0. /\ c.pc = "seen" /\ account' = [account EXCEPT ![u] = row]
      /\ moved' = (moved \/ c.net # registeredAt[u])
      /\ accountCall' = [accountCall EXCEPT ![k] = request] /\ UNCHANGED accountCount
      /\ UNCHANGED <<referral, session, mailed, links, registeredAt, confirmed, renamed>>
    BY DEF RememberLogin, At, Then
<1>1. c \in AccountRequests /\ u \in Registered /\ c.net \in Nets
    BY <1>0, AccountKinds DEF RequestsCarry, Carries
<1>2. request \in AccountRequests /\ request.pc = "token" /\ request.user = u
    BY <1>1 DEF AccountRequests, AccountPcs
<1>3. account[u] \in AccountRows /\ account[u].exists /\ account[u].name \in Names /\ account[u].password \in Passwords
    BY <1>1, AccountKinds DEF Registered
<1>4. /\ row \in AccountRows /\ row.exists /\ row.name = account[u].name /\ row.password = account[u].password
      /\ row.net = c.net /\ row.twoFactor = account[u].twoFactor /\ row.secret = account[u].secret
    BY <1>1, <1>3 DEF AccountRows
<1> HIDE DEF row, request
<1>5. /\ Registered' = Registered /\ account' \in [People -> AccountRows]
      /\ \A v \in People : account'[v] = IF v = u THEN row ELSE account[v]
      /\ \A v \in Registered' : account'[v].name \in Names /\ account'[v].password \in Passwords
    BY <1>0, <1>1, <1>3, <1>4, AccountRowReplaced
<1>6. /\ accountCall' \in [AccountCalls -> AccountRequests]
      /\ RequestsCarry' /\ LoneAccountCall' /\ ReadsStand'
    BY <1>0, <1>1, <1>2, <1>5, AccountWriterAlone
<1>7. AccountTypeOK'
    <2>1. moved' \in BOOLEAN
        BY <1>0, AccountKinds
    <2> QED
        BY <2>1, <1>0, <1>5, <1>6, AccountKinds DEF AccountTypeOK, AccountRows, AccountRequests, accountCount
<1>8. NamesApart'
    BY <1>0, <1>4, <1>5, AccountKinds DEF NamesApart, accountCount
<1>9. NetsWithinLimit' /\ ReferredOnce' /\ LinksCounted'
    BY <1>0, <1>5, AccountKinds DEF NetsWithinLimit, ReferredOnce, LinksCounted, accountCount
<1>10. SecondFactorKnown'
    BY <1>0, <1>4, <1>5, AccountKinds DEF SecondFactorKnown, accountCount
<1>11. NetsRemembered'
    BY <1>0, <1>1, <1>4, <1>5, AccountKinds DEF NetsRemembered
<1> QED
    BY <1>6, <1>7, <1>8, <1>9, <1>10, <1>11

LEMMA WritePasswordKeeps == ASSUME AccountInv, NEW k \in AccountCalls, WritePassword(k) PROVE AccountInv'
<1> USE DEF AccountInv, AccountsSafe
<1> DEFINE c == accountCall[k]
           u == c.user
           row == [account[u] EXCEPT !.password = c.new]
<1>0. /\ c.pc = "password" /\ account' = [account EXCEPT ![u] = row]
      /\ accountCall' = [accountCall EXCEPT ![k] = NoAccountCall] /\ UNCHANGED accountCount
      /\ UNCHANGED <<referral, session, mailed, links, registeredAt, confirmed, moved, renamed>>
    BY DEF WritePassword, At, Then, accountHistory
<1>1. c \in AccountRequests /\ u \in Registered /\ c.new \in Passwords
    BY <1>0, AccountKinds DEF RequestsCarry, Carries, Registered
<1>2. account[u] \in AccountRows /\ account[u].exists /\ account[u].name \in Names /\ account[u].password \in Passwords
    BY <1>1, AccountKinds DEF Registered
<1>3. /\ row \in AccountRows /\ row.exists
      /\ row.name = account[u].name
      /\ row.password = c.new
      /\ row.net = account[u].net
      /\ row.twoFactor = account[u].twoFactor
      /\ row.secret = account[u].secret
    BY <1>1, <1>2 DEF AccountRows
<1> HIDE DEF row
<1>4. /\ Registered' = Registered /\ account' \in [People -> AccountRows]
      /\ \A v \in People : account'[v] = IF v = u THEN row ELSE account[v]
      /\ \A v \in Registered' : account'[v].name \in Names /\ account'[v].password \in Passwords
    BY <1>0, <1>1, <1>2, <1>3, AccountRowReplaced
<1>5. /\ accountCall' \in [AccountCalls -> AccountRequests]
      /\ RequestsCarry' /\ LoneAccountCall' /\ ReadsStand'
    BY <1>0, <1>4, NoCallTyped, AccountWriterAlone
<1>6. AccountTypeOK'
    BY <1>0, <1>4, <1>5, AccountKinds DEF AccountTypeOK, AccountRows, AccountRequests, accountCount
<1>7. NamesApart'
    BY <1>0, <1>3, <1>4, AccountKinds DEF NamesApart, accountCount
<1>8. NetsWithinLimit'
    BY <1>0, <1>4, AccountKinds DEF NetsWithinLimit, accountCount
<1>9. ReferredOnce' /\ LinksCounted'
    BY <1>0, <1>4, AccountKinds DEF ReferredOnce, LinksCounted
<1>10. SecondFactorKnown'
    BY <1>0, <1>3, <1>4, AccountKinds DEF SecondFactorKnown, accountCount
<1>11. NetsRemembered'
    BY <1>0, <1>3, <1>4, AccountKinds DEF NetsRemembered
<1> QED
    BY <1>5, <1>6, <1>7, <1>8, <1>9, <1>10, <1>11


LEMMA WriteNameKeeps == ASSUME AccountInv, NEW k \in AccountCalls, WriteName(k) PROVE AccountInv'
<1> USE DEF AccountInv, AccountsSafe
<1> DEFINE c == accountCall[k]
           u == c.user
           row == [account[u] EXCEPT !.name = c.name]
<1>0. /\ c.pc = "name" /\ account' = [account EXCEPT ![u] = row]
      /\ renamed' = TRUE
      /\ accountCall' = [accountCall EXCEPT ![k] = NoAccountCall] /\ UNCHANGED accountCount
      /\ UNCHANGED <<referral, session, mailed, links, registeredAt, confirmed, moved>>
    BY DEF WriteName, At, Then, accountHistory
<1>1. c \in AccountRequests /\ u \in Registered /\ c.name \in Names
    BY <1>0, AccountKinds DEF RequestsCarry, Carries, Registered
<1>2. account[u] \in AccountRows /\ account[u].exists /\ account[u].name \in Names /\ account[u].password \in Passwords
    BY <1>1, AccountKinds DEF Registered
<1>3. /\ row \in AccountRows /\ row.exists
      /\ row.name = c.name
      /\ row.password = account[u].password
      /\ row.net = account[u].net
      /\ row.twoFactor = account[u].twoFactor
      /\ row.secret = account[u].secret
    BY <1>1, <1>2 DEF AccountRows
<1> HIDE DEF row
<1>4. /\ Registered' = Registered /\ account' \in [People -> AccountRows]
      /\ \A v \in People : account'[v] = IF v = u THEN row ELSE account[v]
      /\ \A v \in Registered' : account'[v].name \in Names /\ account'[v].password \in Passwords
    BY <1>0, <1>1, <1>2, <1>3, AccountRowReplaced
<1>5. /\ accountCall' \in [AccountCalls -> AccountRequests]
      /\ RequestsCarry' /\ LoneAccountCall' /\ ReadsStand'
    BY <1>0, <1>4, NoCallTyped, AccountWriterAlone
<1>6. AccountTypeOK'
    BY <1>0, <1>4, <1>5, AccountKinds DEF AccountTypeOK, AccountRows, AccountRequests, accountCount
<1>7. NamesApart'
    BY <1>0, <1>3, <1>4, AccountKinds DEF NamesApart, accountCount
<1>8. NetsWithinLimit'
    BY <1>0, <1>4, AccountKinds DEF NetsWithinLimit, accountCount
<1>9. ReferredOnce' /\ LinksCounted'
    BY <1>0, <1>4, AccountKinds DEF ReferredOnce, LinksCounted
<1>10. SecondFactorKnown'
    BY <1>0, <1>3, <1>4, AccountKinds DEF SecondFactorKnown, accountCount
<1>11. NetsRemembered'
    BY <1>0, <1>3, <1>4, AccountKinds DEF NetsRemembered
<1> QED
    BY <1>5, <1>6, <1>7, <1>8, <1>9, <1>10, <1>11


LEMMA WriteSecretKeeps == ASSUME AccountInv, NEW k \in AccountCalls, WriteSecret(k) PROVE AccountInv'
<1> USE DEF AccountInv, AccountsSafe
<1> DEFINE c == accountCall[k]
           u == c.user
           row == [account[u] EXCEPT !.secret = c.new]
<1>0. /\ c.pc = "secret" /\ account' = [account EXCEPT ![u] = row]
      /\ accountCall' = [accountCall EXCEPT ![k] = NoAccountCall] /\ UNCHANGED accountCount
      /\ UNCHANGED <<referral, session, mailed, links, registeredAt, confirmed, moved, renamed>>
    BY DEF WriteSecret, At, Then, accountHistory
<1>1. c \in AccountRequests /\ u \in Registered /\ c.new \in Secrets
    BY <1>0, AccountKinds DEF RequestsCarry, Carries, Registered
<1>2. account[u] \in AccountRows /\ account[u].exists /\ account[u].name \in Names /\ account[u].password \in Passwords
    BY <1>1, AccountKinds DEF Registered
<1>3. /\ row \in AccountRows /\ row.exists
      /\ row.name = account[u].name
      /\ row.password = account[u].password
      /\ row.net = account[u].net
      /\ row.twoFactor = account[u].twoFactor
      /\ row.secret = c.new
    BY <1>1, <1>2 DEF AccountRows
<1> HIDE DEF row
<1>4. /\ Registered' = Registered /\ account' \in [People -> AccountRows]
      /\ \A v \in People : account'[v] = IF v = u THEN row ELSE account[v]
      /\ \A v \in Registered' : account'[v].name \in Names /\ account'[v].password \in Passwords
    BY <1>0, <1>1, <1>2, <1>3, AccountRowReplaced
<1>5. /\ accountCall' \in [AccountCalls -> AccountRequests]
      /\ RequestsCarry' /\ LoneAccountCall' /\ ReadsStand'
    BY <1>0, <1>4, NoCallTyped, AccountWriterAlone
<1>6. AccountTypeOK'
    BY <1>0, <1>4, <1>5, AccountKinds DEF AccountTypeOK, AccountRows, AccountRequests, accountCount
<1>7. NamesApart'
    BY <1>0, <1>3, <1>4, AccountKinds DEF NamesApart, accountCount
<1>8. NetsWithinLimit'
    BY <1>0, <1>4, AccountKinds DEF NetsWithinLimit, accountCount
<1>9. ReferredOnce' /\ LinksCounted'
    BY <1>0, <1>4, AccountKinds DEF ReferredOnce, LinksCounted
<1>10. SecondFactorKnown'
    <2>1. accountsCrossed \/ ~account[u].twoFactor
        BY <1>0 DEF ReadsStand, StillSo
    <2> QED
        BY <2>1, <1>0, <1>3, <1>4, AccountKinds DEF SecondFactorKnown, accountCount
<1>11. NetsRemembered'
    BY <1>0, <1>3, <1>4, AccountKinds DEF NetsRemembered
<1> QED
    BY <1>5, <1>6, <1>7, <1>8, <1>9, <1>10, <1>11


LEMMA TurnOnKeeps == ASSUME AccountInv, NEW k \in AccountCalls, TurnOn(k) PROVE AccountInv'
<1> USE DEF AccountInv, AccountsSafe
<1> DEFINE c == accountCall[k]
           u == c.user
           row == [account[u] EXCEPT !.twoFactor = TRUE]
<1>0. /\ c.pc = "on" /\ account' = [account EXCEPT ![u] = row]
      /\ confirmed' = [confirmed EXCEPT ![u] = c.given]
      /\ accountCall' = [accountCall EXCEPT ![k] = NoAccountCall] /\ UNCHANGED accountCount
      /\ UNCHANGED <<referral, session, mailed, links, registeredAt, moved, renamed>>
    BY DEF TurnOn, At, Then, accountHistory
<1>1. c \in AccountRequests /\ u \in Registered /\ c.given \in Secrets
    BY <1>0, AccountKinds DEF RequestsCarry, Carries, Registered
<1>2. account[u] \in AccountRows /\ account[u].exists /\ account[u].name \in Names /\ account[u].password \in Passwords
    BY <1>1, AccountKinds DEF Registered
<1>3. /\ row \in AccountRows /\ row.exists
      /\ row.name = account[u].name
      /\ row.password = account[u].password
      /\ row.net = account[u].net
      /\ row.twoFactor = TRUE
      /\ row.secret = account[u].secret
    BY <1>1, <1>2 DEF AccountRows
<1> HIDE DEF row
<1>4. /\ Registered' = Registered /\ account' \in [People -> AccountRows]
      /\ \A v \in People : account'[v] = IF v = u THEN row ELSE account[v]
      /\ \A v \in Registered' : account'[v].name \in Names /\ account'[v].password \in Passwords
    BY <1>0, <1>1, <1>2, <1>3, AccountRowReplaced
<1>5. /\ accountCall' \in [AccountCalls -> AccountRequests]
      /\ RequestsCarry' /\ LoneAccountCall' /\ ReadsStand'
    BY <1>0, <1>4, NoCallTyped, AccountWriterAlone
<1>6. AccountTypeOK'
    <2>1. confirmed' \in [People -> Secrets \cup {Nobody}]
        BY <1>0, <1>1, AccountKinds
    <2> QED
        BY <2>1, <1>0, <1>4, <1>5, AccountKinds DEF AccountTypeOK, AccountRows, AccountRequests, accountCount
<1>7. NamesApart'
    BY <1>0, <1>3, <1>4, AccountKinds DEF NamesApart, accountCount
<1>8. NetsWithinLimit'
    BY <1>0, <1>4, AccountKinds DEF NetsWithinLimit, accountCount
<1>9. ReferredOnce' /\ LinksCounted'
    BY <1>0, <1>4, AccountKinds DEF ReferredOnce, LinksCounted
<1>10. SecondFactorKnown'
    <2>1. accountsCrossed \/ (c.given = account[u].secret /\ c.given # Nobody)
        BY <1>0 DEF ReadsStand, StillSo
    <2>2. \A v \in People : confirmed'[v] = IF v = u THEN c.given ELSE confirmed[v]
        BY <1>0, <1>1, AccountKinds
    <2> QED
        BY <2>1, <2>2, <1>0, <1>3, <1>4, AccountKinds DEF SecondFactorKnown, accountCount
<1>11. NetsRemembered'
    BY <1>0, <1>3, <1>4, AccountKinds DEF NetsRemembered
<1> QED
    BY <1>5, <1>6, <1>7, <1>8, <1>9, <1>10, <1>11


LEMMA TurnOffKeeps == ASSUME AccountInv, NEW k \in AccountCalls, TurnOff(k) PROVE AccountInv'
<1> USE DEF AccountInv, AccountsSafe
<1> DEFINE c == accountCall[k]
           u == c.user
           row == [account[u] EXCEPT !.twoFactor = FALSE, !.secret = Nobody]
<1>0. /\ c.pc = "off" /\ account' = [account EXCEPT ![u] = row]
      /\ accountCall' = [accountCall EXCEPT ![k] = NoAccountCall] /\ UNCHANGED accountCount
      /\ UNCHANGED <<referral, session, mailed, links, registeredAt, confirmed, moved, renamed>>
    BY DEF TurnOff, At, Then, accountHistory
<1>1. c \in AccountRequests /\ u \in Registered /\ c.user \in People
    BY <1>0, AccountKinds DEF RequestsCarry, Carries, Registered
<1>2. account[u] \in AccountRows /\ account[u].exists /\ account[u].name \in Names /\ account[u].password \in Passwords
    BY <1>1, AccountKinds DEF Registered
<1>3. /\ row \in AccountRows /\ row.exists
      /\ row.name = account[u].name
      /\ row.password = account[u].password
      /\ row.net = account[u].net
      /\ row.twoFactor = FALSE
      /\ row.secret = Nobody
    BY <1>1, <1>2 DEF AccountRows
<1> HIDE DEF row
<1>4. /\ Registered' = Registered /\ account' \in [People -> AccountRows]
      /\ \A v \in People : account'[v] = IF v = u THEN row ELSE account[v]
      /\ \A v \in Registered' : account'[v].name \in Names /\ account'[v].password \in Passwords
    BY <1>0, <1>1, <1>2, <1>3, AccountRowReplaced
<1>5. /\ accountCall' \in [AccountCalls -> AccountRequests]
      /\ RequestsCarry' /\ LoneAccountCall' /\ ReadsStand'
    BY <1>0, <1>4, NoCallTyped, AccountWriterAlone
<1>6. AccountTypeOK'
    BY <1>0, <1>4, <1>5, AccountKinds DEF AccountTypeOK, AccountRows, AccountRequests, accountCount
<1>7. NamesApart'
    BY <1>0, <1>3, <1>4, AccountKinds DEF NamesApart, accountCount
<1>8. NetsWithinLimit'
    BY <1>0, <1>4, AccountKinds DEF NetsWithinLimit, accountCount
<1>9. ReferredOnce' /\ LinksCounted'
    BY <1>0, <1>4, AccountKinds DEF ReferredOnce, LinksCounted
<1>10. SecondFactorKnown'
    BY <1>0, <1>3, <1>4, AccountKinds DEF SecondFactorKnown, accountCount
<1>11. NetsRemembered'
    BY <1>0, <1>3, <1>4, AccountKinds DEF NetsRemembered
<1> QED
    BY <1>5, <1>6, <1>7, <1>8, <1>9, <1>10, <1>11


LEMMA WriteReferralKeeps == ASSUME AccountInv, NEW k \in AccountCalls, WriteReferral(k) PROVE AccountInv'
<1> USE DEF AccountInv, AccountsSafe
<1> DEFINE c == accountCall[k]
           u == c.user
           row == [account[u] EXCEPT !.referredBy = c.other]
<1>0. /\ c.pc = "link" /\ account' = [account EXCEPT ![u] = row]
      /\ referral[u] = Nobody /\ referral' = [referral EXCEPT ![u] = c.other]
      /\ links' = [links EXCEPT ![u] = links[u] + (IF c.other = Nobody THEN 0 ELSE 1)]
      /\ accountCall' = [accountCall EXCEPT ![k] = NoAccountCall] /\ UNCHANGED accountCount
      /\ UNCHANGED <<session, mailed, registeredAt, confirmed, moved, renamed>>
    BY DEF WriteReferral, At, Then, accountHistory, WriteReferralAnyway
<1>1. c \in AccountRequests /\ u \in Registered /\ c.other \in Registered \ {u} /\ c.other \in People
    BY <1>0, AccountKinds DEF RequestsCarry, Carries, Registered
<1>2. account[u] \in AccountRows /\ account[u].exists /\ account[u].name \in Names /\ account[u].password \in Passwords
    BY <1>1, AccountKinds DEF Registered
<1>3. /\ row \in AccountRows /\ row.exists
      /\ row.name = account[u].name
      /\ row.password = account[u].password
      /\ row.net = account[u].net
      /\ row.twoFactor = account[u].twoFactor
      /\ row.secret = account[u].secret
    BY <1>1, <1>2 DEF AccountRows
<1> HIDE DEF row
<1>4. /\ Registered' = Registered /\ account' \in [People -> AccountRows]
      /\ \A v \in People : account'[v] = IF v = u THEN row ELSE account[v]
      /\ \A v \in Registered' : account'[v].name \in Names /\ account'[v].password \in Passwords
    BY <1>0, <1>1, <1>2, <1>3, AccountRowReplaced
<1>5. /\ accountCall' \in [AccountCalls -> AccountRequests]
      /\ RequestsCarry' /\ LoneAccountCall' /\ ReadsStand'
    BY <1>0, <1>4, NoCallTyped, AccountWriterAlone
<1>6. AccountTypeOK'
    <2>1. referral' \in [People -> People \cup {Nobody}] /\ links' \in [People -> Nat]
        BY <1>0, <1>1, AccountKinds
    <2> QED
        BY <2>1, <1>0, <1>4, <1>5, AccountKinds DEF AccountTypeOK, AccountRows, AccountRequests, accountCount
<1>7. NamesApart'
    BY <1>0, <1>3, <1>4, AccountKinds DEF NamesApart, accountCount
<1>8. NetsWithinLimit'
    BY <1>0, <1>4, AccountKinds DEF NetsWithinLimit, accountCount
<1>9. ReferredOnce' /\ LinksCounted'
    <2>1. /\ \A v \in People : referral'[v] = IF v = u THEN c.other ELSE referral[v]
          /\ u \in People /\ c.other \in People /\ c.other # u /\ c.other # Nobody
        BY <1>0, <1>1, AccountKinds, NobodyIsNoOne
    <2>2. links[u] = 0 /\ \A v \in People : links'[v] = IF v = u THEN 1 ELSE links[v]
        BY <2>1, <1>0, AccountKinds DEF LinksCounted
    <2> QED
        BY <2>1, <2>2, <1>1, <1>4 DEF ReferredOnce, LinksCounted
<1>10. SecondFactorKnown'
    BY <1>0, <1>3, <1>4, AccountKinds DEF SecondFactorKnown, accountCount
<1>11. NetsRemembered'
    BY <1>0, <1>3, <1>4, AccountKinds DEF NetsRemembered
<1> QED
    BY <1>5, <1>6, <1>7, <1>8, <1>9, <1>10, <1>11

LEMMA GiveTokenKeeps == ASSUME AccountInv, NEW k \in AccountCalls, GiveToken(k) PROVE AccountInv'
<1> USE DEF AccountInv, AccountsSafe
<1> DEFINE c == accountCall[k]
<1>0. /\ c.pc = "token" /\ session' = session \cup {c.user}
      /\ accountCall' = [accountCall EXCEPT ![k] = NoAccountCall] /\ UNCHANGED accountCount
      /\ UNCHANGED <<account, referral, mailed, links, registeredAt, confirmed, moved, renamed>>
    BY DEF GiveToken, At, Then, accountHistory
<1>1. c.user \in Registered
    BY <1>0 DEF RequestsCarry, Carries
<1>2. Registered' = Registered
    BY <1>0 DEF Registered
<1>3. /\ accountCall' \in [AccountCalls -> AccountRequests]
      /\ RequestsCarry' /\ LoneAccountCall' /\ ReadsStand'
    BY <1>0, <1>2, NoCallTyped, AccountWriterAlone
<1>4. AccountTypeOK'
    BY <1>0, <1>1, <1>2, <1>3, AccountKinds DEF AccountTypeOK, AccountRows, AccountRequests, accountCount
<1>5. NamesApart' /\ NetsWithinLimit' /\ SecondFactorKnown' /\ ReferredOnce'
    BY <1>0, <1>2 DEF NamesApart, NetsWithinLimit, SecondFactorKnown, ReferredOnce, accountCount
<1>6. NetsRemembered' /\ LinksCounted'
    BY <1>0, <1>2 DEF NetsRemembered, LinksCounted
<1> QED
    BY <1>3, <1>4, <1>5, <1>6

LEMMA CreateAccountKeeps == ASSUME AccountInv, NEW k \in AccountCalls, CreateAccount(k) PROVE AccountInv'
<1> USE DEF AccountInv, AccountsSafe
<1> DEFINE c == accountCall[k]
           u == c.user
           row == [NoAccount EXCEPT !.exists = TRUE, !.name = c.name, !.password = c.new, !.net = c.net]
           request == [c EXCEPT !.pc = "token"]
<1>0. /\ c.pc = "create" /\ ~account[u].exists
      /\ account' = [account EXCEPT ![u] = row]
      /\ referral' = [referral EXCEPT ![u] = c.other]
      /\ links' = [links EXCEPT ![u] = links[u] + (IF c.other = Nobody THEN 0 ELSE 1)]
      /\ registeredAt' = [registeredAt EXCEPT ![u] = c.net]
      /\ accountCall' = [accountCall EXCEPT ![k] = request] /\ UNCHANGED accountCount
      /\ UNCHANGED <<session, mailed, confirmed, moved, renamed>>
    BY DEF CreateAccount, At, Then
<1>1. /\ c \in AccountRequests /\ u \in People /\ c.name \in Names /\ c.net \in Nets /\ c.new \in Passwords
      /\ c.other \in Registered \cup {Nobody}
    BY <1>0, AccountKinds DEF RequestsCarry, Carries
<1>2. request \in AccountRequests /\ request.pc = "token" /\ request.user = u
    BY <1>1 DEF AccountRequests, AccountPcs
<1>3. /\ row \in AccountRows /\ row.exists /\ row.name = c.name /\ row.password = c.new /\ row.net = c.net
      /\ ~row.twoFactor
    BY <1>1, NoRowTyped DEF AccountRows, NoAccount
<1> HIDE DEF row, request
<1>4. /\ account' \in [People -> AccountRows] /\ u \notin Registered
      /\ \A v \in People : account'[v] = IF v = u THEN row ELSE account[v]
    BY <1>0, <1>1, <1>3, AccountKinds DEF Registered
<1>5. Registered' = Registered \cup {u}
    BY <1>1, <1>3, <1>4 DEF Registered
<1>6. /\ accountCall' \in [AccountCalls -> AccountRequests]
      /\ RequestsCarry' /\ LoneAccountCall' /\ ReadsStand'
    BY <1>0, <1>2, <1>5, AccountWriterAlone
<1>7. /\ \A v \in People : referral'[v] = IF v = u THEN c.other ELSE referral[v]
      /\ \A v \in People : registeredAt'[v] = IF v = u THEN c.net ELSE registeredAt[v]
      /\ \A v \in People : links'[v] = IF v = u THEN (IF c.other = Nobody THEN 0 ELSE 1) ELSE links[v]
    <2>1. links[u] = 0
        BY <1>1, <1>4 DEF LinksCounted
    <2> QED
        BY <2>1, <1>0, <1>1, AccountKinds
<1>8. AccountTypeOK'
    <2>1. \A v \in Registered' : account'[v].name \in Names /\ account'[v].password \in Passwords
        BY <1>1, <1>3, <1>4, <1>5, AccountKinds
    <2>2. referral' \in [People -> People \cup {Nobody}] /\ registeredAt' \in [People -> Nets \cup {Nobody}]
        BY <1>0, <1>1, AccountKinds
    <2>3. links[u] + (IF c.other = Nobody THEN 0 ELSE 1) \in Nat
        BY <1>1, AccountKinds
    <2>4. links' \in [People -> Nat]
        BY <2>3, <1>0, <1>1, AccountKinds
    <2> QED
        BY <2>1, <2>2, <2>4, <1>0, <1>4, <1>5, <1>6, AccountKinds
           DEF AccountTypeOK, AccountRows, AccountRequests, accountCount
<1>9. accountsCrossed \/ (HasRoom(c.net) /\ ~Taken(u, c.name))
    BY <1>0 DEF ReadsStand, StillSo
<1>10. NamesApart'
    <2> SUFFICES ASSUME ~renamed, ~accountsCrossed, NEW v \in Registered', NEW w \in Registered',
                        SameName(account'[v].name, account'[w].name), v # w
                 PROVE  FALSE
        BY <1>0 DEF NamesApart, accountCount
    <2>1. \A x \in Registered : ~SameName(account[x].name, c.name)
        BY <1>9 DEF Taken
    <2>2. \A x \in Registered : account'[x].name = account[x].name /\ account[x].name \in Names
        BY <1>4, AccountKinds
    <2>3. account'[u].name = c.name
        BY <1>1, <1>3, <1>4
    <2>4. CASE v \in Registered /\ w \in Registered
        <3>1. SameName(account[v].name, account[w].name)
            BY <2>2, <2>4
        <3> QED
            BY <3>1, <2>4 DEF NamesApart
    <2>5. CASE v \in Registered /\ w = u
        <3>1. SameName(account[v].name, c.name)
            BY <2>2, <2>3, <2>5
        <3> QED
            BY <3>1, <2>1, <2>5
    <2>6. CASE v = u /\ w \in Registered
        <3>1. SameName(c.name, account[w].name) /\ account[w].name \in Names
            BY <2>2, <2>3, <2>6
        <3>2. SameName(account[w].name, c.name)
            BY <3>1, <1>1, AccountAssumption
        <3> QED
            BY <3>2, <2>1, <2>6
    <2> QED
        BY <1>5, <2>4, <2>5, <2>6
<1>11. NetsWithinLimit'
    <2> SUFFICES ASSUME ~moved, ~accountsCrossed, NEW net \in Nets
                 PROVE  Cardinality({v \in People : registeredAt'[v] = net}) <= NetLimit
        BY <1>0 DEF NetsWithinLimit, accountCount
    <2> DEFINE Before == {v \in People : registeredAt[v] = net}
    <2>1. Cardinality(Before) <= NetLimit
        BY DEF NetsWithinLimit
    <2>2. CASE net # c.net
        <3>1. registeredAt[u] = Nobody
            BY <1>1, <1>4 DEF NetsRemembered
        <3>2. {v \in People : registeredAt'[v] = net} = Before
            BY <3>1, <2>2, <1>7, NobodyIsNoOne
        <3> QED
            BY <3>2, <2>1
    <2>3. CASE net = c.net
        <3>1. Before = {v \in Registered : account[v].net = c.net}
            BY <2>3, AccountKinds, NobodyIsNoOne DEF NetsRemembered
        <3>2. Cardinality(Before) < NetLimit
            BY <3>1, <1>9 DEF HasRoom
        <3>3. {v \in People : registeredAt'[v] = net} = Before \cup {u}
            BY <2>3, <1>1, <1>7
        <3>4. Before \subseteq People
            OBVIOUS
        <3>5. Cardinality({v \in People : registeredAt'[v] = net}) = Cardinality(Before \cup {u})
            BY <3>3
        <3> HIDE DEF Before
        <3>6. Cardinality(Before) \in Nat /\ Cardinality(Before \cup {u}) \in Nat
              /\ Cardinality(Before \cup {u}) <= Cardinality(Before) + 1
            BY <3>4, OneMorePerson
        <3>7. Cardinality(Before \cup {u}) <= NetLimit
            BY <3>2, <3>6, AccountAssumption
        <3> QED
            BY <3>5, <3>7
    <2> QED
        BY <2>2, <2>3
<1>12. SecondFactorKnown'
    BY <1>0, <1>3, <1>4, <1>5, AccountKinds DEF SecondFactorKnown, accountCount
<1>13. ReferredOnce' /\ LinksCounted'
    <2>1. c.other # u
        BY <1>1, <1>4, NobodyIsNoOne
    <2> QED
        BY <2>1, <1>1, <1>5, <1>7 DEF ReferredOnce, LinksCounted
<1>14. NetsRemembered'
    BY <1>0, <1>1, <1>3, <1>4, <1>5, <1>7, AccountKinds DEF NetsRemembered
<1> QED
    BY <1>6, <1>8, <1>10, <1>11, <1>12, <1>13, <1>14

\* What no request does: a logout, a link that is mailed or expires, a ban.
LEMMA OutsideKeeps ==
    ASSUME AccountInv, NEW u \in People,
           \/ UserLogout(u) \/ Forget(u) \/ ExpireLink(u)
           \/ \E isBanned \in BOOLEAN : SetUserBan(u, isBanned)
    PROVE  AccountInv'
<1> USE DEF AccountInv, AccountsSafe
<1>0. /\ UNCHANGED <<referral, accountCall, links, registeredAt, confirmed, moved, renamed, accountsCrossed>>
      /\ session' \subseteq session /\ mailed' \subseteq mailed \cup Registered
      /\ accountAsks' \in {accountAsks, accountAsks + 1}
    BY DEF UserLogout, Forget, ExpireLink, SetUserBan, Asked, accountHistory, accountCount
<1>1. /\ account' \in [People -> AccountRows]
      /\ \A v \in People : /\ account'[v].exists = account[v].exists /\ account'[v].name = account[v].name
                            /\ account'[v].password = account[v].password /\ account'[v].net = account[v].net
                            /\ account'[v].secret = account[v].secret
                            /\ account'[v].twoFactor = account[v].twoFactor
    <2>1. CASE account' = account
        BY <2>1, AccountKinds
    <2>2. CASE \E isBanned \in BOOLEAN : account' = [account EXCEPT ![u].banned = isBanned]
        BY <2>2, AccountKinds DEF AccountRows
    <2> QED
        BY <2>1, <2>2 DEF UserLogout, Forget, ExpireLink, SetUserBan
<1>2. Registered' = Registered
    BY <1>1 DEF Registered
<1>3. AccountTypeOK'
    <2>1. accountAsks' \in Nat /\ session' \subseteq Registered' /\ mailed' \subseteq Registered'
        BY <1>0, <1>2, AccountKinds
    <2>2. \A v \in Registered' : account'[v].name \in Names /\ account'[v].password \in Passwords
        BY <1>1, <1>2, AccountKinds
    <2> QED
        BY <2>1, <2>2, <1>0, <1>1, AccountKinds DEF AccountTypeOK, AccountRows, AccountRequests
<1>4. NamesApart' /\ SecondFactorKnown'
    BY <1>0, <1>1, <1>2, AccountKinds DEF NamesApart, SecondFactorKnown
<1>5. NetsWithinLimit' /\ ReferredOnce' /\ LinksCounted'
    BY <1>0, <1>2 DEF NetsWithinLimit, ReferredOnce, LinksCounted
<1>6. NetsRemembered'
    BY <1>0, <1>1, <1>2, AccountKinds DEF NetsRemembered
<1>7. RequestsCarry' /\ LoneAccountCall'
    BY <1>0, <1>2 DEF RequestsCarry, LoneAccountCall
<1>8. ReadsStand'
    <2> SUFFICES ASSUME ~accountsCrossed, NEW k \in AccountCalls PROVE StillSo(accountCall[k])'
        BY <1>0 DEF ReadsStand
    <2>1. StillSo(accountCall[k]) /\ Carries(accountCall[k], Registered)
        BY DEF ReadsStand, RequestsCarry
    <2>2. \A net : {v \in Registered' : account'[v].net = net} = {v \in Registered : account[v].net = net}
        BY <1>1, <1>2, AccountKinds
    <2>3. \A net : HasRoom(net)' <=> HasRoom(net)
        BY <2>2 DEF HasRoom
    <2>4. \A v \in People : \A name : Taken(v, name)' <=> Taken(v, name)
        BY <1>1, <1>2, AccountKinds DEF Taken
    <2> QED
        BY <2>1, <2>3, <2>4, <1>0, <1>1, AccountKinds DEF StillSo, Carries
<1> QED
    BY <1>3, <1>4, <1>5, <1>6, <1>7, <1>8

LEMMA AccountStutters == ASSUME AccountInv, UNCHANGED accountVars PROVE AccountInv'
<1> USE DEF AccountInv, AccountsSafe, accountVars
<1>1. Registered' = Registered
    BY DEF Registered
<1>2. AccountTypeOK' /\ NamesApart' /\ NetsWithinLimit' /\ SecondFactorKnown' /\ ReferredOnce'
    BY <1>1 DEF AccountTypeOK, NamesApart, NetsWithinLimit, SecondFactorKnown, ReferredOnce
<1>3. RequestsCarry' /\ LoneAccountCall' /\ NetsRemembered' /\ LinksCounted'
    BY <1>1 DEF RequestsCarry, LoneAccountCall, NetsRemembered, LinksCounted
<1>4. ReadsStand'
    BY <1>1 DEF ReadsStand, StillSo, HasRoom, Taken
<1> QED
    BY <1>2, <1>3, <1>4

LEMMA AccountStepKeeps == ASSUME AccountInv, NEW k \in AccountCalls, AccountStep(k) PROVE AccountInv'
<1>1. CASE \/ CountNet(k) \/ FindExisting(k) \/ Compare(k) \/ ReadReset(k) \/ ReadNames(k) \/ ReadGenerate(k)
           \/ ReadEnable(k) \/ ReadDisable(k) \/ ReadReferral(k) \/ ReadReferrer(k)
    BY <1>1, AccountReadsKeep
<1>2. CASE ResolveReferrer(k) \/ CreateAccount(k) \/ GiveToken(k) \/ ReadLogin(k) \/ RememberLogin(k)
    BY <1>2, ResolveReferrerKeeps, CreateAccountKeeps, GiveTokenKeeps, ReadLoginKeeps, RememberLoginKeeps
<1>3. CASE WritePassword(k) \/ WriteName(k) \/ WriteSecret(k) \/ TurnOn(k) \/ TurnOff(k) \/ WriteReferral(k)
    BY <1>3, WritePasswordKeeps, WriteNameKeeps, WriteSecretKeeps, TurnOnKeeps, TurnOffKeeps, WriteReferralKeeps
<1>4. CASE AccountThrows(k)
    BY <1>4, AccountThrowsKeeps
<1> QED
    BY <1>1, <1>2, <1>3, <1>4 DEF AccountStep

LEMMA AccountInvHolds == AccountSpec => []AccountInv
<1>1. AccountInit => AccountInv
    BY AccountInitially
<1>2. AccountInv /\ [AccountNext]_accountVars => AccountInv'
    <2> SUFFICES ASSUME AccountInv, [AccountNext]_accountVars PROVE AccountInv'
        OBVIOUS
    <2>1. ASSUME NEW k \in AccountCalls, AccountAsk(k) \/ AccountStep(k) PROVE AccountInv'
        BY <2>1, AccountAskKeeps, AccountStepKeeps
    <2>2. ASSUME NEW u \in People, UserLogout(u) \/ Forget(u) \/ ExpireLink(u) PROVE AccountInv'
        BY <2>2, OutsideKeeps
    <2>3. ASSUME NEW u \in People, NEW isBanned \in BOOLEAN, SetUserBan(u, isBanned) PROVE AccountInv'
        BY <2>3, OutsideKeeps
    <2>4. CASE UNCHANGED accountVars
        BY <2>4, AccountStutters
    <2> QED
        BY <2>1, <2>2, <2>3, <2>4 DEF AccountNext
<1> QED
    BY <1>1, <1>2, PTL DEF AccountSpec

(* AccountsSafe for any people, names, networks and requests: unless         *)
(* requests overlapped, no two accounts have one name, no network registers  *)
(* more than its limit and a second factor's secret is the confirmed one;    *)
(* and a user is referred once whatever overlaps.                            *)
THEOREM AccountsHold == AccountSpec => []AccountsSafe
<1>1. AccountInv => AccountsSafe
    BY DEF AccountInv
<1> QED
    BY <1>1, AccountInvHolds, PTL

(* PasswordsReplaced likewise: who replaces a password gave the one it       *)
(* replaces, unless it is a reset or requests overlapped.                    *)
THEOREM PasswordsStay == AccountSpec => PasswordsReplaced
<1> DEFINE Replaced == \A u \in Registered : account'[u].password # account[u].password =>
          accountsCrossed \/ \E k \in AccountCalls : At(k, "password") /\ MayReplace(accountCall[k], u)
<1>1. AccountInv /\ [AccountNext]_accountVars => Replaced
    <2> SUFFICES ASSUME AccountInv, [AccountNext]_accountVars, NEW u \in Registered,
                        account'[u].password # account[u].password
                 PROVE  accountsCrossed \/ \E k \in AccountCalls : At(k, "password") /\ MayReplace(accountCall[k], u)
        OBVIOUS
    <2>0. account \in [People -> AccountRows] /\ u \in People /\ account[u].exists /\ account' # account
        BY AccountKinds DEF Registered
    <2>1. ASSUME NEW k \in AccountCalls, WritePassword(k)
          PROVE  accountsCrossed \/ (At(k, "password") /\ MayReplace(accountCall[k], u))
        <3>1. /\ accountCall[k].pc = "password" /\ accountCall[k].user \in People
              /\ accountCall[k].given \in {Nobody, account[accountCall[k].user].password} \/ accountsCrossed
            BY <2>1, AccountKinds DEF WritePassword, At, AccountInv, ReadsStand, StillSo, RequestsCarry, Carries, Registered
        <3>2. accountCall[k].user = u
            BY <2>0, <2>1, <3>1 DEF WritePassword
        <3> QED
            BY <3>1, <3>2 DEF At, MayReplace
    <2>2. ASSUME NEW k \in AccountCalls, NEW v, NEW row, account' = [account EXCEPT ![v] = row],
                 row.password = account[v].password \/ ~account[v].exists
          PROVE  FALSE
        BY <2>0, <2>2
    <2>3. ASSUME NEW k \in AccountCalls, AccountAsk(k) \/ AccountStep(k), ~WritePassword(k) PROVE FALSE
        <3>1. CASE CreateAccount(k)
            BY <2>2, <3>1 DEF CreateAccount
        <3>2. CASE RememberLogin(k) \/ WriteName(k) \/ WriteSecret(k) \/ TurnOn(k) \/ TurnOff(k) \/ WriteReferral(k)
            <4>1. \A w \in People : w # accountCall[k].user => account'[w] = account[w]
                BY <2>0, <3>2 DEF RememberLogin, WriteName, WriteSecret, TurnOn, TurnOff, WriteReferral, WriteReferralAnyway
            <4>2. accountCall[k].user = u
                BY <2>0, <4>1
            <4>3. account[u] \in AccountRows
                BY <2>0
            <4> QED
                BY <2>0, <3>2, <4>2, <4>3
                   DEF RememberLogin, WriteName, WriteSecret, TurnOn, TurnOff, WriteReferral, WriteReferralAnyway, AccountRows
        <3>3. CASE account' = account
            BY <2>0, <3>3
        <3> QED
            BY <2>3, <3>1, <3>2, <3>3
               DEF AccountAsk, AccountStep, AskRegister, AskLogin, AskChangePassword, AskReset, AskForce, AskRename,
                   AskGenerate, AskEnable, AskDisable, AskReferral, AskSigned, AskAccount, CountNet, FindExisting,
                   ResolveReferrer, GiveToken, ReadLogin, Compare, ReadReset, ReadNames, ReadGenerate, ReadEnable,
                   ReadDisable, ReadReferral, ReadReferrer, AccountThrows, ThenIf, rowVars
    <2>4. ASSUME NEW v \in People, UserLogout(v) \/ Forget(v) \/ ExpireLink(v) \/ \E isBanned \in BOOLEAN : SetUserBan(v, isBanned)
          PROVE  FALSE
        <3>1. CASE \E isBanned \in BOOLEAN : account' = [account EXCEPT ![v].banned = isBanned]
            BY <2>0, <3>1 DEF AccountRows
        <3> QED
            BY <2>0, <2>4, <3>1 DEF UserLogout, Forget, ExpireLink, SetUserBan
    <2> QED
        BY <2>0, <2>1, <2>3, <2>4 DEF AccountNext, accountVars
<1> QED
    BY <1>1, AccountInvHolds, PTL DEF AccountSpec, PasswordsReplaced

-----------------------------------------------------------------------------
(* What purchases write of offers, inventories and balances agrees, however  *)
(* they race.                                                                *)

(* What each call has yet to tell the engine of a user's balance.            *)
ToTell(u) == [b \in Buyers |-> IF buy[b].pc = "tell" /\ buy[b].user = u THEN Total(b) ELSE 0]

EngineAddsUp == \A u \in Users : live[u] = balance[u] + SumFunctionOnSet(ToTell(u), Buyers)

OffersInv == TypeInv /\ SalesAddUp /\ BoughtIsKept /\ EngineAddsUp

BuyersOf(o) == [u \in Users |-> purchases[u][o]]

LEMMA SalesAre ==
    /\ SalesAddUp <=> /\ \A o \in Offers : offer[o].sold = SumFunctionOnSet(BuyersOf(o), Users)
                      /\ \A u \in Users : inventory[u] = SumFunctionOnSet(purchases[u], DOMAIN purchases[u])
BY DEF SalesAddUp, SumFunction, BuyersOf

LEMMA ToTellTyped ==
    ASSUME TypeInv, NEW u
    PROVE  \A b \in Buyers : ToTell(u)[b] \in Int
<1>1. \A b \in Buyers : Total(b) \in Int
    BY Locals
<1> QED BY <1>1 DEF ToTell

LEMMA ToTellMoves ==
    ASSUME TypeInv, TypeInv', NEW u, NEW b \in Buyers,
           \A c \in Buyers \ {b} : buy'[c] = buy[c]
    PROVE  /\ SumFunctionOnSet(ToTell(u)', Buyers)
              = SumFunctionOnSet(ToTell(u), Buyers) + (ToTell(u)'[b] - ToTell(u)[b])
           /\ SumFunctionOnSet(ToTell(u), Buyers) \in Int
           /\ ToTell(u)'[b] \in Int /\ ToTell(u)[b] \in Int
<1> DEFINE F == ToTell(u)
           G == [c \in Buyers |-> IF buy'[c].pc = "tell" /\ buy'[c].user = u
                                  THEN buy'[c].price * buy'[c].quantity ELSE 0]
<1>1. ToTell(u)' = G
    BY DEF ToTell, Total
<1>2. \A c \in Buyers : F[c] \in Int
    BY ToTellTyped
<1>3. ASSUME NEW c \in Buyers PROVE G[c] \in Int
    <2>1. buy'[c].price \in Nat /\ buy'[c].quantity \in Nat
        BY DEF TypeInv, TypeOK, Purchase
    <2>2. buy'[c].price * buy'[c].quantity \in Int
        BY <2>1
    <2> QED BY <2>2
<1>4. \A c \in Buyers \ {b} : G[c] = F[c]
    BY DEF ToTell, Total
<1> HIDE DEF F, G
<1>5. /\ SumFunctionOnSet(G, Buyers) = SumFunctionOnSet(F, Buyers) + (G[b] - F[b])
    BY <1>2, <1>3, <1>4, OfferEventsAssumption, SumChange
<1>6. SumFunctionOnSet(F, Buyers) \in Int
    BY <1>2, OfferEventsAssumption, SumTypedAndTaken
<1>7. F[b] \in Int /\ G[b] \in Int
    BY <1>2, <1>3
<1> QED BY <1>1, <1>5, <1>6, <1>7 DEF F

LEMMA OthersBuyOn ==
    ASSUME TypeInv, NEW b \in Buyers, BuyStep(b), NEW c \in Buyers, c # b
    PROVE  buy'[c] = buy[c]
<1>1. buy \in [Buyers -> Purchase]
    BY DEF TypeInv, TypeOK
<1> QED BY <1>1 DEF BuyStep, Buy, CheckClaims, CheckFunds, ReadStock, Claim, Retry, Tell, BuyThrows, Advance

(* Steps that write no sale keep what has been sold, and a row that has been *)
(* deleted had nothing sold.                                                 *)
LEMMA RowsKeepAddingUp ==
    ASSUME OffersInv, TypeInv', UNCHANGED <<purchases, inventory>>,
           \A o \in Offers : /\ offer'[o].sold = offer[o].sold
                             /\ offer[o].exists => offer'[o].exists \/ ~Bought(o)
    PROVE  SalesAddUp' /\ BoughtIsKept'
<1>1. SalesAddUp /\ BoughtIsKept
    BY DEF OffersInv
<1>2. SalesAddUp'
    BY <1>1 DEF SalesAddUp
<1>3. ASSUME NEW o \in Offers, Bought(o)' PROVE offer'[o].exists
    <2>1. Bought(o)
        BY <1>3 DEF Bought
    <2> QED BY <1>1, <2>1 DEF BoughtIsKept
<1> QED BY <1>2, <1>3 DEF BoughtIsKept

LEMMA OthersAddUp ==
    ASSUME OffersInv, TypeInv', UNCHANGED <<balance, live, buy>>
    PROVE  EngineAddsUp'
<1>1. ASSUME NEW u \in Users PROVE SumFunctionOnSet(ToTell(u), Buyers)' = SumFunctionOnSet(ToTell(u), Buyers)
    <2>1. ToTell(u)' = ToTell(u)
        BY DEF ToTell, Total
    <2> QED BY <2>1
<1> QED BY <1>1 DEF OffersInv, EngineAddsUp

(* The pieces claimed are counted three times over.                          *)
LEMMA ClaimAddsUp ==
    ASSUME OffersInv, TypeInv', NEW b \in Buyers, Claim(b)
    PROVE  SalesAddUp' /\ BoughtIsKept'
<1> DEFINE o == buy[b].offer
           u == buy[b].user
           q == buy[b].quantity
<1>0. TypeInv /\ TypeOK /\ SalesAddUp /\ BoughtIsKept /\ TypeOK'
    BY DEF OffersInv, TypeInv
<1>1. u \in Users /\ o \in Offers /\ q \in Nat /\ offer[o] \in Offer /\ offer[o].sold \in Nat
    BY <1>0, Locals, OfferTyped DEF Claim
<1>2. /\ offer' = [offer EXCEPT ![o] = [offer[o] EXCEPT !.sold = offer[o].sold + q]]
      /\ purchases' = [purchases EXCEPT ![u] = [purchases[u] EXCEPT ![o] = purchases[u][o] + q]]
      /\ inventory' = [inventory EXCEPT ![u] = inventory[u] + q]
      /\ offer[o].exists
    BY <1>0, <1>1 DEF Claim, SwapMatches, TypeOK
<1>3. /\ offer \in [Offers -> Offer] /\ purchases \in [Users -> [Offers -> Nat]] /\ inventory \in [Users -> Nat]
      /\ purchases' \in [Users -> [Offers -> Nat]]
    BY <1>0 DEF TypeOK
<1>4. /\ offer'[o].sold = offer[o].sold + q /\ offer'[o].exists = offer[o].exists
      /\ \A p \in Offers \ {o} : offer'[p] = offer[p]
    BY <1>1, <1>2, <1>3 DEF Offer
<1>5. /\ purchases'[u][o] = purchases[u][o] + q /\ purchases[u][o] \in Nat
      /\ \A v \in Users, p \in Offers : v # u \/ p # o => purchases'[v][p] = purchases[v][p]
      /\ \A v \in Users \ {u} : purchases'[v] = purchases[v]
    BY <1>1, <1>2, <1>3
<1> HIDE DEF q
<1>6. ASSUME NEW p \in Offers PROVE offer'[p].sold = SumFunctionOnSet(BuyersOf(p)', Users)
    <2> DEFINE F == BuyersOf(p)
               G == [v \in Users |-> purchases'[v][p]]
    <2>1. offer[p].sold = SumFunctionOnSet(F, Users) /\ BuyersOf(p)' = G
        BY <1>0, SalesAre DEF BuyersOf
    <2>2. \A v \in Users : F[v] \in Int /\ G[v] \in Int
        BY <1>3 DEF BuyersOf
    <2>3. CASE p = o
        <3>1. \A v \in Users \ {u} : G[v] = F[v]
            BY <1>5 DEF BuyersOf
        <3>2. G[u] = F[u] + q /\ F[u] \in Int
            BY <1>1, <1>5, <2>2, <2>3 DEF BuyersOf
        <3> HIDE DEF F, G
        <3>3. SumFunctionOnSet(G, Users) = SumFunctionOnSet(F, Users) + (G[u] - F[u])
            BY <1>1, <2>2, <3>1, OfferEventsAssumption, SumChange
        <3>4. offer[o].sold \in Int /\ q \in Int
            BY <1>1
        <3> QED BY <1>4, <2>1, <2>3, <3>2, <3>3, <3>4
    <2>4. CASE p # o
        <3>1. G = F
            BY <1>5, <2>4 DEF BuyersOf
        <3> QED BY <1>4, <2>1, <2>4, <3>1
    <2> QED BY <2>3, <2>4
<1>7. ASSUME NEW v \in Users PROVE inventory'[v] = SumFunctionOnSet(purchases'[v], DOMAIN purchases'[v])
    <2> DEFINE F == purchases[v]
               G == purchases'[v]
    <2>1. DOMAIN F = Offers /\ DOMAIN G = Offers /\ \A p \in Offers : F[p] \in Int /\ G[p] \in Int
        BY <1>3
    <2>2. inventory[v] = SumFunctionOnSet(F, Offers)
        BY <1>0, <2>1, SalesAre
    <2>3. CASE v = u
        <3>1. \A p \in Offers \ {o} : G[p] = F[p]
            BY <1>5
        <3>2. G[o] = F[o] + q /\ F[o] \in Int
            BY <1>1, <1>5, <2>1, <2>3
        <3>3. inventory'[v] = inventory[v] + q /\ inventory[v] \in Int /\ q \in Int
            BY <1>1, <1>2, <1>3, <2>3
        <3> HIDE DEF F, G
        <3>4. SumFunctionOnSet(G, Offers) = SumFunctionOnSet(F, Offers) + (G[o] - F[o])
            BY <1>1, <2>1, <3>1, OfferEventsAssumption, SumChange
        <3>5. inventory'[v] = SumFunctionOnSet(G, DOMAIN G)
            BY <2>1, <2>2, <3>2, <3>3, <3>4
        <3> QED BY <3>5 DEF G
    <2>4. CASE v # u
        <3>1. G = F /\ inventory'[v] = inventory[v]
            BY <1>2, <1>3, <1>5, <2>4
        <3> QED BY <2>1, <2>2, <3>1
    <2> QED BY <2>3, <2>4
<1>8. SalesAddUp'
    <2>1. SalesAddUp' <=> /\ \A p \in Offers : offer'[p].sold = SumFunctionOnSet(BuyersOf(p)', Users)
                          /\ \A v \in Users : inventory'[v] = SumFunctionOnSet(purchases'[v], DOMAIN purchases'[v])
        BY DEF SalesAddUp, SumFunction, BuyersOf
    <2> QED BY <1>6, <1>7, <2>1
<1>9. ASSUME NEW p \in Offers, Bought(p)' PROVE offer'[p].exists
    <2>1. CASE p = o
        BY <1>2, <1>4, <2>1
    <2>2. CASE p # o
        <3>1. Bought(p)
            BY <1>5, <1>9, <2>2 DEF Bought
        <3> QED BY <1>0, <1>4, <2>2, <3>1 DEF BoughtIsKept
    <2> QED BY <2>1, <2>2
<1> QED BY <1>8, <1>9 DEF BoughtIsKept

(* The engine's copy lags by what is still to be told.                       *)
LEMMA BuyerAddsUp ==
    ASSUME OffersInv, TypeInv', NEW b \in Buyers, BuyStep(b)
    PROVE  EngineAddsUp'
<1>0. /\ TypeInv /\ TypeOK /\ EngineAddsUp /\ buy[b] \in Purchase /\ Total(b) \in Nat
      /\ buy[b].pc # "idle" => buy[b].user \in Users
      /\ buy \in [Buyers -> Purchase] /\ balance \in [Users -> Int] /\ live \in [Users -> Int]
    BY Locals DEF OffersInv, TypeInv, TypeOK
<1>1. \A c \in Buyers \ {b} : buy'[c] = buy[c]
    BY <1>0, OthersBuyOn
<1>2. ASSUME NEW u \in Users
      PROVE  /\ SumFunctionOnSet(ToTell(u), Buyers)'
                = SumFunctionOnSet(ToTell(u), Buyers) + (ToTell(u)'[b] - ToTell(u)[b])
             /\ SumFunctionOnSet(ToTell(u), Buyers) \in Int
             /\ live[u] = balance[u] + SumFunctionOnSet(ToTell(u), Buyers)
             /\ live[u] \in Int /\ balance[u] \in Int
    <2>1. live[u] = balance[u] + SumFunctionOnSet(ToTell(u), Buyers) /\ live[u] \in Int /\ balance[u] \in Int
        BY <1>0 DEF EngineAddsUp
    <2> QED BY <1>0, <1>1, <2>1, ToTellMoves
<1>i. IdleBuy.pc = "idle" /\ IdleBuy \in Purchase
    BY IdleTyped DEF IdleBuy
<1>3. CASE Claim(b)
    <2>1. /\ buy[b].pc = "swap" /\ live' = live /\ buy[b].user \in Users
          /\ balance' = [balance EXCEPT ![buy[b].user] = @ - Total(b)]
          /\ Advance(b, buy[b].price > 0, "tell")
        BY <1>0, <1>3 DEF Claim
    <2>2. buy'[b] = IF buy[b].price > 0 THEN [buy[b] EXCEPT !.pc = "tell"] ELSE IdleBuy
        BY <1>0, <2>1 DEF Advance
    <2>3. buy[b].price \in Nat /\ buy[b].quantity \in Nat
        BY <1>0 DEF Purchase
    <2>4. ASSUME NEW u \in Users
          PROVE  ToTell(u)[b] = 0 /\ ToTell(u)'[b] = IF u = buy[b].user THEN Total(b) ELSE 0
        <3>1. ToTell(u)[b] = 0
            BY <2>1 DEF ToTell
        <3>2. CASE buy[b].price > 0
            <4>1. /\ buy'[b].pc = "tell" /\ buy'[b].user = buy[b].user
                  /\ buy'[b].price = buy[b].price /\ buy'[b].quantity = buy[b].quantity
                BY <1>0, <2>2, <3>2 DEF Purchase
            <4> QED BY <3>1, <4>1 DEF ToTell, Total
        <3>3. CASE ~(buy[b].price > 0)
            <4>1. buy'[b].pc = "idle"
                BY <1>i, <2>2, <3>3
            <4>2. buy[b].price = 0
                BY <2>3, <3>3
            <4>3. Total(b) = 0
                BY <2>3, <4>2 DEF Total
            <4> QED BY <3>1, <4>1, <4>3 DEF ToTell
        <3> QED BY <3>2, <3>3
    <2>5. ASSUME NEW u \in Users
          PROVE  live'[u] = balance'[u] + SumFunctionOnSet(ToTell(u), Buyers)'
        <3>1. balance'[u] = IF u = buy[b].user THEN balance[u] - Total(b) ELSE balance[u]
            BY <1>0, <2>1
        <3>2. CASE u = buy[b].user
            BY <1>0, <1>2, <2>1, <2>4, <3>1, <3>2
        <3>3. CASE u # buy[b].user
            BY <1>0, <1>2, <2>1, <2>4, <3>1, <3>3
        <3> QED BY <3>2, <3>3
    <2> QED BY <2>5 DEF EngineAddsUp
<1>4. CASE Tell(b)
    <2>1. /\ buy[b].pc = "tell" /\ balance' = balance /\ buy[b].user \in Users
          /\ live' = [live EXCEPT ![buy[b].user] = @ - Total(b)]
          /\ buy'[b] = IdleBuy
        BY <1>0, <1>4 DEF Tell
    <2>2. ASSUME NEW u \in Users
          PROVE  ToTell(u)'[b] = 0 /\ ToTell(u)[b] = IF u = buy[b].user THEN Total(b) ELSE 0
        BY <1>i, <2>1 DEF ToTell
    <2>3. ASSUME NEW u \in Users
          PROVE  live'[u] = balance'[u] + SumFunctionOnSet(ToTell(u), Buyers)'
        <3>1. live'[u] = IF u = buy[b].user THEN live[u] - Total(b) ELSE live[u]
            BY <1>0, <2>1
        <3>2. CASE u = buy[b].user
            BY <1>0, <1>2, <2>1, <2>2, <3>1, <3>2
        <3>3. CASE u # buy[b].user
            BY <1>0, <1>2, <2>1, <2>2, <3>1, <3>3
        <3> QED BY <3>2, <3>3
    <2> QED BY <2>3 DEF EngineAddsUp
<1>5. ASSUME buy[b].pc # "tell", buy'[b].pc # "tell", UNCHANGED <<balance, live>>
      PROVE  EngineAddsUp'
    <2>1. ASSUME NEW u \in Users
          PROVE  live'[u] = balance'[u] + SumFunctionOnSet(ToTell(u), Buyers)'
        <3>1. ToTell(u)[b] = 0 /\ ToTell(u)'[b] = 0
            BY <1>5 DEF ToTell
        <3> QED BY <1>2, <1>5, <3>1
    <2> QED BY <2>1 DEF EngineAddsUp
<1>6. ASSUME NEW u \in Users, NEW o \in Offers, NEW quantity \in Quantities, Buy(b, u, o, quantity)
      PROVE  buy[b].pc # "tell" /\ buy'[b].pc # "tell" /\ UNCHANGED <<balance, live>>
    BY <1>0, <1>6 DEF Buy
<1>7. CASE CheckClaims(b) \/ CheckFunds(b) \/ ReadStock(b) \/ Retry(b) \/ BuyThrows(b)
    <2>1. buy[b].pc # "tell" /\ UNCHANGED <<balance, live>>
        BY <1>7 DEF CheckClaims, CheckFunds, ReadStock, Retry, BuyThrows
    <2>2. buy'[b].pc # "tell"
        BY <1>0, <1>7, <1>i DEF CheckClaims, CheckFunds, ReadStock, Retry, BuyThrows, Advance, Purchase
    <2> QED BY <1>5, <2>1, <2>2
<1> QED BY <1>3, <1>4, <1>5, <1>6, <1>7 DEF BuyStep

LEMMA OffersStart == ASSUME Init PROVE OffersInv
<1>0. TypeInv
    BY InitTyped
<1>1. ASSUME NEW o \in Offers PROVE offer[o].sold = SumFunctionOnSet(BuyersOf(o), Users)
    <2>1. \A u \in Users : BuyersOf(o)[u] = 0
        BY DEF Init, BuyersOf
    <2>2. SumFunctionOnSet(BuyersOf(o), Users) = 0
        BY <2>1, OfferEventsAssumption, SumZero
    <2> QED BY <2>2 DEF Init, NoOffer
<1>2. ASSUME NEW u \in Users PROVE inventory[u] = SumFunctionOnSet(purchases[u], DOMAIN purchases[u])
    <2>1. DOMAIN purchases[u] = Offers /\ \A o \in Offers : purchases[u][o] = 0
        BY DEF Init
    <2>2. SumFunctionOnSet(purchases[u], Offers) = 0
        BY <2>1, OfferEventsAssumption, SumZero
    <2> QED BY <2>1, <2>2 DEF Init
<1>3. BoughtIsKept
    BY DEF Init, BoughtIsKept, Bought
<1>4. ASSUME NEW u \in Users PROVE live[u] = balance[u] + SumFunctionOnSet(ToTell(u), Buyers)
    <2>1. \A b \in Buyers : ToTell(u)[b] = 0
        BY DEF Init, ToTell, IdleBuy
    <2>2. SumFunctionOnSet(ToTell(u), Buyers) = 0
        BY <2>1, OfferEventsAssumption, SumZero
    <2>3. live[u] = Funds /\ balance[u] = Funds /\ Funds \in Int
        BY OfferEventsAssumption DEF Init
    <2> QED BY <2>2, <2>3
<1> QED BY <1>0, <1>1, <1>2, <1>3, <1>4, SalesAre DEF OffersInv, EngineAddsUp

LEMMA OffersStep == ASSUME OffersInv, [Next]_vars PROVE OffersInv'
<1>0. TypeInv /\ TypeOK
    BY DEF OffersInv, TypeInv
<1>1. TypeInv'
    BY <1>0, NextTyped
<1>r. offer \in [Offers -> Offer]
    BY <1>0 DEF TypeOK
<1>2. ASSUME NEW b \in Buyers, BuyStep(b) PROVE OffersInv'
    <2>1. EngineAddsUp'
        BY <1>1, <1>2, BuyerAddsUp
    <2>2. SalesAddUp' /\ BoughtIsKept'
        <3>1. CASE Claim(b)
            BY <1>1, <3>1, ClaimAddsUp
        <3>2. CASE ~Claim(b)
            <4>1. UNCHANGED <<offer, purchases, inventory>>
                BY <1>2, <3>2 DEF BuyStep, Buy, CheckClaims, CheckFunds, ReadStock, Retry, Tell, BuyThrows
            <4> QED BY <1>1, <4>1, RowsKeepAddingUp
        <3> QED BY <3>1, <3>2
    <2> QED BY <1>1, <2>1, <2>2 DEF OffersInv
<1>3. ASSUME NEW o \in Offers, OfferStep(o) PROVE OffersInv'
    <2> PICK active \in BOOLEAN, unlimited \in BOOLEAN, stock \in Stocks \cup {0},
             price \in Prices, limit \in Limits :
          \/ CreateOffer(o, active, unlimited, stock, price, limit)
          \/ UpdateOffer(o, active, unlimited, stock, price, limit)
        BY <1>3 DEF OfferStep
    <2>1. UNCHANGED <<purchases, inventory, balance, live, buy>>
        BY DEF CreateOffer, UpdateOffer
    <2>2. offer'[o].sold = offer[o].sold /\ offer'[o].exists
        <3>1. CASE CreateOffer(o, active, unlimited, stock, price, limit)
            BY <1>r, <3>1 DEF CreateOffer, NoOffer
        <3>2. CASE UpdateOffer(o, active, unlimited, stock, price, limit)
            BY <1>r, <3>2 DEF UpdateOffer, Offer
        <3> QED BY <3>1, <3>2
    <2>3. \A p \in Offers \ {o} : offer'[p] = offer[p]
        BY <1>r DEF CreateOffer, UpdateOffer
    <2>4. SalesAddUp' /\ BoughtIsKept'
        BY <1>1, <2>1, <2>2, <2>3, RowsKeepAddingUp
    <2> QED BY <1>1, <2>1, <2>4, OthersAddUp DEF OffersInv
<1>4. ASSUME NEW a \in Admins, RemovalStep(a) PROVE OffersInv'
    <2>1. UNCHANGED <<purchases, inventory, balance, live, buy>>
        BY <1>4 DEF RemovalStep, StartRemoval, DeleteOffer, DeactivateOffer
    <2>2. ASSUME NEW o \in Offers
          PROVE  offer'[o].sold = offer[o].sold /\ (offer[o].exists => offer'[o].exists \/ ~Bought(o))
        <3>1. CASE DeleteOffer(a)
            BY <1>r, <3>1 DEF DeleteOffer, Offer
        <3>2. CASE DeactivateOffer(a)
            BY <1>r, <3>2 DEF DeactivateOffer, Offer
        <3>3. CASE \E p \in Offers : StartRemoval(a, p)
            BY <3>3 DEF StartRemoval
        <3> QED BY <1>4, <3>1, <3>2, <3>3 DEF RemovalStep
    <2>3. SalesAddUp' /\ BoughtIsKept'
        BY <1>1, <2>1, <2>2, RowsKeepAddingUp
    <2> QED BY <1>1, <2>1, <2>3, OthersAddUp DEF OffersInv
<1>5. CASE EventStep \/ UNCHANGED vars
    <2>1. UNCHANGED <<offer, purchases, inventory, balance, live, buy>>
        BY <1>5 DEF EventStep, UpdateEvent, SoftDeleteEvent, TimePasses, Sweep, vars
    <2>2. SalesAddUp' /\ BoughtIsKept'
        BY <1>1, <2>1, RowsKeepAddingUp
    <2> QED BY <1>1, <2>1, <2>2, OthersAddUp DEF OffersInv
<1> QED BY <1>2, <1>3, <1>4, <1>5 DEF Next

(* No offer is oversold; offers, inventories, balances and the engine's copies   *)
(* agree with what was sold, and what was bought stays on record, however        *)
(* purchases race and fail and administrators edit.                              *)
THEOREM OffersHold == Spec => []OffersSafe
<1>1. Init => OffersInv
    BY OffersStart
<1>2. OffersInv /\ [Next]_vars => OffersInv'
    BY OffersStep
<1>3. Spec => []NeverOversold
    BY NotOversold
<1>4. OffersInv /\ NeverOversold => OffersSafe
    <2> SUFFICES ASSUME OffersInv, NeverOversold PROVE OffersSafe
        OBVIOUS
    <2>1. ASSUME NEW u \in Users, \A b \in Buyers : buy[b].pc = "tell" => buy[b].user # u
          PROVE  live[u] = balance[u]
        <3>1. \A b \in Buyers : ToTell(u)[b] = 0
            BY <2>1 DEF ToTell
        <3>2. SumFunctionOnSet(ToTell(u), Buyers) = 0
            BY <3>1, OfferEventsAssumption, SumZero
        <3>3. live[u] = balance[u] + 0 /\ balance[u] \in Int
            BY <3>2 DEF OffersInv, EngineAddsUp, TypeInv, TypeOK
        <3> QED BY <3>3
    <2> QED BY <2>1 DEF OffersInv, OffersSafe, LiveAgrees, TypeInv
<1> QED BY <1>1, <1>2, <1>3, <1>4, PTL DEF Spec

-----------------------------------------------------------------------------
(* A user whose purchases do not overlap.                                    *)
SoleBuyer ==
    \A b, c \in Buyers : buy[b].pc # "idle" /\ buy[c].pc # "idle" /\ buy[b].user = buy[c].user => b = c

(* What a purchase was checked against still stands.                         *)
FundsStand(b) ==
    buy[b].pc \in {"stock", "swap"} /\ buy[b].price > 0 => balance[buy[b].user] >= Total(b)

ClaimsStand(b) ==
    buy[b].pc \in {"stock", "swap"} /\ buy[b].price = 0 /\ buy[b].limit > 0 =>
        purchases[buy[b].user][buy[b].offer] + buy[b].quantity <= buy[b].limit

(* A call is on the path its offer's price and limit lead it.                *)
RightPath(b) ==
    /\ buy[b].pc = "funds" => buy[b].price > 0
    /\ buy[b].pc = "claims" => buy[b].price = 0

AloneInv ==
    /\ TypeInv /\ NeverOverdrawn
    /\ \A b \in Buyers : FundsStand(b) /\ ClaimsStand(b) /\ RightPath(b)

(* Only its own steps and its user's other purchases touch what it checked.  *)
LEMMA ChecksStand ==
    ASSUME AloneInv, NEW b \in Buyers, buy'[b] = buy[b],
           buy[b].pc # "idle" => /\ balance'[buy[b].user] = balance[buy[b].user]
                                 /\ purchases'[buy[b].user] = purchases[buy[b].user]
    PROVE  (FundsStand(b) /\ ClaimsStand(b) /\ RightPath(b))'
BY DEF AloneInv, FundsStand, ClaimsStand, RightPath, Total

LEMMA AloneStarts == ASSUME Init PROVE AloneInv
<1>1. Funds >= 0
    BY OfferEventsAssumption
<1>2. NeverOverdrawn
    BY <1>1 DEF Init, NeverOverdrawn
<1>3. \A b \in Buyers : buy[b].pc = "idle"
    BY DEF Init, IdleBuy
<1> QED BY <1>2, <1>3, InitTyped DEF AloneInv, FundsStand, ClaimsStand, RightPath

(* The steps of a call before it claims.                                     *)
LEMMA ChecksAreMade ==
    ASSUME AloneInv, TypeInv', NEW b \in Buyers, BuyStep(b), ~Claim(b)
    PROVE  AloneInv'
<1>0. /\ TypeInv /\ TypeOK /\ buy \in [Buyers -> Purchase] /\ buy[b] \in Purchase
      /\ FundsStand(b) /\ ClaimsStand(b) /\ RightPath(b) /\ NeverOverdrawn
    BY Locals DEF AloneInv, TypeInv, TypeOK
<1>1. UNCHANGED <<balance, purchases>>
    BY DEF BuyStep, Buy, CheckClaims, CheckFunds, ReadStock, Retry, Tell, BuyThrows
<1>2. NeverOverdrawn'
    BY <1>0, <1>1 DEF NeverOverdrawn
<1>3. ASSUME NEW c \in Buyers, c # b PROVE (FundsStand(c) /\ ClaimsStand(c) /\ RightPath(c))'
    <2>1. buy'[c] = buy[c]
        BY <1>0, <1>3, OthersBuyOn
    <2> QED BY <1>1, <2>1, ChecksStand
<1>i. IdleBuy.pc = "idle"
    BY DEF IdleBuy
<1>4. ASSUME buy'[b].pc = "idle" PROVE (FundsStand(b) /\ ClaimsStand(b) /\ RightPath(b))'
    BY <1>4 DEF FundsStand, ClaimsStand, RightPath
<1>5. (FundsStand(b) /\ ClaimsStand(b) /\ RightPath(b))'
    <2>1. ASSUME NEW u \in Users, NEW o \in Offers, NEW quantity \in Quantities, Buy(b, u, o, quantity)
          PROVE  (FundsStand(b) /\ ClaimsStand(b) /\ RightPath(b))'
        <3>1. /\ buy'[b].pc = IF offer[o].price > 0 THEN "funds" ELSE IF offer[o].limit > 0 THEN "claims" ELSE "stock"
              /\ buy'[b].price = offer[o].price /\ buy'[b].limit = offer[o].limit
            BY <1>0, <2>1 DEF Buy
        <3>2. offer[o].price \in Nat /\ offer[o].limit \in Nat
            BY <1>0, OfferTyped
        <3>3. CASE offer[o].price > 0
            <4>1. buy'[b].pc = "funds" /\ buy'[b].price > 0
                BY <3>1, <3>3
            <4> QED BY <4>1 DEF FundsStand, ClaimsStand, RightPath
        <3>4. CASE offer[o].price = 0 /\ offer[o].limit > 0
            <4>1. buy'[b].pc = "claims" /\ buy'[b].price = 0
                BY <3>1, <3>4
            <4> QED BY <4>1 DEF FundsStand, ClaimsStand, RightPath
        <3>5. CASE offer[o].price = 0 /\ offer[o].limit = 0
            <4>1. buy'[b].pc = "stock" /\ buy'[b].price = 0 /\ buy'[b].limit = 0
                BY <3>1, <3>5
            <4> QED BY <4>1 DEF FundsStand, ClaimsStand, RightPath
        <3> QED BY <3>2, <3>3, <3>4, <3>5
    <2>2. CASE CheckClaims(b)
        <3> DEFINE ok == purchases[buy[b].user][buy[b].offer] + buy[b].quantity <= buy[b].limit
        <3>1. buy[b].pc = "claims" /\ buy[b].price = 0
            BY <1>0, <2>2 DEF CheckClaims, RightPath
        <3>2. buy'[b] = IF ok THEN [buy[b] EXCEPT !.pc = "stock"] ELSE IdleBuy
            BY <1>0, <2>2 DEF CheckClaims, Advance
        <3>3. CASE ok
            <4>1. /\ buy'[b].pc = "stock" /\ buy'[b].price = buy[b].price /\ buy'[b].limit = buy[b].limit
                  /\ buy'[b].user = buy[b].user /\ buy'[b].offer = buy[b].offer /\ buy'[b].quantity = buy[b].quantity
                BY <1>0, <3>2, <3>3 DEF Purchase
            <4> QED BY <1>1, <3>1, <3>3, <4>1 DEF FundsStand, ClaimsStand, RightPath
        <3>4. CASE ~ok
            BY <1>4, <1>i, <3>2, <3>4
        <3> QED BY <3>3, <3>4
    <2>3. CASE CheckFunds(b)
        <3> DEFINE ok == balance[buy[b].user] >= Total(b)
        <3>1. buy[b].pc = "funds" /\ buy[b].price > 0
            BY <1>0, <2>3 DEF CheckFunds, RightPath
        <3>2. buy'[b] = IF ok THEN [buy[b] EXCEPT !.pc = "stock"] ELSE IdleBuy
            BY <1>0, <2>3 DEF CheckFunds, Advance
        <3>3. CASE ok
            <4>1. /\ buy'[b].pc = "stock" /\ buy'[b].price = buy[b].price
                  /\ buy'[b].user = buy[b].user /\ buy'[b].quantity = buy[b].quantity
                BY <1>0, <3>2, <3>3 DEF Purchase
            <4>2. Total(b)' = Total(b)
                BY <4>1 DEF Total
            <4>3. buy[b].price # 0
                BY <3>1
            <4> QED BY <1>1, <3>1, <3>3, <4>1, <4>2, <4>3 DEF FundsStand, ClaimsStand, RightPath
        <3>4. CASE ~ok
            BY <1>4, <1>i, <3>2, <3>4
        <3> QED BY <3>3, <3>4
    <2>4. ASSUME buy[b].pc \in {"stock", "swap"}, buy'[b].pc \in {"stock", "swap"},
                 buy'[b].price = buy[b].price, buy'[b].limit = buy[b].limit,
                 buy'[b].user = buy[b].user, buy'[b].offer = buy[b].offer, buy'[b].quantity = buy[b].quantity
          PROVE  (FundsStand(b) /\ ClaimsStand(b) /\ RightPath(b))'
        <3>1. Total(b)' = Total(b)
            BY <2>4 DEF Total
        <3> QED BY <1>0, <1>1, <2>4, <3>1 DEF FundsStand, ClaimsStand, RightPath
    <2>5. CASE ReadStock(b)
        <3>1. CASE Remains(b) /\ buy[b].tries < MaxTries
            <4>1. buy[b].pc = "stock" /\ buy'[b] = [buy[b] EXCEPT !.pc = "swap", !.sold = offer[buy[b].offer].sold,
                                                                  !.tries = buy[b].tries + 1]
                BY <1>0, <2>5, <3>1 DEF ReadStock
            <4>2. /\ buy'[b].pc = "swap" /\ buy'[b].price = buy[b].price /\ buy'[b].limit = buy[b].limit
                  /\ buy'[b].user = buy[b].user /\ buy'[b].offer = buy[b].offer /\ buy'[b].quantity = buy[b].quantity
                BY <1>0, <4>1 DEF Purchase
            <4> QED BY <2>4, <4>1, <4>2
        <3>2. CASE ~(Remains(b) /\ buy[b].tries < MaxTries)
            <4>1. buy'[b] = IdleBuy
                BY <1>0, <2>5, <3>2 DEF ReadStock
            <4> QED BY <1>4, <1>i, <4>1
        <3> QED BY <3>1, <3>2
    <2>6. CASE Retry(b)
        <3>1. buy[b].pc = "swap" /\ buy'[b] = [buy[b] EXCEPT !.pc = "stock"]
            BY <1>0, <2>6 DEF Retry
        <3>2. /\ buy'[b].pc = "stock" /\ buy'[b].price = buy[b].price /\ buy'[b].limit = buy[b].limit
              /\ buy'[b].user = buy[b].user /\ buy'[b].offer = buy[b].offer /\ buy'[b].quantity = buy[b].quantity
            BY <1>0, <3>1 DEF Purchase
        <3> QED BY <2>4, <3>1, <3>2
    <2>7. CASE Tell(b) \/ BuyThrows(b)
        <3>1. buy'[b] = IdleBuy
            BY <1>0, <2>7 DEF Tell, BuyThrows
        <3> QED BY <1>4, <1>i, <3>1
    <2> QED BY <2>1, <2>2, <2>3, <2>5, <2>6, <2>7 DEF BuyStep
<1> QED BY <1>2, <1>3, <1>5 DEF AloneInv

(* A claim is within the limit that was checked and paid with what there is. *)
LEMMA ClaimIsCovered ==
    ASSUME AloneInv, SoleBuyer, TypeInv', NEW b \in Buyers, Claim(b)
    PROVE  AloneInv'
<1> DEFINE o == buy[b].offer
           u == buy[b].user
<1>0. /\ TypeInv /\ TypeOK /\ buy \in [Buyers -> Purchase] /\ buy[b] \in Purchase /\ Total(b) \in Nat
      /\ FundsStand(b) /\ NeverOverdrawn /\ buy[b].pc = "swap" /\ u \in Users /\ o \in Offers
      /\ balance \in [Users -> Int] /\ purchases \in [Users -> [Offers -> Nat]]
      /\ buy[b].price \in Nat /\ buy[b].quantity \in Nat
    BY Locals DEF AloneInv, TypeInv, TypeOK, Claim
<1>1. /\ balance' = [balance EXCEPT ![u] = balance[u] - Total(b)]
      /\ \A v \in Users \ {u} : purchases'[v] = purchases[v]
      /\ Advance(b, buy[b].price > 0, "tell")
    BY <1>0 DEF Claim
<1>2. NeverOverdrawn'
    <2>1. balance[u] \in Int /\ balance[u] >= 0
        BY <1>0 DEF NeverOverdrawn
    <2>2. balance[u] - Total(b) >= 0
        <3>1. CASE buy[b].price > 0
            BY <1>0, <2>1, <3>1 DEF FundsStand
        <3>2. CASE buy[b].price = 0
            <4>1. Total(b) = 0
                BY <1>0, <3>2 DEF Total
            <4> QED BY <2>1, <4>1
        <3> QED BY <1>0, <3>1, <3>2
    <2> QED BY <1>0, <1>1, <2>2 DEF NeverOverdrawn
<1>3. ASSUME NEW c \in Buyers, c # b PROVE (FundsStand(c) /\ ClaimsStand(c) /\ RightPath(c))'
    <2>1. buy'[c] = buy[c]
        BY <1>0, <1>3, OthersBuyOn DEF BuyStep
    <2>2. buy[c].pc # "idle" => buy[c].user \in Users \ {u}
        BY <1>0, <1>3, Locals DEF SoleBuyer
    <2>3. \A v \in Users \ {u} : balance'[v] = balance[v]
        BY <1>0, <1>1
    <2> QED BY <1>1, <2>1, <2>2, <2>3, ChecksStand
<1>4. (FundsStand(b) /\ ClaimsStand(b) /\ RightPath(b))'
    <2>1. buy'[b].pc \in {"idle", "tell"}
        BY <1>0, <1>1 DEF Advance, IdleBuy
    <2> QED BY <2>1 DEF FundsStand, ClaimsStand, RightPath
<1> QED BY <1>2, <1>3, <1>4 DEF AloneInv

LEMMA NothingBought ==
    ASSUME (\E o \in Offers : OfferStep(o)) \/ (\E a \in Admins : RemovalStep(a)) \/ EventStep \/ UNCHANGED vars
    PROVE  UNCHANGED <<balance, purchases, buy>>
<1>1. ASSUME NEW o \in Offers, OfferStep(o) PROVE UNCHANGED <<balance, purchases, buy>>
    BY <1>1 DEF OfferStep, CreateOffer, UpdateOffer
<1>2. ASSUME NEW a \in Admins, RemovalStep(a) PROVE UNCHANGED <<balance, purchases, buy>>
    BY <1>2 DEF RemovalStep, StartRemoval, DeleteOffer, DeactivateOffer
<1>3. CASE EventStep
    BY <1>3 DEF EventStep, UpdateEvent, SoftDeleteEvent, TimePasses, Sweep
<1>4. CASE UNCHANGED vars
    BY <1>4 DEF vars
<1> QED BY <1>1, <1>2, <1>3, <1>4

LEMMA AloneSteps == ASSUME AloneInv, SoleBuyer, [Next]_vars PROVE AloneInv'
<1>1. TypeInv'
    BY NextTyped DEF AloneInv
<1>2. ASSUME NEW b \in Buyers, BuyStep(b) PROVE AloneInv'
    BY <1>1, <1>2, ChecksAreMade, ClaimIsCovered
<1>3. CASE (\E o \in Offers : OfferStep(o)) \/ (\E a \in Admins : RemovalStep(a)) \/ EventStep \/ UNCHANGED vars
    <2>1. UNCHANGED <<balance, purchases, buy>>
        BY <1>3, NothingBought
    <2>2. NeverOverdrawn'
        BY <2>1 DEF AloneInv, NeverOverdrawn
    <2>3. \A b \in Buyers : (FundsStand(b) /\ ClaimsStand(b) /\ RightPath(b))'
        BY <2>1, ChecksStand
    <2> QED BY <1>1, <2>2, <2>3 DEF AloneInv
<1> QED BY <1>2, <1>3 DEF Next

(* A user whose purchases do not overlap never pays with money they do not   *)
(* have.                                                                     *)
THEOREM AloneNotOverdrawn == Spec /\ []SoleBuyer => []NeverOverdrawn
<1>1. Init => AloneInv
    BY AloneStarts
<1>2. AloneInv /\ SoleBuyer /\ [Next]_vars => AloneInv'
    BY AloneSteps
<1>3. AloneInv => NeverOverdrawn
    BY DEF AloneInv
<1> QED BY <1>1, <1>2, <1>3, PTL DEF Spec

(* A claim that adds to what a user has is that user's purchase.             *)
LEMMA ClaimsAreBought ==
    ASSUME TypeInv, [Next]_vars, NEW u \in Users, NEW o \in Offers, purchases'[u][o] > purchases[u][o]
    PROVE  \E b \in Buyers :
             /\ buy[b].pc = "swap" /\ buy'[b].pc # "swap"
             /\ buy[b].user = u /\ buy[b].offer = o
             /\ buy[b].price \in Nat /\ buy[b].limit \in Nat
             /\ purchases'[u][o] = purchases[u][o] + buy[b].quantity
<1>0. purchases \in [Users -> [Offers -> Nat]]
    BY DEF TypeInv, TypeOK
<1>1. PICK b \in Buyers : Claim(b)
    <2>1. SUFFICES ASSUME \A b \in Buyers : ~Claim(b) PROVE FALSE
        OBVIOUS
    <2>2. purchases' = purchases
        <3>1. ASSUME NEW b \in Buyers, BuyStep(b) PROVE purchases' = purchases
            BY <2>1, <3>1 DEF BuyStep, Buy, CheckClaims, CheckFunds, ReadStock, Retry, Tell, BuyThrows
        <3> QED BY <3>1, NothingBought DEF Next
    <2>3. purchases[u][o] \in Nat
        BY <1>0
    <2> QED BY <2>2, <2>3
<1>2. /\ buy[b] \in Purchase /\ buy[b].user \in Users /\ buy[b].offer \in Offers /\ buy[b].pc = "swap"
      /\ buy[b].price \in Nat /\ buy[b].limit \in Nat /\ buy[b].quantity \in Nat
    BY <1>1, Locals DEF Claim
<1>3. /\ purchases' = [purchases EXCEPT ![buy[b].user] = [purchases[buy[b].user] EXCEPT ![buy[b].offer] = @ + buy[b].quantity]]
      /\ Advance(b, buy[b].price > 0, "tell") /\ buy \in [Buyers -> Purchase]
    BY <1>0, <1>1, <1>2 DEF Claim, TypeInv, TypeOK
<1>4. buy[b].user = u /\ buy[b].offer = o
    <2>1. SUFFICES ASSUME ~(buy[b].user = u /\ buy[b].offer = o) PROVE purchases'[u][o] = purchases[u][o]
        BY <1>0
    <2> QED BY <1>0, <1>2, <1>3, <2>1
<1>5. buy'[b].pc # "swap"
    BY <1>2, <1>3 DEF Advance, IdleBuy
<1>6. purchases'[u][o] = purchases[u][o] + buy[b].quantity
    BY <1>0, <1>2, <1>3, <1>4
<1> QED BY <1>2, <1>4, <1>5, <1>6

(* One that is alone is within the limit it was checked against.             *)
LEMMA ClaimsAreWithin ==
    ASSUME AloneInv, [Next]_vars, NEW u \in Users, NEW o \in Offers, purchases'[u][o] > purchases[u][o]
    PROVE  \E b \in Buyers :
             /\ buy[b].pc = "swap" /\ buy'[b].pc # "swap"
             /\ buy[b].user = u /\ buy[b].offer = o
             /\ buy[b].price > 0 \/ buy[b].limit = 0 \/ purchases'[u][o] <= buy[b].limit
<1>1. TypeInv /\ \A b \in Buyers : ClaimsStand(b)
    BY DEF AloneInv
<1>2. PICK b \in Buyers :
        /\ buy[b].pc = "swap" /\ buy'[b].pc # "swap"
        /\ buy[b].user = u /\ buy[b].offer = o
        /\ buy[b].price \in Nat /\ buy[b].limit \in Nat
        /\ purchases'[u][o] = purchases[u][o] + buy[b].quantity
    BY <1>1, ClaimsAreBought
<1>3. buy[b].price > 0 \/ buy[b].limit = 0 \/ purchases'[u][o] <= buy[b].limit
    BY <1>1, <1>2 DEF ClaimsStand
<1> QED BY <1>2, <1>3

(* Whoever collects free pieces one purchase at a time stays within the      *)
(* limit that was checked, whatever others buy and administrators change.    *)
THEOREM ClaimsKeepToLimits == Spec /\ []SoleBuyer => ClaimsWithinLimit
<1>1. Init => AloneInv
    BY AloneStarts
<1>2. AloneInv /\ SoleBuyer /\ [Next]_vars => AloneInv'
    BY AloneSteps
<1> DEFINE Step == \A u \in Users, o \in Offers :
                     purchases'[u][o] > purchases[u][o] =>
                       \E b \in Buyers :
                         /\ buy[b].pc = "swap" /\ buy'[b].pc # "swap"
                         /\ buy[b].user = u /\ buy[b].offer = o
                         /\ buy[b].price > 0 \/ buy[b].limit = 0 \/ purchases'[u][o] <= buy[b].limit
<1>3. AloneInv /\ [Next]_vars => [Step]_vars
    <2> SUFFICES ASSUME AloneInv, [Next]_vars PROVE Step
        OBVIOUS
    <2> QED BY ClaimsAreWithin
<1>4. ClaimsWithinLimit <=> [][Step]_vars
    BY DEF ClaimsWithinLimit
<1> HIDE DEF Step
<1> QED BY <1>1, <1>2, <1>3, <1>4, PTL DEF Spec

-----------------------------------------------------------------------------
(* The shop, for any shoppers, machines, prices and purchases.               *)

Listed == [ware : Wares, price : Nat]
SaleRows == [n : Nat, by : Shoppers, ware : Wares, price : Nat, quantity : Nat, in : SUBSET Listed]
PurchaseCalls == [pc : {"idle", "read", "check", "take", "tell", "notify"}, by : Shoppers \cup {0},
                  ware : Wares \cup {0}, price : Nat, quantity : Nat]

ShopTyped ==
    /\ catalogue \in [Wares -> [slug : Slugs \cup {""}, price : Nat, shown : BOOLEAN]]
    /\ funds \in [Shoppers -> Int] /\ engineTold \in [Shoppers -> Nat]
    /\ buying \in [BuyCalls -> PurchaseCalls]
    /\ \A k \in BuyCalls : buying[k].pc # "idle" => buying[k].by \in Shoppers /\ buying[k].ware \in Wares
    /\ wareEdits \in Nat /\ competed \subseteq Shoppers
    /\ onSale \in [BuyCalls -> SUBSET Listed]
    /\ IsFiniteSet(bought) /\ bought \subseteq SaleRows

(* Purchases are numbered, so that two alike are two.                        *)
SalesNumbered == \A p \in bought : p.n <= Cardinality(bought)

(* A purchase has seen everything that is for sale, and what it is about to  *)
(* pay is a price it saw.                                                    *)
PricesSeen ==
    \A k \in BuyCalls :
        /\ buying[k].pc # "idle" => ForSale \subseteq onSale[k]
        /\ buying[k].pc \in {"check", "take"} =>
               [ware |-> buying[k].ware, price |-> buying[k].price] \in onSale[k]

(* Two purchases of one shopper are known to overlap, and a lone one still    *)
(* has the funds it was checked for.                                         *)
LonePurchase ==
    /\ \A j, k \in BuyCalls :
          j # k /\ buying[j].pc # "idle" /\ buying[k].pc # "idle" /\ buying[j].by = buying[k].by =>
              buying[k].by \in competed
    /\ \A k \in BuyCalls :
          buying[k].pc = "take" =>
              buying[k].by \in competed \/ funds[buying[k].by] >= Bill(buying[k])

ShopRowsInv == ShopTyped /\ SalesNumbered /\ SoldAsListed /\ PricesSeen
ShopFundsInv == LonePurchase /\ OverdrawnByOverlap
ShopSumsInv == PaidForMachines /\ EngineToldOfPurchases
ShopInv == ShopRowsInv /\ ShopFundsInv /\ ShopSumsInv

Cost == [p \in bought |-> p.price * p.quantity]
SalesOf(s) == {p \in bought : p.by = s}
Owed(s) == [k \in BuyCalls |-> IF buying[k].pc = "tell" /\ buying[k].by = s THEN Bill(buying[k]) ELSE 0]

LEMMA ShopIsTyped == ASSUME ShopTyped PROVE ShopTypeOK
BY DEF ShopTyped, ShopTypeOK

LEMMA BillTyped ==
    ASSUME ShopTyped, NEW k \in BuyCalls
    PROVE  /\ buying[k] \in PurchaseCalls /\ Bill(buying[k]) \in Nat
           /\ buying[k].price \in Nat /\ buying[k].quantity \in Nat
<1>1. buying[k].price \in Nat /\ buying[k].quantity \in Nat /\ buying[k] \in PurchaseCalls
    BY DEF ShopTyped, PurchaseCalls
<1> QED BY <1>1 DEF Bill

LEMMA SpentIs ==
    ASSUME NEW s, IsFiniteSet(bought), bought \subseteq SaleRows
    PROVE  /\ Spent(s) = SumFunctionOnSet(Cost, SalesOf(s))
           /\ IsFiniteSet(SalesOf(s)) /\ \A p \in bought : Cost[p] \in Int
           /\ Spent(s) \in Int
<1> DEFINE F == [p \in SalesOf(s) |-> p.price * p.quantity]
<1>1. Spent(s) = SumFunctionOnSet(F, DOMAIN F)
    BY DEF Spent, SumFunction, SalesOf
<1>2. DOMAIN F = SalesOf(s) /\ \A p \in SalesOf(s) : F[p] = Cost[p]
    BY DEF Cost, SalesOf
<1> HIDE DEF F
<1>3. IsFiniteSet(SalesOf(s))
    BY FS_Subset DEF SalesOf
<1>4. SumFunctionOnSet(F, SalesOf(s)) = SumFunctionOnSet(Cost, SalesOf(s))
    BY <1>2, <1>3, SumSame
<1>5. ASSUME NEW p \in bought PROVE Cost[p] \in Int
    <2>1. p.price \in Nat /\ p.quantity \in Nat
        BY DEF SaleRows
    <2>2. p.price * p.quantity \in Int
        BY <2>1
    <2> QED BY <2>2 DEF Cost
<1>6. \A p \in SalesOf(s) : Cost[p] \in Int
    BY <1>5 DEF SalesOf
<1>7. SumFunctionOnSet(Cost, SalesOf(s)) \in Int
    BY <1>3, <1>6, SumTypedAndTaken
<1> QED BY <1>1, <1>2, <1>3, <1>4, <1>5, <1>7

LEMMA ToldIs ==
    ASSUME NEW s, ShopTyped
    PROVE  /\ BeingTold(s) = SumFunctionOnSet(Owed(s), BuyCalls)
           /\ \A k \in BuyCalls : Owed(s)[k] \in Int
           /\ BeingTold(s) \in Int
<1>1. BeingTold(s) = SumFunctionOnSet(Owed(s), BuyCalls)
    BY DEF BeingTold, SumFunction, Owed
<1>2. ASSUME NEW k \in BuyCalls PROVE Owed(s)[k] \in Int
    BY BillTyped DEF Owed
<1>3. SumFunctionOnSet(Owed(s), BuyCalls) \in Int
    BY <1>2, ShopAssumption, SumTypedAndTaken
<1> QED BY <1>1, <1>2, <1>3

(* What a call still has to tell is all that a step of its own changes.      *)
LEMMA ToldSame ==
    ASSUME NEW s, \A k \in BuyCalls : Owed(s)'[k] = Owed(s)[k]
    PROVE  BeingTold(s)' = BeingTold(s)
<1>1. Owed(s)' = Owed(s)
    BY DEF Owed
<1> QED BY <1>1 DEF BeingTold, Owed

LEMMA SpentPrimed ==
    ASSUME NEW s, IsFiniteSet(bought'), bought' \subseteq SaleRows
    PROVE  /\ Spent(s)' = SumFunctionOnSet(Cost', SalesOf(s)')
           /\ IsFiniteSet(SalesOf(s)') /\ \A p \in bought' : Cost'[p] \in Int
<1> DEFINE F == [p \in SalesOf(s)' |-> p.price * p.quantity]
<1>1. Spent(s)' = SumFunctionOnSet(F, DOMAIN F)
    BY DEF Spent, SumFunction, SalesOf
<1>2. DOMAIN F = SalesOf(s)' /\ \A p \in SalesOf(s)' : F[p] = Cost'[p]
    BY DEF Cost, SalesOf
<1> HIDE DEF F
<1>3. IsFiniteSet(SalesOf(s)')
    BY FS_Subset DEF SalesOf
<1>4. SumFunctionOnSet(F, SalesOf(s)') = SumFunctionOnSet(Cost', SalesOf(s)')
    BY <1>2, <1>3, SumSame
<1>5. ASSUME NEW p \in bought' PROVE Cost'[p] \in Int
    <2>1. p.price \in Nat /\ p.quantity \in Nat
        BY DEF SaleRows
    <2>2. p.price * p.quantity \in Int
        BY <2>1
    <2> QED BY <2>2 DEF Cost
<1> QED BY <1>1, <1>2, <1>3, <1>4, <1>5

(* The shoppers' sums move with the calls' values, one at a time.               *)
LEMMA ToldMoves ==
    ASSUME NEW t, ShopTyped, ShopTyped', NEW k \in BuyCalls,
           \A j \in BuyCalls \ {k} : Owed(t)'[j] = Owed(t)[j]
    PROVE  BeingTold(t)' = BeingTold(t) + (Owed(t)'[k] - Owed(t)[k])
<1> DEFINE F == Owed(t)
           G == [j \in BuyCalls |-> IF buying'[j].pc = "tell" /\ buying'[j].by = t THEN Bill(buying'[j]) ELSE 0]
<1>1. Owed(t)' = G
    BY DEF Owed, Bill
<1>2. BeingTold(t) = SumFunctionOnSet(F, BuyCalls) /\ \A j \in BuyCalls : F[j] \in Int
    BY ToldIs
<1>3. BeingTold(t)' = SumFunctionOnSet(G, BuyCalls)
    BY DEF BeingTold, SumFunction, Bill
<1>4. ASSUME NEW j \in BuyCalls PROVE G[j] \in Int
    <2>1. buying'[j].price \in Nat /\ buying'[j].quantity \in Nat
        BY DEF ShopTyped, PurchaseCalls
    <2>2. Bill(buying'[j]) \in Int
        BY <2>1 DEF Bill
    <2> QED BY <2>2
<1> HIDE DEF F, G
<1>5. \A j \in BuyCalls \ {k} : G[j] = F[j]
    BY <1>1 DEF F
<1>6. SumFunctionOnSet(G, BuyCalls) = SumFunctionOnSet(F, BuyCalls) + (G[k] - F[k])
    BY <1>2, <1>4, <1>5, ShopAssumption, SumChange
<1> QED BY <1>1, <1>2, <1>3, <1>6 DEF F

LEMMA ToldChange ==
    ASSUME NEW t, ShopTyped, ShopTyped', NEW k \in BuyCalls, NEW call,
           buying[k].pc # "tell", call.pc = "tell", call.by = buying[k].by, Bill(call) = Bill(buying[k]),
           \A j \in BuyCalls : buying'[j] = IF j = k THEN call ELSE buying[j]
    PROVE  BeingTold(t)' = BeingTold(t) + (IF t = buying[k].by THEN Bill(buying[k]) ELSE 0) /\ BeingTold(t) \in Int
<1>1. \A j \in BuyCalls \ {k} : Owed(t)'[j] = Owed(t)[j]
    BY DEF Owed, Bill
<1>2. Owed(t)[k] = 0 /\ Owed(t)'[k] = IF t = buying[k].by THEN Bill(buying[k]) ELSE 0
    BY DEF Owed, Bill
<1>3. BeingTold(t) \in Int /\ Bill(buying[k]) \in Int
    BY ToldIs, BillTyped
<1>4. BeingTold(t)' = BeingTold(t) + (Owed(t)'[k] - Owed(t)[k])
    BY <1>1, ToldMoves
<1> QED BY <1>2, <1>3, <1>4

LEMMA ToldLeft ==
    ASSUME NEW t, ShopTyped, ShopTyped', NEW k \in BuyCalls, NEW call,
           buying[k].pc = "tell", call.pc # "tell",
           \A j \in BuyCalls : buying'[j] = IF j = k THEN call ELSE buying[j]
    PROVE  BeingTold(t)' = BeingTold(t) - (IF t = buying[k].by THEN Bill(buying[k]) ELSE 0) /\ BeingTold(t) \in Int
<1>1. \A j \in BuyCalls \ {k} : Owed(t)'[j] = Owed(t)[j]
    BY DEF Owed, Bill
<1>2. Owed(t)'[k] = 0 /\ Owed(t)[k] = IF t = buying[k].by THEN Bill(buying[k]) ELSE 0
    BY DEF Owed, Bill
<1>3. BeingTold(t) \in Int /\ Bill(buying[k]) \in Int
    BY ToldIs, BillTyped
<1>4. BeingTold(t)' = BeingTold(t) + (Owed(t)'[k] - Owed(t)[k])
    BY <1>1, ToldMoves
<1> QED BY <1>2, <1>3, <1>4

LEMMA ShopStarts == ASSUME ShopInit PROVE ShopInv
<1>1. ShopTyped
    <2>1. NoBuy \in PurchaseCalls /\ NoBuy.pc = "idle"
        BY DEF NoBuy, PurchaseCalls
    <2>2. NoWare \in [slug : Slugs \cup {""}, price : Nat, shown : BOOLEAN]
        BY DEF NoWare
    <2>3. /\ catalogue \in [Wares -> [slug : Slugs \cup {""}, price : Nat, shown : BOOLEAN]]
          /\ buying \in [BuyCalls -> PurchaseCalls]
        BY <2>1, <2>2 DEF ShopInit
    <2>4. IsFiniteSet(bought) /\ bought \subseteq SaleRows /\ onSale \in [BuyCalls -> SUBSET Listed]
        BY FS_EmptySet DEF ShopInit
    <2>5. ShopFunds \in Int /\ 0 \in Nat
        BY ShopAssumption
    <2>6. funds \in [Shoppers -> Int] /\ engineTold \in [Shoppers -> Nat] /\ wareEdits \in Nat
        BY <2>5 DEF ShopInit
    <2>7. competed \subseteq Shoppers /\ \A k \in BuyCalls : buying[k].pc = "idle"
        BY <2>1 DEF ShopInit
    <2> QED BY <2>3, <2>4, <2>6, <2>7 DEF ShopTyped
<1>2. SalesNumbered /\ SoldAsListed /\ PricesSeen /\ LonePurchase /\ OverdrawnByOverlap
    BY ShopAssumption DEF ShopInit, SalesNumbered, SoldAsListed, PricesSeen, LonePurchase, OverdrawnByOverlap, NoBuy
<1>3. ASSUME NEW s \in Shoppers PROVE Spent(s) = 0 /\ BeingTold(s) = 0
    <2>1. SalesOf(s) = {} /\ IsFiniteSet(bought) /\ bought \subseteq SaleRows
        BY FS_EmptySet DEF ShopInit, SalesOf
    <2>2. Spent(s) = 0
        BY <2>1, SpentIs, SumEmpty
    <2> DEFINE Z == [k \in BuyCalls |-> 0]
    <2>3. \A k \in BuyCalls : Owed(s)[k] = 0
        BY DEF ShopInit, Owed, NoBuy
    <2>4. BeingTold(s) = 0
        BY <1>1, <2>3, ShopAssumption, SumZero, ToldIs
    <2> QED BY <2>2, <2>4
<1>4. ShopSumsInv
    BY <1>3, ShopAssumption DEF ShopInit, ShopSumsInv, PaidForMachines, EngineToldOfPurchases
<1> QED BY <1>1, <1>2, <1>4 DEF ShopInv, ShopRowsInv, ShopFundsInv

(* A call that changes only itself, and neither has nor gets anything to tell.  *)
LEMMA PurchaseMoves ==
    ASSUME ShopInv, NEW k \in BuyCalls, NEW call \in PurchaseCalls,
           BuyGoes(k, call), UNCHANGED <<catalogue, funds, bought, engineTold, wareEdits, onSale, competed>>,
           buying[k].pc # "tell", call.pc # "tell",
           call.pc # "idle" => /\ buying[k].pc # "idle"
                               /\ call.by = buying[k].by /\ call.ware = buying[k].ware,
           call.pc \in {"check", "take"} => [ware |-> call.ware, price |-> call.price] \in onSale[k],
           call.pc = "take" => call.by \in competed \/ funds[call.by] >= Bill(call)
    PROVE  ShopInv'
<1>1. buying \in [BuyCalls -> PurchaseCalls] /\ buying' = [buying EXCEPT ![k] = call]
    BY DEF ShopInv, ShopRowsInv, ShopTyped, BuyGoes
<1>2. \A j \in BuyCalls : buying'[j] = IF j = k THEN call ELSE buying[j]
    BY <1>1
<1>3. ShopTyped'
    <2>1. buying' \in [BuyCalls -> PurchaseCalls]
        BY <1>1
    <2> QED BY <1>2, <2>1 DEF ShopInv, ShopRowsInv, ShopTyped
<1>4. SalesNumbered' /\ SoldAsListed'
    BY DEF ShopInv, ShopRowsInv, SalesNumbered, SoldAsListed
<1>5. PricesSeen'
    <2>1. ForSale' = ForSale
        BY DEF ForSale
    <2> QED BY <1>2, <2>1 DEF ShopInv, ShopRowsInv, PricesSeen
<1>6. ShopFundsInv'
    <2>1. LonePurchase /\ OverdrawnByOverlap
        BY DEF ShopInv, ShopFundsInv
    <2>2. OverdrawnByOverlap'
        BY <2>1 DEF OverdrawnByOverlap
    <2>3. ASSUME NEW i \in BuyCalls, NEW j \in BuyCalls, i # j, buying'[i].pc # "idle", buying'[j].pc # "idle",
                 buying'[i].by = buying'[j].by
          PROVE  buying'[j].by \in competed'
        <3>1. /\ buying[i].pc # "idle" /\ buying[j].pc # "idle"
              /\ buying[i].by = buying'[i].by /\ buying[j].by = buying'[j].by
            BY <1>2, <2>3
        <3> QED BY <2>1, <2>3, <3>1 DEF LonePurchase
    <2>4. ASSUME NEW j \in BuyCalls, buying'[j].pc = "take"
          PROVE  buying'[j].by \in competed' \/ funds'[buying'[j].by] >= Bill(buying'[j])
        BY <1>2, <2>1, <2>4 DEF LonePurchase, Bill
    <2>5. LonePurchase'
        BY <2>3, <2>4 DEF LonePurchase, Bill
    <2> QED BY <2>2, <2>5 DEF ShopFundsInv
<1>7. ShopSumsInv'
    <2>1. ASSUME NEW s PROVE BeingTold(s)' = BeingTold(s) /\ Spent(s)' = Spent(s)
        <3>1. \A j \in BuyCalls : Owed(s)'[j] = Owed(s)[j]
            BY <1>2 DEF Owed, Bill
        <3>2. BeingTold(s)' = BeingTold(s)
            BY <3>1, ToldSame
        <3>3. Spent(s)' = Spent(s)
            BY DEF Spent
        <3> QED BY <3>2, <3>3
    <2> QED BY <2>1 DEF ShopInv, ShopSumsInv, PaidForMachines, EngineToldOfPurchases
<1> QED BY <1>3, <1>4, <1>5, <1>6, <1>7 DEF ShopInv, ShopRowsInv

LEMMA WaresWritten ==
    ASSUME ShopInv, NEW w \in Wares, WriteWare(w)
    PROVE  ShopInv'
<1>0. ShopTyped
    BY DEF ShopInv, ShopRowsInv
<1>1. PICK slug \in Slugs, price \in WarePrices, shown \in BOOLEAN :
          catalogue' = [catalogue EXCEPT ![w] = [slug |-> slug, price |-> price, shown |-> shown]]
    BY DEF WriteWare
<1>2. /\ UNCHANGED <<funds, bought, engineTold, buying, competed>>
      /\ wareEdits' = wareEdits + 1
      /\ onSale' = [k \in BuyCalls |-> onSale[k] \cup ForSale']
    BY DEF WriteWare
<1>3. catalogue' \in [Wares -> [slug : Slugs \cup {""}, price : Nat, shown : BOOLEAN]]
    <2>1. [slug |-> slug, price |-> price, shown |-> shown] \in [slug : Slugs \cup {""}, price : Nat, shown : BOOLEAN]
        BY ShopAssumption
    <2> QED BY <1>0, <1>1, <2>1 DEF ShopTyped
<1>4. ForSale' \subseteq Listed
    <2>1. \A v \in Wares : catalogue'[v].price \in Nat
        BY <1>3
    <2> QED BY <2>1 DEF ForSale, Listed
<1>5. ShopTyped'
    <2>1. onSale' \in [BuyCalls -> SUBSET Listed]
        BY <1>0, <1>2, <1>4 DEF ShopTyped
    <2>2. wareEdits' \in Nat
        <3>1. wareEdits \in Nat
            BY <1>0 DEF ShopTyped
        <3> QED BY <1>2, <3>1
    <2>3. \A k \in BuyCalls : buying'[k].pc # "idle" => buying'[k].by \in Shoppers /\ buying'[k].ware \in Wares
        BY <1>0, <1>2 DEF ShopTyped
    <2> QED BY <1>0, <1>2, <1>3, <2>1, <2>2, <2>3 DEF ShopTyped
<1>6. PricesSeen'
    <2>1. \A k \in BuyCalls : ForSale' \subseteq onSale'[k] /\ onSale[k] \subseteq onSale'[k]
        BY <1>2
    <2> QED BY <1>2, <2>1 DEF ShopInv, ShopRowsInv, PricesSeen
<1>7. SalesNumbered' /\ SoldAsListed' /\ LonePurchase' /\ OverdrawnByOverlap'
    BY <1>2 DEF ShopInv, ShopRowsInv, ShopFundsInv, SalesNumbered, SoldAsListed, LonePurchase, OverdrawnByOverlap, Bill
<1>8. ShopSumsInv'
    <2>1. ASSUME NEW s PROVE Spent(s)' = Spent(s) /\ BeingTold(s)' = BeingTold(s)
        BY <1>2 DEF Spent, BeingTold
    <2> QED BY <1>2, <2>1 DEF ShopInv, ShopSumsInv, PaidForMachines, EngineToldOfPurchases
<1> QED BY <1>5, <1>6, <1>7, <1>8 DEF ShopInv, ShopRowsInv, ShopFundsInv

LEMMA PurchaseAsked ==
    ASSUME ShopInv, NEW k \in BuyCalls, NEW s \in Shoppers, NEW w \in Wares, NEW n \in 1..MaxBulk,
           AskPurchase(k, s, w, n)
    PROVE  ShopInv'
<1> DEFINE call == [NoBuy EXCEPT !.pc = "read", !.by = s, !.ware = w, !.quantity = n]
<1>0. ShopTyped
    BY DEF ShopInv, ShopRowsInv
<1>1. /\ buying[k].pc = "idle" /\ buying' = [buying EXCEPT ![k] = call]
      /\ onSale' = [onSale EXCEPT ![k] = ForSale]
      /\ competed' = competed \cup {buying[j].by : j \in {i \in BuyCalls : buying[i].pc # "idle" /\ buying[i].by = s}}
      /\ UNCHANGED <<catalogue, funds, bought, engineTold, wareEdits>>
    BY DEF AskPurchase, BuyGoes
<1>2. /\ call \in PurchaseCalls /\ call.by = s /\ call.ware = w /\ call.pc = "read"
    <2>1. MaxBulk \in Nat
        BY ShopAssumption
    <2>2. n \in Nat
        BY <2>1
    <2>3. NoBuy \in PurchaseCalls
        BY DEF NoBuy, PurchaseCalls
    <2>4. call \in PurchaseCalls
        BY <2>2, <2>3 DEF PurchaseCalls
    <2>5. call.by = s /\ call.ware = w /\ call.pc = "read"
        BY DEF NoBuy
    <2> QED BY <2>4, <2>5
<1> HIDE DEF call
<1>3. \A j \in BuyCalls : buying'[j] = IF j = k THEN call ELSE buying[j]
    BY <1>0, <1>1 DEF ShopTyped
<1>4. ForSale \subseteq Listed /\ ForSale' = ForSale
    <2>1. \A v \in Wares : catalogue[v].price \in Nat
        BY <1>0 DEF ShopTyped
    <2> QED BY <1>1, <2>1 DEF ForSale, Listed
<1>5. ShopTyped'
    <2>1. onSale' \in [BuyCalls -> SUBSET Listed] /\ buying' \in [BuyCalls -> PurchaseCalls]
        BY <1>0, <1>1, <1>2, <1>4 DEF ShopTyped
    <2>2. competed' \subseteq Shoppers
        BY <1>0, <1>1 DEF ShopTyped
    <2>3. \A j \in BuyCalls : buying'[j].pc # "idle" => buying'[j].by \in Shoppers /\ buying'[j].ware \in Wares
        BY <1>0, <1>2, <1>3 DEF ShopTyped
    <2> QED BY <1>0, <1>1, <2>1, <2>2, <2>3 DEF ShopTyped
<1>6. PricesSeen'
    <2>1. \A j \in BuyCalls : onSale'[j] = IF j = k THEN ForSale ELSE onSale[j]
        BY <1>0, <1>1 DEF ShopTyped
    <2> QED BY <1>2, <1>3, <1>4, <2>1 DEF ShopInv, ShopRowsInv, PricesSeen
<1>7. LonePurchase'
    <2>0. LonePurchase
        BY DEF ShopInv, ShopFundsInv
    <2>1. \A j \in BuyCalls : buying[j].pc # "idle" /\ buying[j].by = s => s \in competed'
        BY <1>1
    <2>2. competed \subseteq competed'
        BY <1>1
    <2>3. ASSUME NEW i \in BuyCalls, NEW j \in BuyCalls, i # j, buying'[i].pc # "idle", buying'[j].pc # "idle",
                 buying'[i].by = buying'[j].by
          PROVE  buying'[j].by \in competed'
        <3>1. CASE i = k
            BY <1>2, <1>3, <2>1, <2>3, <3>1
        <3>2. CASE j = k
            BY <1>2, <1>3, <2>1, <2>3, <3>2
        <3>3. CASE i # k /\ j # k
            BY <1>3, <2>0, <2>2, <2>3, <3>3 DEF LonePurchase
        <3> QED BY <3>1, <3>2, <3>3
    <2>4. ASSUME NEW j \in BuyCalls, buying'[j].pc = "take"
          PROVE  buying'[j].by \in competed' \/ funds'[buying'[j].by] >= Bill(buying'[j])
        BY <1>1, <1>2, <1>3, <2>0, <2>2, <2>4 DEF LonePurchase, Bill
    <2> QED BY <2>3, <2>4 DEF LonePurchase, Bill
<1>8. SalesNumbered' /\ SoldAsListed' /\ OverdrawnByOverlap'
    BY <1>1 DEF ShopInv, ShopRowsInv, ShopFundsInv, SalesNumbered, SoldAsListed, OverdrawnByOverlap
<1>9. ShopSumsInv'
    <2>1. ASSUME NEW t PROVE Spent(t)' = Spent(t) /\ BeingTold(t)' = BeingTold(t)
        <3>1. \A j \in BuyCalls : Owed(t)'[j] = Owed(t)[j]
            BY <1>1, <1>2, <1>3 DEF Owed, Bill
        <3>2. BeingTold(t)' = BeingTold(t)
            BY <3>1, ToldSame
        <3>3. Spent(t)' = Spent(t)
            BY <1>1 DEF Spent
        <3> QED BY <3>2, <3>3
    <2> QED BY <1>1, <2>1 DEF ShopInv, ShopSumsInv, PaidForMachines, EngineToldOfPurchases
<1> QED BY <1>5, <1>6, <1>7, <1>8, <1>9 DEF ShopInv, ShopRowsInv, ShopFundsInv

LEMMA PurchaseReads ==
    ASSUME ShopInv, NEW k \in BuyCalls, ReadWare(k)
    PROVE  ShopInv'
<1>0. ShopTyped /\ PricesSeen /\ buying[k] \in PurchaseCalls
    BY BillTyped DEF ShopInv, ShopRowsInv
<1>1. /\ buying[k].pc = "read"
      /\ UNCHANGED <<catalogue, funds, bought, engineTold, wareEdits, onSale, competed>>
    BY DEF ReadWare
<1>2. NoBuy \in PurchaseCalls /\ NoBuy.pc = "idle"
    BY DEF NoBuy, PurchaseCalls
<1> DEFINE w == buying[k].ware
           call == [buying[k] EXCEPT !.pc = "check", !.price = catalogue[w].price]
<1>3. w \in Wares /\ catalogue[w].price \in Nat
    BY <1>0, <1>1 DEF ShopTyped
<1>4. CASE catalogue[w].shown /\ catalogue[w].price > 0
    <2>1. BuyGoes(k, call)
        BY <1>4 DEF ReadWare, getActiveMinerById
    <2>2. /\ call \in PurchaseCalls /\ call.pc = "check" /\ call.by = buying[k].by /\ call.ware = w
          /\ call.price = catalogue[w].price
        BY <1>0, <1>3 DEF PurchaseCalls
    <2>3. [ware |-> w, price |-> catalogue[w].price] \in onSale[k]
        <3>1. [ware |-> w, price |-> catalogue[w].price] \in ForSale
            BY <1>3, <1>4 DEF ForSale
        <3> QED BY <1>0, <1>1, <3>1 DEF PricesSeen
    <2> HIDE DEF call
    <2> QED BY <1>1, <2>1, <2>2, <2>3, PurchaseMoves
<1>5. CASE ~(catalogue[w].shown /\ catalogue[w].price > 0)
    <2>1. BuyGoes(k, NoBuy)
        BY <1>5 DEF ReadWare, getActiveMinerById
    <2> QED BY <1>1, <1>2, <2>1, PurchaseMoves
<1> QED BY <1>4, <1>5

LEMMA PurchaseChecks ==
    ASSUME ShopInv, NEW k \in BuyCalls, CheckBalance(k)
    PROVE  ShopInv'
<1>0. ShopTyped /\ PricesSeen /\ buying[k] \in PurchaseCalls /\ Bill(buying[k]) \in Nat
    BY BillTyped DEF ShopInv, ShopRowsInv
<1>1. /\ buying[k].pc = "check"
      /\ UNCHANGED <<catalogue, funds, bought, engineTold, wareEdits, onSale, competed>>
    BY DEF CheckBalance
<1>2. NoBuy \in PurchaseCalls /\ NoBuy.pc = "idle"
    BY DEF NoBuy, PurchaseCalls
<1> DEFINE call == [buying[k] EXCEPT !.pc = "take"]
<1>3. CASE funds[buying[k].by] < Bill(buying[k])
    <2>1. BuyGoes(k, NoBuy)
        BY <1>3 DEF CheckBalance
    <2> QED BY <1>1, <1>2, <2>1, PurchaseMoves
<1>4. CASE ~(funds[buying[k].by] < Bill(buying[k]))
    <2>1. BuyGoes(k, call)
        BY <1>4 DEF CheckBalance
    <2>2. /\ call \in PurchaseCalls /\ call.pc = "take" /\ call.by = buying[k].by /\ call.ware = buying[k].ware
          /\ call.price = buying[k].price /\ Bill(call) = Bill(buying[k])
        BY <1>0 DEF PurchaseCalls, Bill
    <2>3. [ware |-> call.ware, price |-> call.price] \in onSale[k]
        BY <1>0, <1>1, <2>2 DEF PricesSeen
    <2>4. funds[call.by] >= Bill(call)
        <3>1. funds[buying[k].by] \in Int
            BY <1>0, <1>1 DEF ShopTyped
        <3> QED BY <1>0, <1>4, <2>2, <3>1
    <2> HIDE DEF call
    <2> QED BY <1>1, <2>1, <2>2, <2>3, <2>4, PurchaseMoves
<1> QED BY <1>3, <1>4

LEMMA PurchaseEnds ==
    ASSUME ShopInv, NEW k \in BuyCalls, RollBack(k) \/ Notify(k)
    PROVE  ShopInv'
<1>1. /\ buying[k].pc # "tell" /\ BuyGoes(k, NoBuy)
      /\ UNCHANGED <<catalogue, funds, bought, engineTold, wareEdits, onSale, competed>>
    BY DEF RollBack, Notify
<1>2. NoBuy \in PurchaseCalls /\ NoBuy.pc = "idle"
    BY DEF NoBuy, PurchaseCalls
<1> QED BY <1>1, <1>2, PurchaseMoves

LEMMA PurchaseCommits ==
    ASSUME ShopInv, NEW k \in BuyCalls, Commit(k)
    PROVE  ShopInv'
<1> DEFINE s == buying[k].by
           call == [buying[k] EXCEPT !.pc = "tell"]
<1>0. /\ ShopTyped /\ PricesSeen /\ SalesNumbered /\ buying[k] \in PurchaseCalls /\ Bill(buying[k]) \in Nat
      /\ buying[k].price \in Nat /\ buying[k].quantity \in Nat
    BY BillTyped DEF ShopInv, ShopRowsInv
<1>1. /\ buying[k].pc = "take" /\ funds' = [funds EXCEPT ![s] = @ - Bill(buying[k])]
      /\ bought' = bought \cup {BoughtWare(k)} /\ buying' = [buying EXCEPT ![k] = call]
      /\ UNCHANGED <<catalogue, engineTold, wareEdits, onSale, competed>>
    BY DEF Commit, BuyGoes
<1>2. s \in Shoppers /\ buying[k].ware \in Wares /\ funds[s] \in Int
    BY <1>0, <1>1 DEF ShopTyped
<1>3. /\ call \in PurchaseCalls /\ call.pc = "tell" /\ call.by = s /\ call.ware = buying[k].ware
      /\ Bill(call) = Bill(buying[k])
    BY <1>0 DEF PurchaseCalls, Bill
<1>4. \A j \in BuyCalls : buying'[j] = IF j = k THEN call ELSE buying[j]
    BY <1>0, <1>1 DEF ShopTyped
<1>5. PICK row : row = BoughtWare(k)
    OBVIOUS
<1>6. /\ row.n = Cardinality(bought) + 1 /\ row.by = s /\ row.ware = buying[k].ware
      /\ row.price = buying[k].price /\ row.quantity = buying[k].quantity /\ row.in = onSale[k]
      /\ row.price * row.quantity = Bill(buying[k])
    BY <1>5 DEF BoughtWare, Bill
<1>7. Cardinality(bought) \in Nat /\ IsFiniteSet(bought)
    BY <1>0, FS_CardinalityType DEF ShopTyped
<1>8. row \in SaleRows
    <2>1. onSale[k] \in SUBSET Listed
        BY <1>0 DEF ShopTyped
    <2>2. Cardinality(bought) + 1 \in Nat
        BY <1>7
    <2> QED BY <1>0, <1>2, <1>5, <2>1, <2>2 DEF BoughtWare, SaleRows
<1>9. /\ row \notin bought /\ bought' = bought \cup {row} /\ IsFiniteSet(bought')
      /\ Cardinality(bought') = Cardinality(bought) + 1
    <2>1. row \notin bought
        BY <1>0, <1>6, <1>7 DEF SalesNumbered
    <2> QED BY <1>1, <1>5, <1>7, <2>1, FS_AddElement
<1> HIDE DEF call
<1>10. \A t \in Shoppers : funds'[t] = IF t = s THEN funds[s] - Bill(buying[k]) ELSE funds[t]
    BY <1>0, <1>1, <1>2 DEF ShopTyped
<1>11. ShopTyped'
    <2>0. funds[s] - Bill(buying[k]) \in Int
        BY <1>0, <1>2
    <2>1. funds' \in [Shoppers -> Int] /\ buying' \in [BuyCalls -> PurchaseCalls]
        BY <1>0, <1>1, <1>3, <2>0 DEF ShopTyped
    <2>2. \A j \in BuyCalls : buying'[j].pc # "idle" => buying'[j].by \in Shoppers /\ buying'[j].ware \in Wares
        BY <1>0, <1>2, <1>3, <1>4 DEF ShopTyped
    <2>3. bought' \subseteq SaleRows
        BY <1>0, <1>8, <1>9 DEF ShopTyped
    <2> QED BY <1>0, <1>1, <1>9, <2>1, <2>2, <2>3 DEF ShopTyped
<1>12. SalesNumbered'
    <2>1. ASSUME NEW q \in bought' PROVE q.n <= Cardinality(bought')
        <3>1. CASE q \in bought
            <4>1. q.n \in Nat /\ q.n <= Cardinality(bought)
                BY <1>0, <3>1 DEF SalesNumbered, ShopTyped, SaleRows
            <4> QED BY <4>1, <1>7, <1>9
        <3>2. CASE q = row
            BY <1>6, <1>7, <1>9, <3>2
        <3> QED BY <2>1, <1>9, <3>1, <3>2
    <2> QED BY <2>1 DEF SalesNumbered
<1>13. SoldAsListed'
    <2>1. [ware |-> row.ware, price |-> row.price] \in row.in
        BY <1>0, <1>1, <1>6 DEF PricesSeen
    <2> QED BY <1>9, <2>1 DEF ShopInv, ShopRowsInv, SoldAsListed
<1>14. PricesSeen'
    <2>1. ForSale' = ForSale
        BY <1>1 DEF ForSale
    <2> QED BY <1>0, <1>1, <1>3, <1>4, <2>1 DEF PricesSeen
<1>15. ShopFundsInv'
    <2>1. LonePurchase /\ OverdrawnByOverlap
        BY DEF ShopInv, ShopFundsInv
    <2>2. s \in competed \/ funds[s] >= Bill(buying[k])
        BY <1>1, <2>1 DEF LonePurchase
    <2>3. OverdrawnByOverlap'
        BY <1>0, <1>1, <1>2, <1>10, <2>1, <2>2 DEF OverdrawnByOverlap
    <2>4. ASSUME NEW i \in BuyCalls, NEW j \in BuyCalls, i # j, buying'[i].pc # "idle", buying'[j].pc # "idle",
                 buying'[i].by = buying'[j].by
          PROVE  buying'[j].by \in competed'
        <3>1. /\ buying[i].pc # "idle" /\ buying[j].pc # "idle"
              /\ buying[i].by = buying'[i].by /\ buying[j].by = buying'[j].by
            BY <1>1, <1>3, <1>4, <2>4
        <3> QED BY <1>1, <2>1, <2>4, <3>1 DEF LonePurchase
    <2>5. ASSUME NEW j \in BuyCalls, buying'[j].pc = "take"
          PROVE  buying'[j].by \in competed' \/ funds'[buying'[j].by] >= Bill(buying'[j])
        <3>1. j # k /\ buying'[j] = buying[j] /\ buying[j].pc = "take" /\ buying[j].by \in Shoppers
            BY <1>0, <1>3, <1>4, <2>5 DEF ShopTyped
        <3>2. CASE buying[j].by = s
            <4>1. s \in competed
                BY <1>1, <2>1, <3>1, <3>2 DEF LonePurchase
            <4> QED BY <1>1, <3>1, <3>2, <4>1
        <3>3. CASE buying[j].by # s
            <4>1. funds'[buying[j].by] = funds[buying[j].by]
                BY <1>10, <3>1, <3>3
            <4> QED BY <1>1, <2>1, <3>1, <4>1 DEF LonePurchase
        <3> QED BY <3>2, <3>3
    <2>6. LonePurchase'
        BY <2>4, <2>5 DEF LonePurchase, Bill
    <2> QED BY <2>3, <2>6 DEF ShopFundsInv
<1>16. ASSUME NEW t \in Shoppers
       PROVE  Spent(t)' = Spent(t) + (IF t = s THEN Bill(buying[k]) ELSE 0) /\ Spent(t) \in Int
    <2> DEFINE C == [p \in bought' |-> p.price * p.quantity]
               A == {p \in bought : p.by = t}
               B == {p \in bought' : p.by = t}
    <2>0. bought' \subseteq SaleRows /\ IsFiniteSet(bought') /\ bought \subseteq SaleRows
        BY <1>0, <1>11 DEF ShopTyped
    <2>1. /\ Spent(t)' = SumFunctionOnSet(C, B) /\ IsFiniteSet(B) /\ \A p \in bought' : C[p] \in Int
        <3>1. /\ Spent(t)' = SumFunctionOnSet(Cost', SalesOf(t)') /\ IsFiniteSet(SalesOf(t)')
              /\ \A p \in bought' : Cost'[p] \in Int
            BY <2>0, SpentPrimed
        <3> QED BY <3>1 DEF Cost, SalesOf
    <2>2. /\ Spent(t) = SumFunctionOnSet(Cost, A) /\ IsFiniteSet(A) /\ Spent(t) \in Int
          /\ \A p \in bought : Cost[p] \in Int
        BY <1>7, <2>0, SpentIs DEF SalesOf
    <2>3. \A p \in A : C[p] = Cost[p]
        BY <1>9 DEF Cost
    <2>4. C[row] = Bill(buying[k]) /\ row \notin A
        BY <1>6, <1>9
    <2>5. B = IF t = s THEN A \cup {row} ELSE A
        BY <1>6, <1>9
    <2>6. \A p \in A \cup {row} : C[p] \in Int
        BY <1>9, <2>1
    <2> HIDE DEF A, B, C
    <2>7. SumFunctionOnSet(C, A) = SumFunctionOnSet(Cost, A)
        BY <2>2, <2>3, SumSame
    <2>8. CASE t = s
        <3>1. SumFunctionOnSet(C, A \cup {row}) = SumFunctionOnSet(C, A) + C[row]
            BY <2>2, <2>4, <2>6, SumAdd
        <3> QED BY <2>1, <2>2, <2>4, <2>5, <2>7, <2>8, <3>1
    <2>9. CASE t # s
        BY <2>1, <2>2, <2>5, <2>7, <2>9
    <2> QED BY <2>8, <2>9
<1>17. ASSUME NEW t \in Shoppers
       PROVE  BeingTold(t)' = BeingTold(t) + (IF t = s THEN Bill(buying[k]) ELSE 0) /\ BeingTold(t) \in Int
    BY <1>0, <1>1, <1>3, <1>4, <1>11, ToldChange
<1>18. ShopSumsInv'
    <2>1. ASSUME NEW t \in Shoppers
          PROVE  funds'[t] + Spent(t)' = ShopFunds /\ engineTold'[t] + BeingTold(t)' = Spent(t)'
        <3>1. /\ funds[t] + Spent(t) = ShopFunds /\ engineTold[t] + BeingTold(t) = Spent(t)
              /\ engineTold'[t] = engineTold[t] /\ engineTold[t] \in Nat /\ funds[t] \in Int
            <4>1. engineTold[t] \in Nat /\ funds[t] \in Int /\ engineTold'[t] = engineTold[t]
                BY <1>0, <1>1 DEF ShopTyped
            <4> QED BY <4>1 DEF ShopInv, ShopSumsInv, PaidForMachines, EngineToldOfPurchases
        <3>2. ShopFunds \in Int /\ Bill(buying[k]) \in Int
            BY <1>0, ShopAssumption
        <3>3. CASE t = s
            <4>1. funds'[t] = funds[t] - Bill(buying[k])
                BY <1>10, <3>3
            <4> HIDE DEF s
            <4> QED BY <1>16, <1>17, <3>1, <3>2, <3>3, <4>1
        <3>4. CASE t # s
            <4>1. funds'[t] = funds[t]
                BY <1>10, <3>4
            <4> HIDE DEF s
            <4> QED BY <1>16, <1>17, <3>1, <3>2, <3>4, <4>1
        <3> QED BY <3>3, <3>4
    <2> QED BY <2>1 DEF ShopSumsInv, PaidForMachines, EngineToldOfPurchases
<1> QED BY <1>11, <1>12, <1>13, <1>14, <1>15, <1>18 DEF ShopInv, ShopRowsInv

LEMMA PurchaseTells ==
    ASSUME ShopInv, NEW k \in BuyCalls, TellPurchase(k)
    PROVE  ShopInv'
<1> DEFINE s == buying[k].by
           call == [buying[k] EXCEPT !.pc = "notify"]
<1>0. ShopTyped /\ buying[k] \in PurchaseCalls /\ Bill(buying[k]) \in Nat
    BY BillTyped DEF ShopInv, ShopRowsInv
<1>1. /\ buying[k].pc = "tell" /\ engineTold' = [engineTold EXCEPT ![s] = @ + Bill(buying[k])]
      /\ buying' = [buying EXCEPT ![k] = call]
      /\ UNCHANGED <<catalogue, funds, bought, wareEdits, onSale, competed>>
    BY DEF TellPurchase, BuyGoes
<1>2. s \in Shoppers /\ buying[k].ware \in Wares /\ engineTold[s] \in Nat
    BY <1>0, <1>1 DEF ShopTyped
<1>3. /\ call \in PurchaseCalls /\ call.pc = "notify" /\ call.by = s /\ call.ware = buying[k].ware
      /\ Bill(call) = Bill(buying[k])
    BY <1>0 DEF PurchaseCalls, Bill
<1>4. \A j \in BuyCalls : buying'[j] = IF j = k THEN call ELSE buying[j]
    BY <1>0, <1>1 DEF ShopTyped
<1> HIDE DEF call
<1>5. \A t \in Shoppers : engineTold'[t] = IF t = s THEN engineTold[s] + Bill(buying[k]) ELSE engineTold[t]
    BY <1>0, <1>1, <1>2 DEF ShopTyped
<1>6. ShopTyped'
    <2>0. engineTold[s] + Bill(buying[k]) \in Nat
        BY <1>0, <1>2
    <2>1. engineTold' \in [Shoppers -> Nat] /\ buying' \in [BuyCalls -> PurchaseCalls]
        BY <1>0, <1>1, <1>3, <2>0 DEF ShopTyped
    <2>2. \A j \in BuyCalls : buying'[j].pc # "idle" => buying'[j].by \in Shoppers /\ buying'[j].ware \in Wares
        BY <1>0, <1>2, <1>3, <1>4 DEF ShopTyped
    <2> QED BY <1>0, <1>1, <2>1, <2>2 DEF ShopTyped
<1>7. SalesNumbered' /\ SoldAsListed' /\ OverdrawnByOverlap'
    BY <1>1 DEF ShopInv, ShopRowsInv, ShopFundsInv, SalesNumbered, SoldAsListed, OverdrawnByOverlap
<1>8. PricesSeen'
    <2>1. ForSale' = ForSale
        BY <1>1 DEF ForSale
    <2> QED BY <1>1, <1>3, <1>4, <2>1 DEF ShopInv, ShopRowsInv, PricesSeen
<1>9. LonePurchase'
    <2>1. LonePurchase
        BY DEF ShopInv, ShopFundsInv
    <2>2. ASSUME NEW i \in BuyCalls, NEW j \in BuyCalls, i # j, buying'[i].pc # "idle", buying'[j].pc # "idle",
                 buying'[i].by = buying'[j].by
          PROVE  buying'[j].by \in competed'
        <3>1. /\ buying[i].pc # "idle" /\ buying[j].pc # "idle"
              /\ buying[i].by = buying'[i].by /\ buying[j].by = buying'[j].by
            BY <1>1, <1>3, <1>4, <2>2
        <3> QED BY <1>1, <2>1, <2>2, <3>1 DEF LonePurchase
    <2>3. ASSUME NEW j \in BuyCalls, buying'[j].pc = "take"
          PROVE  buying'[j].by \in competed' \/ funds'[buying'[j].by] >= Bill(buying'[j])
        BY <1>1, <1>3, <1>4, <2>1, <2>3 DEF LonePurchase
    <2> QED BY <2>2, <2>3 DEF LonePurchase, Bill
<1>10. ASSUME NEW t \in Shoppers
       PROVE  BeingTold(t)' = BeingTold(t) - (IF t = s THEN Bill(buying[k]) ELSE 0) /\ BeingTold(t) \in Int
    BY <1>0, <1>1, <1>3, <1>4, <1>6, ToldLeft
<1>11. ShopSumsInv'
    <2>1. ASSUME NEW t \in Shoppers
          PROVE  funds'[t] + Spent(t)' = ShopFunds /\ engineTold'[t] + BeingTold(t)' = Spent(t)'
        <3>0. Spent(t)' = Spent(t)
            BY <1>1 DEF Spent
        <3>1. /\ funds[t] + Spent(t) = ShopFunds /\ engineTold[t] + BeingTold(t) = Spent(t)
              /\ engineTold[t] \in Nat /\ funds'[t] = funds[t] /\ Bill(buying[k]) \in Nat
            <4>1. engineTold[t] \in Nat /\ funds'[t] = funds[t]
                BY <1>0, <1>1 DEF ShopTyped
            <4> QED BY <1>0, <4>1 DEF ShopInv, ShopSumsInv, PaidForMachines, EngineToldOfPurchases
        <3>2. CASE t = s
            <4>1. engineTold'[t] = engineTold[t] + Bill(buying[k])
                BY <1>5, <3>2
            <4> HIDE DEF s
            <4> QED BY <1>10, <3>0, <3>1, <3>2, <4>1
        <3>3. CASE t # s
            <4>1. engineTold'[t] = engineTold[t]
                BY <1>5, <3>3
            <4> HIDE DEF s
            <4> QED BY <1>10, <3>0, <3>1, <3>3, <4>1
        <3> QED BY <3>2, <3>3
    <2> QED BY <2>1 DEF ShopSumsInv, PaidForMachines, EngineToldOfPurchases
<1> QED BY <1>6, <1>7, <1>8, <1>9, <1>11 DEF ShopInv, ShopRowsInv, ShopFundsInv

(* Whatever the shop does keeps the invariant.                                  *)
LEMMA ShopSteps == ASSUME ShopInv, [ShopNext]_shopVars PROVE ShopInv'
<1>1. CASE ShopNext
    <2>1. CASE \E w \in Wares : CreateMiner(w) \/ UpdateMiner(w)
        BY <2>1, WaresWritten DEF CreateMiner, UpdateMiner
    <2>2. ASSUME NEW k \in BuyCalls,
                 \/ \E s \in Shoppers, w \in Wares, n \in 1..MaxBulk : AskPurchase(k, s, w, n)
                 \/ ReadWare(k) \/ CheckBalance(k) \/ Commit(k) \/ RollBack(k) \/ TellPurchase(k) \/ Notify(k)
          PROVE  ShopInv'
        BY <2>2, PurchaseAsked, PurchaseReads, PurchaseChecks, PurchaseCommits, PurchaseEnds, PurchaseTells
    <2> QED BY <1>1, <2>1, <2>2 DEF ShopNext
<1>2. CASE UNCHANGED shopVars
    <2>1. UNCHANGED <<catalogue, funds, bought, engineTold, buying, wareEdits, onSale, competed>>
        BY <1>2 DEF shopVars
    <2>2. ShopTyped' /\ SalesNumbered' /\ SoldAsListed' /\ LonePurchase' /\ OverdrawnByOverlap'
        BY <2>1 DEF ShopInv, ShopRowsInv, ShopFundsInv, ShopTyped, SalesNumbered, SoldAsListed, LonePurchase,
                    OverdrawnByOverlap, Bill
    <2>3. PricesSeen'
        <3>1. ForSale' = ForSale
            BY <2>1 DEF ForSale
        <3> QED BY <2>1, <3>1 DEF ShopInv, ShopRowsInv, PricesSeen
    <2>4. ASSUME NEW s PROVE Spent(s)' = Spent(s) /\ BeingTold(s)' = BeingTold(s)
        BY <2>1 DEF Spent, BeingTold, Bill
    <2>5. ShopSumsInv'
        BY <2>1, <2>4 DEF ShopInv, ShopSumsInv, PaidForMachines, EngineToldOfPurchases
    <2> QED BY <2>2, <2>3, <2>5 DEF ShopInv, ShopRowsInv, ShopFundsInv
<1> QED BY <1>1, <1>2

(* The shop: every machine is sold at a price it was listed at during the       *)
(* purchase and is paid for, a balance goes below zero only by overlapping      *)
(* purchases, and the engine hears of every purchase.                           *)
THEOREM ShopHolds == ShopSpec => []ShopSafe
<1>1. ShopInit => ShopInv
    BY ShopStarts
<1>2. ShopInv /\ [ShopNext]_shopVars => ShopInv'
    BY ShopSteps
<1>3. ShopInv => ShopSafe
    BY ShopIsTyped DEF ShopInv, ShopRowsInv, ShopFundsInv, ShopSumsInv, ShopSafe
<1> QED BY <1>1, <1>2, <1>3, PTL DEF ShopSpec

-----------------------------------------------------------------------------
(* Partners, for any viewers, amounts, rates and requests.                   *)

PartnerRows ==
    [pc : {"idle", "swap", "update", "commit", "ad", "create", "view", "seen", "pay"},
     amount : Int, rate : Nat, from : {"POL", "USDC"}, viewer : Viewers \cup {"none"}, views : Nat]

(* A request carries what its step needs.                                    *)
BringsAll(c) == (c.pc \in {"view", "seen", "pay"} => c.viewer \in Viewers) /\ c.rate # 0

PartnersTyped ==
    /\ PartnerTypeOK /\ IsFiniteSet(viewed)
    /\ \A k \in PartnerCalls : BringsAll(partnerCall[k])

(* The rows tell which views have been paid.                                 *)
ViewsOnRecord ==
    /\ \A v \in Viewers : paidViews[v] = IF v \in viewed THEN 1 ELSE 0
    /\ ad.status = "none" => viewed = {}
    /\ \A k \in PartnerCalls : partnerCall[k].pc \in {"seen", "pay"} => ad.status # "none"

(* What a request has read is still so.                                      *)
CallStands(c) ==
    /\ c.pc \in {"update", "commit"} => Enough(c)
    /\ c.pc = "create" => usdc >= AdCost
    /\ c.pc \in {"seen", "pay"} => c.views = ad.views /\ ad.views < TargetViews

Solvent == (pol >= 0 \/ usdc >= 0) /\ (backwards \/ (pol >= 0 /\ usdc >= 0))

(* What stands does so while the balances and the ad stay.                   *)
LEMMA StandsStays ==
    ASSUME NEW k \in PartnerCalls, NEW call, partnerCall'[k] = call,
           UNCHANGED <<pol, usdc, ad>>, CallStands(call)
    PROVE  CallStands(partnerCall[k])'
<1>1. Enough(call) <=> Enough(partnerCall[k])'
    BY DEF Enough
<1> QED BY <1>1 DEF CallStands

LEMMA EnoughForBoth ==
    ASSUME NEW c, NEW d, c.from = d.from, c.amount = d.amount
    PROVE  Enough(c) <=> Enough(d)
BY DEF Enough

(* As long as no two requests have overlapped.                               *)
LonePartner ==
    ~partnersCrossed =>
        /\ \A j, k \in PartnerCalls : partnerCall[j].pc # "idle" /\ partnerCall[k].pc # "idle" => j = k
        /\ \A k \in PartnerCalls : CallStands(partnerCall[k])
        /\ Solvent
        /\ ad.views = Cardinality(viewed) /\ ad.views <= TargetViews

PartnersInv == PartnersTyped /\ ViewsOnRecord /\ LonePartner /\ EngineFollowsPartners

LEMMA PartnerNumbers ==
    /\ AdCost \in Nat /\ ViewReward \in Nat /\ TargetViews \in Nat
    /\ StartMoney \in Nat /\ MaxPartnerAsks \in Nat
BY PartnerAssumption

LEMMA NoPartnerTyped == NoPartner \in PartnerRows /\ BringsAll(NoPartner) /\ NoPartner.pc = "idle"
BY DEF NoPartner, PartnerRows, BringsAll

LEMMA PartnerParts ==
    ASSUME PartnersTyped
    PROVE  /\ partnerCall \in [PartnerCalls -> PartnerRows]
           /\ pol \in Int /\ usdc \in Int /\ enginePol \in Int
           /\ ad \in [status : {"none", "active", "completed"}, views : Nat]
           /\ paidViews \in [Viewers -> Nat] /\ viewed \in SUBSET Viewers
BY DEF PartnersTyped, PartnerTypeOK, PartnerRows

(* A swap moves one balance by the amount and the other by what it buys, the *)
(* other way round if the amount is negative.                                *)
LEMMA DeltaTyped ==
    ASSUME NEW c \in PartnerRows, c.rate # 0
    PROVE  /\ PolDelta(c) \in Int /\ UsdcDelta(c) \in Int /\ c.amount \in Int
           /\ c.from = "POL" => PolDelta(c) = -c.amount /\ (c.amount >= 0 => UsdcDelta(c) >= 0)
           /\ c.from = "USDC" => UsdcDelta(c) = -c.amount /\ (c.amount >= 0 => PolDelta(c) >= 0)
           /\ c.from \in {"POL", "USDC"}
<1>1. c.rate \in Nat /\ c.rate # 0 /\ c.from \in {"POL", "USDC"} /\ c.amount \in Int
    BY DEF PartnerRows
<1>2. c.amount * c.rate \in Int /\ (c.amount >= 0 => c.amount * c.rate >= 0)
    BY <1>1
<1>3. c.amount \div c.rate \in Int /\ (c.amount >= 0 => c.amount \div c.rate >= 0)
    BY <1>1
<1>4. Output(c) \in Int /\ (c.amount >= 0 => Output(c) >= 0)
    BY <1>1, <1>2, <1>3 DEF Output
<1> QED BY <1>1, <1>4 DEF PolDelta, UsdcDelta

(* What swaps in flight told the engine moves with one request at a time.    *)
SwapOf(c) == IF c.pc = "commit" THEN PolDelta(c) ELSE 0

LEMMA SwappingMoves ==
    ASSUME PartnersTyped, PartnersTyped', NEW k \in PartnerCalls, NEW call,
           partnerCall' = [partnerCall EXCEPT ![k] = call]
    PROVE  /\ Swapping' = Swapping + (SwapOf(call) - SwapOf(partnerCall[k]))
           /\ Swapping \in Int /\ SwapOf(call) \in Int /\ SwapOf(partnerCall[k]) \in Int
<1> DEFINE F == [j \in PartnerCalls |-> IF partnerCall[j].pc = "commit" THEN PolDelta(partnerCall[j]) ELSE 0]
           G == [j \in PartnerCalls |-> IF partnerCall'[j].pc = "commit" THEN PolDelta(partnerCall'[j]) ELSE 0]
<1>0. partnerCall \in [PartnerCalls -> PartnerRows] /\ partnerCall' \in [PartnerCalls -> PartnerRows]
    BY PartnerParts DEF PartnersTyped, PartnerTypeOK, PartnerRows
<1>1. Swapping = SumFunctionOnSet(F, PartnerCalls) /\ Swapping' = SumFunctionOnSet(G, PartnerCalls)
    BY DEF Swapping, SumFunction, PolDelta, Output
<1>2. \A j \in PartnerCalls : partnerCall'[j] = IF j = k THEN call ELSE partnerCall[j]
    BY <1>0
<1>3. ASSUME NEW j \in PartnerCalls PROVE F[j] \in Int /\ G[j] \in Int
    <2>1. partnerCall[j].rate # 0 /\ partnerCall'[j].rate # 0
        BY DEF PartnersTyped, BringsAll
    <2>2. PolDelta(partnerCall[j]) \in Int
        BY <1>0, <2>1, DeltaTyped
    <2>3. partnerCall'[j] \in PartnerRows
        BY <1>0
    <2> HIDE DEF F, G
    <2>4. \A c \in PartnerRows : c.rate # 0 => PolDelta(c) \in Int
        BY DeltaTyped
    <2>5. PolDelta(partnerCall'[j]) \in Int
        BY <2>1, <2>3, <2>4
    <2> QED BY <2>2, <2>5 DEF F, G
<1>4. F[k] = SwapOf(partnerCall[k]) /\ G[k] = SwapOf(call) /\ \A j \in PartnerCalls \ {k} : G[j] = F[j]
    BY <1>2 DEF SwapOf
<1> HIDE DEF F, G
<1>5. SumFunctionOnSet(G, PartnerCalls) = SumFunctionOnSet(F, PartnerCalls) + (G[k] - F[k])
    BY <1>3, <1>4, PartnerAssumption, SumChange
<1>6. SumFunctionOnSet(F, PartnerCalls) \in Int
    BY <1>3, PartnerAssumption, SumTypedAndTaken
<1> QED BY <1>1, <1>3, <1>4, <1>5, <1>6

LEMMA PartnersStart == ASSUME PartnerInit PROVE PartnersInv
<1>1. partnerCall \in [PartnerCalls -> PartnerRows] /\ \A k \in PartnerCalls : partnerCall[k] = NoPartner
    BY NoPartnerTyped DEF PartnerInit
<1>2. PartnersTyped
    <2>1. pol \in Int /\ usdc \in Int /\ enginePol \in Int  /\ partnerAsks \in Nat
        BY PartnerNumbers DEF PartnerInit
    <2>2. /\ ad \in [status : {"none", "active", "completed"}, views : Nat]
          /\ viewed \in SUBSET Viewers
          /\ paidViews \in [Viewers -> Nat]
          /\ backwards \in BOOLEAN /\ swapLost \in BOOLEAN /\ partnersCrossed \in BOOLEAN
        BY DEF PartnerInit
    <2>3. PartnerTypeOK
        BY <1>1, <2>1, <2>2 DEF PartnerTypeOK, PartnerRows
    <2>4. IsFiniteSet(viewed)
        BY FS_EmptySet DEF PartnerInit
    <2> QED BY <1>1, <2>3, <2>4, NoPartnerTyped DEF PartnersTyped
<1>4. ViewsOnRecord
    BY <1>1, NoPartnerTyped DEF PartnerInit, ViewsOnRecord
<1>5. LonePartner
    <2>1. \A k \in PartnerCalls : partnerCall[k].pc = "idle"
        BY <1>1, NoPartnerTyped
    <2>2. usdc >= 0 /\ pol >= 0 /\ 0 <= TargetViews
        BY PartnerNumbers DEF PartnerInit
    <2>3. ad.views = 0 /\ Cardinality(viewed) = 0
        BY FS_EmptySet DEF PartnerInit
    <2> QED BY <2>1, <2>2, <2>3 DEF LonePartner, CallStands, Solvent
<1>6. EngineFollowsPartners
    <2> DEFINE F == [k \in PartnerCalls |-> IF partnerCall[k].pc = "commit" THEN PolDelta(partnerCall[k]) ELSE 0]
    <2>1. \A k \in PartnerCalls : F[k] = 0
        BY <1>1, NoPartnerTyped
    <2>2. Swapping = SumFunctionOnSet(F, PartnerCalls)
        BY DEF Swapping, SumFunction
    <2> HIDE DEF F
    <2>3. Swapping = 0
        BY <2>1, <2>2, PartnerAssumption, SumZero
    <2> QED BY <2>3, PartnerNumbers DEF EngineFollowsPartners, PartnerInit
<1> QED BY <1>2, <1>4, <1>5, <1>6 DEF PartnersInv

(* A request that moves on by itself, and has no swap told.                  *)
LEMMA PartnerCallMoves ==
    ASSUME PartnersInv, NEW k \in PartnerCalls, NEW call \in PartnerRows, BringsAll(call),
           partnerCall' = [partnerCall EXCEPT ![k] = call],
           UNCHANGED <<moneyVars, ad, viewed, historyVars>>,
           partnerAsks' \in Nat, partnersCrossed' \in BOOLEAN,
           partnersCrossed => partnersCrossed',
           partnerCall[k].pc # "commit", call.pc # "commit",
           call.pc \in {"seen", "pay"} => ad.status # "none",
           ~partnersCrossed' =>
               /\ CallStands(call)
               /\ call.pc # "idle" => \A j \in PartnerCalls : partnerCall[j].pc # "idle" => j = k
    PROVE  PartnersInv'
<1>0. /\ PartnersTyped /\ partnerCall \in [PartnerCalls -> PartnerRows]
      /\ ViewsOnRecord /\ LonePartner /\ EngineFollowsPartners
    BY PartnerParts DEF PartnersInv
<1>1. /\ \A j \in PartnerCalls : partnerCall'[j] = IF j = k THEN call ELSE partnerCall[j]
      /\ partnerCall' \in [PartnerCalls -> PartnerRows]
    BY <1>0
<1>2. UNCHANGED <<pol, usdc, enginePol, ad, viewed, paidViews, backwards, swapLost>>
    BY DEF moneyVars, historyVars
<1>3. PartnersTyped'
    <2>1. PartnerTypeOK'
        BY <1>0, <1>1, <1>2 DEF PartnersTyped, PartnerTypeOK, PartnerRows
    <2>2. \A j \in PartnerCalls : BringsAll(partnerCall'[j])
        BY <1>0, <1>1 DEF PartnersTyped
    <2> QED BY <1>0, <1>2, <2>1, <2>2 DEF PartnersTyped, BringsAll
<1>5. ViewsOnRecord'
    BY <1>0, <1>1, <1>2 DEF ViewsOnRecord
<1>6. LonePartner'
    <2> SUFFICES ASSUME ~partnersCrossed' PROVE LonePartner'
        BY DEF LonePartner
    <2>0. ~partnersCrossed
        OBVIOUS
    <2>1. \A i, j \in PartnerCalls : partnerCall'[i].pc # "idle" /\ partnerCall'[j].pc # "idle" => i = j
        BY <1>0, <1>1, <2>0 DEF LonePartner
    <2>2. ASSUME NEW j \in PartnerCalls PROVE CallStands(partnerCall[j])'
        <3>1. CASE j = k
            BY <1>1, <1>2, <3>1, StandsStays
        <3>2. CASE j # k
            <4>1. CallStands(partnerCall[j]) /\ partnerCall'[j] = partnerCall[j]
                BY <1>0, <1>1, <2>0, <3>2 DEF LonePartner
            <4> QED BY <1>2, <4>1, StandsStays
        <3> QED BY <3>1, <3>2
    <2>3. Solvent' /\ ad'.views = Cardinality(viewed') /\ ad'.views <= TargetViews
        BY <1>0, <1>2, <2>0 DEF LonePartner, Solvent
    <2> QED BY <2>1, <2>2, <2>3 DEF LonePartner
<1>7. EngineFollowsPartners'
    <2>1. Swapping' = Swapping
        <3>1. Swapping' = Swapping + (SwapOf(call) - SwapOf(partnerCall[k])) /\ Swapping \in Int
            BY <1>0, <1>3, SwappingMoves
        <3>2. SwapOf(call) = 0 /\ SwapOf(partnerCall[k]) = 0
            BY DEF SwapOf
        <3> QED BY <3>1, <3>2
    <2> QED BY <1>0, <1>2, <2>1 DEF EngineFollowsPartners
<1> QED BY <1>3, <1>5, <1>6, <1>7 DEF PartnersInv

LEMMA PartnerAsked ==
    ASSUME PartnersInv, NEW k \in PartnerCalls, NEW call \in PartnerRows, BringsAll(call),
           call.pc \in {"swap", "ad", "view"}, AskPartner(k, call)
    PROVE  PartnersInv'
<1>1. /\ partnerCall' = [partnerCall EXCEPT ![k] = call] /\ partnerCall[k].pc = "idle"
      /\ UNCHANGED <<moneyVars, ad, viewed, historyVars>>
      /\ partnerAsks' = partnerAsks + 1
      /\ partnersCrossed' = (partnersCrossed \/ \E other \in PartnerCalls : partnerCall[other].pc # "idle")
    BY DEF AskPartner, CountAsk
<1>2. partnerAsks' \in Nat /\ partnersCrossed' \in BOOLEAN /\ (partnersCrossed => partnersCrossed')
    <2>1. partnerAsks \in Nat /\ partnersCrossed \in BOOLEAN
        BY DEF PartnersInv, PartnersTyped, PartnerTypeOK
    <2> QED BY <1>1, <2>1
<1>3. CallStands(call)
    BY DEF CallStands
<1>4. ~partnersCrossed' => \A j \in PartnerCalls : partnerCall[j].pc # "idle" => j = k
    BY <1>1
<1> QED BY <1>1, <1>2, <1>3, <1>4, PartnerCallMoves

LEMMA AllAsk ==
    ASSUME PartnersInv, NEW k \in PartnerCalls,
           \/ \E from \in {"POL", "USDC"}, amount \in SwapAmounts, rate \in Rates : AskSwap(k, from, amount, rate)
           \/ AskAd(k) \/ \E v \in Viewers : AskView(k, v)
    PROVE  PartnersInv'
<1>0. NoPartner \in PartnerRows /\ BringsAll(NoPartner)
    BY NoPartnerTyped
<1>2. ASSUME NEW from \in {"POL", "USDC"}, NEW amount \in SwapAmounts, NEW rate \in Rates,
             AskSwap(k, from, amount, rate)
      PROVE  PartnersInv'
    <2> DEFINE call == [NoPartner EXCEPT !.pc = "swap", !.from = from, !.amount = amount, !.rate = rate]
    <2>0. rate \in Nat /\ rate # 0 /\ amount \in Int
        BY PartnerAssumption
    <2>1. AskPartner(k, call)
        BY <1>2 DEF AskSwap
    <2>2. call \in PartnerRows
        BY <1>0, <2>0 DEF PartnerRows
    <2>3. call.pc = "swap" /\ BringsAll(call)
        BY <1>0, <2>0 DEF PartnerRows, BringsAll
    <2> HIDE DEF call
    <2> QED BY <2>1, <2>2, <2>3, PartnerAsked
<1>3. CASE AskAd(k)
    <2> DEFINE call == [NoPartner EXCEPT !.pc = "ad"]
    <2>1. AskPartner(k, call)
        BY <1>3 DEF AskAd
    <2>2. call \in PartnerRows
        BY <1>0 DEF PartnerRows
    <2>3. call.pc = "ad" /\ BringsAll(call)
        BY <1>0 DEF PartnerRows, BringsAll
    <2> HIDE DEF call
    <2> QED BY <2>1, <2>2, <2>3, PartnerAsked
<1>4. ASSUME NEW v \in Viewers, AskView(k, v) PROVE PartnersInv'
    <2> DEFINE call == [NoPartner EXCEPT !.pc = "view", !.viewer = v]
    <2>1. AskPartner(k, call)
        BY <1>4 DEF AskView
    <2>2. call \in PartnerRows
        BY <1>0 DEF PartnerRows
    <2>3. call.pc = "view" /\ BringsAll(call)
        BY <1>0 DEF PartnerRows, BringsAll
    <2> HIDE DEF call
    <2> QED BY <2>1, <2>2, <2>3, PartnerAsked
<1> QED BY <1>2, <1>3, <1>4

(* A request that is under way is the only one, unless requests overlapped.  *)
LEMMA LoneOne ==
    ASSUME PartnersInv, NEW k \in PartnerCalls, partnerCall[k].pc # "idle"
    PROVE  /\ ~partnersCrossed => /\ \A j \in PartnerCalls : partnerCall[j].pc # "idle" => j = k
                                  /\ CallStands(partnerCall[k])
           /\ partnerCall[k] \in PartnerRows /\ BringsAll(partnerCall[k])
           /\ partnerAsks \in Nat /\ partnersCrossed \in BOOLEAN
BY PartnerParts DEF PartnersInv, LonePartner, PartnersTyped, PartnerTypeOK

(* The reads of the requests.                                                *)
LEMMA AllRead ==
    ASSUME PartnersInv, NEW k \in PartnerCalls,
           ReadBalance(k) \/ ReadForAd(k) \/ ReadViews(k) \/ PartnerThrows(k)
    PROVE  PartnersInv'
<1> DEFINE c == partnerCall[k]
<1>0. /\ c.pc # "idle" /\ c.pc # "commit" /\ UNCHANGED <<moneyVars, ad, viewed, historyVars>>
      /\ partnerAsks' = partnerAsks /\ partnersCrossed' = partnersCrossed
    BY DEF ReadBalance, ReadForAd, ReadViews, PartnerThrows, Goes, asked
<1>1. /\ ~partnersCrossed => (\A j \in PartnerCalls : partnerCall[j].pc # "idle" => j = k) /\ CallStands(c)
      /\ c \in PartnerRows /\ BringsAll(c) /\ partnerAsks' \in Nat /\ partnersCrossed' \in BOOLEAN
    BY <1>0, LoneOne
<1>2. ASSUME NEW call \in PartnerRows, BringsAll(call), Goes(k, call), call.pc # "commit",
             call.pc \in {"seen", "pay"} => ad.status # "none",
             ~partnersCrossed => CallStands(call)
      PROVE  PartnersInv'
    <2>1. partnerCall' = [partnerCall EXCEPT ![k] = call]
        BY <1>2 DEF Goes
    <2> HIDE DEF c
    <2> QED BY <1>0, <1>1, <1>2, <2>1, PartnerCallMoves DEF c
<1>3. ASSUME Goes(k, NoPartner) PROVE PartnersInv'
    <2>1. NoPartner \in PartnerRows /\ BringsAll(NoPartner) /\ NoPartner.pc = "idle"
        BY NoPartnerTyped
    <2>2. CallStands(NoPartner)
        BY <2>1 DEF CallStands
    <2> QED BY <1>2, <1>3, <2>1, <2>2
<1>5. CASE ReadBalance(k)
    <2> DEFINE call == [c EXCEPT !.pc = "update"]
    <2>1. c.pc = "swap" /\ Goes(k, IF Enough(c) THEN call ELSE NoPartner)
        BY <1>5 DEF ReadBalance
    <2>2. /\ call \in PartnerRows /\ call.pc = "update" /\ call.from = c.from /\ call.rate = c.rate
          /\ call.amount = c.amount
        BY <1>1 DEF PartnerRows
    <2>3. CASE Enough(c)
        <3>1. Goes(k, call)
            BY <2>1, <2>3
        <3> HIDE DEF call, c
        <3>2. Enough(call)
            BY <2>2, <2>3, EnoughForBoth
        <3>3. BringsAll(call) /\ CallStands(call)
            BY <1>1, <2>2, <3>2 DEF BringsAll, CallStands
        <3> QED BY <1>2, <2>2, <3>1, <3>3
    <2>4. CASE ~Enough(c)
        BY <1>3, <2>1, <2>4
    <2> QED BY <2>3, <2>4
<1>6. CASE ReadForAd(k)
    <2> DEFINE call == [c EXCEPT !.pc = "create"]
    <2>1. c.pc = "ad" /\ Goes(k, IF usdc >= AdCost THEN call ELSE NoPartner)
        BY <1>6 DEF ReadForAd
    <2>2. call \in PartnerRows /\ call.pc = "create" /\ call.rate = c.rate
        BY <1>1 DEF PartnerRows
    <2>3. CASE usdc >= AdCost
        <3>1. Goes(k, call)
            BY <2>1, <2>3
        <3> HIDE DEF call, c
        <3>2. BringsAll(call) /\ CallStands(call)
            BY <1>1, <2>2, <2>3 DEF BringsAll, CallStands
        <3> QED BY <1>2, <2>2, <3>1, <3>2
    <2>4. CASE ~(usdc >= AdCost)
        BY <1>3, <2>1, <2>4
    <2> QED BY <2>3, <2>4
<1>7. CASE ReadViews(k)
    <2> DEFINE call == [c EXCEPT !.pc = "pay"]
    <2>1. c.pc = "seen" /\ Goes(k, IF c.viewer \in viewed THEN NoPartner ELSE call)
        BY <1>7 DEF ReadViews
    <2>2. call \in PartnerRows /\ call.pc = "pay" /\ call.views = c.views /\ call.viewer = c.viewer /\ call.rate = c.rate
        BY <1>1 DEF PartnerRows
    <2>3. CASE c.viewer \notin viewed
        <3>1. Goes(k, call)
            BY <2>1, <2>3
        <3>2. ad.status # "none"
            BY <2>1 DEF PartnersInv, ViewsOnRecord
        <3> HIDE DEF call, c
        <3>3. BringsAll(call) /\ (~partnersCrossed => CallStands(call))
            BY <1>1, <2>1, <2>2 DEF BringsAll, CallStands
        <3> QED BY <1>2, <2>2, <3>1, <3>2, <3>3
    <2>4. CASE c.viewer \in viewed
        BY <1>3, <2>1, <2>4
    <2> QED BY <2>3, <2>4
<1>8. CASE PartnerThrows(k)
    BY <1>3, <1>8 DEF PartnerThrows
<1> QED BY <1>5, <1>6, <1>7, <1>8

(* A request that ends keeps what the others carry, and alone leaves none.   *)
LEMMA PartnerEnds ==
    ASSUME PartnersInv, NEW k \in PartnerCalls, partnerCall[k].pc # "idle", Goes(k, NoPartner)
    PROVE  /\ partnerCall' \in [PartnerCalls -> PartnerRows]
           /\ partnerCall' = [partnerCall EXCEPT ![k] = NoPartner]
           /\ \A j \in PartnerCalls : BringsAll(partnerCall'[j])
           /\ \A j \in PartnerCalls : partnerCall'[j].pc # "idle" => partnerCall'[j] = partnerCall[j]
           /\ ~partnersCrossed => \A j \in PartnerCalls : partnerCall'[j].pc = "idle"
           /\ partnersCrossed' = partnersCrossed /\ partnerAsks' = partnerAsks
<1>0. partnerCall \in [PartnerCalls -> PartnerRows] /\ \A j \in PartnerCalls : BringsAll(partnerCall[j])
    BY PartnerParts DEF PartnersInv, PartnersTyped
<1>1. NoPartner \in PartnerRows /\ BringsAll(NoPartner) /\ NoPartner.pc = "idle"
    BY NoPartnerTyped
<1>2. partnerCall' = [partnerCall EXCEPT ![k] = NoPartner] /\ partnersCrossed' = partnersCrossed /\ partnerAsks' = partnerAsks
    BY DEF Goes, asked
<1>3. \A j \in PartnerCalls : partnerCall'[j] = IF j = k THEN NoPartner ELSE partnerCall[j]
    BY <1>0, <1>2
<1>4. ~partnersCrossed => \A j \in PartnerCalls : partnerCall[j].pc # "idle" => j = k
    BY LoneOne
<1> QED BY <1>0, <1>1, <1>2, <1>3, <1>4

(* What is left of the invariant when a lone request is done.                *)
LEMMA LoneIsDone ==
    ASSUME ~partnersCrossed' => \A j \in PartnerCalls : partnerCall'[j].pc = "idle",
           ~partnersCrossed' =>
               /\ Solvent'
               /\ ad'.views = Cardinality(viewed') /\ ad'.views <= TargetViews
    PROVE  LonePartner'
BY DEF LonePartner, CallStands

LEMMA AdRead ==
    ASSUME PartnersInv, NEW k \in PartnerCalls, ReadAd(k)
    PROVE  PartnersInv'
<1> DEFINE c == partnerCall[k]
           full == ad.views >= TargetViews
<1>0. /\ c.pc = "view" /\ UNCHANGED <<moneyVars, viewed, historyVars>>
      /\ ad' = IF ad.status = "active" /\ full THEN [ad EXCEPT !.status = "completed"] ELSE ad
      /\ Goes(k, IF ad.status = "active" /\ ~full THEN [c EXCEPT !.pc = "seen", !.views = ad.views] ELSE NoPartner)
    BY DEF ReadAd
<1>1. /\ ~partnersCrossed => (\A j \in PartnerCalls : partnerCall[j].pc # "idle" => j = k)
      /\ c \in PartnerRows /\ BringsAll(c) /\ partnerAsks \in Nat /\ partnersCrossed \in BOOLEAN
    BY <1>0, LoneOne
<1>2. ad \in [status : {"none", "active", "completed"}, views : Nat] /\ TargetViews \in Nat
    BY PartnerParts, PartnerNumbers DEF PartnersInv
<1>3. CASE ad.status = "active" /\ ~full
    <2> DEFINE call == [c EXCEPT !.pc = "seen", !.views = ad.views]
    <2>1. partnerCall' = [partnerCall EXCEPT ![k] = call] /\ UNCHANGED <<partnersCrossed, partnerAsks, ad>>
        BY <1>0, <1>3 DEF Goes, asked
    <2>2. call \in PartnerRows /\ call.pc = "seen" /\ call.views = ad.views /\ call.viewer = c.viewer /\ call.rate = c.rate
        BY <1>1, <1>2 DEF PartnerRows
    <2>3. ad.status # "none" /\ ad.views < TargetViews
        BY <1>2, <1>3
    <2> HIDE DEF call, full
    <2>4. BringsAll(call) /\ CallStands(call)
        BY <1>0, <1>1, <2>2, <2>3 DEF BringsAll, CallStands
    <2>5. UNCHANGED <<moneyVars, ad, viewed, historyVars>>
        BY <1>0, <2>1
    <2>6. partnerAsks' \in Nat /\ partnersCrossed' \in BOOLEAN /\ (partnersCrossed => partnersCrossed')
        BY <1>1, <2>1
    <2>7. ~partnersCrossed' => \A j \in PartnerCalls : partnerCall[j].pc # "idle" => j = k
        BY <1>1, <2>1
    <2>8. partnerCall[k].pc # "commit" /\ call.pc # "commit"
        BY <1>0, <2>2
    <2> QED BY <2>1, <2>2, <2>3, <2>4, <2>5, <2>6, <2>7, <2>8, PartnerCallMoves
<1>4. CASE ~(ad.status = "active" /\ ~full)
    <2>0. Goes(k, NoPartner)
        BY <1>0, <1>4
    <2>1. /\ partnerCall' \in [PartnerCalls -> PartnerRows]
          /\ partnerCall' = [partnerCall EXCEPT ![k] = NoPartner]
          /\ \A j \in PartnerCalls : BringsAll(partnerCall'[j])
          /\ \A j \in PartnerCalls : partnerCall'[j].pc # "idle" => partnerCall'[j] = partnerCall[j]
          /\ ~partnersCrossed => \A j \in PartnerCalls : partnerCall'[j].pc = "idle"
          /\ partnersCrossed' = partnersCrossed /\ partnerAsks' = partnerAsks
        BY <1>0, <2>0, PartnerEnds
    <2>2. /\ ad' \in [status : {"none", "active", "completed"}, views : Nat] /\ ad'.views = ad.views
          /\ ad.status = "none" <=> ad'.status = "none"
        BY <1>0, <1>2
    <2>3. UNCHANGED <<pol, usdc, enginePol, viewed, paidViews, backwards, swapLost>>
        BY <1>0 DEF moneyVars, historyVars
    <2>4. PartnersTyped'
        <3>1. PartnerTypeOK'
            BY <2>1, <2>2, <2>3 DEF PartnersInv, PartnersTyped, PartnerTypeOK, PartnerRows
        <3>2. IsFiniteSet(viewed')
            BY <2>3 DEF PartnersInv, PartnersTyped
        <3> QED BY <2>1, <3>1, <3>2 DEF PartnersTyped, BringsAll
    <2>6. ViewsOnRecord'
        BY <2>1, <2>2, <2>3 DEF PartnersInv, ViewsOnRecord
    <2>7. LonePartner'
        BY <2>1, <2>2, <2>3, LoneIsDone DEF PartnersInv, LonePartner, Solvent
    <2>8. EngineFollowsPartners'
        <3>1. Swapping' = Swapping + (SwapOf(NoPartner) - SwapOf(partnerCall[k])) /\ Swapping \in Int
            BY <2>1, <2>4, SwappingMoves DEF PartnersInv
        <3>2. SwapOf(NoPartner) = 0 /\ SwapOf(partnerCall[k]) = 0
            BY <1>0, NoPartnerTyped DEF SwapOf
        <3>3. Swapping' = Swapping
            BY <3>1, <3>2
        <3> QED BY <2>3, <3>3 DEF PartnersInv, EngineFollowsPartners
    <2> QED BY <2>4, <2>6, <2>7, <2>8 DEF PartnersInv
<1> QED BY <1>3, <1>4

(* A request that ends.                                                      *)
LEMMA PartnerDone ==
    ASSUME PartnersInv, NEW k \in PartnerCalls, partnerCall[k].pc # "idle", Goes(k, NoPartner),
           backwards' \in BOOLEAN,
           pol' \in Int, usdc' \in Int, enginePol' \in Int, swapLost' \in BOOLEAN,
           ad' \in [status : {"none", "active", "completed"}, views : Nat],
           viewed' \in SUBSET Viewers, IsFiniteSet(viewed'), paidViews' \in [Viewers -> Nat],
           ad.status # "none" => ad'.status # "none", ad'.status = "none" => viewed' = {},
           \A v \in Viewers : paidViews'[v] = IF v \in viewed' THEN 1 ELSE 0,
           ~partnersCrossed =>
               /\ Solvent'
               /\ ad'.views = Cardinality(viewed') /\ ad'.views <= TargetViews,
           \/ swapLost'
           \/ swapLost' = swapLost /\ enginePol' = enginePol
              /\ pol' = pol + SwapOf(partnerCall[k])
    PROVE  PartnersInv'
<1>0. /\ PartnersTyped /\ PartnerTypeOK
      /\ ViewsOnRecord /\ LonePartner /\ EngineFollowsPartners
      /\ pol \in Int /\ enginePol \in Int
    BY PartnerParts DEF PartnersInv, PartnersTyped
<1>1. /\ partnerCall' \in [PartnerCalls -> PartnerRows]
      /\ partnerCall' = [partnerCall EXCEPT ![k] = NoPartner]
      /\ \A j \in PartnerCalls : BringsAll(partnerCall'[j])
      /\ \A j \in PartnerCalls : partnerCall'[j].pc # "idle" => partnerCall'[j] = partnerCall[j]
      /\ ~partnersCrossed => \A j \in PartnerCalls : partnerCall'[j].pc = "idle"
      /\ partnersCrossed' = partnersCrossed /\ partnerAsks' = partnerAsks
    BY PartnerEnds
<1>2. PartnersTyped'
    <2>1. PartnerTypeOK'
        BY <1>0, <1>1 DEF PartnerTypeOK, PartnerRows
    <2> QED BY <1>1, <2>1 DEF PartnersTyped, BringsAll
<1>3. ViewsOnRecord'
    BY <1>0, <1>1 DEF ViewsOnRecord
<1>4. LonePartner'
    BY <1>1, LoneIsDone
<1>5. EngineFollowsPartners'
    <2>1. Swapping' = Swapping + (SwapOf(NoPartner) - SwapOf(partnerCall[k])) /\ Swapping \in Int
          /\ SwapOf(partnerCall[k]) \in Int
        BY <1>0, <1>1, <1>2, SwappingMoves
    <2>2. SwapOf(NoPartner) = 0
        BY NoPartnerTyped DEF SwapOf
    <2>3. Swapping' = Swapping - SwapOf(partnerCall[k])
        BY <2>1, <2>2
    <2> SUFFICES ASSUME ~swapLost' PROVE enginePol' = pol' + Swapping'
        BY DEF EngineFollowsPartners
    <2>4. enginePol = pol + Swapping
        BY <1>0 DEF EngineFollowsPartners
    <2>5. enginePol' = enginePol /\ pol' = pol + SwapOf(partnerCall[k])
        OBVIOUS
    <2> HIDE DEF SwapOf
    <2> QED BY <1>0, <2>1, <2>3, <2>4, <2>5
<1> QED BY <1>2, <1>3, <1>4, <1>5 DEF PartnersInv

(* A swap tells the engine, and then moves the columns by as much or not.    *)
LEMMA SwapTold ==
    ASSUME PartnersInv, NEW k \in PartnerCalls, TellSwap(k)
    PROVE  PartnersInv'
<1> DEFINE c == partnerCall[k]
           call == [c EXCEPT !.pc = "commit"]
<1>0. /\ c.pc = "update" /\ Goes(k, call) /\ enginePol' = enginePol + PolDelta(c)
      /\ UNCHANGED <<pol, usdc, ad, viewed, historyVars>>
    BY DEF TellSwap
<1>1. /\ ~partnersCrossed => CallStands(c) /\ \A j \in PartnerCalls : partnerCall[j].pc # "idle" => j = k
      /\ c \in PartnerRows /\ BringsAll(c)
    BY <1>0, LoneOne
<1>2. /\ PartnersTyped /\ PartnerTypeOK /\ partnerCall \in [PartnerCalls -> PartnerRows]
      /\ ViewsOnRecord /\ LonePartner /\ EngineFollowsPartners
      /\ pol \in Int /\ enginePol \in Int
    BY PartnerParts DEF PartnersInv, PartnersTyped
<1>3. call \in PartnerRows /\ call.pc = "commit" /\ call.from = c.from /\ call.rate = c.rate
      /\ call.amount = c.amount
    BY <1>1 DEF PartnerRows
<1>4. PolDelta(call) = PolDelta(c) /\ PolDelta(c) \in Int
    BY <1>1, <1>3, DeltaTyped DEF PolDelta, Output, BringsAll
<1>5. /\ partnerCall' = [partnerCall EXCEPT ![k] = call]
      /\ UNCHANGED <<pol, usdc, ad, viewed, paidViews, backwards, swapLost,
                     partnersCrossed, partnerAsks>>
    BY <1>0 DEF Goes, asked, historyVars
<1> HIDE DEF call, c
<1>6. /\ \A j \in PartnerCalls : partnerCall'[j] = IF j = k THEN call ELSE partnerCall[j]
      /\ partnerCall' \in [PartnerCalls -> PartnerRows]
    BY <1>2, <1>3, <1>5
<1>7. PartnersTyped'
    <2>1. enginePol' \in Int
        BY <1>0, <1>2, <1>4
    <2>2. PartnerTypeOK'
        BY <1>2, <1>5, <1>6, <2>1 DEF PartnerTypeOK, PartnerRows
    <2>3. BringsAll(call)
        BY <1>1, <1>3 DEF BringsAll
    <2>4. \A j \in PartnerCalls : BringsAll(partnerCall'[j])
        BY <1>2, <1>6, <2>3 DEF PartnersTyped
    <2> QED BY <1>2, <1>5, <2>2, <2>4 DEF PartnersTyped, BringsAll
<1>8. ViewsOnRecord'
    BY <1>2, <1>3, <1>5, <1>6 DEF ViewsOnRecord
<1>9. LonePartner'
    <2> SUFFICES ASSUME ~partnersCrossed PROVE LonePartner'
        BY <1>5 DEF LonePartner
    <2>1. \A i, j \in PartnerCalls : partnerCall'[i].pc # "idle" /\ partnerCall'[j].pc # "idle" => i = j
        BY <1>1, <1>6
    <2>2. CallStands(call)
        BY <1>0, <1>1, <1>3 DEF CallStands, Enough
    <2>3. \A j \in PartnerCalls : CallStands(partnerCall'[j])
        BY <1>2, <1>6, <2>2 DEF LonePartner
    <2>4. \A j \in PartnerCalls : CallStands(partnerCall[j])'
        BY <1>5, <2>3, StandsStays
    <2>5. Solvent' /\ ad'.views = Cardinality(viewed') /\ ad'.views <= TargetViews
        BY <1>2, <1>5 DEF LonePartner, Solvent
    <2> QED BY <2>1, <2>4, <2>5 DEF LonePartner
<1>10. EngineFollowsPartners'
    <2>1. Swapping' = Swapping + (SwapOf(call) - SwapOf(partnerCall[k])) /\ Swapping \in Int
        BY <1>2, <1>5, <1>7, SwappingMoves
    <2>2. SwapOf(call) = PolDelta(c) /\ SwapOf(partnerCall[k]) = 0
        BY <1>0, <1>3, <1>4 DEF SwapOf, c
    <2>3. Swapping' = Swapping + PolDelta(c)
        BY <1>4, <2>1, <2>2
    <2> SUFFICES ASSUME ~swapLost' PROVE enginePol' = pol' + Swapping'
        BY DEF EngineFollowsPartners
    <2>4. enginePol = pol + Swapping
        BY <1>2, <1>5 DEF EngineFollowsPartners
    <2> QED BY <1>0, <1>2, <1>4, <1>5, <2>1, <2>3, <2>4
<1> QED BY <1>7, <1>8, <1>9, <1>10 DEF PartnersInv

LEMMA SwapEnds ==
    ASSUME PartnersInv, NEW k \in PartnerCalls, CommitSwap(k) \/ RollBackSwap(k)
    PROVE  PartnersInv'
<1> DEFINE c == partnerCall[k]
<1>0. c.pc = "commit" /\ Goes(k, NoPartner)
    BY DEF CommitSwap, RollBackSwap
<1>1. /\ ~partnersCrossed => CallStands(c)
      /\ c \in PartnerRows /\ BringsAll(c)
    BY <1>0, LoneOne
<1>2. /\ PartnersTyped /\ IsFiniteSet(viewed) /\ ViewsOnRecord /\ LonePartner
      /\ pol \in Int /\ usdc \in Int /\ enginePol \in Int /\ viewed \in SUBSET Viewers
      /\ ad \in [status : {"none", "active", "completed"}, views : Nat] /\ paidViews \in [Viewers -> Nat]
      /\ swapLost \in BOOLEAN /\ backwards \in BOOLEAN
    BY PartnerParts DEF PartnersInv, PartnersTyped, PartnerTypeOK
<1>3. /\ PolDelta(c) \in Int /\ UsdcDelta(c) \in Int /\ c.from \in {"POL", "USDC"} /\ c.amount \in Int
      /\ c.from = "POL" => PolDelta(c) = -c.amount /\ (c.amount >= 0 => UsdcDelta(c) >= 0)
      /\ c.from = "USDC" => UsdcDelta(c) = -c.amount /\ (c.amount >= 0 => PolDelta(c) >= 0)
    BY <1>1, DeltaTyped DEF BringsAll
<1>4. UNCHANGED <<enginePol, ad, viewed, paidViews>>
    BY DEF CommitSwap, RollBackSwap, historyVars, moneyVars
<1>5. /\ \A v \in Viewers : paidViews[v] = IF v \in viewed THEN 1 ELSE 0
      /\ ad.status = "none" => viewed = {}
      /\ ~partnersCrossed => Solvent /\ ad.views = Cardinality(viewed) /\ ad.views <= TargetViews
    BY <1>2 DEF ViewsOnRecord, LonePartner
<1>6. SwapOf(c) = PolDelta(c)
    BY <1>0 DEF SwapOf
<1>7. CASE CommitSwap(k)
    <2>1. /\ pol' = pol + PolDelta(c) /\ usdc' = usdc + UsdcDelta(c) /\ swapLost' = swapLost
          /\ backwards' = (backwards \/ c.amount < 0)
        BY <1>7 DEF CommitSwap
    <2>2. ~partnersCrossed => (c.from = "POL" => pol >= c.amount) /\ (c.from = "USDC" => usdc >= c.amount)
        BY <1>0, <1>1 DEF CallStands, Enough
    <2> HIDE DEF c
    <2>3. pol' \in Int /\ usdc' \in Int /\ backwards' \in BOOLEAN
        BY <1>2, <1>3, <2>1
    <2>4. ~partnersCrossed => Solvent'
        <3> SUFFICES ASSUME ~partnersCrossed PROVE Solvent'
            OBVIOUS
        <3>1. CASE c.from = "POL"
            <4>1. pol' >= 0
                BY <1>2, <1>3, <2>1, <2>2, <3>1
            <4>2. CASE c.amount >= 0 /\ ~backwards
                <5>1. usdc >= 0 /\ UsdcDelta(c) >= 0
                    BY <1>3, <1>5, <3>1, <4>2 DEF Solvent
                <5> QED BY <1>2, <1>3, <2>1, <4>1, <5>1 DEF Solvent
            <4>3. CASE c.amount < 0 \/ backwards
                BY <2>1, <4>1, <4>3 DEF Solvent
            <4> QED BY <1>3, <4>2, <4>3
        <3>2. CASE c.from = "USDC"
            <4>1. usdc' >= 0
                BY <1>2, <1>3, <2>1, <2>2, <3>2
            <4>2. CASE c.amount >= 0 /\ ~backwards
                <5>1. pol >= 0 /\ PolDelta(c) >= 0
                    BY <1>3, <1>5, <3>2, <4>2 DEF Solvent
                <5> QED BY <1>2, <1>3, <2>1, <4>1, <5>1 DEF Solvent
            <4>3. CASE c.amount < 0 \/ backwards
                BY <2>1, <4>1, <4>3 DEF Solvent
            <4> QED BY <1>3, <4>2, <4>3
        <3> QED BY <1>3, <3>1, <3>2
    <2>5. pol' = pol + SwapOf(partnerCall[k])
        BY <1>6, <2>1 DEF c
    <2> QED BY <1>0, <1>2, <1>4, <1>5, <2>1, <2>3, <2>4, <2>5, PartnerDone DEF c
<1>8. CASE RollBackSwap(k)
    <2>1. pol' = pol /\ usdc' = usdc /\ swapLost' = TRUE /\ backwards' = backwards
        BY <1>8 DEF RollBackSwap, moneyVars
    <2>2. ~partnersCrossed => Solvent'
        BY <1>5, <2>1 DEF Solvent
    <2> QED BY <1>0, <1>2, <1>4, <1>5, <2>1, <2>2, PartnerDone
<1> QED BY <1>7, <1>8

(* An ad is paid for once its row is made.                                   *)
LEMMA AdMade ==
    ASSUME PartnersInv, NEW k \in PartnerCalls, CreateAd(k)
    PROVE  PartnersInv'
<1> DEFINE c == partnerCall[k]
<1>0. /\ c.pc = "create" /\ Goes(k, NoPartner) /\ usdc' = usdc - AdCost
      /\ ad' = IF ad.status = "none" THEN [status |-> "active", views |-> 0] ELSE ad
      /\ UNCHANGED <<pol, enginePol, viewed, paidViews, backwards, swapLost>>
    BY DEF CreateAd, historyVars
<1>1. /\ ~partnersCrossed => usdc >= AdCost
      /\ AdCost \in Nat /\ TargetViews \in Nat
    BY <1>0, LoneOne, PartnerNumbers DEF CallStands
<1>2. /\ IsFiniteSet(viewed) /\ ViewsOnRecord /\ LonePartner
      /\ pol \in Int /\ usdc \in Int /\ enginePol \in Int /\ viewed \in SUBSET Viewers
      /\ ad \in [status : {"none", "active", "completed"}, views : Nat] /\ paidViews \in [Viewers -> Nat]
      /\ swapLost \in BOOLEAN /\ backwards \in BOOLEAN
    BY PartnerParts DEF PartnersInv, PartnersTyped, PartnerTypeOK
<1>3. ad' \in [status : {"none", "active", "completed"}, views : Nat] /\ ad'.status # "none"
    BY <1>0, <1>2
<1>4. usdc' \in Int /\ (~partnersCrossed => usdc' >= 0)
    BY <1>0, <1>1, <1>2
<1>5. pol' \in Int
    BY <1>0, <1>2
<1>6. SwapOf(c) = 0
    BY <1>0 DEF SwapOf
<1>7. pol' = pol + SwapOf(partnerCall[k])
    BY <1>0, <1>2, <1>6
<1>8. ~partnersCrossed => ad'.views = Cardinality(viewed') /\ ad'.views <= TargetViews
    <2>1. CASE ad.status = "none"
        <3>1. viewed = {} /\ ad'.views = 0
            BY <1>0, <1>2, <2>1 DEF ViewsOnRecord
        <3>2. Cardinality(viewed) = 0
            BY <3>1, FS_EmptySet
        <3> QED BY <1>0, <1>1, <3>1, <3>2
    <2>2. CASE ad.status # "none"
        BY <1>0, <1>2, <2>2 DEF LonePartner
    <2> QED BY <2>1, <2>2
<1>9. \A v \in Viewers : paidViews'[v] = IF v \in viewed' THEN 1 ELSE 0
    BY <1>0, <1>2 DEF ViewsOnRecord
<1>10. ~partnersCrossed => Solvent'
    BY <1>0, <1>2, <1>4 DEF LonePartner, Solvent
<1> QED BY <1>0, <1>2, <1>3, <1>4, <1>5, <1>7, <1>8, <1>9, <1>10, PartnerDone

(* A view is paid once for each viewer.                                      *)
LEMMA ViewPaid ==
    ASSUME PartnersInv, NEW k \in PartnerCalls, PayView(k)
    PROVE  PartnersInv'
<1> DEFINE c == partnerCall[k]
<1>0. /\ c.pc = "pay" /\ c.viewer \notin viewed /\ Goes(k, NoPartner) /\ usdc' = usdc + ViewReward
      /\ ad' = [views |-> c.views + 1, status |-> IF c.views + 1 >= TargetViews THEN "completed" ELSE "active"]
      /\ viewed' = viewed \cup {c.viewer}
      /\ paidViews' = [paidViews EXCEPT ![c.viewer] = paidViews[c.viewer] + 1]
      /\ UNCHANGED <<pol, enginePol, backwards, swapLost>>
    BY DEF PayView
<1>1. /\ ~partnersCrossed => c.views = ad.views /\ ad.views < TargetViews
      /\ c.viewer \in Viewers /\ c.views \in Nat
      /\ ViewReward \in Nat /\ TargetViews \in Nat
    BY <1>0, LoneOne, PartnerNumbers DEF CallStands, BringsAll, PartnerRows
<1>2. /\ IsFiniteSet(viewed) /\ ViewsOnRecord /\ LonePartner
      /\ pol \in Int /\ usdc \in Int /\ enginePol \in Int /\ viewed \in SUBSET Viewers
      /\ ad.views \in Nat /\ paidViews \in [Viewers -> Nat]
      /\ swapLost \in BOOLEAN /\ backwards \in BOOLEAN
    BY PartnerParts DEF PartnersInv, PartnersTyped, PartnerTypeOK
<1> HIDE DEF c
<1>3. ad' \in [status : {"none", "active", "completed"}, views : Nat] /\ ad'.status # "none" /\ ad'.views = c.views + 1
    <2>1. c.views + 1 \in Nat
        BY <1>1
    <2> QED BY <1>0, <2>1
<1>4. usdc' \in Int /\ usdc' >= usdc
    BY <1>0, <1>1, <1>2
<1>5. pol' \in Int
    BY <1>0, <1>2
<1>6. SwapOf(partnerCall[k]) = 0
    BY <1>0 DEF SwapOf, c
<1>7. pol' = pol + SwapOf(partnerCall[k])
    BY <1>0, <1>2, <1>6
<1>8. /\ viewed' \in SUBSET Viewers /\ IsFiniteSet(viewed')
      /\ Cardinality(viewed') = Cardinality(viewed) + 1
    BY <1>0, <1>1, <1>2, FS_AddElement
<1>9. ~partnersCrossed => ad'.views = Cardinality(viewed') /\ ad'.views <= TargetViews
    <2>1. ~partnersCrossed => ad.views = Cardinality(viewed)
        BY <1>2 DEF LonePartner
    <2> QED BY <1>1, <1>2, <1>3, <1>8, <2>1
<1>10. paidViews' \in [Viewers -> Nat] /\ \A v \in Viewers : paidViews'[v] = IF v \in viewed' THEN 1 ELSE 0
    <2>1. \A v \in Viewers : paidViews[v] = IF v \in viewed THEN 1 ELSE 0
        BY <1>2 DEF ViewsOnRecord
    <2>2. paidViews[c.viewer] + 1 = 1 /\ 1 \in Nat
        BY <1>0, <1>1, <2>1
    <2> QED BY <1>0, <1>1, <1>2, <2>1, <2>2
<1>11. ~partnersCrossed => Solvent'
    BY <1>0, <1>2, <1>4 DEF LonePartner, Solvent
<1> QED BY <1>0, <1>2, <1>3, <1>4, <1>5, <1>7, <1>8, <1>9, <1>10, <1>11, PartnerDone DEF c

(* Steps that no request takes.                                              *)
LEMMA PartnersAside ==
    ASSUME PartnersInv, Postback \/ PtcCallback \/ UNCHANGED partnerVars
    PROVE  PartnersInv'
<1>0. /\ PartnersTyped /\ PartnerTypeOK /\ ViewsOnRecord /\ LonePartner /\ EngineFollowsPartners
      /\ partnerAsks \in Nat
    BY DEF PartnersInv, PartnersTyped, PartnerTypeOK
<1>1. /\ UNCHANGED <<pol, usdc, enginePol, ad, viewed, partnerCall, paidViews, backwards, swapLost,
                     partnersCrossed>>
      /\ partnerAsks' \in Nat
    BY <1>0 DEF Postback, PtcCallback, CountAsk, partnerVars, historyVars, moneyVars
<1>2. PartnersTyped'
    <2>1. PartnerTypeOK'
        BY <1>0, <1>1 DEF PartnerTypeOK
    <2> QED BY <1>0, <1>1, <2>1 DEF PartnersTyped, BringsAll
<1>3. ViewsOnRecord'
    BY <1>0, <1>1 DEF ViewsOnRecord
<1>4. LonePartner'
    BY <1>0, <1>1 DEF LonePartner, CallStands, Enough, Solvent
<1>5. EngineFollowsPartners'
    <2>1. Swapping' = Swapping
        BY <1>1 DEF Swapping, PolDelta, Output
    <2> QED BY <1>0, <1>1, <2>1 DEF EngineFollowsPartners
<1> QED BY <1>2, <1>3, <1>4, <1>5 DEF PartnersInv

(* After a restart nothing is under way, and the engine has the column.      *)
LEMMA PartnersRestarted ==
    ASSUME PartnersInv, PartnerRestart
    PROVE  PartnersInv'
<1>0. PartnersTyped /\ PartnerTypeOK /\ ViewsOnRecord /\ LonePartner /\ pol \in Int
    BY PartnerParts DEF PartnersInv, PartnersTyped
<1>1. /\ enginePol' = pol /\ swapLost' = FALSE
      /\ partnerCall' = [k \in PartnerCalls |-> NoPartner]
      /\ UNCHANGED <<pol, usdc, ad, viewed, paidViews, backwards, partnersCrossed, partnerAsks>>
    BY DEF PartnerRestart, asked
<1>2. /\ partnerCall' \in [PartnerCalls -> PartnerRows]
      /\ \A k \in PartnerCalls : partnerCall'[k].pc = "idle" /\ BringsAll(partnerCall'[k])
    BY <1>1, NoPartnerTyped
<1>3. PartnersTyped'
    <2>1. PartnerTypeOK'
        BY <1>0, <1>1, <1>2 DEF PartnerTypeOK, PartnerRows
    <2> QED BY <1>0, <1>1, <1>2, <2>1 DEF PartnersTyped, BringsAll
<1>4. ViewsOnRecord'
    BY <1>0, <1>1, <1>2 DEF ViewsOnRecord
<1>5. LonePartner'
    <2>1. ~partnersCrossed' => Solvent' /\ ad'.views = Cardinality(viewed') /\ ad'.views <= TargetViews
        BY <1>0, <1>1 DEF LonePartner, Solvent
    <2> QED BY <1>2, <2>1, LoneIsDone
<1>6. EngineFollowsPartners'
    <2> DEFINE G == [k \in PartnerCalls |-> IF partnerCall'[k].pc = "commit" THEN PolDelta(partnerCall'[k]) ELSE 0]
    <2>1. \A k \in PartnerCalls : G[k] = 0
        BY <1>2
    <2>2. Swapping' = SumFunctionOnSet(G, PartnerCalls)
        BY DEF Swapping, SumFunction, PolDelta, Output
    <2> HIDE DEF G
    <2>3. Swapping' = 0
        BY <2>1, <2>2, PartnerAssumption, SumZero
    <2> QED BY <1>0, <1>1, <2>3 DEF EngineFollowsPartners
<1> QED BY <1>3, <1>4, <1>5, <1>6 DEF PartnersInv

LEMMA PartnersSteps ==
    ASSUME PartnersInv, [PartnerNext]_partnerVars
    PROVE  PartnersInv'
<1>1. ASSUME NEW k \in PartnerCalls, PartnerStep(k) PROVE PartnersInv'
    <2>1. CASE \/ \E from \in {"POL", "USDC"}, amount \in SwapAmounts, rate \in Rates : AskSwap(k, from, amount, rate)
               \/ AskAd(k) \/ \E v \in Viewers : AskView(k, v)
        BY <2>1, AllAsk
    <2>2. CASE ReadBalance(k) \/ ReadForAd(k) \/ ReadViews(k) \/ PartnerThrows(k)
        BY <2>2, AllRead
    <2>4. CASE TellSwap(k)
        BY <2>4, SwapTold
    <2>5. CASE CommitSwap(k) \/ RollBackSwap(k)
        BY <2>5, SwapEnds
    <2>6. CASE CreateAd(k)
        BY <2>6, AdMade
    <2>7. CASE ReadAd(k)
        BY <2>7, AdRead
    <2>8. CASE PayView(k)
        BY <2>8, ViewPaid
    <2> QED BY <1>1, <2>1, <2>2, <2>4, <2>5, <2>6, <2>7, <2>8 DEF PartnerStep
<1>2. CASE Postback \/ PtcCallback \/ UNCHANGED partnerVars
    BY <1>2, PartnersAside
<1>3. CASE PartnerRestart
    BY <1>3, PartnersRestarted
<1> QED BY <1>1, <1>2, <1>3 DEF PartnerNext

LEMMA PartnersInvSafe == ASSUME PartnersInv PROVE PartnersSafe
<1>0. PartnerTypeOK /\ ViewsOnRecord /\ LonePartner /\ EngineFollowsPartners
    BY DEF PartnersInv, PartnersTyped
<1>1. NotOverdrawn
    BY <1>0 DEF LonePartner, NotOverdrawn, Solvent
<1>2. ViewsPaidOnce
    <2>1. \A v \in Viewers : paidViews[v] <= 1
        BY <1>0 DEF ViewsOnRecord
    <2> QED BY <1>0, <2>1 DEF LonePartner, ViewsPaidOnce
<1> QED BY <1>0, <1>1, <1>2 DEF PartnersSafe

(* PartnersSafe for any viewers, requests, rates and amounts, negative ones  *)
(* among them: a viewer is paid once, the engine follows the column up to    *)
(* swaps under way unless one was rolled back, and no lone request overdraws *)
(* a balance, but a swap of a negative amount the one it does not look at.   *)
THEOREM PartnersHold == PartnerSpec => []PartnersSafe
<1>1. PartnerInit => PartnersInv
    BY PartnersStart
<1>2. PartnersInv /\ [PartnerNext]_partnerVars => PartnersInv'
    BY PartnersSteps
<1>3. PartnersInv => PartnersSafe
    BY PartnersInvSafe
<1> QED BY <1>1, <1>2, <1>3, PTL DEF PartnerSpec
-----------------------------------------------------------------------------
(* The composition: one part in each behaviour, offers either all sold, for  *)
(* buyers to race for, or bought by users whose purchases do not overlap.    *)

saleVars == <<vars, shopVars, partnerVars, accountVars, focus>>

Racing == focus = "stock"

(* Whatever is being bought is paid for.                                     *)
Priced ==
    /\ \A o \in Offers : offer[o].exists => offer[o].price > 0
    /\ \A b \in Buyers : buy[b].pc # "idle" => buy[b].price > 0

OneOrOther ==
    /\ TypeInv
    /\ Racing => Priced
    /\ ~Racing => AloneInv /\ SoleBuyer

LEMMA SaleSteps ==
    ASSUME [MCNext]_saleVars
    PROVE  /\ Racing' <=> Racing
           /\ [Next]_vars /\ [AccountNext]_accountVars
           /\ Racing => [StockNext]_vars
           /\ ~Racing => [AloneNext]_vars
<1>1. (StockNext => Next) /\ (AloneNext => Next)
    BY DEF StockNext, AloneNext, Next
<1>2. CASE UNCHANGED saleVars
    BY <1>2 DEF saleVars, Racing
<1>3. CASE MCNext
    BY <1>1, <1>3 DEF MCNext, Racing
<1> QED BY <1>2, <1>3

LEMMA PricedStays == ASSUME TypeInv, Priced, [StockNext]_vars PROVE Priced'
<1>1. CASE UNCHANGED vars
    BY <1>1 DEF vars, Priced
<1>2. CASE StockNext
    <2>1. /\ Next /\ \A o \in Offers : offer'[o].exists => offer'[o].price > 0
          /\ buy \in [Buyers -> Purchase]
        BY <1>2 DEF StockNext, TypeInv, TypeOK
    <2>2. SUFFICES ASSUME NEW b \in Buyers, buy'[b].pc # "idle" PROVE buy'[b].price > 0
        BY <2>1 DEF Priced
    <2>3. CASE buy'[b] = buy[b]
        BY <2>2, <2>3 DEF Priced
    <2>4. ASSUME NEW c \in Buyers, BuyStep(c) PROVE buy'[b].price > 0
        <3>1. CASE c # b
            BY <2>3, <2>4, <3>1, OthersBuyOn
        <3>2. ASSUME NEW u \in Users, NEW o \in Offers, NEW quantity \in Quantities, Buy(b, u, o, quantity)
              PROVE  buy'[b].price > 0
            BY <2>1, <3>2 DEF Buy, Priced
        <3>3. ASSUME NEW ok, NEW pc, Advance(b, ok, pc) PROVE buy'[b].pc = "idle" \/ buy'[b].price = buy[b].price
            BY <2>1, <3>3 DEF Advance, IdleBuy, Purchase
        <3>4. ASSUME CheckClaims(b) \/ CheckFunds(b) \/ ReadStock(b) \/ Claim(b) \/ Retry(b) \/ Tell(b) \/ BuyThrows(b)
              PROVE  buy[b].pc # "idle" /\ (buy'[b].pc = "idle" \/ buy'[b].price = buy[b].price)
            <4>1. CASE CheckClaims(b) \/ CheckFunds(b) \/ Claim(b)
                BY <3>3, <4>1 DEF CheckClaims, CheckFunds, Claim
            <4>2. CASE ReadStock(b)
                BY <2>1, <4>2 DEF ReadStock, IdleBuy, Purchase
            <4>3. CASE Retry(b)
                BY <2>1, <4>3 DEF Retry, Purchase
            <4>4. CASE Tell(b) \/ BuyThrows(b)
                BY <2>1, <4>4 DEF Tell, BuyThrows, IdleBuy
            <4> QED BY <3>4, <4>1, <4>2, <4>3, <4>4
        <3>5. CASE c = b
            BY <2>2, <2>4, <3>2, <3>4, <3>5 DEF BuyStep, Priced
        <3> QED BY <3>1, <3>5
    <2> QED BY <2>1, <2>3, <2>4, NothingBought DEF Next
<1> QED BY <1>1, <1>2

LEMMA OneOrOtherStarts == MCInit => OneOrOther
<1> SUFFICES ASSUME MCInit PROVE OneOrOther
    OBVIOUS
<1>1. Init
    BY DEF MCInit
<1>2. AloneInv
    BY <1>1, AloneStarts
<1>3. Priced /\ SoleBuyer
    BY <1>1 DEF Init, Priced, SoleBuyer, IdleBuy, NoOffer
<1> QED BY <1>2, <1>3 DEF OneOrOther, AloneInv

LEMMA OneOrOtherStays == ASSUME OneOrOther, [MCNext]_saleVars PROVE OneOrOther'
<1>1. TypeInv'
    BY SaleSteps, NextTyped DEF OneOrOther
<1>2. CASE Racing
    BY <1>1, <1>2, SaleSteps, PricedStays DEF OneOrOther
<1>3. CASE ~Racing
    <2>1. AloneInv /\ SoleBuyer /\ [AloneNext]_vars /\ [Next]_vars /\ ~Racing'
        BY <1>3, SaleSteps DEF OneOrOther
    <2>2. SoleBuyer'
        <3>1. CASE AloneNext
            BY <3>1 DEF AloneNext, AtMostOne, SoleBuyer
        <3>2. CASE UNCHANGED vars
            BY <2>1, <3>2 DEF vars, SoleBuyer
        <3> QED BY <2>1, <3>1, <3>2
    <2> QED BY <1>1, <2>1, <2>2, AloneSteps DEF OneOrOther
<1> QED BY <1>2, <1>3

(* No step of the composition claims beyond the limit of an offer, pays with *)
(* money that is not there where purchases do not overlap, or replaces a     *)
(* password by one who neither gave it nor reset it, for any users, offers,  *)
(* prices and limits.                                                        *)
THEOREM SalesKeepRules == MCSpec => SalesSteps
<1> DEFINE Step == \A u \in Users, o \in Offers :
                     purchases'[u][o] > purchases[u][o] =>
                       \E b \in Buyers :
                         /\ buy[b].pc = "swap" /\ buy'[b].pc # "swap"
                         /\ buy[b].user = u /\ buy[b].offer = o
                         /\ buy[b].price > 0 \/ buy[b].limit = 0 \/ purchases'[u][o] <= buy[b].limit
<1>1. MCInit => OneOrOther /\ AccountInit
    BY OneOrOtherStarts DEF MCInit
<1>2. OneOrOther /\ [MCNext]_saleVars => OneOrOther' /\ [AccountNext]_accountVars
    BY OneOrOtherStays, SaleSteps
<1>3. OneOrOther => AloneNeverOverdrawn
    BY DEF OneOrOther, AloneInv, AloneNeverOverdrawn, Racing
<1>4. OneOrOther /\ [MCNext]_saleVars => [Step]_vars
    <2> SUFFICES ASSUME OneOrOther, [MCNext]_saleVars, NEW u \in Users, NEW o \in Offers, purchases'[u][o] > purchases[u][o]
                 PROVE  \E b \in Buyers :
                          /\ buy[b].pc = "swap" /\ buy'[b].pc # "swap"
                          /\ buy[b].user = u /\ buy[b].offer = o
                          /\ buy[b].price > 0 \/ buy[b].limit = 0 \/ purchases'[u][o] <= buy[b].limit
        OBVIOUS
    <2>1. [Next]_vars /\ TypeInv
        BY SaleSteps DEF OneOrOther
    <2>2. CASE ~Racing
        BY <2>1, <2>2, ClaimsAreWithin DEF OneOrOther
    <2>3. CASE Racing
        <3>1. \A b \in Buyers : buy[b].pc = "swap" => buy[b].price > 0
            BY <2>3 DEF OneOrOther, Priced
        <3> QED BY <2>1, <3>1, ClaimsAreBought
    <2> QED BY <2>2, <2>3
<1>5. ClaimsWithinLimit <=> [][Step]_vars
    BY DEF ClaimsWithinLimit
<1>6. MCSpec => MCInit /\ [][MCNext]_saleVars
    BY DEF MCSpec, saleVars
<1> HIDE DEF Step
<1>7. MCSpec => []AloneNeverOverdrawn /\ [][Step]_vars
    BY <1>1, <1>2, <1>3, <1>4, <1>6, PTL
<1>8. MCSpec => AccountSpec
    BY <1>1, <1>2, <1>6, PTL DEF AccountSpec
<1> QED BY <1>5, <1>7, <1>8, PasswordsStay, PTL DEF SalesSteps
=============================================================================
