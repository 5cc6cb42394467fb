-------------------------------- MODULE Shop --------------------------------
(***************************************************************************)
(* The catalogue of machines, which administrators write, and the shop     *)
(* that sells from it.  A purchase reads the machine first, then in a      *)
(* transaction reads the balance, takes the price and adds the machines;   *)
(* after it the mining engine is told and the shopper notified.            *)
(***************************************************************************)
EXTENDS Integers, FiniteSets, FiniteSetsExt

CONSTANTS
    Shoppers, BuyCalls, \* users, and the purchases in flight together
    Wares, Slugs,
    WarePrices,             \* prices administrators set; 0 is not for sale
    MaxBulk,            \* SHOP_MAX_BULK_QUANTITY
    ShopFunds,              \* balance to start with
    MaxWareEdits, MaxPurchases \* bounds on the requests of each kind

ASSUME ShopAssumption ==
    /\ IsFiniteSet(BuyCalls)
    /\ WarePrices \subseteq Nat /\ {MaxBulk, ShopFunds, MaxWareEdits, MaxPurchases} \subseteq Nat

VARIABLES
    catalogue,   \* miners: slug, price and whether active and shown in the shop
    funds,       \* polBalance
    bought,      \* purchases whose machines are in the inventory
    engineTold,  \* what applyUserBalanceDelta took from each shopper's memory
    buying,
    wareEdits,
    onSale,      \* history: what was on sale since each purchase began
    competed     \* history: shoppers two of whose purchases overlapped

shopVars == <<catalogue, funds, bought, engineTold, buying, wareEdits, onSale, competed>>

NoWare == [slug |-> "", price |-> 0, shown |-> FALSE]
NoBuy == [pc |-> "idle", by |-> 0, ware |-> 0, price |-> 0, quantity |-> 0]

ForSale == {[ware |-> w, price |-> catalogue[w].price] : w \in {v \in Wares : catalogue[v].shown}}

ShopInit ==
    /\ catalogue = [w \in Wares |-> NoWare]
    /\ funds = [s \in Shoppers |-> ShopFunds]
    /\ bought = {} /\ engineTold = [s \in Shoppers |-> 0]
    /\ buying = [k \in BuyCalls |-> NoBuy]
    /\ wareEdits = 0
    /\ onSale = [k \in BuyCalls |-> {}] /\ competed = {}

-----------------------------------------------------------------------------
(* The administrators                                                       *)

\* parseMinerWriteBody, then one statement; the database keeps slugs apart.
WriteWare(w) ==
    /\ wareEdits < MaxWareEdits /\ wareEdits' = wareEdits + 1
    /\ \E slug \in Slugs, price \in WarePrices, shown \in BOOLEAN :
          /\ \A v \in Wares \ {w} : catalogue[v].slug # slug
          /\ catalogue' = [catalogue EXCEPT ![w] = [slug |-> slug, price |-> price, shown |-> shown]]
    /\ onSale' = [k \in BuyCalls |-> onSale[k] \cup ForSale']
    /\ UNCHANGED <<funds, bought, engineTold, buying, competed>>

CreateMiner(w) == catalogue[w] = NoWare /\ WriteWare(w)
UpdateMiner(w) == catalogue[w] # NoWare /\ WriteWare(w)

-----------------------------------------------------------------------------
(* purchaseMiner                                                            *)

BuyGoes(k, call) == buying' = [buying EXCEPT ![k] = call]

AskPurchase(k, s, w, n) ==
    /\ buying[k].pc = "idle"
    /\ Cardinality(bought) + Cardinality({j \in BuyCalls : buying[j].pc # "idle"}) < MaxPurchases
    /\ BuyGoes(k, [NoBuy EXCEPT !.pc = "read", !.by = s, !.ware = w, !.quantity = n])
    /\ onSale' = [onSale EXCEPT ![k] = ForSale]
    /\ competed' = competed \cup {buying[j].by : j \in {i \in BuyCalls : buying[i].pc # "idle" /\ buying[i].by = s}}
    /\ UNCHANGED <<catalogue, funds, bought, engineTold, wareEdits>>

getActiveMinerById(w) == catalogue[w].shown

\* Not listed, or without a price: answered 404 or 500.
ReadWare(k) ==
    /\ buying[k].pc = "read"
    /\ LET w == buying[k].ware
       IN  IF getActiveMinerById(w) /\ catalogue[w].price > 0
           THEN BuyGoes(k, [buying[k] EXCEPT !.pc = "check", !.price = catalogue[w].price])
           ELSE BuyGoes(k, NoBuy)
    /\ UNCHANGED <<catalogue, funds, bought, engineTold, wareEdits, onSale, competed>>

Bill(call) == call.price * call.quantity

CheckPriceOfOne(k) ==
    /\ buying[k].pc = "check"
    /\ BuyGoes(k, IF funds[buying[k].by] < buying[k].price THEN NoBuy ELSE [buying[k] EXCEPT !.pc = "take"])
    /\ UNCHANGED <<catalogue, funds, bought, engineTold, wareEdits, onSale, competed>>

\* The transaction's read: nothing locks the row until the update.
CheckBalance(k) ==
    /\ buying[k].pc = "check"
    /\ BuyGoes(k, IF funds[buying[k].by] < Bill(buying[k]) THEN NoBuy ELSE [buying[k] EXCEPT !.pc = "take"])
    /\ UNCHANGED <<catalogue, funds, bought, engineTold, wareEdits, onSale, competed>>

BoughtWare(k) ==
    [n |-> Cardinality(bought) + 1, by |-> buying[k].by, ware |-> buying[k].ware,
     price |-> buying[k].price, quantity |-> buying[k].quantity, in |-> onSale[k]]

\* The update and the createMany commit together.
Commit(k) ==
    /\ buying[k].pc = "take"
    /\ funds' = [funds EXCEPT ![buying[k].by] = @ - Bill(buying[k])]
    /\ bought' = bought \cup {BoughtWare(k)}
    /\ BuyGoes(k, [buying[k] EXCEPT !.pc = "tell"])
    /\ UNCHANGED <<catalogue, engineTold, wareEdits, onSale, competed>>

\* The transaction fails: nothing is kept.
RollBack(k) ==
    /\ buying[k].pc = "take"
    /\ BuyGoes(k, NoBuy)
    /\ UNCHANGED <<catalogue, funds, bought, engineTold, wareEdits, onSale, competed>>

TellPurchase(k) ==
    /\ buying[k].pc = "tell"
    /\ engineTold' = [engineTold EXCEPT ![buying[k].by] = @ + Bill(buying[k])]
    /\ BuyGoes(k, [buying[k] EXCEPT !.pc = "notify"])
    /\ UNCHANGED <<catalogue, funds, bought, wareEdits, onSale, competed>>

\* Answered 200, or 500 when the notification fails: bought all the same.
Notify(k) ==
    /\ buying[k].pc = "notify"
    /\ BuyGoes(k, NoBuy)
    /\ UNCHANGED <<catalogue, funds, bought, engineTold, wareEdits, onSale, competed>>

ShopNext ==
    \/ \E w \in Wares : CreateMiner(w) \/ UpdateMiner(w)
    \/ \E k \in BuyCalls :
          \/ \E s \in Shoppers, w \in Wares, n \in 1..MaxBulk : AskPurchase(k, s, w, n)
          \/ ReadWare(k) \/ CheckBalance(k) \/ Commit(k) \/ RollBack(k) \/ TellPurchase(k) \/ Notify(k)

ShopSpec == ShopInit /\ [][ShopNext]_shopVars

-----------------------------------------------------------------------------
Spent(s) ==
    LET theirs == {p \in bought : p.by = s} IN SumFunction([p \in theirs |-> p.price * p.quantity])
BeingTold(s) ==
    SumFunction([k \in BuyCalls |-> IF buying[k].pc = "tell" /\ buying[k].by = s THEN Bill(buying[k]) ELSE 0])

\* Rows, balances and calls are what they should be.
ShopTypeOK ==
    /\ catalogue \in [Wares -> [slug : Slugs \cup {""}, price : Nat, shown : BOOLEAN]]
    /\ funds \in [Shoppers -> Int] /\ engineTold \in [Shoppers -> Nat]
    /\ \A k \in BuyCalls : buying[k].pc # "idle" => buying[k].by \in Shoppers /\ buying[k].ware \in Wares
    /\ wareEdits \in Nat /\ competed \subseteq Shoppers

\* A machine is sold at a price at which the shop listed it at some moment of
\* the purchase, however the administrators change its row meanwhile.
SoldAsListed == \A p \in bought : [ware |-> p.ware, price |-> p.price] \in p.in

\* A balance goes below zero only when purchases of one shopper overlap: the
\* transaction reads it and takes the price without a lock.
OverdrawnByOverlap == \A s \in Shoppers : funds[s] < 0 => s \in competed

\* The balance is what it was, less the machines in the inventory.
PaidForMachines == \A s \in Shoppers : funds[s] + Spent(s) = ShopFunds

\* The engine has been told of every purchase but those about to tell it.
EngineToldOfPurchases == \A s \in Shoppers : engineTold[s] + BeingTold(s) = Spent(s)

(* A machine is sold as it was listed and paid for, a balance goes below    *)
(* zero only by purchases that overlapped, and the engine hears of every    *)
(* purchase.                                                                *)
ShopSafe ==
    /\ ShopTypeOK /\ SoldAsListed /\ OverdrawnByOverlap /\ PaidForMachines
    /\ EngineToldOfPurchases
=============================================================================
