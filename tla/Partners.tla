------------------------------ MODULE Partners ------------------------------
(***************************************************************************)
(* One user's two balances of money and what moves it: swaps from one to   *)
(* the other, and ads that are bought and pay per view.  Transactions run  *)
(* under READ COMMITTED: what one read may have changed when it writes,    *)
(* increments apply to what is there.  A swap also passes what it does to  *)
(* the mining engine's copy of the POL balance.  The reports of two        *)
(* partners, an offerwall and an ad network, change nothing: the handlers  *)
(* ask for a table and a field that the schema has not.                    *)
(***************************************************************************)
EXTENDS Integers, FiniteSets, FiniteSetsExt

CONSTANTS
    Viewers,      \* viewer hashes
    PartnerCalls, \* requests in flight together
    SwapAmounts,  \* amounts a swap may be asked for: the route takes any number
    AdCost, ViewReward, TargetViews,
    Rates,        \* prices of POL the exchange may quote, 1 is the fallback
    StartMoney,
    MaxPartnerAsks \* bound on the requests

ASSUME PartnerAssumption ==
    /\ IsFiniteSet(PartnerCalls)
    /\ {AdCost, ViewReward, TargetViews} \subseteq Nat
    /\ SwapAmounts \subseteq Int /\ Rates \subseteq Nat \ {0}
    /\ StartMoney \in Nat /\ MaxPartnerAsks \in Nat

VARIABLES
    pol, usdc,    \* the columns
    enginePol,    \* the engine's copy
    ad,           \* the user's ad
    viewed,       \* ptp_views: viewers that have one
    partnerCall,
    paidViews,    \* history: views each viewer was paid for
    backwards,    \* history: a swap of a negative amount took from the balance it was to fill
    swapLost,     \* history: a swap was rolled back after the engine was told
    partnersCrossed, \* history: two requests were in flight together
    partnerAsks

partnerVars == <<pol, usdc, enginePol, ad, viewed, partnerCall, paidViews, backwards, swapLost,
                 partnersCrossed, partnerAsks>>
moneyVars == <<pol, usdc, enginePol>>
historyVars == <<paidViews, backwards, swapLost>>
asked == <<partnersCrossed, partnerAsks>>

NoPartner == [pc |-> "idle", amount |-> 0, rate |-> 1, from |-> "POL", viewer |-> "none", views |-> 0]

PartnerInit ==
    /\ pol = StartMoney /\ usdc = StartMoney /\ enginePol = StartMoney
    /\ ad = [status |-> "none", views |-> 0]
    /\ viewed = {}
    /\ partnerCall = [k \in PartnerCalls |-> NoPartner]
    /\ paidViews = [v \in Viewers |-> 0]
    /\ backwards = FALSE /\ swapLost = FALSE /\ partnersCrossed = FALSE
    /\ partnerAsks = 0

CountAsk == partnerAsks < MaxPartnerAsks /\ partnerAsks' = partnerAsks + 1

AskPartner(k, call) ==
    /\ partnerCall[k].pc = "idle"
    /\ CountAsk
    /\ partnersCrossed' = (partnersCrossed \/ \E other \in PartnerCalls : partnerCall[other].pc # "idle")
    /\ partnerCall' = [partnerCall EXCEPT ![k] = call]
    /\ UNCHANGED <<moneyVars, ad, viewed, historyVars>>

Goes(k, call) ==
    /\ partnerCall' = [partnerCall EXCEPT ![k] = call]
    /\ UNCHANGED asked

-----------------------------------------------------------------------------
(* The partners' reports                                                    *)

\* offerwallMePostback: every report that is more than a test is looked up in a table that
\* the schema does not define; the transaction throws before it writes anything.
Postback ==
    /\ CountAsk
    /\ UNCHANGED <<moneyVars, ad, viewed, partnerCall, historyVars, partnersCrossed>>

\* handlePtcCallback: the audit row of its transaction is given a field that its table has
\* not, so the insertion throws and the credit is undone.
PtcCallback ==
    /\ CountAsk
    /\ UNCHANGED <<moneyVars, ad, viewed, partnerCall, historyVars, partnersCrossed>>

-----------------------------------------------------------------------------
(* executeSwap                                                              *)

\* Nothing asks that the amount be positive: of less than zero, a swap runs backwards.
AskSwap(k, from, amount, rate) ==
    AskPartner(k, [NoPartner EXCEPT !.pc = "swap", !.from = from, !.amount = amount, !.rate = rate])

EnoughOfTheOther(c) == IF c.from = "POL" THEN usdc >= c.amount ELSE pol >= c.amount
Enough(c) == IF c.from = "POL" THEN pol >= c.amount ELSE usdc >= c.amount

ReadBalance(k) ==
    LET c == partnerCall[k]
    IN  /\ c.pc = "swap"
        /\ Goes(k, IF Enough(c) THEN [c EXCEPT !.pc = "update"] ELSE NoPartner)
        /\ UNCHANGED <<moneyVars, ad, viewed, historyVars>>

Output(c) == IF c.from = "POL" THEN c.amount * c.rate ELSE c.amount \div c.rate
PolDelta(c) == IF c.from = "POL" THEN -c.amount ELSE Output(c)
UsdcDelta(c) == IF c.from = "POL" THEN Output(c) ELSE -c.amount

\* The engine is told before the transaction commits.
TellSwap(k) ==
    /\ partnerCall[k].pc = "update"
    /\ enginePol' = enginePol + PolDelta(partnerCall[k])
    /\ Goes(k, [partnerCall[k] EXCEPT !.pc = "commit"])
    /\ UNCHANGED <<pol, usdc, ad, viewed, historyVars>>

CommitSwap(k) ==
    LET c == partnerCall[k]
    IN  /\ c.pc = "commit"
        /\ pol' = pol + PolDelta(c)
        /\ usdc' = usdc + UsdcDelta(c)
        /\ backwards' = (backwards \/ c.amount < 0)
        /\ Goes(k, NoPartner)
        /\ UNCHANGED <<enginePol, ad, viewed, paidViews, swapLost>>

\* The audit log or the commit fails: the columns are as before, the engine is not.
RollBackSwap(k) ==
    /\ partnerCall[k].pc = "commit"
    /\ swapLost' = TRUE
    /\ Goes(k, NoPartner)
    /\ UNCHANGED <<moneyVars, ad, viewed, paidViews, backwards>>

-----------------------------------------------------------------------------
(* createAd and trackView                                                   *)

AskAd(k) == ad.status = "none" /\ AskPartner(k, [NoPartner EXCEPT !.pc = "ad"])

ReadForAd(k) ==
    /\ partnerCall[k].pc = "ad"
    /\ Goes(k, IF usdc >= AdCost THEN [partnerCall[k] EXCEPT !.pc = "create"] ELSE NoPartner)
    /\ UNCHANGED <<moneyVars, ad, viewed, historyVars>>

CreateAd(k) ==
    /\ partnerCall[k].pc = "create"
    /\ usdc' = usdc - AdCost
    /\ ad' = IF ad.status = "none" THEN [status |-> "active", views |-> 0] ELSE ad \* else: another row
    /\ Goes(k, NoPartner)
    /\ UNCHANGED <<pol, enginePol, viewed, historyVars>>

AskView(k, v) == ad.status # "none" /\ AskPartner(k, [NoPartner EXCEPT !.pc = "view", !.viewer = v])

\* The ad, which is only marked when it has its views already.
ReadAd(k) ==
    LET c == partnerCall[k]
        full == ad.views >= TargetViews
    IN  /\ c.pc = "view"
        /\ ad' = IF ad.status = "active" /\ full THEN [ad EXCEPT !.status = "completed"] ELSE ad
        /\ Goes(k, IF ad.status = "active" /\ ~full THEN [c EXCEPT !.pc = "seen", !.views = ad.views]
                                                    ELSE NoPartner)
        /\ UNCHANGED <<moneyVars, viewed, historyVars>>

ReadViews(k) ==
    /\ partnerCall[k].pc = "seen"
    /\ Goes(k, IF partnerCall[k].viewer \in viewed THEN NoPartner ELSE [partnerCall[k] EXCEPT !.pc = "pay"])
    /\ UNCHANGED <<moneyVars, ad, viewed, historyVars>>

\* One view per ad and viewer is unique: a second insertion throws.  The ad's count is the one read.
PayView(k) ==
    LET c == partnerCall[k]
    IN  /\ c.pc = "pay"
        /\ c.viewer \notin viewed
        /\ ad' = [views |-> c.views + 1, status |-> IF c.views + 1 >= TargetViews THEN "completed" ELSE "active"]
        /\ viewed' = viewed \cup {c.viewer}
        /\ paidViews' = [paidViews EXCEPT ![c.viewer] = @ + 1]
        /\ usdc' = usdc + ViewReward
        /\ Goes(k, NoPartner)
        /\ UNCHANGED <<pol, enginePol, backwards, swapLost>>

\* Anything before a commit may throw.
PartnerThrows(k) ==
    /\ partnerCall[k].pc \notin {"idle", "commit"}
    /\ Goes(k, NoPartner)
    /\ UNCHANGED <<moneyVars, ad, viewed, historyVars>>

\* The engine loads the column when the process starts again.
PartnerRestart ==
    /\ enginePol' = pol
    /\ swapLost' = FALSE
    /\ partnerCall' = [k \in PartnerCalls |-> NoPartner]
    /\ UNCHANGED <<pol, usdc, ad, viewed, paidViews, backwards, asked>>

PartnerStep(k) ==
    \/ \E from \in {"POL", "USDC"}, amount \in SwapAmounts, rate \in Rates : AskSwap(k, from, amount, rate)
    \/ AskAd(k) \/ \E v \in Viewers : AskView(k, v)
    \/ ReadBalance(k) \/ TellSwap(k) \/ CommitSwap(k) \/ RollBackSwap(k)
    \/ ReadForAd(k) \/ CreateAd(k) \/ ReadAd(k) \/ ReadViews(k) \/ PayView(k)
    \/ PartnerThrows(k)

PartnerNext ==
    \/ Postback \/ PtcCallback \/ PartnerRestart
    \/ \E k \in PartnerCalls : PartnerStep(k)

PartnerSpec == PartnerInit /\ [][PartnerNext]_partnerVars

-----------------------------------------------------------------------------
(* Columns, rows and requests hold values of their kind.                    *)
PartnerTypeOK ==
    /\ pol \in Int /\ usdc \in Int /\ enginePol \in Int /\ partnerAsks \in Nat
    /\ ad \in [status : {"none", "active", "completed"}, views : Nat]
    /\ viewed \in SUBSET Viewers
    /\ partnerCall \in [PartnerCalls ->
          [pc : {"idle", "swap", "update", "commit", "ad", "create", "view", "seen", "pay"},
           amount : Int, rate : Nat, from : {"POL", "USDC"}, viewer : Viewers \cup {"none"}, views : Nat]]
    /\ paidViews \in [Viewers -> Nat]
    /\ backwards \in BOOLEAN /\ swapLost \in BOOLEAN /\ partnersCrossed \in BOOLEAN

\* What the engine has been told of swaps that have not committed.
Swapping == SumFunction([k \in PartnerCalls |-> IF partnerCall[k].pc = "commit"
                                                THEN PolDelta(partnerCall[k]) ELSE 0])

(* The engine's copy is the column, up to swaps it was told of that have    *)
(* yet to commit, however requests overlap, unless a swap was rolled back.  *)
EngineFollowsPartners == swapLost \/ enginePol = pol + Swapping

(* Unless requests were in flight together, a swap or an ad never takes     *)
(* more than there is; a swap of a negative amount takes from the balance   *)
(* that is not looked at, but never leaves both below zero.                 *)
NotOverdrawn ==
    partnersCrossed \/ /\ pol >= 0 \/ usdc >= 0
                       /\ backwards \/ (pol >= 0 /\ usdc >= 0)

(* A viewer is paid for once per ad, whatever is in flight, and an ad pays  *)
(* for the views it bought, unless views were in flight together.           *)
ViewsPaidOnce ==
    /\ \A v \in Viewers : paidViews[v] <= 1
    /\ partnersCrossed \/ Cardinality(viewed) <= TargetViews

(* A view is paid once, no balance is overdrawn by a swap of what one has   *)
(* and the engine follows the column, unless calls overlapped as each part  *)
(* says.                                                                    *)
PartnersSafe ==
    /\ PartnerTypeOK /\ EngineFollowsPartners /\ NotOverdrawn /\ ViewsPaidOnce
=============================================================================
