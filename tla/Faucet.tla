------------------------------- MODULE Faucet -------------------------------
(***************************************************************************)
(* The faucet of one user (no statement reads another user's rows): a      *)
(* visit to the partner's page, a wait, and a claim that the cooldown      *)
(* admits.  The status and the claim both read the user's row, may reset   *)
(* its daily count in a second statement, and go on with what they read;   *)
(* a claim takes the time at its beginning.                                *)
(***************************************************************************)
EXTENDS Integers, FiniteSets

CONSTANTS
    FaucetCalls,   \* status and claim requests in flight together
    Cooldown,      \* cooldownMs of the reward
    PartnerWait,   \* FAUCET_PARTNER_WAIT_MS
    DayLength,     \* between two changes of the Brazil date
    MaxFaucetTime, \* bound on the clock
    MaxFaucetAsks  \* bound on the requests

ASSUME FaucetAssumption ==
    /\ Cooldown \in Nat \ {0} /\ PartnerWait \in Nat /\ DayLength \in Nat \ {0}
    /\ MaxFaucetTime \in Nat \ {0} /\ MaxFaucetAsks \in Nat

VARIABLES
    faucetTime,
    faucetRow,    \* faucet_claims: of the user
    visits,       \* faucet_partner_visits: when the visit of each day was opened, 0: never
    faucetCall,
    grants,       \* history: when each claim that was granted was made, for which visit, on which day
    faucetCrossed,\* history: two requests were in flight together
    rewardOn,     \* an active faucet reward exists
    faucetAsks

faucetVars == <<faucetTime, faucetRow, visits, faucetCall, grants, faucetCrossed, rewardOn, faucetAsks>>

NoRow == [exists |-> FALSE, claimedAt |-> 0, total |-> 0, day |-> 0]
FaucetIdle == [pc |-> "idle", claims |-> FALSE, now |-> 0, row |-> NoRow, day |-> 0, visit |-> 0]
DayOf(t) == t \div DayLength
FaucetDays == 0 .. DayOf(MaxFaucetTime)

\* The clock starts at one: a time of zero stands for "never".
FaucetInit ==
    /\ faucetTime = 1
    /\ faucetRow = NoRow
    /\ visits = [d \in FaucetDays |-> 0]
    /\ faucetCall = [k \in FaucetCalls |-> FaucetIdle]
    /\ grants = {}
    /\ faucetCrossed = FALSE
    /\ rewardOn = TRUE
    /\ faucetAsks = 0

FaucetTick ==
    /\ faucetTime < MaxFaucetTime
    /\ faucetTime' = faucetTime + 1
    /\ UNCHANGED <<faucetRow, visits, faucetCall, grants, faucetCrossed, rewardOn, faucetAsks>>

\* An administrator switches the reward on or off in the database.
SwitchReward ==
    /\ rewardOn' = ~rewardOn
    /\ UNCHANGED <<faucetTime, faucetRow, visits, faucetCall, grants, faucetCrossed, faucetAsks>>

StartPartnerVisit ==
    /\ visits' = [visits EXCEPT ![DayOf(faucetTime)] = faucetTime]
    /\ UNCHANGED <<faucetTime, faucetRow, faucetCall, grants, faucetCrossed, rewardOn, faucetAsks>>

\* A request begins; only a claim looks at the clock now.
AskFaucet(k, claims) ==
    /\ faucetCall[k].pc = "idle"
    /\ faucetAsks < MaxFaucetAsks
    /\ faucetAsks' = faucetAsks + 1
    /\ faucetCall' = [faucetCall EXCEPT ![k] = [FaucetIdle EXCEPT !.pc = "read", !.claims = claims,
                                                                  !.now = IF claims THEN faucetTime ELSE 0]]
    /\ faucetCrossed' = (faucetCrossed \/ \E other \in FaucetCalls : faucetCall[other].pc # "idle")
    /\ UNCHANGED <<faucetTime, faucetRow, visits, grants, rewardOn>>

\* The row, and the reward, without which the request ends.
ReadFaucetRow(k) ==
    /\ faucetCall[k].pc = "read"
    /\ faucetCall' = [faucetCall EXCEPT ![k] =
                        IF rewardOn THEN [@ EXCEPT !.pc = "normalize", !.row = faucetRow] ELSE FaucetIdle]
    /\ UNCHANGED <<faucetTime, faucetRow, visits, grants, faucetCrossed, rewardOn, faucetAsks>>

\* buildStatusPayload: available
CooledDown(k, row) == row.claimedAt = 0 \/ faucetCall[k].now >= row.claimedAt + Cooldown

AfterNormalize(k, row, day) ==
    IF faucetCall[k].claims /\ CooledDown(k, row)
      THEN [faucetCall[k] EXCEPT !.pc = "visit", !.row = row, !.day = day]
      ELSE FaucetIdle

\* normalizeFaucetRecord resets the row of another day, whatever it is by now, and goes
\* on with the row it wrote; then the cooldown is judged.
Normalize(k) ==
    LET read == faucetCall[k].row
        today == DayOf(faucetTime)
        stale == read.exists /\ read.day # today
    IN  /\ faucetCall[k].pc = "normalize"
        /\ faucetRow' = IF stale THEN [faucetRow EXCEPT !.total = 0, !.day = today] ELSE faucetRow
        /\ faucetCall' = [faucetCall EXCEPT ![k] =
                            AfterNormalize(k, IF stale THEN faucetRow' ELSE read, today)]
        /\ UNCHANGED <<faucetTime, visits, grants, faucetCrossed, rewardOn, faucetAsks>>

VisitedAtAll(k) == visits[faucetCall[k].day] # 0
\* partnerReady: a visit opened after the last claim, that had lasted long enough when the claim began.
PartnerReady(k) ==
    LET opened == visits[faucetCall[k].day]
    IN  /\ opened > 0
        /\ opened > faucetCall[k].row.claimedAt
        /\ opened + PartnerWait <= faucetCall[k].now

ReadVisit(k) ==
    /\ faucetCall[k].pc = "visit"
    /\ faucetCall' = [faucetCall EXCEPT ![k] =
                        IF PartnerReady(k) THEN [@ EXCEPT !.pc = "grant", !.visit = visits[faucetCall[k].day]]
                                           ELSE FaucetIdle]
    /\ UNCHANGED <<faucetTime, faucetRow, visits, grants, faucetCrossed, rewardOn, faucetAsks>>

\* The transaction: a machine for a day, and the row.
Grant(k) ==
    LET c == faucetCall[k]
    IN  /\ c.pc = "grant"
        /\ faucetRow' = [exists |-> TRUE, claimedAt |-> c.now, total |-> faucetRow.total + 1, day |-> c.day]
        /\ grants' = grants \cup {[at |-> c.now, visit |-> c.visit, day |-> c.day]}
        /\ faucetCall' = [faucetCall EXCEPT ![k] = FaucetIdle]
        /\ UNCHANGED <<faucetTime, visits, faucetCrossed, rewardOn, faucetAsks>>

\* A statement throws, or the process stops: nothing of the request is left.
FaucetThrows(k) ==
    /\ faucetCall[k].pc # "idle"
    /\ faucetCall' = [faucetCall EXCEPT ![k] = FaucetIdle]
    /\ UNCHANGED <<faucetTime, faucetRow, visits, grants, faucetCrossed, rewardOn, faucetAsks>>

FaucetStep(k) ==
    \/ \E claims \in BOOLEAN : AskFaucet(k, claims)
    \/ ReadFaucetRow(k) \/ Normalize(k) \/ ReadVisit(k) \/ Grant(k)
    \/ FaucetThrows(k)

FaucetNext ==
    \/ FaucetTick \/ SwitchReward \/ StartPartnerVisit
    \/ \E k \in FaucetCalls : FaucetStep(k)

FaucetSpec == FaucetInit /\ [][FaucetNext]_faucetVars

-----------------------------------------------------------------------------
FaucetRows == [exists : BOOLEAN, claimedAt : Nat, total : Nat, day : Nat]

(* The row, the visits and the requests hold values of their kind.          *)
FaucetTypeOK ==
    /\ faucetTime \in Nat
    /\ faucetRow \in FaucetRows
    /\ visits \in [FaucetDays -> Nat]
    /\ faucetCall \in [FaucetCalls -> [pc : {"idle", "read", "normalize", "visit", "grant"},
                                       claims : BOOLEAN, now : Nat, row : FaucetRows, day : Nat, visit : Nat]]
    /\ grants \in SUBSET [at : Nat, visit : Nat, day : Nat]
    /\ faucetCrossed \in BOOLEAN
    /\ rewardOn \in BOOLEAN
    /\ faucetAsks \in Nat

(* Two claims that were granted lie a cooldown apart, each after a visit of *)
(* its own, unless two requests were in flight together (a claim that reads *)
(* before another writes passes the same visit, and may write its earlier   *)
(* time over the later).                                                    *)
ClaimsApart ==
    \A g \in grants : \A h \in grants \ {g} :
        \/ g.at >= h.at + Cooldown /\ g.visit > h.at
        \/ h.at >= g.at + Cooldown /\ h.visit > g.at
        \/ faucetCrossed

(* The daily count is the number of claims granted under the row's day,     *)
(* unless two requests were in flight together.                             *)
FaucetCountsToday == ~faucetCrossed =>
        faucetRow.total = Cardinality({g \in grants : g.day = faucetRow.day})

(* A claim is granted only after a visit that lasted the partner's wait,    *)
(* whatever overlaps it.                                                    *)
VisitedLongEnough == \A g \in grants : g.visit > 0 /\ g.visit + PartnerWait <= g.at

(* Claims are a cooldown apart and counted for their own day, each after a  *)
(* visit that lasted long enough, unless requests overlapped.               *)
FaucetSafe ==
    /\ FaucetTypeOK /\ ClaimsApart /\ FaucetCountsToday /\ VisitedLongEnough
=============================================================================
