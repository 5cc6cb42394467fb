------------------------------- MODULE CheckIn ------------------------------
(***************************************************************************)
(* The daily check-in: a row for each user and day, confirmed for free or  *)
(* by a payment that is looked up on chain.  A row may be evaluated at the *)
(* same time by the request that brought the payment, by requests for the  *)
(* status and by overlapping sweeps of the timer; each decides from the    *)
(* row it read and the chain it saw, and writes the row by its key later.  *)
(***************************************************************************)
EXTENDS Integers, FiniteSets

CONSTANTS
    CheckUsers,
    Payments,     \* transaction hashes as users write them
    ChainTxs,     \* transactions: the chain takes a hash in any case of its letters
    TxOf,         \* the transaction a hash stands for
    SentBy,       \* the wallet's owner a transaction really comes from
    Evaluators,   \* status requests and sweeps under way together
    CheckCalls,   \* claimCheckin and confirmCheckin requests in flight together
    MaxDay,       \* bound on the days
    Window,       \* days a pending row is looked at by the sweep: 72 hours
    MaxCheckAsks  \* bound on requests and sweeps

ASSUME CheckAssumption ==
    /\ MaxDay \in Nat \ {0} /\ Window \in Nat /\ MaxCheckAsks \in Nat
    /\ TxOf \in [Payments -> ChainTxs]
    /\ SentBy \in [ChainTxs -> CheckUsers]
    /\ "none" \notin Payments /\ "free" \notin Payments

VARIABLES
    today,       \* getBrazilCheckinDateKey
    checkin,     \* daily_checkins, unique by user and day
    payChain,    \* what the chain shows of each transaction
    evaluator,
    checkCall,
    evidence,    \* history: rows confirmed by each hash
    staleRows,   \* history: rows written by someone who had read them otherwise
    checkAsks

checkVars == <<today, checkin, payChain, evaluator, checkCall, evidence, staleRows, checkAsks>>

Days == 1 .. MaxDay
Keys == CheckUsers \X Days
NoCheckin == [status |-> "absent", hash |-> "none"]
FreeDay == [status |-> "confirmed", hash |-> "free"]  \* syntheticFreeTxHash: of no other row
AtRest == [pc |-> "idle", rows |-> {}, key |-> <<>>, hash |-> "none"]
NoCall == [pc |-> "idle", key |-> <<>>, hash |-> "none", read |-> NoCheckin, verdict |-> "pending"]

CheckInit ==
    /\ today = 1
    /\ checkin = [key \in Keys |-> NoCheckin]
    /\ payChain = [t \in ChainTxs |-> "unseen"]
    /\ evaluator = [e \in Evaluators |-> AtRest]
    /\ checkCall = [k \in CheckCalls |-> NoCall]
    /\ evidence = [h \in Payments |-> {}]
    /\ staleRows = {}
    /\ checkAsks = 0

NextDay ==
    /\ today < MaxDay
    /\ today' = today + 1
    /\ UNCHANGED <<checkin, payChain, evaluator, checkCall, evidence, staleRows, checkAsks>>

ChainMoves(t) ==
    /\ \/ payChain[t] = "unseen" /\ payChain' = [payChain EXCEPT ![t] = "seen"]
       \/ payChain[t] = "seen" /\ \E end \in {"succeeded", "reverted"} : payChain' = [payChain EXCEPT ![t] = end]
    /\ UNCHANGED <<today, checkin, evaluator, checkCall, evidence, staleRows, checkAsks>>

\* evaluateCheckinTx: the transaction, then its receipt.
Verdict(u, h) ==
    IF payChain[TxOf[h]] = "unseen" THEN "pending"
    ELSE IF SentBy[TxOf[h]] # u \/ payChain[TxOf[h]] = "reverted" THEN "failed"
    ELSE IF payChain[TxOf[h]] = "seen" THEN "pending"
    ELSE "confirmed"

\* A row is written by one who read it as `read`.
Writes(key, row, read, by) ==
    /\ checkin' = [checkin EXCEPT ![key] = row]
    /\ staleRows' = IF checkin[key] = read THEN staleRows ELSE staleRows \cup {key}
    /\ evidence' = IF row.status = "confirmed" /\ by \in Payments
                     THEN [evidence EXCEPT ![by] = @ \cup {key}] ELSE evidence

-----------------------------------------------------------------------------
(* tryFinalizeCheckinRow, for today's row or for all recent pending rows.   *)

PendingRows(keys) ==
    {[key |-> key, hash |-> checkin[key].hash] : key \in {k \in keys : checkin[k].status = "pending"}}

Begins(e, keys) ==
    /\ evaluator[e].pc = "idle"
    /\ checkAsks < MaxCheckAsks
    /\ PendingRows(keys) # {}
    /\ checkAsks' = checkAsks + 1
    /\ evaluator' = [evaluator EXCEPT ![e] = [AtRest EXCEPT !.pc = "evaluate", !.rows = PendingRows(keys)]]
    /\ UNCHANGED <<today, checkin, payChain, checkCall, evidence, staleRows>>

StatusAsked(e, u) == Begins(e, {<<u, today>>})
SweepPending(e) == Begins(e, {key \in Keys : key[2] + Window >= today})

\* The next row of the batch, the oldest first: an answer "pending", or an error,
\* leaves it alone.
EvaluateRow(e) ==
    LET rows == evaluator[e].rows
    IN  /\ evaluator[e].pc = "evaluate"
        /\ \E r \in rows, error \in BOOLEAN :
             LET verdict == IF error THEN "pending" ELSE Verdict(r.key[1], r.hash)
             IN  /\ \A s \in rows : r.key[2] <= s.key[2]
                 /\ evaluator' = [evaluator EXCEPT ![e] =
                      IF verdict # "pending" THEN [pc |-> verdict, rows |-> rows \ {r}, key |-> r.key, hash |-> r.hash]
                      ELSE IF rows = {r} THEN AtRest
                      ELSE [@ EXCEPT !.rows = rows \ {r}]]
        /\ UNCHANGED <<today, checkin, payChain, checkCall, evidence, staleRows, checkAsks>>

\* The row is written by its id; its hash stays what it is by now.
WriteVerdict(e) ==
    LET v == evaluator[e]
    IN  /\ v.pc \in {"confirmed", "failed"}
        /\ Writes(v.key, [checkin[v.key] EXCEPT !.status = v.pc], [status |-> "pending", hash |-> v.hash], v.hash)
        /\ evaluator' = [evaluator EXCEPT ![e] =
              IF v.rows = {} THEN AtRest ELSE [AtRest EXCEPT !.pc = "evaluate", !.rows = v.rows]]
        /\ UNCHANGED <<today, payChain, checkCall, checkAsks>>

-----------------------------------------------------------------------------
(* claimCheckin and confirmCheckin                                          *)

AskCheckIn(k, u, pc, h) ==
    /\ checkCall[k].pc = "idle"
    /\ checkAsks < MaxCheckAsks
    /\ checkAsks' = checkAsks + 1
    /\ checkCall' = [checkCall EXCEPT ![k] = [NoCall EXCEPT !.pc = pc, !.key = <<u, today>>, !.hash = h]]
    /\ UNCHANGED <<today, checkin, payChain, evaluator, evidence, staleRows>>

ReadToday(k) ==
    LET c == checkCall[k]
        row == checkin[c.key]
    IN  /\ c.pc \in {"claim", "confirm"}
        /\ checkCall' = [checkCall EXCEPT ![k] =
              IF row.status = "confirmed" THEN NoCall
              ELSE [c EXCEPT !.read = row, !.pc = IF c.pc = "claim" THEN "upsert" ELSE "duplicate"]]
        /\ UNCHANGED <<today, checkin, payChain, evaluator, evidence, staleRows, checkAsks>>

ClaimFreeKeepingHash(k) ==
    /\ checkCall[k].pc = "upsert"
    /\ Writes(checkCall[k].key, [FreeDay EXCEPT !.hash = IF checkin[checkCall[k].key] = NoCheckin THEN @
                                                      ELSE checkin[checkCall[k].key].hash], checkCall[k].read, "free")
    /\ checkCall' = [checkCall EXCEPT ![k] = NoCall]
    /\ UNCHANGED <<today, payChain, evaluator, checkAsks>>

\* FreeDay, whatever the row was.
ClaimFree(k) ==
    /\ checkCall[k].pc = "upsert"
    /\ Writes(checkCall[k].key, FreeDay, checkCall[k].read, "free")
    /\ checkCall' = [checkCall EXCEPT ![k] = NoCall]
    /\ UNCHANGED <<today, payChain, evaluator, checkAsks>>

\* The hash is compared as it was written: another spelling of it finds nothing.
UsedBy(h) == {key \in Keys : checkin[key].hash = h}

LookForUse(k) ==
    LET c == checkCall[k]
    IN  /\ c.pc = "duplicate"
        /\ checkCall' = [checkCall EXCEPT ![k] =
              IF UsedBy(c.hash) \subseteq {c.key} THEN [c EXCEPT !.pc = "save"] ELSE NoCall]
        /\ UNCHANGED <<today, checkin, payChain, evaluator, evidence, staleRows, checkAsks>>

\* The pending row is saved before anything is evaluated; the unique keys refuse a row
\* that has appeared meanwhile, and a hash that another row has taken.
SavePending(k) ==
    LET c == checkCall[k]
        pending == [status |-> "pending", hash |-> c.hash]
        refused == \/ ~(UsedBy(c.hash) \subseteq {c.key})
                   \/ c.read.status = "absent" /\ checkin[c.key].status # "absent"
    IN  /\ c.pc = "save"
        /\ IF refused
             THEN /\ checkCall' = [checkCall EXCEPT ![k] = NoCall]
                  /\ UNCHANGED <<checkin, staleRows, evidence>>
             ELSE /\ Writes(c.key, pending, c.read, "none")
                  /\ checkCall' = [checkCall EXCEPT ![k] = [c EXCEPT !.pc = "evaluate", !.read = pending]]
        /\ UNCHANGED <<today, payChain, evaluator, checkAsks>>

EvaluatePayment(k) ==
    LET c == checkCall[k]
    IN  /\ c.pc = "evaluate"
        /\ checkCall' = [checkCall EXCEPT ![k] =
              IF Verdict(c.key[1], c.hash) = "pending" THEN NoCall
              ELSE [c EXCEPT !.pc = "settle", !.verdict = Verdict(c.key[1], c.hash)]]
        /\ UNCHANGED <<today, checkin, payChain, evaluator, evidence, staleRows, checkAsks>>

\* Written by user and day.
SettlePayment(k) ==
    LET c == checkCall[k]
    IN  /\ c.pc = "settle"
        /\ Writes(c.key, [checkin[c.key] EXCEPT !.status = c.verdict], c.read, c.hash)
        /\ checkCall' = [checkCall EXCEPT ![k] = NoCall]
        /\ UNCHANGED <<today, payChain, evaluator, checkAsks>>

\* The chain cannot be asked, a statement throws: the saved row stays for the sweep.
CheckInThrows(k) ==
    /\ checkCall[k].pc # "idle"
    /\ checkCall' = [checkCall EXCEPT ![k] = NoCall]
    /\ UNCHANGED <<today, checkin, payChain, evaluator, evidence, staleRows, checkAsks>>

CheckRestart ==
    /\ \E e \in Evaluators : evaluator[e].pc # "idle"
    /\ evaluator' = [e \in Evaluators |-> AtRest]
    /\ checkCall' = [k \in CheckCalls |-> NoCall]
    /\ UNCHANGED <<today, checkin, payChain, evidence, staleRows, checkAsks>>

EvaluatorStep(e) ==
    \/ \E u \in CheckUsers : StatusAsked(e, u)
    \/ SweepPending(e) \/ EvaluateRow(e) \/ WriteVerdict(e)

CheckCallStep(k) ==
    \/ \E u \in CheckUsers : AskCheckIn(k, u, "claim", "none")
    \/ \E u \in CheckUsers, h \in Payments : AskCheckIn(k, u, "confirm", h)
    \/ ReadToday(k) \/ ClaimFree(k)
    \/ LookForUse(k) \/ SavePending(k) \/ EvaluatePayment(k) \/ SettlePayment(k)
    \/ CheckInThrows(k)

CheckNext ==
    \/ NextDay \/ CheckRestart
    \/ \E t \in ChainTxs : ChainMoves(t)
    \/ \E e \in Evaluators : EvaluatorStep(e)
    \/ \E k \in CheckCalls : CheckCallStep(k)

CheckSpec == CheckInit /\ [][CheckNext]_checkVars

-----------------------------------------------------------------------------
(* computeStreak: confirmed days in a row up to today, or up to yesterday   *)
(* while today is still open.                                               *)
Confirmed(u) == {d \in Days : checkin[<<u, d>>].status = "confirmed"}

StreakOfToday(u) ==
    LET upTo[d \in 0 .. MaxDay] == IF d \in Confirmed(u) THEN 1 + upTo[d - 1] ELSE 0
    IN  IF today \in Confirmed(u) THEN upTo[today] ELSE 0

Streak(u) ==
    LET upTo[d \in 0 .. MaxDay] == IF d \in Confirmed(u) THEN 1 + upTo[d - 1] ELSE 0
    IN  IF today \in Confirmed(u) THEN upTo[today] ELSE upTo[today - 1]

-----------------------------------------------------------------------------
DayStatuses == {"absent", "pending", "failed", "confirmed"}
Checkins == [status : DayStatuses, hash : Payments \cup {"none", "free"}]

(* Rows, sweeps and requests hold values of their kind.                     *)
CheckTypeOK ==
    /\ today \in Days
    /\ checkin \in [Keys -> Checkins]
    /\ payChain \in [ChainTxs -> {"unseen", "seen", "succeeded", "reverted"}]
    /\ evaluator \in [Evaluators -> [pc : {"idle", "evaluate", "confirmed", "failed"},
                                     rows : SUBSET [key : Keys, hash : Payments],
                                     key : Keys \cup {<<>>}, hash : Payments \cup {"none"}]]
    /\ checkCall \in [CheckCalls ->
          [pc : {"idle", "claim", "upsert", "confirm", "duplicate", "save", "evaluate", "settle"},
           key : Keys \cup {<<>>}, hash : Payments \cup {"none"}, read : Checkins,
           verdict : {"pending", "failed", "confirmed"}]]
    /\ evidence \in [Payments -> SUBSET Keys]
    /\ staleRows \in SUBSET Keys
    /\ checkAsks \in Nat

(* A hash, as it was written, confirms one day of one user, the wallet's,   *)
(* and only when its transaction has succeeded on chain; days written over  *)
(* by those who had read them otherwise are left aside.  Of the transaction *)
(* nothing more is true: written in another case it confirms another day.   *)
OnePaymentOneDay ==
    \A h \in Payments :
        /\ Cardinality(evidence[h] \ staleRows) <= 1
        /\ \A key \in evidence[h] : key[1] = SentBy[TxOf[h]] /\ payChain[TxOf[h]] = "succeeded"

(* A day that shows a payment as confirmed was confirmed by that payment,   *)
(* unless its row was written by someone who had read it otherwise.         *)
ConfirmedByItsPayment ==
    \A key \in Keys \ staleRows :
        checkin[key].status = "confirmed" =>
            checkin[key].hash = "free" \/ key \in evidence[checkin[key].hash]

(* A confirmed day stays confirmed: a late sweep or request takes it back   *)
(* only if it had read the row otherwise.                                   *)
ConfirmedStays ==
    [][\A key \in Keys : checkin[key].status = "confirmed" =>
         checkin'[key].status = "confirmed" \/ key \in staleRows']_checkVars

(* A streak is lost only by a day that went by without a confirmation, or   *)
(* by a confirmed day that a stale write took back.                         *)
StreakKept ==
    [][\A u \in CheckUsers : Streak(u)' < Streak(u) =>
         \/ today' # today /\ today \notin Confirmed(u)
         \/ staleRows' # {}]_checkVars

(* A hash, as written, confirms one day, of the user who sent its           *)
(* transaction, and a day that was confirmed by payment names a hash whose  *)
(* transaction succeeded.                                                   *)
CheckInsSafe ==
    /\ CheckTypeOK /\ OnePaymentOneDay /\ ConfirmedByItsPayment
=============================================================================
