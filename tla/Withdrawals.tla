---------------------------- MODULE Withdrawals ----------------------------
(***************************************************************************)
(* POL withdrawals: the request handler (walletModel.createWithdrawal),    *)
(* the administrator's approve / reject / complete, the payout cron        *)
(* (withdrawalsCron.processPendingWithdrawals) and the single-withdrawal   *)
(* payer (autoWithdraw.processApprovedWithdrawal).                         *)
(*                                                                         *)
(* The database runs at READ COMMITTED, so a transaction is modelled as    *)
(* the reads it makes, one step each, followed by one step in which all    *)
(* its writes become visible.  A row that a transaction has updated stays  *)
(* locked until it commits.  Every await is a point where other handlers   *)
(* may run.  The order of the list the cron walks is abstracted to "any".  *)
(***************************************************************************)
EXTENDS Integers, FiniteSets

CONSTANTS
    Users,
    Amounts,         \* amounts a user may ask for
    OpeningBalance,  \* polBalance of every user at the start
    Ids,             \* ids of withdrawal rows: bounds how many are created
    NoId,
    Requests,        \* createWithdrawal calls that may be in flight together
    Admins,          \* administrator requests that may be in flight together
    Payers,          \* runs of the payout cron that may overlap
    AutoPayers,      \* processApprovedWithdrawal calls in flight together
    AdminGoals,      \* the statuses administrators set
    ApproveSees,     \* statuses of a row on a list an admin approves from
    FaultKinds,      \* which of AllFaults may happen
    MaxFaults        \* bound on how many happen

Workers == Admins \cup Payers \cup AutoPayers
Statuses == {"none", "pending", "approved", "completed", "failed"}
Open == {"pending", "approved"}

\* A database call throws; a broadcast is reported as an error; the server dies.
AllFaults == {"dbError", "lostAnswer", "crash"}

ASSUME WithdrawalsAssumption ==
    /\ Amounts \subseteq Nat \ {0}
    /\ OpeningBalance \in Nat
    /\ NoId \notin Ids
    /\ AdminGoals \subseteq {"approved", "completed", "failed"}
    /\ ApproveSees \subseteq Statuses \ {"none"}
    /\ FaultKinds \subseteq AllFaults
    /\ MaxFaults \in Nat
    /\ Admins \cap Payers = {}
    /\ AutoPayers \cap (Admins \cup Payers) = {}

VARIABLES
    balance,   \* users.polBalance
    live,      \* the engine's copy of it, moved by applyUserBalanceDelta
    rows,      \* the withdrawal rows of the transactions table
    req,       \* createWithdrawal calls
    work,      \* the local variables of admins, cron runs and payers
    sends,     \* transfers broadcast on chain for a row
    refunds,   \* times the row's amount went back to the user's balance
    faults     \* how many faults happened so far

vars == <<balance, live, rows, req, work, sends, refunds, faults>>

NoRow == [status |-> "none", owner |-> "nobody", amount |-> 0, hash |-> FALSE]
IdleReq == [pc |-> "idle", user |-> "nobody", amount |-> 0]
IdleWork == [pc |-> "idle", id |-> NoId, goal |-> "none", hash |-> FALSE,
             seen |-> NoRow, todo |-> {}]

Init ==
    /\ balance = [u \in Users |-> OpeningBalance]
    /\ live = [u \in Users |-> OpeningBalance]
    /\ rows = [i \in Ids |-> NoRow]
    /\ req = [r \in Requests |-> IdleReq]
    /\ work = [p \in Workers |-> IdleWork]
    /\ sends = [i \in Ids |-> 0]
    /\ refunds = [i \in Ids |-> 0]
    /\ faults = 0

Fault(kind) == kind \in FaultKinds /\ faults < MaxFaults /\ faults' = faults + 1

-----------------------------------------------------------------------------
(* updateTransactionStatus gives the funds back when the status it READ     *)
(* says so, and keeps the transaction hash it READ unless given another.    *)

\* fundsReserved is true in every row createWithdrawal makes.
RefundDueAlways(seen, goal) == goal = "failed"

RefundDueUnlessFailed(seen, goal) == goal = "failed" /\ seen.status # "failed"

RefundDueOnceApproved(seen, goal) == goal = "failed" /\ seen.status = "approved"

RefundDue(seen, goal) == goal = "failed" /\ seen.status \notin {"failed", "completed"}

\* txHash || transaction.txHash
HashOverwritten(given, seen) == given

HashWritten(given, seen) == given \/ seen.hash

(* Row locks of the transactions that have written and not yet committed.   *)

RowLocked(i) == \E p \in Workers : work[p].pc = "commit" /\ work[p].id = i

UserLocked(u) ==
    \/ \E r \in Requests : req[r].pc = "commit" /\ req[r].user = u
    \/ \E p \in Workers : /\ work[p].pc = "commit"
                          /\ work[p].seen.owner = u
                          /\ RefundDue(work[p].seen, work[p].goal)

-----------------------------------------------------------------------------
(* createWithdrawal: is one pending? are there funds? then decrement,       *)
(* insert the row, debit the engine's copy, and commit.                     *)

HasPendingWithdrawal(u) ==
    \E i \in Ids : rows[i].owner = u /\ rows[i].status = "pending"

\* Bound: every call in flight has an id left to insert.
IdLeft ==
    Cardinality({r \in Requests : req[r].pc # "idle"}) <
        Cardinality({i \in Ids : rows[i].status = "none"})

Request(r, u, a) ==
    /\ req[r].pc = "idle"
    /\ IdLeft
    /\ ~HasPendingWithdrawal(u)
    /\ req' = [req EXCEPT ![r] = [pc |-> "checked", user |-> u, amount |-> a]]
    /\ UNCHANGED <<balance, live, rows, work, sends, refunds, faults>>

\* user.polBalance.lt(amount) throws "Insufficient balance"
FundsCover(u, a) == balance[u] >= a

CheckFunds(r) ==
    /\ req[r].pc = "checked"
    /\ req' = [req EXCEPT ![r] = IF FundsCover(req[r].user, req[r].amount)
                                   THEN [@ EXCEPT !.pc = "funded"] ELSE IdleReq]
    /\ UNCHANGED <<balance, live, rows, work, sends, refunds, faults>>

\* The decrement takes the user's row lock; applyUserBalanceDelta runs before
\* the commit is awaited.
ReserveFunds(r) ==
    /\ req[r].pc = "funded"
    /\ ~UserLocked(req[r].user)
    /\ live' = [live EXCEPT ![req[r].user] = @ - req[r].amount]
    /\ req' = [req EXCEPT ![r].pc = "commit"]
    /\ UNCHANGED <<balance, rows, work, sends, refunds, faults>>

CommitRequest(r) ==
    /\ req[r].pc = "commit"
    /\ \E i \in Ids :
         /\ rows[i] = NoRow
         /\ rows' = [rows EXCEPT ![i] = [status |-> "pending", owner |-> req[r].user,
                                         amount |-> req[r].amount, hash |-> FALSE]]
    /\ balance' = [balance EXCEPT ![req[r].user] = @ - req[r].amount]
    /\ req' = [req EXCEPT ![r] = IdleReq]
    /\ UNCHANGED <<live, work, sends, refunds, faults>>

\* The commit is refused: the database rolls back, the engine's copy does not.
RequestThrows(r) ==
    /\ req[r].pc \in {"checked", "funded", "commit"}
    /\ Fault("dbError")
    /\ req' = [req EXCEPT ![r] = IdleReq]
    /\ UNCHANGED <<balance, live, rows, work, sends, refunds>>

-----------------------------------------------------------------------------
(* The steps of updateTransactionStatus.                                    *)

ReadStatus(p) ==
    /\ work[p].pc = "update"
    /\ work' = [work EXCEPT ![p] = [@ EXCEPT !.pc = "read", !.seen = rows[work[p].id]]]
    /\ UNCHANGED <<balance, live, rows, req, sends, refunds, faults>>

ApplyStatusInDatabaseOnly(p) ==
    /\ work[p].pc = "read"
    /\ ~RowLocked(work[p].id)
    /\ work' = [work EXCEPT ![p].pc = "commit"]
    /\ UNCHANGED <<balance, live, rows, req, sends, refunds, faults>>

\* The row is updated by id, whatever its status is by now, and the engine's
\* copy of the balance is credited; both wait for the row locks.
ApplyStatus(p) ==
    /\ work[p].pc = "read"
    /\ ~RowLocked(work[p].id)
    /\ LET s == work[p].seen
       IN  IF RefundDue(s, work[p].goal)
             THEN /\ ~UserLocked(s.owner)
                  /\ live' = [live EXCEPT ![s.owner] = @ + s.amount]
             ELSE UNCHANGED live
    /\ work' = [work EXCEPT ![p].pc = "commit"]
    /\ UNCHANGED <<balance, rows, req, sends, refunds, faults>>

\* What a caller does once updateTransactionStatus has returned.
Returned(p) ==
    IF p \in Payers THEN [IdleWork EXCEPT !.pc = "loop", !.todo = work[p].todo]
                    ELSE IdleWork

CommitStatus(p) ==
    /\ work[p].pc = "commit"
    /\ LET i == work[p].id
           s == work[p].seen
       IN  /\ rows' = [rows EXCEPT ![i] = [@ EXCEPT
                           !.status = work[p].goal,
                           !.hash = HashWritten(work[p].hash, s)]]
           /\ IF RefundDue(s, work[p].goal)
                THEN /\ balance' = [balance EXCEPT ![s.owner] = @ + s.amount]
                     /\ refunds' = [refunds EXCEPT ![i] = @ + 1]
                ELSE UNCHANGED <<balance, refunds>>
    /\ work' = [work EXCEPT ![p] = Returned(p)]
    /\ UNCHANGED <<live, req, sends, faults>>

\* A database call of updateTransactionStatus throws.  The cron's catch marks
\* the row failed; a throw inside that catch ends the run.
StatusThrows(p) ==
    /\ work[p].pc \in {"update", "read", "commit"}
    /\ Fault("dbError")
    /\ work' = [work EXCEPT ![p] =
                  IF p \in Payers /\ work[p].goal = "completed"
                    THEN [@ EXCEPT !.pc = "update", !.goal = "failed", !.hash = FALSE]
                    ELSE IdleWork]
    /\ UNCHANGED <<balance, live, rows, req, sends, refunds>>

-----------------------------------------------------------------------------
(* The administrator's requests: sent from a list that may be out of date   *)
(* by the time the handler runs.                                            *)

Ask(p, i, goal, h) ==
    /\ work[p].pc = "idle"
    /\ rows[i].status \in (IF goal = "approved" THEN ApproveSees ELSE Statuses \ {"none"})
    /\ h => goal = "completed"
    /\ work' = [work EXCEPT ![p] =
                  [IdleWork EXCEPT !.pc = IF goal = "approved" THEN "approve" ELSE "update",
                                   !.id = i, !.goal = goal, !.hash = h]]
    /\ UNCHANGED <<balance, live, rows, req, sends, refunds, faults>>

ApproveMisspelt(p) ==
    /\ work[p].pc = "approve"
    /\ ~RowLocked(work[p].id)
    /\ rows' = [rows EXCEPT ![work[p].id].status = "approve"]
    /\ work' = [work EXCEPT ![p] = IdleWork]
    /\ UNCHANGED <<balance, live, req, sends, refunds, faults>>

\* approveWithdrawal: one update by id, whatever the status is.
Approve(p) ==
    /\ work[p].pc = "approve"
    /\ ~RowLocked(work[p].id)
    /\ rows' = [rows EXCEPT ![work[p].id].status = "approved"]
    /\ work' = [work EXCEPT ![p] = IdleWork]
    /\ UNCHANGED <<balance, live, req, sends, refunds, faults>>

-----------------------------------------------------------------------------
(* The payout cron: list the open rows once, then pay them one by one.      *)

EveryUnpaidRow == {i \in Ids : rows[i].status \in Open \cup {"failed"}}

OpenRows == {i \in Ids : rows[i].status \in Open}

StartRun(p) ==
    /\ work[p].pc = "idle"
    /\ OpenRows # {}
    /\ work' = [work EXCEPT ![p] = [IdleWork EXCEPT !.pc = "loop", !.todo = OpenRows]]
    /\ UNCHANGED <<balance, live, rows, req, sends, refunds, faults>>

\* wallet.sendTransaction resolves: the row is then marked completed.
Pay(p, i) ==
    /\ work[p].pc = "loop"
    /\ i \in work[p].todo
    /\ sends' = [sends EXCEPT ![i] = @ + 1]
    /\ work' = [work EXCEPT ![p] =
                  [IdleWork EXCEPT !.pc = "update", !.id = i, !.goal = "completed",
                                   !.hash = TRUE, !.todo = work[p].todo \ {i}]]
    /\ UNCHANGED <<balance, live, rows, req, refunds, faults>>

SendRejectedUnmarked(p, i) ==
    /\ work[p].pc = "loop"
    /\ i \in work[p].todo
    /\ work' = [work EXCEPT ![p].todo = @ \ {i}]
    /\ UNCHANGED <<balance, live, rows, req, sends, refunds, faults>>

\* wallet.sendTransaction rejects: nothing was broadcast (no funds, no RPC), or
\* it was and the answer got lost.
SendRejected(p, i) ==
    /\ work[p].pc = "loop"
    /\ i \in work[p].todo
    /\ \/ UNCHANGED <<sends, faults>>
       \/ Fault("lostAnswer") /\ sends' = [sends EXCEPT ![i] = @ + 1]
    /\ work' = [work EXCEPT ![p] =
                  [IdleWork EXCEPT !.pc = "update", !.id = i, !.goal = "failed",
                                   !.todo = work[p].todo \ {i}]]
    /\ UNCHANGED <<balance, live, rows, req, refunds>>

EndRun(p) ==
    /\ work[p].pc = "loop"
    /\ work[p].todo = {}
    /\ work' = [work EXCEPT ![p] = IdleWork]
    /\ UNCHANGED <<balance, live, rows, req, sends, refunds, faults>>

-----------------------------------------------------------------------------
(* processApprovedWithdrawal: broadcast, record the hash, wait for one      *)
(* confirmation, complete; any error marks the row failed, except a hot     *)
(* wallet without funds, which leaves it approved.                          *)

AutoStart(p, i) ==
    /\ work[p].pc = "idle"
    /\ rows[i].status = "approved"
    /\ work' = [work EXCEPT ![p] = [IdleWork EXCEPT !.pc = "preflight", !.id = i]]
    /\ UNCHANGED <<balance, live, rows, req, sends, refunds, faults>>

\* One prisma.transaction.update of the row by id, after which the call ends.
AutoUpdate(p, status) ==
    /\ ~RowLocked(work[p].id)
    /\ rows' = [rows EXCEPT ![work[p].id].status = status]
    /\ work' = [work EXCEPT ![p] = IdleWork]
    /\ UNCHANGED <<balance, live, req, sends, refunds, faults>>

AutoInsufficientFunds(p) == work[p].pc = "preflight" /\ AutoUpdate(p, "approved")

AutoSend(p) ==
    /\ work[p].pc = "preflight"
    /\ sends' = [sends EXCEPT ![work[p].id] = @ + 1]
    /\ work' = [work EXCEPT ![p].pc = "saveHash"]
    /\ UNCHANGED <<balance, live, rows, req, refunds, faults>>

AutoSaveHash(p) ==
    /\ work[p].pc = "saveHash"
    /\ ~RowLocked(work[p].id)
    /\ rows' = [rows EXCEPT ![work[p].id].hash = TRUE]
    /\ work' = [work EXCEPT ![p].pc = "wait"]
    /\ UNCHANGED <<balance, live, req, sends, refunds, faults>>

AutoConfirmed(p) == work[p].pc = "wait" /\ AutoUpdate(p, "completed")

\* An RPC call rejects, before the broadcast or after it (its answer got lost),
\* the transfer reverts, or the hash cannot be saved.
AutoThrows(p) ==
    /\ \/ work[p].pc \in {"preflight", "wait"} /\ UNCHANGED <<sends, faults>>
       \/ /\ work[p].pc = "preflight"
          /\ Fault("lostAnswer")
          /\ sends' = [sends EXCEPT ![work[p].id] = @ + 1]
       \/ work[p].pc = "saveHash" /\ Fault("dbError") /\ UNCHANGED sends
    /\ work' = [work EXCEPT ![p].pc = "abandon"]
    /\ UNCHANGED <<balance, live, rows, req, refunds>>

AutoFail(p) == work[p].pc = "abandon" /\ AutoUpdate(p, "failed")

\* The catch's own update throws: the call ends, and the row, sent or not,
\* stays approved for the next call to send.
AutoFailThrows(p) ==
    /\ work[p].pc = "abandon"
    /\ Fault("dbError")
    /\ work' = [work EXCEPT ![p] = IdleWork]
    /\ UNCHANGED <<balance, live, rows, req, sends, refunds>>

-----------------------------------------------------------------------------
(* The process dies: what was not committed is gone, and the engine loads   *)
(* the balances from the database again.                                    *)
Crash ==
    /\ Fault("crash")
    /\ req' = [r \in Requests |-> IdleReq]
    /\ work' = [p \in Workers |-> IdleWork]
    /\ live' = balance
    /\ UNCHANGED <<balance, rows, sends, refunds>>

RequestStep(r) ==
    \/ \E u \in Users, a \in Amounts : Request(r, u, a)
    \/ CheckFunds(r)
    \/ ReserveFunds(r)
    \/ CommitRequest(r)
    \/ RequestThrows(r)

StatusStep(p) == ReadStatus(p) \/ ApplyStatus(p) \/ CommitStatus(p) \/ StatusThrows(p)

AdminStep(p) ==
    \/ \E i \in Ids, goal \in AdminGoals, h \in BOOLEAN :
            Ask(p, i, goal, h)
    \/ Approve(p)
    \/ StatusStep(p)

PayerStep(p) ==
    \/ StartRun(p)
    \/ \E i \in Ids : Pay(p, i) \/ SendRejected(p, i)
    \/ EndRun(p)
    \/ StatusStep(p)

AutoStep(p) ==
    \/ \E i \in Ids : AutoStart(p, i)
    \/ AutoInsufficientFunds(p)
    \/ AutoSend(p)
    \/ AutoSaveHash(p)
    \/ AutoConfirmed(p)
    \/ AutoThrows(p)
    \/ AutoFail(p)
    \/ AutoFailThrows(p)

HandlerStep ==
    \/ \E r \in Requests : RequestStep(r)
    \/ \E p \in Admins : AdminStep(p)
    \/ \E p \in Payers : PayerStep(p)
    \/ \E p \in AutoPayers : AutoStep(p)

Next == HandlerStep \/ Crash

Spec == Init /\ [][Next]_vars

(* The cron fires every two minutes and every promise it awaits settles     *)
(* (the RPC provider and the database pool both time out); a transaction    *)
(* that has issued its writes commits, so no row stays locked for ever.     *)
FairSpec ==
    /\ Spec
    /\ \A p \in Payers : WF_vars(PayerStep(p))
    /\ \A r \in Requests : WF_vars(CommitRequest(r))

-----------------------------------------------------------------------------
Row == [status : Statuses, owner : Users \cup {"nobody"},
        amount : Nat, hash : BOOLEAN]

Pcs == {"idle", "approve", "update", "read", "commit", "loop",
        "preflight", "saveHash", "wait", "abandon"}

Call == [pc : {"idle", "checked", "funded", "commit"},
         user : Users \cup {"nobody"}, amount : Nat]

Work == [pc : Pcs, id : Ids \cup {NoId}, goal : Statuses, hash : BOOLEAN,
         seen : Row, todo : SUBSET Ids]

(* Every variable holds values of the kind its column or local has.         *)
TypeOK ==
    /\ balance \in [Users -> Int]
    /\ live \in [Users -> Int]
    /\ rows \in [Ids -> Row]
    /\ req \in [Requests -> Call]
    /\ work \in [Workers -> Work]
    /\ sends \in [Ids -> Nat]
    /\ refunds \in [Ids -> Nat]
    /\ faults \in Nat

\* The units of money a row took, and those a user's rows still hold.
Units(i) == {i} \X (1 .. rows[i].amount)
Held(u) == {i \in Ids : rows[i].owner = u /\ refunds[i] = 0}
Reserved(u) == UNION {Units(i) : i \in Held(u)}

(* No debit is lost or doubled: a user's balance and the units that the     *)
(* rows whose funds were not given back hold always add up to what the user *)
(* had (walletModel.js createWithdrawal's decrement and                     *)
(* updateTransactionStatus' increment, in whatever order handlers commit).  *)
FundsConserved ==
    \A u \in Users : balance[u] + Cardinality(Reserved(u)) = OpeningBalance

(* A row's amount goes back to the user at most once, however often the     *)
(* row is rejected and marked complete: the guard on the previous status in *)
(* updateTransactionStatus.                                                 *)
RefundedAtMostOnce == \A i \in Ids : refunds[i] <= 1

(* Each withdrawal is settled once: paid by one transfer or refunded once,  *)
(* never paid twice and never paid and refunded (processPendingWithdrawals  *)
(* with updateTransactionStatus).  The code keeps this until a failure      *)
(* comes between a broadcast and the row's mark.                            *)
SettledOnce == \A i \in Ids : sends[i] + refunds[i] <= 1

(* Every settlement of a row beyond its first has a failure of its own that *)
(* came before it: a restart, a lost answer or a refused write lets a row   *)
(* that was sent be sent or refunded once more, not twice, and nothing else *)
(* does (the mark after the broadcast in processPendingWithdrawals, the     *)
(* catch of processApprovedWithdrawal).                                     *)
RepeatsFollowFaults == \A i \in Ids : sends[i] + refunds[i] <= 1 + faults

(* When no handler is between applyUserBalanceDelta and its commit, the     *)
(* engine's copy of the balance is the database's.                          *)
LiveAgrees ==
    \A u \in Users : ~UserLocked(u) => live[u] = balance[u]

(* A user has at most one pending withdrawal: createWithdrawal answers      *)
(* "Pending withdrawal exists" to a second one.                             *)
OnePending ==
    \A i, j \in Ids : /\ rows[i].status = "pending" /\ rows[j].status = "pending"
                     /\ rows[i].owner = rows[j].owner
                     => i = j

(* A row that says failed was never paid, and its funds are back with the   *)
(* user ("Update status to failed so it returns to user balances").         *)
FailedIsRefunded ==
    \A i \in Ids : rows[i].status = "failed" => refunds[i] > 0

(* A transaction hash, once recorded, stays on the row.                     *)
HashKept == [][\A i \in Ids : rows[i].hash => rows'[i].hash]_rows

(* Every withdrawal that is open is eventually paid or refunded: the cron   *)
(* leaves no row behind.                                                    *)
EventuallySettled ==
    \A i \in Ids : rows[i].status \in Open ~> rows[i].status \in {"completed", "failed"}

(* What the users were promised, see WithdrawalPromise: nothing, then owed, *)
(* then paid or given back, for good.                                       *)
Outcome == [i \in Ids |->
              IF rows[i].status = "none" THEN "none"
              ELSE IF sends[i] > 0 THEN "paid"
              ELSE IF refunds[i] > 0 THEN "refunded"
              ELSE "owed"]

Promise == INSTANCE WithdrawalPromise WITH Ids <- Ids, outcome <- Outcome
ImplementsPromise == Promise!Spec
=============================================================================
