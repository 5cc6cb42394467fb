------------------------------ MODULE Deposits ------------------------------
(***************************************************************************)
(* POL deposits.  Three paths turn a transfer on Polygon into a credit:    *)
(*   - submitDeposit registers a hash, and runs of the verifier look it up *)
(*     until it is credited, refused or has timed out;                     *)
(*   - requestDeposit and the scanner call createDepositRequest, which     *)
(*     looks a hash up and credits it in one transaction.                  *)
(* Transactions run at READ COMMITTED and no key makes a hash unique, so   *)
(* every "is it already there?" is a read that may be out of date when the *)
(* row is written; the hash of one transfer can be written in upper or     *)
(* lower case, and only submitDeposit makes it lower.  Every transfer is   *)
(* worth one unit.                                                         *)
(***************************************************************************)
EXTENDS Integers, FiniteSets

CONSTANTS
    Users,
    Hashes,       \* transfers users talk about
    Spellings,    \* "lower" and other ways to write the same hash
    Valid,        \* those sent to the deposit wallet, on Polygon, not tiny
    Ids,          \* ids of deposit rows: bounds how many are created
    Submits,      \* submitDeposit calls in flight together
    Detectors,    \* createDepositRequest calls in flight together
    Runs,         \* verifier runs that may overlap
    MaxAttempts,  \* MAX_ATTEMPTS
    FaultKinds,   \* "dbError": a database call throws; "crash": the server dies
    MaxFaults     \* bound on how many happen

ASSUME DepositsAssumption ==
    /\ Valid \subseteq Hashes
    /\ "lower" \in Spellings
    /\ IsFiniteSet(Ids) /\ IsFiniteSet(Runs)
    /\ MaxAttempts \in Nat
    /\ FaultKinds \subseteq {"dbError", "crash"}
    /\ MaxFaults \in Nat

VARIABLES
    chain,     \* what the chain says of a transfer
    balance,   \* users.polBalance
    live,      \* the engine's copy of it
    rows,      \* the deposit rows of the transactions table
    submit,    \* submitDeposit calls
    detect,    \* createDepositRequest calls
    check,     \* verifyOnePendingDeposit calls, one per run and row
    credits,   \* times a transfer was credited
    faults

vars == <<chain, balance, live, rows, submit, detect, check, credits, faults>>

NoRow == [status |-> "none", owner |-> "nobody", hash |-> "none", spelling |-> "lower", attempts |-> 0]
IdleCall == [pc |-> "idle", user |-> "nobody", hash |-> "none", spelling |-> "lower"]
IdleCheck == [pc |-> "idle", attempts |-> 0]

Init ==
    /\ chain = [h \in Hashes |-> "absent"]
    /\ balance = [u \in Users |-> 0]
    /\ live = [u \in Users |-> 0]
    /\ rows = [i \in Ids |-> NoRow]
    /\ submit = [s \in Submits |-> IdleCall]
    /\ detect = [d \in Detectors |-> IdleCall]
    /\ check = [v \in Runs |-> [i \in Ids |-> IdleCheck]]
    /\ credits = [h \in Hashes |-> 0]
    /\ faults = 0

Fault(kind) == kind \in FaultKinds /\ faults < MaxFaults /\ faults' = faults + 1

\* Polygon mines the transfer, which succeeds or reverts.
Mine(h) ==
    /\ chain[h] = "absent"
    /\ \E result \in {"ok", "reverted"} : chain' = [chain EXCEPT ![h] = result]
    /\ UNCHANGED <<balance, live, rows, submit, detect, check, credits, faults>>

\* The column is compared as a string.
RowsOf(h, spelling, statuses) ==
    {i \in Ids : rows[i].hash = h /\ rows[i].spelling = spelling /\ rows[i].status \in statuses}

Recorded == {"pending_verification", "completed", "failed"}

Unused == {i \in Ids : rows[i] = NoRow}

\* Bound: every call in flight has an id left to insert.
IdLeft ==
    Cardinality({s \in Submits : submit[s].pc # "idle"})
      + Cardinality({d \in Detectors : detect[d].pc # "idle"}) < Cardinality(Unused)

-----------------------------------------------------------------------------
(* submitDeposit: the hash is made lower-case; the user's own row for it,   *)
(* if any, decides; else another user's claim does; else the row is created.*)

OwnClaim(u, h) == {i \in RowsOf(h, "lower", Recorded) : rows[i].owner = u}

ForeignClaimIgnoringPending(u, h) == {i \in RowsOf(h, "lower", {"completed"}) : rows[i].owner # u}

ForeignClaim(u, h) ==
    {i \in RowsOf(h, "lower", {"completed", "pending_verification"}) : rows[i].owner # u}

Submit(s, u, h) ==
    /\ submit[s].pc = "idle"
    /\ IdLeft
    /\ OwnClaim(u, h) = {}
    /\ submit' = [submit EXCEPT ![s] = [IdleCall EXCEPT !.pc = "own", !.user = u, !.hash = h]]
    /\ UNCHANGED <<chain, balance, live, rows, detect, check, credits, faults>>

FindOtherClaim(s) ==
    /\ submit[s].pc = "own"
    /\ submit' = [submit EXCEPT ![s] =
                    IF ForeignClaim(submit[s].user, submit[s].hash) = {}
                      THEN [@ EXCEPT !.pc = "create"] ELSE IdleCall]
    /\ UNCHANGED <<chain, balance, live, rows, detect, check, credits, faults>>

\* The verifier run it starts at once is a StartRun like any other.
CreatePending(s) ==
    /\ submit[s].pc = "create"
    /\ \E i \in Unused :
         rows' = [rows EXCEPT ![i] = [NoRow EXCEPT !.status = "pending_verification",
                                      !.owner = submit[s].user, !.hash = submit[s].hash]]
    /\ submit' = [submit EXCEPT ![s] = IdleCall]
    /\ UNCHANGED <<chain, balance, live, detect, check, credits, faults>>

SubmitThrows(s) ==
    /\ Fault("dbError")
    /\ submit[s].pc # "idle"
    /\ submit' = [submit EXCEPT ![s] = IdleCall]
    /\ UNCHANGED <<chain, balance, live, rows, detect, check, credits>>

-----------------------------------------------------------------------------
(* runDepositVerifier: all pending rows are looked up side by side.         *)

Settled(v) == \A i \in Ids : check[v][i].pc = "idle"

StartRun(v) ==
    /\ Settled(v)
    /\ \E i \in Ids : rows[i].status = "pending_verification"
    /\ check' = [check EXCEPT ![v] =
                   [i \in Ids |-> IF rows[i].status = "pending_verification"
                                    THEN [pc |-> "receipt", attempts |-> rows[i].attempts + 1]
                                    ELSE IdleCheck]]
    /\ UNCHANGED <<chain, balance, live, rows, submit, detect, credits, faults>>

Goto(v, i, pc) == check' = [check EXCEPT ![v][i].pc = pc]

TimedOut(v, i) == check[v][i].attempts > MaxAttempts

ExamineMinedOnly(v, i) ==
    /\ check[v][i].pc = "receipt"
    /\ \/ Goto(v, i, IF TimedOut(v, i) THEN "refuse" ELSE "retry")
       \/ chain[rows[i].hash] # "absent" /\ Goto(v, i, "lookup")
    /\ UNCHANGED <<chain, balance, live, rows, submit, detect, credits, faults>>

\* What getTransactionReceipt, getTransaction and the checks on them lead to.
Examine(v, i) ==
    LET h == rows[i].hash
    IN  /\ check[v][i].pc = "receipt"
        /\ \/ TimedOut(v, i) /\ Goto(v, i, "refuse")
           \/ /\ ~TimedOut(v, i)
              /\ \/ Goto(v, i, "retry")    \* no receipt, or the RPC call failed
                 \/ chain[h] = "reverted" /\ Goto(v, i, "refuse")
                 \/ chain[h] = "ok" /\ h \notin Valid /\ Goto(v, i, "refuse")
                 \/ chain[h] = "ok" /\ h \in Valid /\ Goto(v, i, "lookup")
        /\ UNCHANGED <<chain, balance, live, rows, submit, detect, credits, faults>>

Duplicate(i) == RowsOf(rows[i].hash, rows[i].spelling, {"completed"}) \ {i}

FindDuplicate(v, i) ==
    /\ check[v][i].pc = "lookup"
    /\ Goto(v, i, IF Duplicate(i) = {} THEN "credit" ELSE "refuse")
    /\ UNCHANGED <<chain, balance, live, rows, submit, detect, credits, faults>>

\* The update by id, whatever the row's status is by now.
Refuse(v, i) ==
    /\ check[v][i].pc = "refuse"
    /\ rows' = [rows EXCEPT ![i] = [@ EXCEPT !.status = "failed",
                                             !.attempts = check[v][i].attempts]]
    /\ check' = [check EXCEPT ![v][i] = IdleCheck]
    /\ UNCHANGED <<chain, balance, live, submit, detect, credits, faults>>

RetryUncounted(v, i) ==
    /\ check[v][i].pc = "retry"
    /\ check' = [check EXCEPT ![v][i] = IdleCheck]
    /\ UNCHANGED <<chain, balance, live, rows, submit, detect, credits, faults>>

Retry(v, i) ==
    /\ check[v][i].pc = "retry"
    /\ rows' = [rows EXCEPT ![i].attempts = check[v][i].attempts]
    /\ check' = [check EXCEPT ![v][i] = IdleCheck]
    /\ UNCHANGED <<chain, balance, live, submit, detect, credits, faults>>

\* One transaction: the row is completed and its owner credited.
Credit(v, i) ==
    /\ check[v][i].pc = "credit"
    /\ rows' = [rows EXCEPT ![i] = [@ EXCEPT !.status = "completed",
                                             !.attempts = check[v][i].attempts]]
    /\ balance' = [balance EXCEPT ![rows[i].owner] = @ + 1]
    /\ credits' = [credits EXCEPT ![rows[i].hash] = @ + 1]
    /\ Goto(v, i, "sync")
    /\ UNCHANGED <<chain, live, submit, detect, faults>>

\* applyUserBalanceDelta, after the commit and one more await.
SyncLive(v, i) ==
    /\ check[v][i].pc = "sync"
    /\ live' = [live EXCEPT ![rows[i].owner] = @ + 1]
    /\ check' = [check EXCEPT ![v][i] = IdleCheck]
    /\ UNCHANGED <<chain, balance, rows, submit, detect, credits, faults>>

\* A database call throws: in the catch the attempts are counted; there, and
\* when the row had timed out, the error goes unnoticed.
CheckThrows(v, i) ==
    /\ Fault("dbError")
    /\ \/ /\ check[v][i].pc \in {"lookup", "refuse", "credit"}
          /\ ~TimedOut(v, i)
          /\ Goto(v, i, "retry")
       \/ /\ check[v][i].pc \in {"retry", "refuse"}
          /\ check[v][i].pc = "refuse" => TimedOut(v, i)
          /\ check' = [check EXCEPT ![v][i] = IdleCheck]
    /\ UNCHANGED <<chain, balance, live, rows, submit, detect, credits>>

-----------------------------------------------------------------------------
(* createDepositRequest, called by requestDeposit or by the scanner (which  *)
(* has first looked for a row with the hash itself), with the hash as sent. *)

AnyDeposit(h, spelling) == RowsOf(h, spelling, Recorded)

Detect(d, u, h, spelling) ==
    /\ detect[d].pc = "idle"
    /\ IdLeft
    /\ detect' = [detect EXCEPT ![d] = [pc |-> "called", user |-> u, hash |-> h, spelling |-> spelling]]
    /\ UNCHANGED <<chain, balance, live, rows, submit, check, credits, faults>>

FindHash(d) ==
    /\ detect[d].pc = "called"
    /\ detect' = [detect EXCEPT ![d] = IF AnyDeposit(detect[d].hash, detect[d].spelling) = {}
                                         THEN [@ EXCEPT !.pc = "free"] ELSE IdleCall]
    /\ UNCHANGED <<chain, balance, live, rows, submit, check, credits, faults>>

\* The chain is asked; when all is well the row and the increment are written
\* and the engine's copy is credited, before the commit.
Validate(d) ==
    /\ detect[d].pc = "free"
    /\ \/ /\ chain[detect[d].hash] = "ok" /\ detect[d].hash \in Valid
          /\ live' = [live EXCEPT ![detect[d].user] = @ + 1]
          /\ detect' = [detect EXCEPT ![d].pc = "commit"]
       \/ detect' = [detect EXCEPT ![d] = IdleCall] /\ UNCHANGED live
    /\ UNCHANGED <<chain, balance, rows, submit, check, credits, faults>>

CommitDetected(d) ==
    /\ detect[d].pc = "commit"
    /\ \E i \in Unused :
         rows' = [rows EXCEPT ![i] = [NoRow EXCEPT !.status = "completed", !.owner = detect[d].user,
                                      !.hash = detect[d].hash, !.spelling = detect[d].spelling]]
    /\ balance' = [balance EXCEPT ![detect[d].user] = @ + 1]
    /\ credits' = [credits EXCEPT ![detect[d].hash] = @ + 1]
    /\ detect' = [detect EXCEPT ![d] = IdleCall]
    /\ UNCHANGED <<chain, live, submit, check, faults>>

DetectThrows(d) ==
    /\ Fault("dbError")
    /\ detect[d].pc # "idle"
    /\ detect' = [detect EXCEPT ![d] = IdleCall]
    /\ UNCHANGED <<chain, balance, live, rows, submit, check, credits>>

-----------------------------------------------------------------------------
\* The server dies; the engine loads the balances again.
Crash ==
    /\ Fault("crash")
    /\ submit' = [s \in Submits |-> IdleCall]
    /\ detect' = [d \in Detectors |-> IdleCall]
    /\ check' = [v \in Runs |-> [i \in Ids |-> IdleCheck]]
    /\ live' = balance
    /\ UNCHANGED <<chain, balance, rows, credits>>

SubmitStep(s) ==
    \/ \E u \in Users, h \in Hashes : Submit(s, u, h)
    \/ FindOtherClaim(s)
    \/ CreatePending(s)
    \/ SubmitThrows(s)

CheckStep(v, i) ==
    \/ Examine(v, i)
    \/ FindDuplicate(v, i)
    \/ Refuse(v, i)
    \/ Retry(v, i)
    \/ Credit(v, i)
    \/ SyncLive(v, i)
    \/ CheckThrows(v, i)

DetectStep(d) ==
    \/ \E u \in Users, h \in Hashes, spelling \in Spellings : Detect(d, u, h, spelling)
    \/ FindHash(d)
    \/ Validate(d)
    \/ CommitDetected(d)
    \/ DetectThrows(d)

Next ==
    \/ \E h \in Hashes : Mine(h)
    \/ \E s \in Submits : SubmitStep(s)
    \/ \E v \in Runs : StartRun(v) \/ \E i \in Ids : CheckStep(v, i)
    \/ \E d \in Detectors : DetectStep(d)
    \/ Crash

Spec == Init /\ [][Next]_vars

(* The verifier's interval starts runs for ever, and every RPC and database *)
(* promise a check awaits settles.  Nothing makes the chain mine a transfer.*)
FairSpec ==
    /\ Spec
    /\ \A v \in Runs : WF_vars(StartRun(v))
    /\ \A v \in Runs, i \in Ids : WF_vars(CheckStep(v, i))

-----------------------------------------------------------------------------
Statuses == {"none", "pending_verification", "completed", "failed"}
Row == [status : Statuses, owner : Users \cup {"nobody"},
        hash : Hashes \cup {"none"}, spelling : Spellings, attempts : Nat]
Call(pcs) == [pc : {"idle"} \cup pcs, user : Users \cup {"nobody"}, hash : Hashes \cup {"none"},
              spelling : Spellings]

(* Every variable holds values of the kind its column or local has.         *)
TypeOK ==
    /\ chain \in [Hashes -> {"absent", "ok", "reverted"}]
    /\ balance \in [Users -> Nat]
    /\ live \in [Users -> Int]
    /\ rows \in [Ids -> Row]
    /\ submit \in [Submits -> Call({"own", "create"})]
    /\ detect \in [Detectors -> Call({"called", "free", "commit"})]
    /\ check \in [Runs -> [Ids ->
                    [pc : {"idle", "receipt", "refuse", "retry", "lookup", "credit", "sync"},
                     attempts : Nat]]]
    /\ credits \in [Hashes -> Nat]
    /\ faults \in Nat

(* A transfer is credited at most once, to whichever account claimed it:    *)
(* the duplicate checks of submitDeposit and verifyOnePendingDeposit.       *)
CreditedOnce == \A h \in Hashes : credits[h] <= 1

(* A balance is exactly the completed deposits of the user: a credit and    *)
(* the row that accounts for it appear together and only once.              *)
BalanceIsCompletedRows ==
    \A u \in Users :
        balance[u] = Cardinality({i \in Ids : rows[i].owner = u /\ rows[i].status = "completed"})

(* Whatever is credited is a transfer that is on chain, succeeded and came  *)
(* to the deposit wallet, however stale the reads were that led to it.      *)
CreditedIsOnChain ==
    \A h \in Hashes : credits[h] > 0 => chain[h] = "ok" /\ h \in Valid

(* A verified or refused deposit stays as it is: a late check does not      *)
(* reopen it or turn it into the other.                                     *)
ResolvedIsFinal ==
    [][\A i \in Ids : rows[i].status \in {"completed", "failed"}
                        => rows'[i].status = rows[i].status]_rows

(* The engine's copy of a balance lacks only credits whose handler has not  *)
(* come to applyUserBalanceDelta yet, or is ahead by those about to commit. *)
LiveAgrees ==
    \A u \in Users :
        live[u] + Cardinality({c \in Runs \X Ids :
                                  check[c[1]][c[2]].pc = "sync" /\ rows[c[2]].owner = u})
          = balance[u] + Cardinality({d \in Detectors :
                                        detect[d].pc = "commit" /\ detect[d].user = u})

(* Accounts do not share a transfer: two of them never both have a pending  *)
(* or completed claim to it, however its hash is written.                   *)
OneClaimant ==
    \A i, j \in Ids :
        /\ rows[i].hash = rows[j].hash /\ rows[i].hash \in Hashes
        /\ {rows[i].status, rows[j].status} \subseteq {"completed", "pending_verification"}
        => rows[i].owner = rows[j].owner

(* Every pending deposit is credited or refused in the end: the attempts    *)
(* run out, overlapping runs or not.                                        *)
EventuallyResolved ==
    \A i \in Ids : rows[i].status = "pending_verification"
                     ~> rows[i].status \in {"completed", "failed"}

(* Whatever the chain answers and whenever the process stops, a deposit is  *)
(* credited once, to one claimant, and both copies of the balance hold      *)
(* exactly the completed rows.                                              *)
DepositsSafe ==
    /\ TypeOK /\ CreditedOnce /\ OneClaimant /\ LiveAgrees
    /\ BalanceIsCompletedRows
=============================================================================
