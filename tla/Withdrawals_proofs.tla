------------------------- MODULE Withdrawals_proofs -------------------------
(***************************************************************************)
(* Proofs about Withdrawals for every number of users, rows, requests,     *)
(* administrators and payers.  What holds only while some handlers do not  *)
(* overlap is proved of every behaviour in which they do not, however many *)
(* there are: a row is refunded at most once, its hash stays and no money  *)
(* is lost or made while one updater works at a time; a row is settled     *)
(* once, and the promise kept step by step, while the payout cron is alone *)
(* at work and nothing fails between a broadcast and its mark; a failed    *)
(* row has its funds back while the cron is alone; a row is settled once,  *)
(* and its funds and hash kept, while one processApprovedWithdrawal is at  *)
(* work; a user has one pending withdrawal at most while requests do not   *)
(* overlap.  Type correctness needs none of this, and the engine's copy of *)
(* the balance only that no call throws.                                   *)
(***************************************************************************)
EXTENDS Withdrawals, FiniteSetTheorems, TLAPS

(* A function keeps its type when one value is replaced by one of its type. *)
LEMMA Put ==
    ASSUME NEW S, NEW T, NEW f \in [S -> T], NEW x, NEW v, x \in S => v \in T
    PROVE  [f EXCEPT ![x] = v] \in [S -> T]
OBVIOUS

LEMMA IdleTyped == NoRow \in Row /\ IdleReq \in Call /\ IdleWork \in Work
<1>1. NoRow \in Row
  BY DEF NoRow, Row, Statuses
<1>2. IdleReq \in Call
  BY DEF IdleReq, Call
<1>3. IdleWork \in Work
  BY <1>1 DEF IdleWork, Work, Pcs, Statuses
<1> QED BY <1>1, <1>2, <1>3

(* The types of what a handler holds in its local variables.                *)
LEMMA Locals ==
    ASSUME TypeOK, NEW p \in Workers
    PROVE  /\ work[p] \in Work
           /\ work[p].id \in Ids \cup {NoId} /\ work[p].goal \in Statuses
           /\ work[p].hash \in BOOLEAN /\ work[p].todo \in SUBSET Ids
           /\ work[p].seen \in Row /\ work[p].seen.amount \in Nat
           /\ work[p].seen.hash \in BOOLEAN
BY DEF TypeOK, Work, Row

(* TypeOK alone is not inductive: a handler that reads its row must have    *)
(* been given one.                                                          *)
GivenARow == \A p \in Workers : work[p].pc \notin {"idle", "loop"} => work[p].id \in Ids

TypeInv == TypeOK /\ GivenARow

LEMMA RequestTyped ==
    ASSUME TypeInv, NEW r \in Requests, RequestStep(r)
    PROVE  TypeInv'
<1> USE IdleTyped, Put
<1>a. UNCHANGED work
  BY DEF RequestStep, Request, CheckFunds, ReserveFunds, CommitRequest, RequestThrows
<1> SUFFICES TypeOK'
  BY <1>a DEF TypeInv, GivenARow
<1>b. TypeOK
  BY DEF TypeInv
<1>0. req[r] \in Call /\ req[r].amount \in Nat /\ req[r].user \in Users \cup {"nobody"}
  BY <1>b DEF TypeOK, Call
<1>1. ASSUME NEW u \in Users, NEW a \in Amounts, Request(r, u, a) PROVE TypeOK'
  <2>1. [pc |-> "checked", user |-> u, amount |-> a] \in Call
    BY WithdrawalsAssumption DEF Call
  <2> QED BY <1>b, <1>1, <2>1 DEF TypeOK, Request
<1>2. CASE CheckFunds(r)
  <2>1. [req[r] EXCEPT !.pc = "funded"] \in Call
    BY <1>0 DEF Call
  <2> QED BY <1>b, <1>2, <2>1 DEF TypeOK, CheckFunds
<1>3. CASE ReserveFunds(r)
  <2>1. [req[r] EXCEPT !.pc = "commit"] \in Call
    BY <1>0 DEF Call
  <2>2. live' \in [Users -> Int]
    BY <1>b, <1>0, <1>3 DEF TypeOK, ReserveFunds
  <2> QED BY <1>b, <1>3, <2>1, <2>2 DEF TypeOK, ReserveFunds
<1>4. CASE CommitRequest(r)
  <2>1. [status |-> "pending", owner |-> req[r].user, amount |-> req[r].amount,
         hash |-> FALSE] \in Row
    BY <1>0 DEF Row, Statuses
  <2>2. balance' \in [Users -> Int]
    BY <1>b, <1>0, <1>4 DEF TypeOK, CommitRequest
  <2>3. rows' \in [Ids -> Row]
    BY <1>b, <1>4, <2>1 DEF TypeOK, CommitRequest
  <2> QED BY <1>b, <1>4, <2>2, <2>3 DEF TypeOK, CommitRequest
<1>5. CASE RequestThrows(r)
  BY <1>b, <1>5 DEF TypeOK, RequestThrows, Fault
<1> QED BY <1>1, <1>2, <1>3, <1>4, <1>5 DEF RequestStep

LEMMA StatusTyped ==
    ASSUME TypeInv, NEW p \in Workers, StatusStep(p)
    PROVE  TypeInv'
<1> DEFINE w == work[p]
<1> USE IdleTyped, Put
<1>0. /\ TypeOK /\ w \in Work /\ w.id \in Ids /\ w.goal \in Statuses
      /\ w.hash \in BOOLEAN /\ w.todo \in SUBSET Ids
      /\ w.seen \in Row /\ w.seen.amount \in Nat /\ w.seen.hash \in BOOLEAN
  BY Locals DEF TypeInv, GivenARow, StatusStep, ReadStatus, ApplyStatus,
                CommitStatus, StatusThrows
<1>1. CASE ReadStatus(p)
  <2>1. [w EXCEPT !.pc = "read", !.seen = rows[w.id]] \in Work
    BY <1>0 DEF TypeOK, Work, Pcs
  <2> QED BY <1>0, <1>1, <2>1 DEF TypeInv, TypeOK, GivenARow, ReadStatus
<1>2. CASE ApplyStatus(p)
  <2>1. [w EXCEPT !.pc = "commit"] \in Work
    BY <1>0 DEF Work, Pcs
  <2>2. live' \in [Users -> Int]
    BY <1>0, <1>2 DEF TypeOK, ApplyStatus
  <2> QED BY <1>0, <1>2, <2>1, <2>2 DEF TypeInv, TypeOK, GivenARow, ApplyStatus
<1>3. CASE CommitStatus(p)
  <2>1. Returned(p) \in Work /\ Returned(p).pc \in {"idle", "loop"}
    <3>1. [IdleWork EXCEPT !.pc = "loop", !.todo = w.todo] \in Work
      BY <1>0 DEF Work, Pcs
    <3> QED BY <3>1 DEF Returned, IdleWork
  <2>2. [rows[w.id] EXCEPT !.status = w.goal,
                           !.hash = HashWritten(w.hash, w.seen)] \in Row
    <3>1. HashWritten(w.hash, w.seen) \in BOOLEAN
      BY <1>0 DEF HashWritten
    <3>2. rows[w.id] \in Row
      BY <1>0 DEF TypeOK
    <3> QED BY <1>0, <3>1, <3>2 DEF Row
  <2>3. rows' \in [Ids -> Row]
    BY <1>0, <1>3, <2>2 DEF TypeOK, CommitStatus
  <2>4. balance' \in [Users -> Int] /\ refunds' \in [Ids -> Nat]
    BY <1>0, <1>3 DEF TypeOK, CommitStatus
  <2> QED BY <1>0, <1>3, <2>1, <2>3, <2>4 DEF TypeInv, TypeOK, GivenARow, CommitStatus
<1>4. CASE StatusThrows(p)
  <2> DEFINE retry == [w EXCEPT !.pc = "update", !.goal = "failed", !.hash = FALSE]
  <2>1. retry \in Work /\ retry.id \in Ids
    BY <1>0 DEF Work, Pcs, Statuses
  <2>2. IdleWork.pc = "idle"
    BY DEF IdleWork
  <2>3. CASE work' = [work EXCEPT ![p] = retry]
    BY <1>0, <1>4, <2>1, <2>3 DEF TypeInv, TypeOK, GivenARow, StatusThrows, Fault
  <2>4. CASE work' = [work EXCEPT ![p] = IdleWork]
    BY <1>0, <1>4, <2>2, <2>4 DEF TypeInv, TypeOK, GivenARow, StatusThrows, Fault
  <2> QED BY <1>4, <2>3, <2>4 DEF StatusThrows
<1> QED BY <1>1, <1>2, <1>3, <1>4 DEF StatusStep

LEMMA AdminTyped ==
    ASSUME TypeInv, NEW p \in Admins, AdminStep(p)
    PROVE  TypeInv'
<1> USE IdleTyped, Put
<1>0. TypeOK /\ GivenARow /\ p \in Workers
  BY DEF TypeInv, Workers
<1>1. ASSUME NEW i \in Ids, NEW goal \in AdminGoals, NEW h \in BOOLEAN, Ask(p, i, goal, h)
      PROVE  TypeInv'
  <2> DEFINE w == [IdleWork EXCEPT !.pc = IF goal = "approved" THEN "approve" ELSE "update",
                                   !.id = i, !.goal = goal, !.hash = h]
  <2>1. goal \in Statuses
    BY WithdrawalsAssumption DEF Statuses
  <2>2. w \in Work
    BY <2>1 DEF Work, Pcs
  <2>3. w.id = i
    BY DEF IdleWork
  <2>4. work' = [work EXCEPT ![p] = w]
    BY <1>1 DEF Ask
  <2> QED BY <1>0, <1>1, <2>2, <2>3, <2>4 DEF TypeInv, TypeOK, GivenARow, Ask
<1>2. CASE Approve(p)
  <2>1. work[p].id \in Ids
    BY <1>0, <1>2 DEF GivenARow, Approve
  <2>2. rows[work[p].id] \in Row
    BY <1>0, <2>1 DEF TypeOK
  <2>3. [rows[work[p].id] EXCEPT !.status = "approved"] \in Row
    BY <2>2 DEF Row, Statuses
  <2>4. IdleWork.pc = "idle"
    BY DEF IdleWork
  <2> QED BY <1>0, <1>2, <2>3, <2>4 DEF TypeInv, TypeOK, GivenARow, Approve
<1> QED BY <1>0, <1>1, <1>2, StatusTyped DEF AdminStep

LEMMA PayerTyped ==
    ASSUME TypeInv, NEW p \in Payers, PayerStep(p)
    PROVE  TypeInv'
<1> USE IdleTyped, Put
<1>0. TypeOK /\ GivenARow /\ p \in Workers /\ work[p].todo \in SUBSET Ids
  BY Locals DEF TypeInv, Workers
<1>1. CASE StartRun(p)
  <2>1. [IdleWork EXCEPT !.pc = "loop", !.todo = OpenRows] \in Work
    BY DEF Work, Pcs, OpenRows
  <2>2. [IdleWork EXCEPT !.pc = "loop", !.todo = OpenRows].pc = "loop"
    BY DEF IdleWork
  <2> QED BY <1>0, <1>1, <2>1, <2>2 DEF TypeInv, TypeOK, GivenARow, StartRun
<1>2. ASSUME NEW i \in Ids, Pay(p, i) PROVE TypeInv'
  <2> DEFINE w == [IdleWork EXCEPT !.pc = "update", !.id = i, !.goal = "completed",
                                   !.hash = TRUE, !.todo = work[p].todo \ {i}]
  <2>1. w \in Work
    BY <1>0 DEF Work, Pcs, Statuses
  <2>2. w.id = i
    BY DEF IdleWork
  <2>3. work' = [work EXCEPT ![p] = w]
    BY <1>2 DEF Pay
  <2>4. sends' \in [Ids -> Nat]
    BY <1>0, <1>2 DEF TypeOK, Pay
  <2> QED BY <1>0, <1>2, <2>1, <2>2, <2>3, <2>4 DEF TypeInv, TypeOK, GivenARow, Pay
<1>3. ASSUME NEW i \in Ids, SendRejected(p, i) PROVE TypeInv'
  <2> DEFINE w == [IdleWork EXCEPT !.pc = "update", !.id = i, !.goal = "failed",
                                   !.todo = work[p].todo \ {i}]
  <2>1. w \in Work
    BY <1>0 DEF Work, Pcs, Statuses
  <2>2. w.id = i
    BY DEF IdleWork
  <2>3. work' = [work EXCEPT ![p] = w]
    BY <1>3 DEF SendRejected
  <2>4. sends' \in [Ids -> Nat]
    <3>1. sends' = sends \/ sends' = [sends EXCEPT ![i] = @ + 1]
      BY <1>3 DEF SendRejected
    <3> QED BY <1>0, <3>1 DEF TypeOK
  <2>5. faults' \in Nat
    <3>1. faults' = faults \/ faults' = faults + 1
      BY <1>3 DEF SendRejected, Fault
    <3> QED BY <1>0, <3>1 DEF TypeOK
  <2> QED BY <1>0, <1>3, <2>1, <2>2, <2>3, <2>4, <2>5
          DEF TypeInv, TypeOK, GivenARow, SendRejected
<1>4. CASE EndRun(p)
  <2>1. IdleWork.pc = "idle"
    BY DEF IdleWork
  <2> QED BY <1>0, <1>4, <2>1 DEF TypeInv, TypeOK, GivenARow, EndRun
<1> QED BY <1>0, <1>1, <1>2, <1>3, <1>4, StatusTyped DEF PayerStep

LEMMA AutoTyped ==
    ASSUME TypeInv, NEW p \in AutoPayers, AutoStep(p)
    PROVE  TypeInv'
<1> USE IdleTyped, Put
<1>0. /\ TypeOK /\ GivenARow /\ p \in Workers /\ work[p] \in Work
      /\ IdleWork.pc = "idle"
  BY Locals DEF TypeInv, Workers, IdleWork
<1>1. ASSUME NEW status \in Statuses, AutoUpdate(p, status), work[p].pc # "idle",
             work[p].pc # "loop"
      PROVE  TypeInv'
  <2>1. rows[work[p].id] \in Row
    BY <1>0, <1>1 DEF TypeOK, GivenARow
  <2>2. [rows[work[p].id] EXCEPT !.status = status] \in Row
    BY <1>1, <2>1 DEF Row
  <2> QED BY <1>0, <1>1, <2>2 DEF TypeInv, TypeOK, GivenARow, AutoUpdate
<1>2. ASSUME NEW i \in Ids, AutoStart(p, i) PROVE TypeInv'
  <2> DEFINE w == [IdleWork EXCEPT !.pc = "preflight", !.id = i]
  <2>1. w \in Work /\ w.id = i
    BY <1>0 DEF Work, Pcs
  <2> QED BY <1>0, <1>2, <2>1 DEF TypeInv, TypeOK, GivenARow, AutoStart
<1>3. CASE AutoSend(p)
  <2>1. [work[p] EXCEPT !.pc = "saveHash"] \in Work
    BY <1>0 DEF Work, Pcs
  <2>2. sends' \in [Ids -> Nat]
    BY <1>0, <1>3 DEF TypeOK, AutoSend
  <2>3. work[p].id \in Ids
    BY <1>0, <1>3 DEF GivenARow, AutoSend
  <2> QED BY <1>0, <1>3, <2>1, <2>2, <2>3 DEF TypeInv, TypeOK, GivenARow, AutoSend, Work
<1>4. CASE AutoSaveHash(p)
  <2>1. work[p].id \in Ids
    BY <1>0, <1>4 DEF GivenARow, AutoSaveHash
  <2>2. rows[work[p].id] \in Row
    BY <1>0, <2>1 DEF TypeOK
  <2>3. [rows[work[p].id] EXCEPT !.hash = TRUE] \in Row
    BY <2>2 DEF Row
  <2>4. [work[p] EXCEPT !.pc = "wait"] \in Work
    BY <1>0 DEF Work, Pcs
  <2> QED BY <1>0, <1>4, <2>1, <2>3, <2>4
          DEF TypeInv, TypeOK, GivenARow, AutoSaveHash, Work
<1>5. CASE AutoThrows(p)
  <2>1. [work[p] EXCEPT !.pc = "abandon"] \in Work
    BY <1>0 DEF Work, Pcs
  <2>2. work[p].id \in Ids
    BY <1>0, <1>5 DEF GivenARow, AutoThrows
  <2>3. sends' \in [Ids -> Nat] /\ faults' \in Nat
    BY <1>0, <1>5, <2>2 DEF TypeOK, AutoThrows, Fault
  <2> QED BY <1>0, <1>5, <2>1, <2>2, <2>3
          DEF TypeInv, TypeOK, GivenARow, AutoThrows, Work
<1>6. CASE AutoFailThrows(p)
  BY <1>0, <1>6, IdleTyped DEF TypeInv, TypeOK, GivenARow, AutoFailThrows, Fault, IdleWork
<1> QED BY <1>1, <1>2, <1>3, <1>4, <1>5, <1>6
        DEF AutoStep, AutoInsufficientFunds, AutoConfirmed, AutoFail, Statuses

LEMMA StepTyped == ASSUME TypeInv, [Next]_vars PROVE TypeInv'
<1>1. CASE Crash
  BY <1>1, IdleTyped DEF Crash, Fault, TypeInv, TypeOK, GivenARow, IdleWork
<1>2. CASE UNCHANGED vars
  BY <1>2 DEF vars, TypeInv, TypeOK, GivenARow
<1> QED BY <1>1, <1>2, RequestTyped, AdminTyped, PayerTyped, AutoTyped DEF Next, HandlerStep

LEMMA InitTyped == Init => TypeInv
BY IdleTyped, WithdrawalsAssumption DEF Init, TypeInv, TypeOK, GivenARow, IdleWork

LEMMA TypeInvariant == Spec => []TypeInv
BY InitTyped, StepTyped, PTL DEF Spec

(* Every variable always has its type: no handler leaves a row, a local     *)
(* variable or a balance outside the values its column allows.              *)
THEOREM TypeCorrect == Spec => []TypeOK
<1>1. TypeInv => TypeOK
  BY DEF TypeInv
<1> QED BY <1>1, TypeInvariant, PTL

-----------------------------------------------------------------------------
(* One updater at work at a time, an administrator, a cron run or a payer,  *)
(* and administrators who approve from lists of open rows.  Calls may fail  *)
(* and the server may die.                                                  *)
OneAtWork == \A p, q \in Workers : work[p].pc # "idle" /\ work[q].pc # "idle" => p = q

OpenSeen == ApproveSees \subseteq Open

Paying == {"preflight", "saveHash", "wait", "abandon"}

RefundsFinal ==
    \A i \in Ids : refunds[i] = 0 \/ /\ refunds[i] = 1
                                     /\ rows[i].status \in {"failed", "completed"}

(* What an updater has in its locals is still true of the row it works on.  *)
LocalsTrue ==
    \A p \in Workers :
        /\ work[p].pc \in {"approve", "update", "read", "commit"} =>
               rows[work[p].id].status # "none"
        /\ work[p].pc # "idle" => \A i \in work[p].todo : rows[i].status # "none"
        /\ work[p].pc = "approve" => rows[work[p].id].status \in Open
        /\ work[p].pc \in {"update", "read", "commit"} =>
               work[p].goal \in {"completed", "failed"}
        /\ work[p].pc \in {"read", "commit"} => work[p].seen = rows[work[p].id]
        /\ work[p].pc \in Paying => rows[work[p].id].status = "approved"

RefundInv == TypeInv /\ RefundsFinal /\ LocalsTrue

(* A worker steps while the others rest.                                    *)
Alone(p) == \A q \in Workers : q # p => work[q].pc = "idle" /\ work'[q] = work[q]

LEMMA AtWork ==
    ASSUME TypeOK, NEW p \in Workers,
           \/ AdminStep(p)
           \/ PayerStep(p)
           \/ AutoStep(p)
    PROVE  /\ work[p].pc # "idle" \/ work'[p].pc # "idle"
           /\ \A q \in Workers : q # p => work'[q] = work[q]
<1>1. work \in [Workers -> Work]
  BY DEF TypeOK
<1>2. CASE StatusStep(p)
  <2>1. work[p].pc # "idle"
    BY <1>2 DEF StatusStep, ReadStatus, ApplyStatus, CommitStatus, StatusThrows
  <2>2. PICK w : work' = [work EXCEPT ![p] = w]
    BY <1>2 DEF StatusStep, ReadStatus, ApplyStatus, CommitStatus, StatusThrows
  <2> QED BY <1>1, <2>1, <2>2
<1>3. ASSUME NEW w, work' = [work EXCEPT ![p] = w], w.pc # "idle" \/ work[p].pc # "idle"
      PROVE  /\ work[p].pc # "idle" \/ work'[p].pc # "idle"
             /\ \A q \in Workers : q # p => work'[q] = work[q]
  BY <1>1, <1>3
<1>4. ASSUME NEW i \in Ids, NEW goal \in AdminGoals, NEW h \in BOOLEAN, Ask(p, i, goal, h)
      PROVE  \E w : work' = [work EXCEPT ![p] = w] /\ w.pc # "idle"
  <2> DEFINE w == [IdleWork EXCEPT !.pc = IF goal = "approved" THEN "approve" ELSE "update",
                                   !.id = i, !.goal = goal, !.hash = h]
  <2>1. work' = [work EXCEPT ![p] = w] /\ w.pc # "idle"
    BY <1>4 DEF Ask, IdleWork
  <2> QED BY <2>1
<1>5. ASSUME StartRun(p)
      PROVE  \E w : work' = [work EXCEPT ![p] = w] /\ w.pc # "idle"
  <2> DEFINE w == [IdleWork EXCEPT !.pc = "loop", !.todo = OpenRows]
  <2>1. work' = [work EXCEPT ![p] = w] /\ w.pc # "idle"
    BY <1>5 DEF StartRun, IdleWork
  <2> QED BY <2>1
<1>6. ASSUME NEW i \in Ids, AutoStart(p, i)
      PROVE  \E w : work' = [work EXCEPT ![p] = w] /\ w.pc # "idle"
  <2> DEFINE w == [IdleWork EXCEPT !.pc = "preflight", !.id = i]
  <2>1. work' = [work EXCEPT ![p] = w] /\ w.pc # "idle"
    BY <1>6 DEF AutoStart, IdleWork
  <2> QED BY <2>1
<1>7. CASE AdminStep(p)
  BY <1>2, <1>3, <1>4, <1>7 DEF AdminStep, Approve
<1>8. CASE PayerStep(p)
  BY <1>2, <1>3, <1>5, <1>8 DEF PayerStep, Pay, SendRejected, EndRun
<1>9. CASE AutoStep(p)
  BY <1>3, <1>6, <1>9 DEF AutoStep, AutoInsufficientFunds, AutoSend, AutoSaveHash, AutoConfirmed,
                          AutoThrows, AutoFail, AutoFailThrows, AutoUpdate
<1> QED BY <1>7, <1>8, <1>9

LEMMA WorkersKeepRequests ==
    ASSUME NEW p \in Workers,
           \/ AdminStep(p)
           \/ PayerStep(p)
           \/ AutoStep(p)
    PROVE  UNCHANGED req
<1>1. CASE StatusStep(p)
  BY <1>1 DEF StatusStep, ReadStatus, ApplyStatus, CommitStatus, StatusThrows
<1>2. CASE AdminStep(p)
  BY <1>1, <1>2 DEF AdminStep, Ask, Approve
<1>3. CASE PayerStep(p)
  BY <1>1, <1>3 DEF PayerStep, StartRun, Pay, SendRejected, EndRun
<1>4. CASE AutoStep(p)
  BY <1>4 DEF AutoStep, AutoStart, AutoInsufficientFunds, AutoSend, AutoSaveHash, AutoConfirmed,
              AutoThrows, AutoFail, AutoFailThrows, AutoUpdate
<1> QED BY <1>2, <1>3, <1>4

LEMMA WorksAlone ==
    ASSUME TypeOK, OneAtWork, OneAtWork', NEW p \in Workers,
           \/ AdminStep(p)
           \/ PayerStep(p)
           \/ AutoStep(p)
    PROVE  Alone(p)
<1>1. /\ work[p].pc # "idle" \/ work'[p].pc # "idle"
      /\ \A q \in Workers : q # p => work'[q] = work[q]
  BY AtWork
<1> QED BY <1>1 DEF Alone, OneAtWork

LEMMA RefundRequest ==
    ASSUME RefundInv, NEW r \in Requests, RequestStep(r)
    PROVE  RefundsFinal' /\ LocalsTrue'
<1>1. UNCHANGED <<work, refunds>>
  BY DEF RequestStep, Request, CheckFunds, ReserveFunds, CommitRequest, RequestThrows
<1>2. CASE UNCHANGED rows
  BY <1>1, <1>2 DEF RefundInv, RefundsFinal, LocalsTrue
<1>3. CASE CommitRequest(r)
  <2>1. PICK i \in Ids :
           /\ rows[i] = NoRow
           /\ rows' = [rows EXCEPT ![i] = [status |-> "pending", owner |-> req[r].user,
                                           amount |-> req[r].amount, hash |-> FALSE]]
    BY <1>3 DEF CommitRequest
  <2>2. rows[i].status = "none" /\ rows'[i].status = "pending"
        /\ \A j \in Ids : j # i => rows'[j] = rows[j]
    BY <2>1 DEF NoRow, RefundInv, TypeInv, TypeOK
  <2>3. RefundsFinal'
    BY <1>1, <2>2 DEF RefundInv, RefundsFinal
  <2>4. LocalsTrue'
    BY <1>1, <2>2 DEF RefundInv, LocalsTrue, Paying, TypeInv, TypeOK, GivenARow, Work, Open
  <2> QED BY <2>3, <2>4
<1> QED BY <1>2, <1>3 DEF RequestStep, Request, CheckFunds, ReserveFunds, RequestThrows

LEMMA RefundStatus ==
    ASSUME RefundInv, NEW p \in Workers, Alone(p), StatusStep(p)
    PROVE  RefundsFinal' /\ LocalsTrue'
<1> DEFINE w == work[p]
<1>0. /\ TypeOK /\ w \in Work /\ w.id \in Ids /\ w.todo \in SUBSET Ids
      /\ \A q \in Workers : q # p => work[q].pc = "idle" /\ work'[q] = work[q]
      /\ rows[w.id].status # "none" /\ w.goal \in {"completed", "failed"}
      /\ \A i \in w.todo : rows[i].status # "none"
  BY Locals DEF RefundInv, LocalsTrue, TypeInv, GivenARow, StatusStep, ReadStatus,
                ApplyStatus, CommitStatus, StatusThrows, Alone
<1>1. CASE ReadStatus(p)
  <2>1. work'[p] = [w EXCEPT !.pc = "read", !.seen = rows[w.id]]
    BY <1>0, <1>1 DEF ReadStatus, TypeOK
  <2>2. /\ work'[p].pc = "read" /\ work'[p].seen = rows[w.id]
        /\ work'[p].id = w.id /\ work'[p].goal = w.goal /\ work'[p].todo = w.todo
    BY <1>0, <2>1 DEF Work
  <2> QED BY <1>0, <1>1, <2>2 DEF ReadStatus, RefundInv, RefundsFinal, LocalsTrue, Paying
<1>2. CASE ApplyStatus(p)
  <2>1. work'[p] = [w EXCEPT !.pc = "commit"]
    BY <1>0, <1>2 DEF ApplyStatus, TypeOK
  <2>2. /\ work'[p].pc = "commit" /\ work'[p].seen = w.seen
        /\ work'[p].id = w.id /\ work'[p].goal = w.goal /\ work'[p].todo = w.todo
    BY <1>0, <2>1 DEF Work
  <2>3. w.seen = rows[w.id]
    BY <1>0, <1>2 DEF ApplyStatus, RefundInv, LocalsTrue
  <2> QED BY <1>0, <1>2, <2>2, <2>3 DEF ApplyStatus, RefundInv, RefundsFinal, LocalsTrue, Paying
<1>3. CASE CommitStatus(p)
  <2>1. /\ rows'[w.id].status = w.goal
        /\ \A i \in Ids : i # w.id => rows'[i] = rows[i]
    BY <1>0, <1>3 DEF CommitStatus, TypeOK, Row
  <2>2. w.seen = rows[w.id]
    BY <1>0, <1>3 DEF CommitStatus, RefundInv, LocalsTrue
  <2>3. work'[p].pc \in {"idle", "loop"} /\ work'[p].todo \in SUBSET w.todo
    <3>1. work'[p] = Returned(p)
      BY <1>0, <1>3 DEF CommitStatus, TypeOK
    <3> QED BY <3>1 DEF Returned, IdleWork
  <2>4. LocalsTrue'
    BY <1>0, <2>1, <2>3 DEF LocalsTrue, Paying
  <2>5. RefundsFinal'
    <3>1. CASE RefundDue(w.seen, w.goal)
      <4>1. refunds' = [refunds EXCEPT ![w.id] = @ + 1]
        BY <1>3, <3>1 DEF CommitStatus
      <4>2. refunds[w.id] = 0
        BY <1>0, <2>2, <3>1 DEF RefundDue, RefundInv, RefundsFinal
      <4> QED BY <1>0, <2>1, <3>1, <4>1, <4>2
              DEF RefundInv, RefundsFinal, RefundDue, TypeOK
    <3>2. CASE ~RefundDue(w.seen, w.goal)
      BY <1>0, <1>3, <2>1, <3>2 DEF CommitStatus, RefundInv, RefundsFinal
    <3> QED BY <3>1, <3>2
  <2> QED BY <2>4, <2>5
<1>4. CASE StatusThrows(p)
  <2> DEFINE retry == [w EXCEPT !.pc = "update", !.goal = "failed", !.hash = FALSE]
  <2>1. work'[p] = retry \/ work'[p] = IdleWork
    BY <1>0, <1>4 DEF StatusThrows, TypeOK
  <2>2. /\ retry.pc = "update" /\ retry.goal = "failed"
        /\ retry.id = w.id /\ retry.todo = w.todo
    BY <1>0 DEF Work
  <2>3. IdleWork.pc = "idle" /\ IdleWork.todo = {}
    BY DEF IdleWork
  <2> HIDE DEF retry
  <2>4. LocalsTrue'
    BY <1>0, <1>4, <2>1, <2>2, <2>3 DEF StatusThrows, LocalsTrue, Paying
  <2> QED BY <1>4, <2>4 DEF StatusThrows, RefundInv, RefundsFinal
<1> QED BY <1>1, <1>2, <1>3, <1>4 DEF StatusStep

LEMMA RefundAdmin ==
    ASSUME OpenSeen, RefundInv, NEW p \in Admins, Alone(p), AdminStep(p)
    PROVE  RefundsFinal' /\ LocalsTrue'
<1>0. /\ TypeOK /\ p \in Workers /\ work[p] \in Work
      /\ \A q \in Workers : q # p => work[q].pc = "idle" /\ work'[q] = work[q]
  BY Locals DEF RefundInv, TypeInv, Workers, Alone
<1>1. ASSUME NEW i \in Ids, NEW goal \in AdminGoals, NEW h \in BOOLEAN, Ask(p, i, goal, h)
      PROVE  RefundsFinal' /\ LocalsTrue'
  <2> DEFINE w == [IdleWork EXCEPT !.pc = IF goal = "approved" THEN "approve" ELSE "update",
                                   !.id = i, !.goal = goal, !.hash = h]
  <2>1. /\ w.pc = IF goal = "approved" THEN "approve" ELSE "update"
        /\ w.id = i /\ w.goal = goal /\ w.todo = {}
    BY DEF IdleWork
  <2> HIDE DEF w
  <2>2. work'[p] = w
    BY <1>0, <1>1 DEF Ask, TypeOK, w
  <2>3. rows[i].status # "none" /\ (goal = "approved" => rows[i].status \in Open)
    BY <1>1, WithdrawalsAssumption DEF Ask, OpenSeen
  <2>4. LocalsTrue'
    BY <1>0, <1>1, <2>1, <2>2, <2>3, WithdrawalsAssumption DEF Ask, LocalsTrue, Paying
  <2> QED BY <1>1, <2>4 DEF Ask, RefundInv, RefundsFinal
<1>2. CASE Approve(p)
  <2>1. work[p].id \in Ids /\ rows[work[p].id].status \in Open
    BY <1>0, <1>2 DEF RefundInv, TypeInv, GivenARow, LocalsTrue, Approve
  <2>2. /\ rows'[work[p].id].status = "approved"
        /\ \A j \in Ids : j # work[p].id => rows'[j] = rows[j]
    BY <1>0, <1>2, <2>1 DEF Approve, TypeOK, Row
  <2>3. work'[p].pc = "idle" /\ work'[p].todo = {}
    BY <1>0, <1>2 DEF Approve, TypeOK, IdleWork
  <2>4. RefundsFinal'
    BY <1>2, <2>1, <2>2 DEF Approve, RefundInv, RefundsFinal, Open
  <2>5. LocalsTrue'
    BY <1>0, <2>3 DEF LocalsTrue, Paying
  <2> QED BY <2>4, <2>5
<1> QED BY <1>0, <1>1, <1>2, RefundStatus DEF AdminStep

LEMMA RefundPayer ==
    ASSUME RefundInv, NEW p \in Payers, Alone(p), PayerStep(p)
    PROVE  RefundsFinal' /\ LocalsTrue'
<1>0. /\ TypeOK /\ p \in Workers /\ work[p] \in Work /\ work[p].todo \in SUBSET Ids
      /\ \A q \in Workers : q # p => work[q].pc = "idle" /\ work'[q] = work[q]
      /\ work[p].pc # "idle" => \A i \in work[p].todo : rows[i].status # "none"
  BY Locals DEF RefundInv, TypeInv, LocalsTrue, Workers, Alone
<1>1. CASE StartRun(p)
  <2>1. work'[p] = [IdleWork EXCEPT !.pc = "loop", !.todo = OpenRows]
    BY <1>0, <1>1 DEF StartRun, TypeOK
  <2>2. work'[p].pc = "loop" /\ work'[p].todo = OpenRows
    BY <2>1 DEF IdleWork
  <2>3. \A i \in OpenRows : rows[i].status # "none"
    BY DEF OpenRows, Open
  <2> QED BY <1>0, <1>1, <2>2, <2>3 DEF StartRun, RefundInv, RefundsFinal, LocalsTrue, Paying
<1>2. ASSUME NEW i \in work[p].todo, NEW w, w.pc = "update", w.id = i,
             w.goal \in {"completed", "failed"}, w.todo = work[p].todo \ {i},
             work[p].pc = "loop", work' = [work EXCEPT ![p] = w], UNCHANGED <<rows, refunds>>
      PROVE  RefundsFinal' /\ LocalsTrue'
  <2>1. work'[p] = w
    BY <1>0, <1>2 DEF TypeOK
  <2> QED BY <1>0, <1>2, <2>1 DEF RefundInv, RefundsFinal, LocalsTrue, Paying
<1>3. ASSUME NEW i \in Ids, Pay(p, i) PROVE RefundsFinal' /\ LocalsTrue'
  <2> DEFINE w == [IdleWork EXCEPT !.pc = "update", !.id = i, !.goal = "completed",
                                   !.hash = TRUE, !.todo = work[p].todo \ {i}]
  <2>1. w.pc = "update" /\ w.id = i /\ w.goal = "completed" /\ w.todo = work[p].todo \ {i}
    BY DEF IdleWork
  <2>2. /\ work[p].pc = "loop" /\ i \in work[p].todo
        /\ work' = [work EXCEPT ![p] = w] /\ UNCHANGED <<rows, refunds>>
    BY <1>3 DEF Pay
  <2> HIDE DEF w
  <2> QED BY <1>2, <2>1, <2>2
<1>4. ASSUME NEW i \in Ids, SendRejected(p, i) PROVE RefundsFinal' /\ LocalsTrue'
  <2> DEFINE w == [IdleWork EXCEPT !.pc = "update", !.id = i, !.goal = "failed",
                                   !.todo = work[p].todo \ {i}]
  <2>1. w.pc = "update" /\ w.id = i /\ w.goal = "failed" /\ w.todo = work[p].todo \ {i}
    BY DEF IdleWork
  <2>2. /\ work[p].pc = "loop" /\ i \in work[p].todo
        /\ work' = [work EXCEPT ![p] = w] /\ UNCHANGED <<rows, refunds>>
    BY <1>4 DEF SendRejected
  <2> HIDE DEF w
  <2> QED BY <1>2, <2>1, <2>2
<1>5. CASE EndRun(p)
  <2>1. work'[p].pc = "idle" /\ work'[p].todo = {}
    BY <1>0, <1>5 DEF EndRun, TypeOK, IdleWork
  <2> QED BY <1>0, <1>5, <2>1 DEF EndRun, RefundInv, RefundsFinal, LocalsTrue, Paying
<1> QED BY <1>0, <1>1, <1>3, <1>4, <1>5, RefundStatus DEF PayerStep

LEMMA RefundAuto ==
    ASSUME RefundInv, NEW p \in AutoPayers, Alone(p), AutoStep(p)
    PROVE  RefundsFinal' /\ LocalsTrue'
<1> DEFINE w == work[p]
<1>0. /\ TypeOK /\ p \in Workers /\ w \in Work
      /\ \A q \in Workers : q # p => work[q].pc = "idle" /\ work'[q] = work[q]
      /\ w.pc \in Paying => w.id \in Ids /\ rows[w.id].status = "approved" /\ refunds[w.id] = 0
      /\ w.pc \in Paying => \A i \in w.todo : rows[i].status # "none"
  BY Locals DEF RefundInv, TypeInv, GivenARow, LocalsTrue, RefundsFinal, Workers, Alone, Paying
(* A call that goes on with its row and leaves the status as it is.         *)
<1>1. ASSUME UNCHANGED refunds, \A i \in Ids : rows'[i].status = rows[i].status, w.todo \in SUBSET Ids,
             w.pc \in Paying, work'[p].pc \in Paying, work'[p].id = w.id, work'[p].todo = w.todo
      PROVE  RefundsFinal' /\ LocalsTrue'
  <2>1. RefundsFinal'
    BY <1>1 DEF RefundInv, RefundsFinal
  <2>2. LocalsTrue'
    BY <1>0, <1>1 DEF LocalsTrue, Paying
  <2> QED BY <2>1, <2>2
(* A call that marks its row and ends.                                      *)
<1>2. ASSUME NEW status \in Statuses, AutoUpdate(p, status), w.pc \in Paying
      PROVE  RefundsFinal' /\ LocalsTrue'
  <2>1. work'[p].pc = "idle"
    BY <1>0, <1>2 DEF AutoUpdate, TypeOK, IdleWork
  <2>2. refunds' = refunds /\ refunds[w.id] = 0 /\ \A j \in Ids : j # w.id => rows'[j] = rows[j]
    BY <1>0, <1>2 DEF AutoUpdate, TypeOK
  <2>3. RefundsFinal'
    BY <2>2 DEF RefundInv, RefundsFinal
  <2>4. LocalsTrue'
    BY <1>0, <2>1 DEF LocalsTrue, Paying
  <2> QED BY <2>3, <2>4
<1>3. ASSUME NEW i \in Ids, AutoStart(p, i) PROVE RefundsFinal' /\ LocalsTrue'
  <2> DEFINE v == [IdleWork EXCEPT !.pc = "preflight", !.id = i]
  <2>1. v.pc = "preflight" /\ v.id = i /\ v.todo = {}
    BY DEF IdleWork
  <2> HIDE DEF v
  <2>2. work'[p] = v
    BY <1>0, <1>3 DEF AutoStart, TypeOK, v
  <2>3. rows[i].status = "approved" /\ UNCHANGED <<rows, refunds>>
    BY <1>3 DEF AutoStart
  <2>4. RefundsFinal'
    BY <2>3 DEF RefundInv, RefundsFinal
  <2>5. LocalsTrue'
    BY <1>0, <2>1, <2>2, <2>3 DEF LocalsTrue, Paying
  <2> QED BY <2>4, <2>5
<1>4. CASE AutoSend(p) \/ AutoSaveHash(p) \/ AutoThrows(p)
  <2>1. w.pc \in Paying
    BY <1>4 DEF AutoSend, AutoSaveHash, AutoThrows, Paying
  <2>2. PICK pc \in {"saveHash", "wait", "abandon"} : work' = [work EXCEPT ![p].pc = pc]
    BY <1>4 DEF AutoSend, AutoSaveHash, AutoThrows
  <2>3. /\ work'[p].pc \in Paying /\ work'[p].id = w.id /\ work'[p].todo = w.todo
        /\ w.todo \in SUBSET Ids
    BY <1>0, <2>2 DEF TypeOK, Work, Paying
  <2>4. \A i \in Ids : rows'[i].status = rows[i].status
    <3>1. CASE AutoSaveHash(p)
      BY <1>0, <2>1, <3>1 DEF AutoSaveHash, TypeOK, Row
    <3> QED BY <1>4, <3>1 DEF AutoSend, AutoThrows
  <2>5. UNCHANGED refunds
    BY <1>4 DEF AutoSend, AutoSaveHash, AutoThrows
  <2> QED BY <1>1, <2>1, <2>3, <2>4, <2>5
<1>5. CASE AutoFailThrows(p)
  <2>1. work'[p].pc = "idle" /\ work'[p].todo = {} /\ UNCHANGED <<rows, refunds>>
    BY <1>0, <1>5 DEF AutoFailThrows, TypeOK, IdleWork
  <2>2. RefundsFinal'
    BY <2>1 DEF RefundInv, RefundsFinal
  <2>3. LocalsTrue'
    BY <1>0, <2>1 DEF LocalsTrue, Paying
  <2> QED BY <2>2, <2>3
<1> QED BY <1>2, <1>3, <1>4, <1>5
        DEF AutoStep, AutoInsufficientFunds, AutoConfirmed, AutoFail, Statuses, Paying

LEMMA RefundInvariant == ASSUME OpenSeen PROVE Spec /\ []OneAtWork => []RefundInv
<1>1. Init => RefundInv
  <2>1. Init => RefundsFinal /\ LocalsTrue
    BY DEF Init, RefundsFinal, LocalsTrue, IdleWork, Workers, Paying
  <2> QED BY <2>1, InitTyped DEF RefundInv
<1>2. ASSUME RefundInv, OneAtWork, OneAtWork', [Next]_vars PROVE RefundInv'
  <2> SUFFICES RefundsFinal' /\ LocalsTrue'
    BY <1>2, StepTyped DEF RefundInv
  <2>1. CASE Crash
    BY <1>2, <2>1 DEF Crash, RefundInv, RefundsFinal, LocalsTrue, IdleWork, Paying
  <2>2. CASE UNCHANGED vars
    BY <1>2, <2>2 DEF vars, RefundInv, RefundsFinal, LocalsTrue
  <2>3. TypeOK /\ Admins \subseteq Workers /\ Payers \subseteq Workers /\ AutoPayers \subseteq Workers
    BY <1>2 DEF RefundInv, TypeInv, Workers
  <2> QED BY <1>2, <2>1, <2>2, <2>3, WorksAlone, RefundRequest, RefundAdmin, RefundPayer, RefundAuto DEF Next, HandlerStep
<1> QED BY <1>1, <1>2, PTL DEF Spec

(* As long as one updater is at work at a time a withdrawal's funds go back *)
(* to the user at most once, for any number of users, rows, requests and    *)
(* handlers and whatever calls fail: the previous status                    *)
(* updateTransactionStatus looks at is enough.                              *)
THEOREM RefundedOnce == ASSUME OpenSeen PROVE Spec /\ []OneAtWork => []RefundedAtMostOnce
<1>1. RefundInv => RefundedAtMostOnce
  BY DEF RefundInv, RefundsFinal, RefundedAtMostOnce
<1> QED BY <1>1, RefundInvariant, PTL

HashesKept == \A i \in Ids : rows[i].hash => rows'[i].hash

(* A step unsets no hash when whoever commits a status has read its row as  *)
(* it is.                                                                   *)
LEMMA HashStep ==
    ASSUME TypeInv, [Next]_vars,
           \A p \in Workers : work[p].pc = "commit" => work[p].seen = rows[work[p].id]
    PROVE  HashesKept \/ UNCHANGED rows
<1>0. TypeOK /\ \A p \in Workers : work[p].pc \notin {"idle", "loop"} => work[p].id \in Ids
  BY DEF TypeInv, GivenARow
<1>1. ASSUME NEW p \in Workers, StatusStep(p) PROVE HashesKept \/ UNCHANGED rows
  <2>1. CASE CommitStatus(p)
    <3>1. work[p].id \in Ids /\ work[p].seen = rows[work[p].id]
      BY <1>0, <2>1 DEF CommitStatus
    <3>2. rows' = [rows EXCEPT ![work[p].id] = [@ EXCEPT !.status = work[p].goal,
                                  !.hash = HashWritten(work[p].hash, work[p].seen)]]
      BY <2>1 DEF CommitStatus
    <3>3. rows'[work[p].id].hash = HashWritten(work[p].hash, work[p].seen)
          /\ \A i \in Ids : i # work[p].id => rows'[i] = rows[i]
      BY <1>0, <3>1, <3>2 DEF TypeOK, Row
    <3> QED BY <3>1, <3>3 DEF HashWritten, HashesKept
  <2> QED BY <1>1, <2>1 DEF StatusStep, ReadStatus, ApplyStatus, StatusThrows
<1>2. ASSUME NEW p \in Workers, work[p].id \in Ids, NEW status,
             rows' = [rows EXCEPT ![work[p].id].status = status]
      PROVE  HashesKept
  BY <1>0, <1>2 DEF TypeOK, Row, HashesKept
<1>3. ASSUME NEW r \in Requests, CommitRequest(r) PROVE HashesKept
  <2>1. PICK i \in Ids : rows[i] = NoRow /\ rows' = [rows EXCEPT ![i] = [status |-> "pending", owner |-> req[r].user,
                                                        amount |-> req[r].amount, hash |-> FALSE]]
    BY <1>3 DEF CommitRequest
  <2> QED BY <1>0, <2>1 DEF TypeOK, NoRow, HashesKept
<1>4. ASSUME NEW p \in AutoPayers, AutoStep(p) PROVE HashesKept \/ UNCHANGED rows
  <2>1. p \in Workers /\ (work[p].pc \in Paying => work[p].id \in Ids)
    BY <1>0 DEF Workers, Paying
  <2>2. CASE AutoInsufficientFunds(p) \/ AutoConfirmed(p) \/ AutoFail(p)
    BY <1>2, <2>1, <2>2 DEF AutoInsufficientFunds, AutoConfirmed, AutoFail, AutoUpdate, Paying
  <2>3. CASE AutoSaveHash(p)
    BY <1>0, <2>1, <2>3 DEF AutoSaveHash, Paying, TypeOK, Row, HashesKept
  <2> QED BY <1>4, <2>2, <2>3 DEF AutoStep, AutoStart, AutoSend, AutoThrows, AutoFailThrows
<1>5. ASSUME NEW p \in Admins, AdminStep(p) PROVE HashesKept \/ UNCHANGED rows
  <2>1. p \in Workers
    BY DEF Workers
  <2>2. CASE Approve(p)
    BY <1>0, <1>2, <2>1, <2>2 DEF Approve
  <2> QED BY <1>1, <1>5, <2>1, <2>2 DEF AdminStep, Ask
<1>6. ASSUME NEW p \in Payers, PayerStep(p) PROVE HashesKept \/ UNCHANGED rows
  BY <1>1, <1>6 DEF PayerStep, StartRun, Pay, SendRejected, EndRun, Workers
<1> QED BY <1>3, <1>4, <1>5, <1>6
        DEF Next, HandlerStep, RequestStep, Request, CheckFunds, ReserveFunds, RequestThrows, Crash, vars

(* As long as one updater is at work at a time a recorded hash stays on its *)
(* row: what updateTransactionStatus read of the row is still there when it *)
(* writes the hash back, and approvals, payments and new rows unset none.   *)
THEOREM HashesStay == ASSUME OpenSeen PROVE Spec /\ []OneAtWork => HashKept
<1>1. ASSUME RefundInv, [Next]_vars PROVE HashesKept \/ UNCHANGED rows
  <2>1. \A p \in Workers : work[p].pc = "commit" => work[p].seen = rows[work[p].id]
    BY <1>1 DEF RefundInv, LocalsTrue
  <2>2. TypeInv
    BY <1>1 DEF RefundInv
  <2> QED BY <1>1, <2>1, <2>2, HashStep
<1> QED BY <1>1, RefundInvariant, PTL DEF Spec, HashKept, HashesKept

-----------------------------------------------------------------------------
(* What the rows hold, in units of money.                                   *)

RowsBlank == \A i \in Ids : rows[i].status = "none" => rows[i] = NoRow

Books ==
    /\ RowsBlank
    /\ \A u \in Users : IsFiniteSet(Reserved(u))
    /\ FundsConserved

(* Funds are conserved because a refund returns the amount and the owner of *)
(* the row as it is, once; a row that is not inserted holds nothing.        *)
FundsInv == RefundInv /\ Books

LEMMA UnitsCounted ==
    ASSUME NEW i, NEW n \in Nat
    PROVE  IsFiniteSet({i} \X (1 .. n)) /\ Cardinality({i} \X (1 .. n)) = n
<1>1. IsFiniteSet(1 .. n) /\ Cardinality(1 .. n) = n
  BY FS_Interval
<1>2. IsFiniteSet({i}) /\ Cardinality({i}) = 1
  BY FS_Singleton
<1>3. /\ IsFiniteSet({i} \X (1 .. n))
      /\ Cardinality({i} \X (1 .. n)) = Cardinality({i}) * Cardinality(1 .. n)
  BY <1>1, <1>2, FS_Product
<1> QED BY <1>1, <1>2, <1>3

(* Two sets of units with nothing in common count for their sum.            *)
LEMMA Together ==
    ASSUME NEW S, NEW T, IsFiniteSet(S), IsFiniteSet(T), S \cap T = {}
    PROVE  /\ IsFiniteSet(S \cup T)
           /\ Cardinality(S \cup T) = Cardinality(S) + Cardinality(T)
<1>1. Cardinality(S) \in Nat /\ Cardinality(T) \in Nat
  BY FS_CardinalityType
<1>2. Cardinality(S \cap T) = 0
  BY FS_EmptySet
<1>3. /\ IsFiniteSet(S \cup T)
      /\ Cardinality(S \cup T) = Cardinality(S) + Cardinality(T) - Cardinality(S \cap T)
  BY FS_Union
<1> QED BY <1>1, <1>2, <1>3

(* The balance a step leaves alone, when it leaves the rows held alone.     *)
LEMMA SameReserved ==
    ASSUME NEW u, Held(u)' = Held(u), \A i \in Held(u) : rows'[i].amount = rows[i].amount
    PROVE  Reserved(u)' = Reserved(u)
BY DEF Reserved, Units

LEMMA FundsKept ==
    ASSUME Books, UNCHANGED <<balance, refunds>>,
           \A i \in Ids : /\ rows'[i].owner = rows[i].owner
                          /\ rows'[i].amount = rows[i].amount
                          /\ rows'[i].status = "none" => rows'[i] = rows[i]
    PROVE  Books'
<1>1. \A u \in Users : Held(u)' = Held(u)
  BY DEF Held
<1>2. \A u \in Users : Reserved(u)' = Reserved(u)
  BY <1>1, SameReserved DEF Held
<1> QED BY <1>2 DEF Books, FundsConserved, RowsBlank

LEMMA RequestTakes ==
    ASSUME TypeOK, Books, NEW r \in Requests, CommitRequest(r),
           \A i \in Ids : rows[i].status = "none" => refunds[i] = 0
    PROVE  Books'
<1> DEFINE who == req[r].user
           a == req[r].amount
<1>1. TypeOK /\ a \in Nat
  BY DEF TypeOK, Call
<1>2. PICK i \in Ids :
         /\ rows[i] = NoRow
         /\ rows' = [rows EXCEPT ![i] = [status |-> "pending", owner |-> who,
                                         amount |-> a, hash |-> FALSE]]
  BY DEF CommitRequest
<1>3. /\ rows'[i].owner = who /\ rows'[i].amount = a /\ rows'[i].status = "pending"
      /\ \A j \in Ids \ {i} : rows'[j] = rows[j]
      /\ rows[i].amount = 0 /\ rows[i].owner = "nobody" /\ rows[i].status = "none"
  BY <1>1, <1>2 DEF TypeOK, NoRow
<1>4. /\ refunds' = refunds /\ refunds[i] = 0
      /\ balance' = [balance EXCEPT ![who] = @ - a]
  BY <1>3 DEF CommitRequest
<1>5. Units(i) = {} /\ \A j \in Ids \ {i} : Units(j)' = Units(j)
  BY <1>3 DEF Units
<1>6. RowsBlank'
  BY <1>3 DEF Books, RowsBlank
<1>7. ASSUME NEW u \in Users
      PROVE  IsFiniteSet(Reserved(u)') /\ balance'[u] + Cardinality(Reserved(u)') = OpeningBalance
  <2>1. /\ IsFiniteSet(Reserved(u)) /\ Cardinality(Reserved(u)) \in Nat
        /\ balance[u] \in Int /\ balance[u] + Cardinality(Reserved(u)) = OpeningBalance
    BY <1>1, FS_CardinalityType DEF Books, FundsConserved, TypeOK
  <2>2. CASE u = who
    <3>1. Held(u)' = Held(u) \cup {i}
      BY <1>3, <1>4, <2>2 DEF Held
    <3>2. Reserved(u)' = Reserved(u) \cup Units(i)'
      BY <1>5, <3>1 DEF Reserved, Held
    <3>3. Reserved(u) \cap Units(i)' = {}
      BY <1>5 DEF Reserved, Units
    <3>4. IsFiniteSet(Units(i)') /\ Cardinality(Units(i)') = a
      BY <1>1, <1>3, UnitsCounted DEF Units
    <3>5. /\ IsFiniteSet(Reserved(u)')
          /\ Cardinality(Reserved(u)') = Cardinality(Reserved(u)) + a
      BY <2>1, <3>2, <3>3, <3>4, Together
    <3>6. balance'[u] = balance[u] - a
      BY <1>1, <1>4, <2>2 DEF TypeOK
    <3> QED BY <1>1, <2>1, <3>5, <3>6
  <2>3. CASE u # who
    <3>1. Held(u)' \ {i} = Held(u) \ {i} /\ i \notin Held(u)'
      BY <1>3, <1>4, <2>3 DEF Held
    <3>2. Reserved(u)' = Reserved(u)
      BY <1>5, <3>1 DEF Reserved, Held
    <3>3. balance'[u] = balance[u]
      BY <1>1, <1>4, <2>3 DEF TypeOK
    <3> QED BY <2>1, <3>2, <3>3
  <2> QED BY <2>2, <2>3
<1> QED BY <1>6, <1>7 DEF Books, FundsConserved

LEMMA RefundReturns ==
    ASSUME FundsInv, NEW p \in Workers, CommitStatus(p)
    PROVE  Books'
<1> DEFINE i == work[p].id
           s == work[p].seen
<1>1. /\ TypeOK /\ i \in Ids /\ s = rows[i] /\ s.amount \in Nat
      /\ s.status # "none" /\ work[p].goal \in {"completed", "failed"}
  BY Locals DEF CommitStatus, FundsInv, RefundInv, LocalsTrue, TypeInv, GivenARow
<1>2. /\ rows'[i].owner = s.owner /\ rows'[i].amount = s.amount /\ rows'[i].status # "none"
      /\ \A j \in Ids \ {i} : rows'[j] = rows[j]
  BY <1>1 DEF CommitStatus, TypeOK, Row
<1>3. CASE ~RefundDue(s, work[p].goal)
  <2>1. UNCHANGED <<balance, refunds>>
    BY <1>3 DEF CommitStatus
  <2> QED BY <1>1, <1>2, <2>1, FundsKept DEF FundsInv
<1>4. CASE RefundDue(s, work[p].goal)
  <2>1. /\ balance' = [balance EXCEPT ![s.owner] = @ + s.amount]
        /\ refunds' = [refunds EXCEPT ![i] = @ + 1]
    BY <1>4 DEF CommitStatus
  <2>2. refunds[i] = 0 /\ refunds'[i] = 1 /\ \A j \in Ids \ {i} : refunds'[j] = refunds[j]
    BY <1>1, <1>4, <2>1 DEF RefundDue, FundsInv, RefundInv, RefundsFinal, TypeOK
  <2>3. \A j \in Ids \ {i} : Units(j)' = Units(j)
    BY <1>2 DEF Units
  <2>4. RowsBlank'
    BY <1>2 DEF FundsInv, Books, RowsBlank
  <2>5. ASSUME NEW u \in Users
        PROVE  IsFiniteSet(Reserved(u)') /\ balance'[u] + Cardinality(Reserved(u)') = OpeningBalance
    <3>1. /\ IsFiniteSet(Reserved(u)) /\ Cardinality(Reserved(u)) \in Nat
          /\ balance[u] \in Int /\ balance[u] + Cardinality(Reserved(u)) = OpeningBalance
      BY <1>1, FS_CardinalityType DEF FundsInv, Books, FundsConserved, TypeOK
    <3>2. CASE u = s.owner
      <4>1. Held(u)' = Held(u) \ {i} /\ i \in Held(u)
        BY <1>1, <1>2, <2>2, <3>2 DEF Held
      <4>2. Reserved(u) = Reserved(u)' \cup Units(i)
        BY <2>3, <4>1 DEF Reserved, Held
      <4>3. Reserved(u)' \cap Units(i) = {}
        BY <2>3, <4>1 DEF Reserved, Units
      <4>4. IsFiniteSet(Units(i)) /\ Cardinality(Units(i)) = s.amount
        BY <1>1, UnitsCounted DEF Units
      <4>5. IsFiniteSet(Reserved(u)')
        BY <3>1, <4>2, FS_Subset
      <4>6. /\ Cardinality(Reserved(u)') \in Nat
            /\ Cardinality(Reserved(u)) = Cardinality(Reserved(u)') + s.amount
        BY <4>2, <4>3, <4>4, <4>5, Together, FS_CardinalityType
      <4>7. balance'[u] = balance[u] + s.amount
        BY <1>1, <2>1, <3>2 DEF TypeOK
      <4> QED BY <1>1, <3>1, <4>5, <4>6, <4>7
    <3>3. CASE u # s.owner
      <4>1. Held(u)' = Held(u) /\ \A j \in Held(u) : rows'[j].amount = rows[j].amount
        BY <1>1, <1>2, <2>2, <3>3 DEF Held
      <4>2. Reserved(u)' = Reserved(u)
        BY <4>1, SameReserved
      <4>3. balance'[u] = balance[u]
        BY <1>1, <2>1, <3>3 DEF TypeOK
      <4> QED BY <3>1, <4>2, <4>3
    <3> QED BY <3>2, <3>3
  <2> QED BY <2>4, <2>5 DEF FundsInv, Books, FundsConserved
<1> QED BY <1>3, <1>4

(* A row that gets another status, or its hash, holds what it held.         *)
LEMMA RelabelKeeps ==
    ASSUME TypeOK, Books, NEW i \in Ids, NEW row, rows' = [rows EXCEPT ![i] = row],
           row.owner = rows[i].owner, row.amount = rows[i].amount, row.status # "none",
           UNCHANGED <<balance, refunds>>
    PROVE  Books'
<1>1. \A j \in Ids : /\ rows'[j].owner = rows[j].owner
                     /\ rows'[j].amount = rows[j].amount
                     /\ rows'[j].status = "none" => rows'[j] = rows[j]
  BY DEF TypeOK
<1> QED BY <1>1, FundsKept

LEMMA MarkKeeps ==
    ASSUME TypeOK, Books, NEW i \in Ids, NEW status, status # "none",
           rows' = [rows EXCEPT ![i].status = status], UNCHANGED <<balance, refunds>>
    PROVE  Books'
<1> DEFINE row == [rows[i] EXCEPT !.status = status]
<1>1. rows[i] \in Row /\ rows' = [rows EXCEPT ![i] = row]
  BY DEF TypeOK
<1>2. row.status = status /\ row.owner = rows[i].owner /\ row.amount = rows[i].amount
  BY <1>1 DEF Row
<1> HIDE DEF row
<1> QED BY <1>1, <1>2, RelabelKeeps

(* Approvals and the single-withdrawal payer move no balance.               *)
LEMMA PayersKeep ==
    ASSUME TypeInv, Books, NEW p \in Workers, Approve(p) \/ AutoStep(p),
           work[p].pc = "saveHash" => rows[work[p].id].status # "none"
    PROVE  Books'
<1>0. TypeOK /\ (work[p].pc \in Paying \cup {"approve"} => work[p].id \in Ids)
  BY DEF TypeInv, GivenARow, Paying
<1>1. CASE Approve(p)
  BY <1>0, <1>1, MarkKeeps DEF Approve
<1>2. CASE AutoInsufficientFunds(p) \/ AutoConfirmed(p) \/ AutoFail(p)
  <2>1. PICK status \in {"approved", "completed", "failed"} : AutoUpdate(p, status)
    BY <1>2 DEF AutoInsufficientFunds, AutoConfirmed, AutoFail
  <2>2. work[p].id \in Ids
    BY <1>0, <1>2 DEF AutoInsufficientFunds, AutoConfirmed, AutoFail, Paying
  <2> QED BY <1>0, <2>1, <2>2, MarkKeeps DEF AutoUpdate
<1>3. CASE AutoSaveHash(p)
  <2> DEFINE row == [rows[work[p].id] EXCEPT !.hash = TRUE]
  <2>1. work[p].id \in Ids /\ rows[work[p].id] \in Row /\ rows[work[p].id].status # "none"
    BY <1>0, <1>3 DEF AutoSaveHash, Paying, TypeOK
  <2>2. /\ row.status # "none" /\ rows' = [rows EXCEPT ![work[p].id] = row]
        /\ row.owner = rows[work[p].id].owner /\ row.amount = rows[work[p].id].amount
    BY <1>3, <2>1 DEF Row, AutoSaveHash
  <2>3. UNCHANGED <<balance, refunds>>
    BY <1>3 DEF AutoSaveHash
  <2> HIDE DEF row
  <2> QED BY <1>0, <2>1, <2>2, <2>3, RelabelKeeps
<1>4. CASE UNCHANGED <<balance, rows, refunds>>
  BY <1>4, FundsKept
<1> QED BY <1>1, <1>2, <1>3, <1>4 DEF AutoStep, AutoStart, AutoSend, AutoThrows, AutoFailThrows

LEMMA FundsStep ==
    ASSUME FundsInv, [Next]_vars
    PROVE  Books'
<1>1. CASE UNCHANGED <<balance, rows, refunds>>
  BY <1>1, FundsKept DEF FundsInv
<1>2. ASSUME NEW p \in Workers, StatusStep(p) PROVE Books'
  BY <1>1, <1>2, RefundReturns DEF StatusStep, ReadStatus, ApplyStatus, StatusThrows
<1>3. ASSUME NEW p \in Workers, Approve(p) \/ AutoStep(p) PROVE Books'
  <2>1. work[p].pc = "saveHash" => rows[work[p].id].status # "none"
    BY DEF FundsInv, RefundInv, LocalsTrue, Paying
  <2>2. TypeInv /\ Books
    BY DEF FundsInv, RefundInv
  <2> QED BY <1>3, <2>1, <2>2, PayersKeep
<1>4. CASE UNCHANGED vars \/ Crash
  BY <1>1, <1>4 DEF vars, Crash
<1>5. ASSUME NEW r \in Requests, RequestStep(r) PROVE Books'
  <2>1. TypeOK /\ Books /\ \A i \in Ids : rows[i].status = "none" => refunds[i] = 0
    BY DEF FundsInv, RefundInv, TypeInv, RefundsFinal
  <2> QED BY <1>1, <1>5, <2>1, RequestTakes
          DEF RequestStep, Request, CheckFunds, ReserveFunds, RequestThrows
<1>6. ASSUME NEW p \in Admins, AdminStep(p) PROVE Books'
  BY <1>1, <1>2, <1>3, <1>6 DEF AdminStep, Ask, Workers
<1>7. ASSUME NEW p \in Payers, PayerStep(p) PROVE Books'
  BY <1>1, <1>2, <1>7 DEF PayerStep, StartRun, Pay, SendRejected, EndRun, Workers
<1>8. AutoPayers \subseteq Workers
  BY DEF Workers
<1> QED BY <1>3, <1>4, <1>5, <1>6, <1>7, <1>8 DEF Next, HandlerStep

LEMMA BooksOpen == Init => Books
<1>1. ASSUME Init PROVE RowsBlank /\ \A u \in Users : Reserved(u) = {}
  BY <1>1 DEF Init, RowsBlank, Reserved, Held, Units, NoRow
<1>2. ASSUME Init PROVE \A u \in Users : IsFiniteSet(Reserved(u)) /\ Cardinality(Reserved(u)) = 0
  BY <1>1, <1>2, FS_EmptySet
<1>3. ASSUME Init PROVE FundsConserved
  BY <1>2, <1>3, WithdrawalsAssumption DEF Init, FundsConserved
<1> QED BY <1>1, <1>2, <1>3 DEF Books

(* As long as one updater is at work at a time no withdrawal loses or makes *)
(* money: balance and rows add up to what the user had, whatever requests   *)
(* race, whatever calls fail and however often the server dies.             *)
THEOREM FundsAddUp == ASSUME OpenSeen PROVE Spec /\ []OneAtWork => []FundsConserved
<1>1. Init /\ RefundInv => FundsInv
  BY BooksOpen DEF FundsInv
<1>2. FundsInv /\ RefundInv' /\ [Next]_vars => FundsInv'
  BY FundsStep DEF FundsInv
<1>3. FundsInv => FundsConserved
  BY DEF FundsInv, Books
<1> QED BY <1>1, <1>2, <1>3, RefundInvariant, PTL DEF Spec

-----------------------------------------------------------------------------
(* No database call throws.  Handlers may overlap in any number: the row    *)
(* lock on the user is what keeps the engine's copy of the balance right.   *)
NoThrow == "dbError" \notin FaultKinds

RequestHolds(r, u) == req[r].pc = "commit" /\ req[r].user = u

UpdateHolds(p, u) ==
    /\ work[p].pc = "commit" /\ work[p].seen.owner = u
    /\ RefundDue(work[p].seen, work[p].goal)

(* One handler at most holds a user's row, and the engine's copy is ahead   *)
(* of the column by what that handler is about to commit.                   *)
LiveInv ==
    /\ TypeInv
    /\ \A u \in Users :
         /\ \A q, r \in Requests : RequestHolds(q, u) /\ RequestHolds(r, u) => q = r
         /\ \A p, q \in Workers : UpdateHolds(p, u) /\ UpdateHolds(q, u) => p = q
         /\ \A r \in Requests, p \in Workers : ~(RequestHolds(r, u) /\ UpdateHolds(p, u))
         /\ ~UserLocked(u) => live[u] = balance[u]
         /\ \A r \in Requests : RequestHolds(r, u) => live[u] = balance[u] - req[r].amount
         /\ \A p \in Workers : UpdateHolds(p, u) => live[u] = balance[u] + work[p].seen.amount

LEMMA WhoHolds ==
    ASSUME NEW u
    PROVE  UserLocked(u) <=> (\E r \in Requests : RequestHolds(r, u)) \/ (\E p \in Workers : UpdateHolds(p, u))
BY DEF UserLocked, RequestHolds, UpdateHolds

(* A step that takes no lock and gives none back.                           *)
LEMMA HoldersSame ==
    ASSUME LiveInv, TypeInv', UNCHANGED <<balance, live>>,
           \A u \in Users :
             /\ \A r \in Requests : /\ RequestHolds(r, u)' <=> RequestHolds(r, u)
                                    /\ RequestHolds(r, u) => req'[r].amount = req[r].amount
             /\ \A p \in Workers : /\ UpdateHolds(p, u)' <=> UpdateHolds(p, u)
                                   /\ UpdateHolds(p, u) => work'[p].seen.amount = work[p].seen.amount
    PROVE  LiveInv'
<1>1. \A u \in Users : UserLocked(u)' <=> UserLocked(u)
  BY WhoHolds DEF UserLocked, RequestHolds, UpdateHolds
<1> QED BY <1>1 DEF LiveInv

LEMMA RequestHoldsRow ==
    ASSUME NoThrow, LiveInv, TypeInv', NEW r \in Requests, RequestStep(r)
    PROVE  LiveInv'
<1> DEFINE who == req[r].user
           a == req[r].amount
<1>1. /\ TypeOK /\ a \in Nat /\ UNCHANGED work
  BY DEF LiveInv, TypeInv, TypeOK, Call, RequestStep, Request, CheckFunds, ReserveFunds,
         CommitRequest, RequestThrows
<1>2. ~RequestThrows(r)
  BY DEF NoThrow, RequestThrows, Fault
<1>3. \A u, p : UpdateHolds(p, u)' <=> UpdateHolds(p, u)
  BY <1>1 DEF UpdateHolds
<1>4. ASSUME UNCHANGED <<balance, live>>, req[r].pc # "commit", req'[r].pc # "commit",
             \A q \in Requests \ {r} : req'[q] = req[q]
      PROVE  LiveInv'
  BY <1>1, <1>3, <1>4, HoldersSame DEF RequestHolds
<1>5. ASSUME NEW u \in Users, NEW b \in Amounts, Request(r, u, b) PROVE LiveInv'
  BY <1>1, <1>4, <1>5 DEF Request, TypeOK
<1>6. CASE CheckFunds(r)
  <2>1. req'[r].pc \in {"funded", "idle"}
    BY <1>1, <1>6 DEF CheckFunds, TypeOK, IdleReq, Call
  <2> QED BY <1>1, <1>4, <1>6, <2>1 DEF CheckFunds, TypeOK
<1>7. CASE ReserveFunds(r)
  <2>1. /\ req'[r].pc = "commit" /\ req'[r].user = who /\ req'[r].amount = a
        /\ \A q \in Requests \ {r} : req'[q] = req[q]
    BY <1>1, <1>7 DEF ReserveFunds, TypeOK, Call
  <2>2. /\ ~UserLocked(who) /\ balance' = balance
        /\ \A u \in Users : /\ live[u] \in Int /\ balance[u] \in Int
                            /\ live'[u] = IF u = who THEN live[u] - a ELSE live[u]
    BY <1>1, <1>7 DEF ReserveFunds, TypeOK
  <2>3. \A u : /\ RequestHolds(r, u)' <=> u = who
               /\ \A q \in Requests \ {r} : RequestHolds(q, u)' <=> RequestHolds(q, u)
    BY <2>1 DEF RequestHolds
  <2>4. \A u : ~RequestHolds(r, u)
    BY <1>7 DEF ReserveFunds, RequestHolds
  <2>5. \A u \in Users : u = who => /\ live[u] = balance[u]
                                    /\ \A q \in Requests : ~RequestHolds(q, u)
                                    /\ \A p \in Workers : ~UpdateHolds(p, u)
    BY <2>2, WhoHolds DEF LiveInv
  <2>6. \A u \in Users : ~UserLocked(u)' => u # who /\ ~UserLocked(u)
    BY <1>3, <2>3, <2>4 DEF UserLocked, RequestHolds, UpdateHolds
  <2>7. ASSUME NEW u \in Users
        PROVE  /\ \A q, s \in Requests : RequestHolds(q, u)' /\ RequestHolds(s, u)' => q = s
               /\ \A p, q \in Workers : UpdateHolds(p, u)' /\ UpdateHolds(q, u)' => p = q
               /\ \A q \in Requests, p \in Workers : ~(RequestHolds(q, u)' /\ UpdateHolds(p, u)')
               /\ ~UserLocked(u)' => live'[u] = balance'[u]
               /\ \A q \in Requests : RequestHolds(q, u)' => live'[u] = balance'[u] - req'[q].amount
               /\ \A p \in Workers : UpdateHolds(p, u)' => live'[u] = balance'[u] + work'[p].seen.amount
    <3>1. CASE u = who
      <4>1. /\ \A q \in Requests : RequestHolds(q, u)' => q = r
            /\ \A p \in Workers : ~UpdateHolds(p, u)'
        BY <1>3, <2>3, <2>5, <3>1
      <4>2. live'[u] = balance'[u] - req'[r].amount
        BY <2>1, <2>2, <2>5, <3>1
      <4> QED BY <2>6, <3>1, <4>1, <4>2
    <3>2. CASE u # who
      <4>1. /\ \A q \in Requests : RequestHolds(q, u)' => RequestHolds(q, u) /\ req'[q] = req[q]
            /\ \A p \in Workers : UpdateHolds(p, u)' => UpdateHolds(p, u) /\ work'[p] = work[p]
        BY <1>1, <1>3, <2>1, <2>3, <3>2
      <4>2. live'[u] = live[u] /\ balance'[u] = balance[u]
        BY <2>2, <3>2
      <4> QED BY <2>6, <4>1, <4>2 DEF LiveInv
    <3> QED BY <3>1, <3>2
  <2> QED BY <2>7 DEF LiveInv
<1>8. CASE CommitRequest(r)
  <2>1. req'[r].pc = "idle" /\ \A q \in Requests \ {r} : req'[q] = req[q]
    BY <1>1, <1>8 DEF CommitRequest, TypeOK, IdleReq
  <2>2. /\ live' = live
        /\ \A u \in Users : /\ live[u] \in Int /\ balance[u] \in Int
                            /\ balance'[u] = IF u = who THEN balance[u] - a ELSE balance[u]
    BY <1>1, <1>8 DEF CommitRequest, TypeOK
  <2>3. \A u : /\ ~RequestHolds(r, u)'
               /\ \A q \in Requests \ {r} : RequestHolds(q, u)' <=> RequestHolds(q, u)
               /\ RequestHolds(r, u) <=> u = who
    BY <1>8, <2>1 DEF RequestHolds, CommitRequest
  <2>4. ASSUME NEW u \in Users
        PROVE  /\ \A q, s \in Requests : RequestHolds(q, u)' /\ RequestHolds(s, u)' => q = s
               /\ \A p, q \in Workers : UpdateHolds(p, u)' /\ UpdateHolds(q, u)' => p = q
               /\ \A q \in Requests, p \in Workers : ~(RequestHolds(q, u)' /\ UpdateHolds(p, u)')
    BY <1>3, <2>3 DEF LiveInv
  <2>5. \A u \in Users : u # who /\ ~UserLocked(u)' => ~UserLocked(u)
    BY <1>3, <2>3 DEF UserLocked, RequestHolds, UpdateHolds
  <2>6. ASSUME NEW u \in Users
        PROVE  /\ ~UserLocked(u)' => live'[u] = balance'[u]
               /\ \A q \in Requests : RequestHolds(q, u)' => live'[u] = balance'[u] - req'[q].amount
               /\ \A p \in Workers : UpdateHolds(p, u)' => live'[u] = balance'[u] + work'[p].seen.amount
    <3>1. CASE u = who
      <4>1. /\ live[u] = balance[u] - a
            /\ \A q \in Requests \ {r} : ~RequestHolds(q, u)
            /\ \A p \in Workers : ~UpdateHolds(p, u)
        BY <2>3, <3>1 DEF LiveInv
      <4> QED BY <1>3, <2>2, <2>3, <3>1, <4>1
    <3>2. CASE u # who
      BY <1>1, <1>3, <2>1, <2>2, <2>3, <2>5, <3>2 DEF LiveInv
    <3> QED BY <3>1, <3>2
  <2> QED BY <2>4, <2>6 DEF LiveInv
<1> QED BY <1>2, <1>5, <1>6, <1>7, <1>8 DEF RequestStep

(* A worker's step outside the transactions of updateTransactionStatus.     *)
LEMMA WorkerAside ==
    ASSUME LiveInv, TypeInv', NEW p \in Workers, UNCHANGED <<balance, live, req>>,
           \A q \in Workers \ {p} : work'[q] = work[q],
           \A u : UpdateHolds(p, u)' <=> UpdateHolds(p, u),
           \A u : UpdateHolds(p, u) => work'[p].seen.amount = work[p].seen.amount
    PROVE  LiveInv'
<1>1. \A u : \A q \in Workers : /\ UpdateHolds(q, u)' <=> UpdateHolds(q, u)
                                /\ UpdateHolds(q, u) => work'[q].seen.amount = work[q].seen.amount
  BY DEF UpdateHolds
<1>2. \A u : \A r \in Requests : RequestHolds(r, u)' <=> RequestHolds(r, u)
  BY DEF RequestHolds
<1> QED BY <1>1, <1>2, HoldersSame

LEMMA UpdateHoldsRow ==
    ASSUME NoThrow, LiveInv, TypeInv', NEW p \in Workers, StatusStep(p)
    PROVE  LiveInv'
<1> DEFINE s == work[p].seen
           who == work[p].seen.owner
           due == RefundDue(work[p].seen, work[p].goal)
<1>1. /\ TypeOK /\ s.amount \in Nat /\ work[p] \in Work /\ UNCHANGED req
  BY Locals DEF LiveInv, TypeInv, StatusStep, ReadStatus, ApplyStatus, CommitStatus, StatusThrows
<1>2. ~StatusThrows(p)
  BY DEF NoThrow, StatusThrows, Fault
<1>3. \A u, r : RequestHolds(r, u)' <=> RequestHolds(r, u)
  BY <1>1 DEF RequestHolds
<1>4. CASE ReadStatus(p)
  <2>1. work'[p].pc = "read" /\ \A q \in Workers \ {p} : work'[q] = work[q]
    BY <1>1, <1>4 DEF ReadStatus, TypeOK, Work
  <2> QED BY <1>1, <1>4, <2>1, WorkerAside DEF ReadStatus, UpdateHolds
<1>5. CASE ApplyStatus(p)
  <2>1. /\ work'[p].pc = "commit" /\ work'[p].seen = s /\ work'[p].goal = work[p].goal
        /\ \A q \in Workers \ {p} : work'[q] = work[q]
    BY <1>1, <1>5 DEF ApplyStatus, TypeOK, Work
  <2>2. \A u : ~UpdateHolds(p, u) /\ (UpdateHolds(p, u)' <=> u = who /\ due)
    BY <1>5, <2>1 DEF ApplyStatus, UpdateHolds
  <2>3. CASE ~due
    BY <1>1, <1>5, <2>1, <2>2, <2>3, WorkerAside DEF ApplyStatus
  <2>4. CASE due
    <3>1. /\ ~UserLocked(who) /\ balance' = balance
          /\ \A u \in Users : /\ live[u] \in Int /\ balance[u] \in Int
                              /\ live'[u] = IF u = who THEN live[u] + s.amount ELSE live[u]
      BY <1>1, <1>5, <2>4 DEF ApplyStatus, TypeOK
    <3>2. /\ \A r \in Requests : ~RequestHolds(r, who)
          /\ \A q \in Workers : ~UpdateHolds(q, who)
      BY <3>1, WhoHolds
    <3>3. \A u : \A q \in Workers \ {p} : UpdateHolds(q, u)' <=> UpdateHolds(q, u)
      BY <2>1 DEF UpdateHolds
    <3>4. ASSUME NEW u \in Users
          PROVE  /\ \A q, r \in Requests : RequestHolds(q, u)' /\ RequestHolds(r, u)' => q = r
                 /\ \A q, r \in Workers : UpdateHolds(q, u)' /\ UpdateHolds(r, u)' => q = r
                 /\ \A r \in Requests, q \in Workers : ~(RequestHolds(r, u)' /\ UpdateHolds(q, u)')
      BY <1>3, <2>2, <3>2, <3>3 DEF LiveInv
    <3>5. \A u \in Users : ~UserLocked(u)' => u # who /\ ~UserLocked(u)
      BY <1>3, <2>2, <2>4, <3>3 DEF UserLocked, RequestHolds, UpdateHolds
    <3>6. ASSUME NEW u \in Users
          PROVE  /\ ~UserLocked(u)' => live'[u] = balance'[u]
                 /\ \A r \in Requests : RequestHolds(r, u)' => live'[u] = balance'[u] - req'[r].amount
                 /\ \A q \in Workers : UpdateHolds(q, u)' => live'[u] = balance'[u] + work'[q].seen.amount
      <4>1. CASE u = who
        <5>1. live[u] = balance[u]
          BY <3>1, <4>1 DEF LiveInv
        <5> QED BY <1>3, <2>1, <3>1, <3>2, <3>3, <3>5, <4>1, <5>1
      <4>2. CASE u # who
        BY <1>1, <1>3, <2>1, <2>2, <3>1, <3>3, <3>5, <4>2 DEF LiveInv
      <4> QED BY <4>1, <4>2
    <3> QED BY <3>4, <3>6 DEF LiveInv
  <2> QED BY <2>3, <2>4
<1>6. CASE CommitStatus(p)
  <2>1. work'[p].pc \in {"idle", "loop"} /\ \A q \in Workers \ {p} : work'[q] = work[q]
    <3>1. work' = [work EXCEPT ![p] = Returned(p)]
      BY <1>6 DEF CommitStatus
    <3>2. work'[p] = Returned(p) /\ \A q \in Workers \ {p} : work'[q] = work[q]
      BY <1>1, <3>1 DEF TypeOK
    <3> QED BY <3>2 DEF Returned, IdleWork
  <2>2. \A u : ~UpdateHolds(p, u)' /\ (UpdateHolds(p, u) <=> u = who /\ due)
    BY <1>6, <2>1 DEF CommitStatus, UpdateHolds
  <2>3. CASE ~due
    BY <1>1, <1>6, <2>1, <2>2, <2>3, WorkerAside DEF CommitStatus
  <2>4. CASE due
    <3>1. /\ live' = live
          /\ \A u \in Users : /\ live[u] \in Int /\ balance[u] \in Int
                              /\ balance'[u] = IF u = who THEN balance[u] + s.amount ELSE balance[u]
      BY <1>1, <1>6, <2>4 DEF CommitStatus, TypeOK
    <3>2. \A u : \A q \in Workers \ {p} : UpdateHolds(q, u)' <=> UpdateHolds(q, u)
      BY <2>1 DEF UpdateHolds
    <3>3. ASSUME NEW u \in Users
          PROVE  /\ \A q, r \in Requests : RequestHolds(q, u)' /\ RequestHolds(r, u)' => q = r
                 /\ \A q, r \in Workers : UpdateHolds(q, u)' /\ UpdateHolds(r, u)' => q = r
                 /\ \A r \in Requests, q \in Workers : ~(RequestHolds(r, u)' /\ UpdateHolds(q, u)')
      BY <1>3, <2>2, <3>2 DEF LiveInv
    <3>4. \A u \in Users : u # who /\ ~UserLocked(u)' => ~UserLocked(u)
      BY <1>3, <2>2, <3>2 DEF UserLocked, RequestHolds, UpdateHolds
    <3>5. ASSUME NEW u \in Users
          PROVE  /\ ~UserLocked(u)' => live'[u] = balance'[u]
                 /\ \A r \in Requests : RequestHolds(r, u)' => live'[u] = balance'[u] - req'[r].amount
                 /\ \A q \in Workers : UpdateHolds(q, u)' => live'[u] = balance'[u] + work'[q].seen.amount
      <4>1. CASE u = who
        <5>1. /\ live[u] = balance[u] + s.amount
              /\ \A r \in Requests : ~RequestHolds(r, u)
              /\ \A q \in Workers \ {p} : ~UpdateHolds(q, u)
          BY <2>2, <2>4, <4>1 DEF LiveInv
        <5> QED BY <1>3, <2>2, <3>1, <3>2, <4>1, <5>1
      <4>2. CASE u # who
        BY <1>1, <1>3, <2>1, <2>2, <3>1, <3>2, <3>4, <4>2 DEF LiveInv
      <4> QED BY <4>1, <4>2
    <3> QED BY <3>3, <3>5 DEF LiveInv
  <2> QED BY <2>3, <2>4
<1> QED BY <1>2, <1>4, <1>5, <1>6 DEF StatusStep

LEMMA LiveStep ==
    ASSUME NoThrow, LiveInv, TypeInv', [Next]_vars
    PROVE  LiveInv'
<1>0. IdleWork.pc # "commit"
  BY DEF IdleWork
<1>1. TypeOK
  BY DEF LiveInv, TypeInv
<1>2. ASSUME NEW p \in Workers, NEW w, UNCHANGED <<balance, live, req>>,
             work' = [work EXCEPT ![p] = w], work[p].pc # "commit", w.pc # "commit"
      PROVE  LiveInv'
  <2>1. work'[p] = w /\ \A q \in Workers \ {p} : work'[q] = work[q]
    BY <1>1, <1>2 DEF TypeOK
  <2> QED BY <1>2, <2>1, WorkerAside DEF UpdateHolds
<1>3. ASSUME NEW p \in Admins, AdminStep(p) PROVE LiveInv'
  <2>1. p \in Workers
    BY DEF Workers
  <2>2. ASSUME NEW i \in Ids, NEW goal \in AdminGoals, NEW h \in BOOLEAN, Ask(p, i, goal, h)
        PROVE  LiveInv'
    <3> DEFINE w == [IdleWork EXCEPT !.pc = IF goal = "approved" THEN "approve" ELSE "update",
                                     !.id = i, !.goal = goal, !.hash = h]
    <3>1. w.pc # "commit"
      BY DEF IdleWork
    <3> HIDE DEF w
    <3>2. /\ UNCHANGED <<balance, live, req>> /\ work[p].pc # "commit"
          /\ work' = [work EXCEPT ![p] = w]
      BY <2>2 DEF Ask, w
    <3> QED BY <1>2, <2>1, <3>1, <3>2
  <2>3. CASE Approve(p)
    BY <1>0, <1>2, <2>1, <2>3 DEF Approve
  <2> QED BY <1>3, <2>1, <2>2, <2>3, UpdateHoldsRow DEF AdminStep
<1>4. ASSUME NEW p \in Payers, PayerStep(p) PROVE LiveInv'
  <2>1. p \in Workers
    BY DEF Workers
  <2>2. ASSUME NEW i \in Ids, Pay(p, i) PROVE LiveInv'
    <3> DEFINE w == [IdleWork EXCEPT !.pc = "update", !.id = i, !.goal = "completed",
                                     !.hash = TRUE, !.todo = work[p].todo \ {i}]
    <3>1. w.pc # "commit"
      BY DEF IdleWork
    <3> HIDE DEF w
    <3>2. /\ UNCHANGED <<balance, live, req>> /\ work[p].pc # "commit"
          /\ work' = [work EXCEPT ![p] = w]
      BY <2>2 DEF Pay, w
    <3> QED BY <1>2, <2>1, <3>1, <3>2
  <2>3. ASSUME NEW i \in Ids, SendRejected(p, i) PROVE LiveInv'
    <3> DEFINE w == [IdleWork EXCEPT !.pc = "update", !.id = i, !.goal = "failed",
                                     !.todo = work[p].todo \ {i}]
    <3>1. w.pc # "commit"
      BY DEF IdleWork
    <3> HIDE DEF w
    <3>2. /\ UNCHANGED <<balance, live, req>> /\ work[p].pc # "commit"
          /\ work' = [work EXCEPT ![p] = w]
      BY <2>3 DEF SendRejected, w
    <3> QED BY <1>2, <2>1, <3>1, <3>2
  <2>4. CASE StartRun(p)
    <3> DEFINE w == [IdleWork EXCEPT !.pc = "loop", !.todo = OpenRows]
    <3>1. w.pc # "commit"
      BY DEF IdleWork
    <3> HIDE DEF w
    <3>2. /\ UNCHANGED <<balance, live, req>> /\ work[p].pc # "commit"
          /\ work' = [work EXCEPT ![p] = w]
      BY <2>4 DEF StartRun, w
    <3> QED BY <1>2, <2>1, <3>1, <3>2
  <2>5. CASE EndRun(p)
    BY <1>0, <1>2, <2>1, <2>5 DEF EndRun
  <2> QED BY <1>4, <2>1, <2>2, <2>3, <2>4, <2>5, UpdateHoldsRow DEF PayerStep
<1>5. ASSUME NEW p \in AutoPayers, AutoStep(p) PROVE LiveInv'
  <2>1. p \in Workers /\ work[p] \in Work
    BY <1>1 DEF Workers, TypeOK
  <2>2. ASSUME NEW i \in Ids, AutoStart(p, i) PROVE LiveInv'
    <3> DEFINE w == [IdleWork EXCEPT !.pc = "preflight", !.id = i]
    <3>1. w.pc = "preflight"
      BY DEF IdleWork
    <3> HIDE DEF w
    <3>2. /\ UNCHANGED <<balance, live, req>> /\ work[p].pc # "commit"
          /\ work' = [work EXCEPT ![p] = w]
      BY <2>2 DEF AutoStart, w
    <3> QED BY <1>2, <2>1, <3>1, <3>2
  <2>3. CASE AutoInsufficientFunds(p) \/ AutoConfirmed(p) \/ AutoFail(p)
    BY <1>2, <2>1, <2>3 DEF AutoInsufficientFunds, AutoConfirmed, AutoFail, AutoUpdate, IdleWork
  <2>4. CASE AutoSend(p) \/ AutoSaveHash(p) \/ AutoThrows(p)
    <3>1. PICK pc \in {"saveHash", "wait", "abandon"} : work' = [work EXCEPT ![p].pc = pc]
      BY <2>4 DEF AutoSend, AutoSaveHash, AutoThrows
    <3> DEFINE w == [work[p] EXCEPT !.pc = pc]
    <3>2. work' = [work EXCEPT ![p] = w] /\ w.pc # "commit"
      BY <2>1, <3>1 DEF Work
    <3>3. UNCHANGED <<balance, live, req>> /\ work[p].pc # "commit"
      BY <2>4 DEF AutoSend, AutoSaveHash, AutoThrows
    <3> QED BY <1>2, <2>1, <3>2, <3>3
  <2>5. CASE AutoFailThrows(p)
    <3> DEFINE w == IdleWork
    <3>1. w.pc # "commit"
      BY DEF IdleWork
    <3>2. /\ UNCHANGED <<balance, live, req>> /\ work[p].pc # "commit"
          /\ work' = [work EXCEPT ![p] = w]
      BY <2>5 DEF AutoFailThrows
    <3> HIDE DEF w
    <3> QED BY <1>2, <2>1, <3>1, <3>2
  <2> QED BY <1>5, <2>2, <2>3, <2>4, <2>5 DEF AutoStep
<1>6. CASE Crash
  <2>1. \A u : /\ \A r \in Requests : ~RequestHolds(r, u)'
               /\ \A p \in Workers : ~UpdateHolds(p, u)'
    BY <1>6 DEF Crash, RequestHolds, UpdateHolds, IdleReq, IdleWork
  <2>2. live' = balance'
    BY <1>6 DEF Crash
  <2> QED BY <2>1, <2>2 DEF LiveInv
<1>7. CASE UNCHANGED vars
  BY <1>7, HoldersSame DEF vars, RequestHolds, UpdateHolds
<1> QED BY <1>3, <1>4, <1>5, <1>6, <1>7, RequestHoldsRow DEF Next, HandlerStep

(* Unless a database call throws, the engine's copy of a balance agrees     *)
(* with the column whenever no handler is about to commit a change of it,   *)
(* however many requests, administrators, cron runs and payers overlap.     *)
THEOREM LiveFollows == ASSUME NoThrow PROVE Spec => []LiveAgrees
<1>1. ASSUME Init PROVE /\ live = balance
                        /\ \A u : /\ \A r \in Requests : ~RequestHolds(r, u)
                                  /\ \A p \in Workers : ~UpdateHolds(p, u)
  BY <1>1 DEF Init, RequestHolds, UpdateHolds, IdleReq, IdleWork
<1>2. Init /\ TypeInv => LiveInv
  BY <1>1 DEF LiveInv
<1>3. LiveInv /\ TypeInv' /\ [Next]_vars => LiveInv'
  BY LiveStep
<1>4. LiveInv => LiveAgrees
  BY DEF LiveInv, LiveAgrees
<1> QED BY <1>2, <1>3, <1>4, TypeInvariant, PTL DEF Spec

-----------------------------------------------------------------------------
(* The cron is alone at work, one run at a time.                            *)
CronAtWork ==
    /\ OneAtWork
    /\ \A p \in Workers \ Payers : work[p].pc = "idle"

\* A transfer of this run was broadcast and its row is not marked yet.
Unmarked(p) == work[p].pc \in {"update", "read", "commit"} /\ work[p].goal = "completed"

(* No answer of sendTransaction gets lost, and no call of the run fails and *)
(* the server does not die while a transfer that was broadcast is unmarked. *)
(* Before the broadcast, in between two rows and when a failure is being    *)
(* recorded they may, and requests may fail at any time.                    *)
FailsUnsent ==
    faults' # faults /\ work' # work => UNCHANGED sends /\ \A p \in Payers : ~Unmarked(p)

LEMMA OnlyCronSteps ==
    ASSUME TypeOK, CronAtWork, CronAtWork', NEW p \in Workers,
           AdminStep(p) \/ AutoStep(p)
    PROVE  p \in Payers
<1>1. work[p].pc # "idle" \/ work'[p].pc # "idle"
  BY AtWork
<1> QED BY <1>1 DEF CronAtWork

(* The steps of the payout cron, one run at a time.                         *)
LEMMA CronSteps ==
    ASSUME TypeOK, CronAtWork, CronAtWork', [Next]_vars
    PROVE  \/ \E r \in Requests : RequestStep(r)
           \/ \E p \in Payers : Alone(p) /\ PayerStep(p)
           \/ Crash
           \/ UNCHANGED vars
<1>1. Admins \subseteq Workers /\ Payers \subseteq Workers /\ AutoPayers \subseteq Workers
      /\ Admins \cap Payers = {} /\ AutoPayers \cap Payers = {}
  BY WithdrawalsAssumption DEF Workers
<1>2. OneAtWork /\ OneAtWork'
  BY DEF CronAtWork
<1> QED BY <1>1, <1>2, OnlyCronSteps, WorksAlone DEF Next, HandlerStep

\* Sent again no oftener than f failures explain, and not given back.
Untouched(f, i) == sends[i] <= f /\ refunds[i] = 0

(* With f failures to explain repetitions, a row is untouched, being marked *)
(* by a run that has dealt with it, or settled.                             *)
Dealt(f, p, i) ==
    /\ work[p].pc \in {"update", "read", "commit"}
    /\ work[p].id = i
    /\ refunds[i] = 0
    /\ rows[i].status \in Open
    /\ \/ work[p].goal = "completed" /\ sends[i] <= 1 + f
       \/ work[p].goal = "failed" /\ sends[i] <= f

RowSettles(f, i) ==
    \/ rows[i].status = "none" /\ sends[i] = 0 /\ refunds[i] = 0
    \/ rows[i].status \in Open /\ Untouched(f, i)
    \/ rows[i].status \in {"completed", "failed"} /\ sends[i] + refunds[i] <= 1 + f

Settling(f) ==
    /\ \A i \in Ids : RowSettles(f, i) \/ \E p \in Payers : Dealt(f, p, i)
    /\ \A p \in Payers :
          /\ work[p].pc # "idle" =>
                 \A i \in work[p].todo : rows[i].status \in Open /\ Untouched(f, i)
          /\ work[p].pc \in {"update", "read", "commit"} =>
                 Dealt(f, p, work[p].id) /\ work[p].id \notin work[p].todo
          /\ work[p].pc \in {"read", "commit"} => work[p].seen = rows[work[p].id]
          /\ work[p].pc \in {"idle", "update", "read", "commit", "loop"}

SettleInv(f) == TypeInv /\ Settling(f)

\* A step after which g failures explain what f did before: one more, when it
\* is a failure that leaves a sent row unmarked.
Explains(f, g) == f <= g /\ (FailsUnsent \/ f < g)

LEMMA FaultsCount == ASSUME TypeOK, NEW kind, Fault(kind) PROVE faults' = faults + 1 /\ faults' # faults
BY DEF Fault, TypeOK

LEMMA FaultsGrow == ASSUME TypeOK, [Next]_vars PROVE faults' = faults \/ faults' = faults + 1
<1>1. faults' = faults \/ \E kind \in AllFaults : Fault(kind)
  BY DEF Next, HandlerStep, RequestStep, AdminStep, PayerStep, AutoStep, StatusStep, AllFaults,
         Request, CheckFunds, ReserveFunds, CommitRequest, RequestThrows, ReadStatus, ApplyStatus,
         CommitStatus, StatusThrows, Ask, Approve, StartRun, Pay, SendRejected, EndRun, AutoStart,
         AutoInsufficientFunds, AutoSend, AutoSaveHash, AutoConfirmed, AutoThrows, AutoFail,
         AutoFailThrows, AutoUpdate, Crash, vars
<1> QED BY <1>1, FaultsCount

(* More failures explain as much.                                           *)
LEMMA SettledSame ==
    ASSUME NEW f \in Nat, NEW g \in Nat, f <= g, SettleInv(f), UNCHANGED <<work, rows, sends, refunds>>
    PROVE  Settling(g)'
<1>0. sends \in [Ids -> Nat] /\ refunds \in [Ids -> Nat]
  BY DEF SettleInv, TypeInv, TypeOK
<1>1. ASSUME NEW i \in Ids
      PROVE  /\ Untouched(f, i) => Untouched(g, i)'
             /\ RowSettles(f, i) => RowSettles(g, i)'
             /\ \A p \in Payers : Dealt(f, p, i) => Dealt(g, p, i)'
  <2>1. sends[i] \in Nat /\ refunds[i] \in Nat
    BY <1>0
  <2> QED BY <2>1 DEF Untouched, RowSettles, Dealt
<1>2. \A p \in Payers : /\ work[p].todo \in SUBSET Ids
                        /\ work[p].pc \in {"update", "read", "commit"} => work[p].id \in Ids
  BY Locals DEF SettleInv, TypeInv, GivenARow, Workers
<1> QED BY <1>1, <1>2 DEF SettleInv, Settling

LEMMA SettleRequest ==
    ASSUME NEW f \in Nat, NEW g \in Nat, f <= g, SettleInv(f), NEW r \in Requests, RequestStep(r)
    PROVE  Settling(g)'
<1>1. UNCHANGED <<work, sends, refunds>>
  BY DEF RequestStep, Request, CheckFunds, ReserveFunds, CommitRequest, RequestThrows
<1>2. CASE UNCHANGED rows
  BY <1>1, <1>2, SettledSame
<1>3. CASE CommitRequest(r)
  <2>1. PICK i \in Ids :
           /\ rows[i] = NoRow
           /\ rows' = [rows EXCEPT ![i] = [status |-> "pending", owner |-> req[r].user,
                                           amount |-> req[r].amount, hash |-> FALSE]]
    BY <1>3 DEF CommitRequest
  <2>2. /\ rows[i].status = "none" /\ rows'[i].status = "pending"
        /\ \A j \in Ids : j # i => rows'[j] = rows[j]
        /\ \A j \in Ids : sends[j] \in Nat /\ refunds[j] \in Nat
    BY <2>1 DEF NoRow, SettleInv, TypeInv, TypeOK
  <2>3. \A p \in Payers : p \in Workers /\ work[p].todo \in SUBSET Ids
    BY Locals DEF SettleInv, TypeInv, Workers
  <2>4. \A p \in Payers : /\ ~Dealt(f, p, i) /\ (work[p].pc # "idle" => i \notin work[p].todo)
                         /\ \A j \in Ids : Dealt(f, p, j) => Dealt(g, p, j)'
    BY <1>1, <2>2, <2>3 DEF SettleInv, Settling, Dealt, Open
  <2>5. /\ RowSettles(g, i)'
        /\ \A j \in Ids : Untouched(f, j) => Untouched(g, j)'
        /\ \A j \in Ids : j # i => (RowSettles(f, j) => RowSettles(g, j)')
    <3>1. RowSettles(f, i)
      BY <2>4 DEF SettleInv, Settling
    <3>2. sends[i] = 0 /\ refunds[i] = 0
      BY <2>2, <3>1 DEF RowSettles, Open
    <3> QED BY <1>1, <2>2, <3>2 DEF RowSettles, Untouched, Open
  <2>6. ASSUME NEW p \in Payers, work[p].pc \in {"update", "read", "commit"}
        PROVE  /\ work[p].id \in Ids /\ work[p].id # i
               /\ Dealt(f, p, work[p].id) /\ work[p].id \notin work[p].todo
    BY <2>3, <2>4, <2>6 DEF SettleInv, Settling, TypeInv, GivenARow
  <2>7. ASSUME NEW p \in Payers, work[p].pc \in {"read", "commit"}
        PROVE  work[p].seen = rows'[work[p].id]
    BY <2>2, <2>6, <2>7 DEF SettleInv, Settling
  <2> QED BY <1>1, <2>2, <2>3, <2>4, <2>5, <2>6, <2>7 DEF SettleInv, Settling
<1> QED BY <1>2, <1>3 DEF RequestStep, Request, CheckFunds, ReserveFunds, RequestThrows

LEMMA SettleStatus ==
    ASSUME NEW f \in Nat, NEW g \in Nat, Explains(f, g), SettleInv(f),
           NEW p \in Payers, Alone(p), StatusStep(p)
    PROVE  Settling(g)'
<1> DEFINE w == work[p]
<1>0. /\ TypeOK /\ p \in Workers /\ w \in Work /\ w.id \in Ids /\ w.todo \in SUBSET Ids
      /\ \A q \in Payers : q # p => work[q].pc = "idle" /\ work'[q] = work[q]
      /\ Dealt(f, p, w.id) /\ w.id \notin w.todo
      /\ \A i \in w.todo : rows[i].status \in Open /\ Untouched(f, i)
      /\ f <= g
      /\ \A i \in Ids : sends[i] \in Nat /\ refunds[i] \in Nat
  BY Locals DEF SettleInv, Settling, TypeInv, GivenARow, StatusStep, ReadStatus, TypeOK,
                ApplyStatus, CommitStatus, StatusThrows, Alone, Workers, Explains
<1>a. \A q \in Payers : q # p => \A i \in Ids : ~Dealt(f, q, i)
  BY <1>0 DEF Dealt
(* A step that keeps what the run is about.                                 *)
<1>b. ASSUME UNCHANGED <<rows, sends, refunds>>,
             work'[p].pc \in {"update", "read", "commit"}, work'[p].id = w.id, work'[p].todo = w.todo,
             work'[p].pc \in {"read", "commit"} => work'[p].seen = rows[w.id],
             \/ work'[p].goal = w.goal
             \/ f < g /\ work'[p].goal = "failed"
      PROVE  Settling(g)'
  <2>1. Dealt(g, p, w.id)'
    BY <1>0, <1>b DEF Dealt
  <2>2. \A i \in Ids : i # w.id => RowSettles(g, i)'
    <3> TAKE i \in Ids
    <3> SUFFICES ASSUME i # w.id PROVE RowSettles(g, i)'
      OBVIOUS
    <3>1. RowSettles(f, i)
      BY <1>0, <1>a DEF SettleInv, Settling, Dealt
    <3> QED BY <1>0, <1>b, <3>1 DEF RowSettles, Untouched
  <2>3. \A i \in w.todo : rows'[i].status \in Open /\ Untouched(g, i)'
    BY <1>0, <1>b DEF Untouched
  <2> QED BY <1>0, <1>b, <2>1, <2>2, <2>3 DEF Settling
<1>1. CASE ReadStatus(p)
  <2>1. work'[p] = [w EXCEPT !.pc = "read", !.seen = rows[w.id]]
    BY <1>0, <1>1 DEF ReadStatus, TypeOK
  <2>2. /\ work'[p].pc = "read" /\ work'[p].seen = rows[w.id]
        /\ work'[p].id = w.id /\ work'[p].goal = w.goal /\ work'[p].todo = w.todo
    BY <1>0, <2>1 DEF Work
  <2>3. UNCHANGED <<rows, sends, refunds>>
    BY <1>1 DEF ReadStatus
  <2> QED BY <1>b, <2>2, <2>3
<1>2. CASE ApplyStatus(p)
  <2>1. work'[p] = [w EXCEPT !.pc = "commit"]
    BY <1>0, <1>2 DEF ApplyStatus, TypeOK
  <2>2. /\ work'[p].pc = "commit" /\ work'[p].seen = w.seen
        /\ work'[p].id = w.id /\ work'[p].goal = w.goal /\ work'[p].todo = w.todo
    BY <1>0, <2>1 DEF Work
  <2>3. w.seen = rows[w.id]
    BY <1>0, <1>2 DEF ApplyStatus, SettleInv, Settling
  <2>4. UNCHANGED <<rows, sends, refunds>>
    BY <1>2 DEF ApplyStatus
  <2> QED BY <1>b, <2>2, <2>3, <2>4
<1>3. CASE CommitStatus(p)
  <2>1. /\ rows'[w.id].status = w.goal
        /\ \A i \in Ids : i # w.id => rows'[i] = rows[i]
    BY <1>0, <1>3 DEF CommitStatus, TypeOK, Row
  <2>2. w.seen = rows[w.id]
    BY <1>0, <1>3 DEF CommitStatus, SettleInv, Settling
  <2>3. work'[p].pc = "loop" /\ work'[p].todo = w.todo
    <3>1. work'[p] = Returned(p)
      BY <1>0, <1>3 DEF CommitStatus, TypeOK
    <3> QED BY <3>1 DEF Returned, IdleWork
  <2>4. sends'[w.id] + refunds'[w.id] <= 1 + g /\ \A i \in Ids : i # w.id => refunds'[i] = refunds[i]
    <3>1. CASE w.goal = "failed"
      <4>1. refunds' = [refunds EXCEPT ![w.id] = @ + 1]
        BY <1>0, <1>3, <2>2, <3>1 DEF CommitStatus, RefundDue, Dealt, Open
      <4> QED BY <1>0, <1>3, <3>1, <4>1 DEF CommitStatus, Dealt, TypeOK
    <3>2. CASE w.goal = "completed"
      BY <1>0, <1>3, <3>2 DEF CommitStatus, RefundDue, Dealt
    <3> QED BY <1>0, <3>1, <3>2 DEF Dealt
  <2>5. UNCHANGED sends
    BY <1>3 DEF CommitStatus
  <2>6. w.goal \in {"completed", "failed"}
    BY <1>0 DEF Dealt
  <2>7. ASSUME NEW i \in Ids PROVE RowSettles(g, i)'
    <3>1. CASE i = w.id
      BY <2>1, <2>4, <2>6, <3>1 DEF RowSettles
    <3>2. CASE i # w.id
      <4>1. RowSettles(f, i)
        BY <1>0, <1>a, <3>2 DEF SettleInv, Settling, Dealt
      <4> QED BY <1>0, <2>1, <2>4, <2>5, <3>2, <4>1 DEF RowSettles, Untouched
    <3> QED BY <3>1, <3>2
  <2>8. \A i \in w.todo : rows'[i].status \in Open /\ Untouched(g, i)'
    BY <1>0, <2>1, <2>4, <2>5 DEF Untouched
  <2> QED BY <1>0, <2>3, <2>7, <2>8 DEF Settling
<1>4. CASE StatusThrows(p)
  <2>0. UNCHANGED <<rows, sends, refunds>> /\ faults' # faults
    BY <1>0, <1>4, FaultsCount DEF StatusThrows
  <2>1. CASE w.goal = "completed"
    <3>1. work'[p] = [w EXCEPT !.pc = "update", !.goal = "failed", !.hash = FALSE]
      BY <1>0, <1>4, <2>1 DEF StatusThrows, TypeOK
    <3>2. /\ work'[p].pc = "update" /\ work'[p].goal = "failed"
          /\ work'[p].id = w.id /\ work'[p].todo = w.todo
      BY <1>0, <3>1 DEF Work
    <3>3. f < g
      <4>1. Unmarked(p) /\ work' # work
        BY <1>4, <2>1, <3>2 DEF StatusThrows, Unmarked
      <4> QED BY <2>0, <4>1 DEF FailsUnsent, Explains
    <3> QED BY <1>b, <2>0, <3>2, <3>3
  <2>2. CASE w.goal = "failed"
    <3>1. work'[p].pc = "idle"
      BY <1>0, <1>4, <2>2 DEF StatusThrows, TypeOK, IdleWork
    <3>2. rows[w.id].status \in Open /\ Untouched(f, w.id)
      BY <1>0, <2>2 DEF Dealt, Untouched
    <3>3. ASSUME NEW i \in Ids PROVE RowSettles(g, i)'
      <4>1. RowSettles(f, i)
        BY <1>0, <1>a, <3>2 DEF SettleInv, Settling, Dealt, RowSettles
      <4> QED BY <1>0, <2>0, <4>1 DEF RowSettles, Untouched
    <3> QED BY <1>0, <3>1, <3>3 DEF Settling
  <2> QED BY <1>0, <2>1, <2>2 DEF Dealt
<1> QED BY <1>1, <1>2, <1>3, <1>4 DEF StatusStep

LEMMA SettlePayer ==
    ASSUME NEW f \in Nat, NEW g \in Nat, Explains(f, g), SettleInv(f),
           NEW p \in Payers, Alone(p), PayerStep(p)
    PROVE  Settling(g)'
<1>0. /\ TypeOK /\ p \in Workers /\ work[p] \in Work /\ work[p].todo \in SUBSET Ids
      /\ \A q \in Payers : q # p => work[q].pc = "idle" /\ work'[q] = work[q]
      /\ work[p].pc # "idle" => \A i \in work[p].todo : rows[i].status \in Open /\ Untouched(f, i)
      /\ f <= g
      /\ \A i \in Ids : sends[i] \in Nat /\ refunds[i] \in Nat
  BY Locals DEF SettleInv, Settling, TypeInv, TypeOK, Workers, Alone, Explains
<1>a. \A q \in Payers : q # p => \A i \in Ids : ~Dealt(f, q, i)
  BY <1>0 DEF Dealt
<1>b. ASSUME work[p].pc \in {"idle", "loop"}, NEW i \in Ids PROVE RowSettles(f, i)
  BY <1>0, <1>a, <1>b DEF SettleInv, Settling, Dealt
<1>c. ASSUME NEW i \in Ids, sends'[i] = sends[i], UNCHANGED <<rows, refunds>>
      PROVE  /\ RowSettles(f, i) => RowSettles(g, i)'
             /\ Untouched(f, i) => Untouched(g, i)'
  BY <1>0, <1>c DEF RowSettles, Untouched
<1>1. CASE StartRun(p)
  <2>1. work'[p] = [IdleWork EXCEPT !.pc = "loop", !.todo = OpenRows]
    BY <1>0, <1>1 DEF StartRun, TypeOK
  <2>2. work'[p].pc = "loop" /\ work'[p].todo = OpenRows /\ UNCHANGED <<rows, refunds, sends>>
    BY <1>1, <2>1 DEF IdleWork, StartRun
  <2>3. \A i \in Ids : RowSettles(f, i)
    BY <1>b, <1>1 DEF StartRun
  <2>4. \A i \in OpenRows : i \in Ids /\ rows[i].status \in Open /\ Untouched(f, i)
    BY <2>3 DEF OpenRows, Open, RowSettles
  <2> QED BY <1>0, <1>c, <2>2, <2>3, <2>4 DEF Settling
<1>2. ASSUME NEW i \in work[p].todo, work[p].pc = "loop",
             NEW w, w.pc = "update", w.id = i, w.todo = work[p].todo \ {i},
             work' = [work EXCEPT ![p] = w], UNCHANGED <<rows, refunds>>,
             \/ w.goal = "completed" /\ sends' = [sends EXCEPT ![i] = @ + 1]
             \/ w.goal = "failed" /\ UNCHANGED sends
             \/ w.goal = "failed" /\ sends' = [sends EXCEPT ![i] = @ + 1] /\ f < g
      PROVE  Settling(g)'
  <2>1. work'[p] = w /\ i \in Ids
    BY <1>0, <1>2 DEF TypeOK
  <2>2. Dealt(g, p, i)'
    BY <1>0, <1>2, <2>1 DEF Dealt, Untouched, TypeOK
  <2>3. \A j \in Ids : j # i => sends'[j] = sends[j]
    BY <1>0, <1>2 DEF TypeOK
  <2>4. \A j \in Ids : j # i => RowSettles(g, j)'
    BY <1>b, <1>c, <1>2, <2>3
  <2>5. \A j \in w.todo : rows'[j].status \in Open /\ Untouched(g, j)'
    BY <1>0, <1>c, <1>2, <2>3
  <2>6. i \notin w.todo
    BY <1>2
  <2> QED BY <1>0, <1>2, <2>1, <2>2, <2>4, <2>5, <2>6 DEF Settling
<1>3. ASSUME NEW i \in Ids, Pay(p, i) PROVE Settling(g)'
  <2> DEFINE w == [IdleWork EXCEPT !.pc = "update", !.id = i, !.goal = "completed",
                                   !.hash = TRUE, !.todo = work[p].todo \ {i}]
  <2>1. w.pc = "update" /\ w.id = i /\ w.goal = "completed" /\ w.todo = work[p].todo \ {i}
    BY DEF IdleWork
  <2>2. /\ work[p].pc = "loop" /\ i \in work[p].todo /\ work' = [work EXCEPT ![p] = w]
        /\ UNCHANGED <<rows, refunds>> /\ sends' = [sends EXCEPT ![i] = @ + 1]
    BY <1>3 DEF Pay
  <2> HIDE DEF w
  <2> QED BY <1>2, <2>1, <2>2
<1>4. ASSUME NEW i \in Ids, SendRejected(p, i) PROVE Settling(g)'
  <2> DEFINE w == [IdleWork EXCEPT !.pc = "update", !.id = i, !.goal = "failed",
                                   !.todo = work[p].todo \ {i}]
  <2>1. w.pc = "update" /\ w.id = i /\ w.goal = "failed" /\ w.todo = work[p].todo \ {i}
    BY DEF IdleWork
  <2>2. /\ work[p].pc = "loop" /\ i \in work[p].todo /\ work' = [work EXCEPT ![p] = w]
        /\ UNCHANGED <<rows, refunds>>
        /\ \/ UNCHANGED sends
           \/ Fault("lostAnswer") /\ sends' = [sends EXCEPT ![i] = @ + 1]
    BY <1>4 DEF SendRejected
  <2> HIDE DEF w
  <2>3. CASE UNCHANGED sends
    BY <1>2, <2>1, <2>2, <2>3
  <2>4. CASE Fault("lostAnswer") /\ sends' = [sends EXCEPT ![i] = @ + 1]
    <3>1. work' # work /\ sends' # sends
      <4>1. work'[p] = w /\ sends'[i] = sends[i] + 1 /\ sends[i] \in Nat
        BY <1>0, <1>4, <2>2, <2>4 DEF TypeOK
      <4> QED BY <2>1, <2>2, <4>1
    <3>2. f < g
      BY <1>0, <2>4, <3>1, FaultsCount DEF FailsUnsent, Explains
    <3> QED BY <1>2, <2>1, <2>2, <2>4, <3>2
  <2> QED BY <2>2, <2>3, <2>4
<1>5. CASE EndRun(p)
  <2>1. work'[p].pc = "idle" /\ UNCHANGED <<rows, refunds, sends>>
    BY <1>0, <1>5 DEF EndRun, TypeOK, IdleWork
  <2>2. \A i \in Ids : RowSettles(g, i)'
    BY <1>b, <1>c, <1>5, <2>1 DEF EndRun
  <2> QED BY <1>0, <2>1, <2>2 DEF Settling
<1>6. StatusStep(p) => Settling(g)'
  BY SettleStatus
<1> QED BY <1>1, <1>3, <1>4, <1>5, <1>6 DEF PayerStep

LEMMA SettleCrash ==
    ASSUME NEW f \in Nat, NEW g \in Nat, Explains(f, g), SettleInv(f), Crash
    PROVE  Settling(g)'
<1>0. /\ TypeOK /\ Payers \subseteq Workers
      /\ \A i \in Ids : sends[i] \in Nat /\ refunds[i] \in Nat
  BY DEF SettleInv, TypeInv, TypeOK, Workers
<1>1. /\ UNCHANGED <<rows, sends, refunds>>
      /\ \A p \in Payers : work'[p].pc = "idle"
  BY <1>0 DEF Crash, IdleWork
<1>2. \A p \in Payers : Unmarked(p) => f < g
  <2> SUFFICES ASSUME NEW p \in Payers, Unmarked(p) PROVE f < g
    OBVIOUS
  <2>1. work' # work
    BY <1>1 DEF Unmarked
  <2> QED BY <1>0, <2>1, FaultsCount DEF Crash, FailsUnsent, Explains
<1>3. ASSUME NEW i \in Ids PROVE RowSettles(g, i)'
  <2>1. CASE RowSettles(f, i)
    BY <1>0, <1>1, <2>1 DEF RowSettles, Untouched, Explains
  <2>2. ASSUME NEW p \in Payers, Dealt(f, p, i) PROVE RowSettles(g, i)'
    BY <1>0, <1>1, <1>2, <2>2 DEF Dealt, Unmarked, RowSettles, Untouched, Explains
  <2> QED BY <2>1, <2>2 DEF SettleInv, Settling
<1> QED BY <1>1, <1>3 DEF Settling

LEMMA SettleStep ==
    ASSUME NEW f \in Nat, NEW g \in Nat, Explains(f, g) \/ UNCHANGED vars, f <= g,
           CronAtWork, CronAtWork', SettleInv(f), [Next]_vars
    PROVE  SettleInv(g)'
<1> SUFFICES Settling(g)'
  BY StepTyped DEF SettleInv
<1>1. CASE UNCHANGED vars
  BY <1>1, SettledSame DEF vars
<1>2. CASE Explains(f, g)
  <2>1. \/ \E r \in Requests : RequestStep(r)
        \/ \E p \in Payers : Alone(p) /\ PayerStep(p)
        \/ Crash
        \/ UNCHANGED vars
    BY CronSteps DEF SettleInv, TypeInv
  <2> QED BY <1>1, <1>2, <2>1, SettleRequest, SettlePayer, SettleCrash
<1> QED BY <1>1, <1>2

LEMMA SettledInitially == ASSUME NEW f \in Nat, Init PROVE SettleInv(f)
<1>1. Settling(f)
  BY DEF Init, Settling, RowSettles, IdleWork, NoRow, Workers
<1> QED BY <1>1, InitTyped DEF SettleInv

(* As long as the cron is alone at work and nothing fails between a         *)
(* broadcast and its mark, a withdrawal is paid by one transfer or refunded *)
(* once, never both, however many requests come in while it runs, what else *)
(* fails and how often the server dies: that stretch, in which the catch of *)
(* processPendingWithdrawals refunds what was paid and a restart pays it    *)
(* again, is the only one.                                                  *)
THEOREM CronSettlesOnce == Spec /\ []CronAtWork /\ [][FailsUnsent]_vars => []SettledOnce
<1>1. SettleInv(0) => SettledOnce
  <2> SUFFICES ASSUME SettleInv(0), NEW i \in Ids PROVE sends[i] + refunds[i] <= 1
    BY DEF SettledOnce
  <2>1. sends[i] \in Nat /\ refunds[i] \in Nat
    BY DEF SettleInv, TypeInv, TypeOK
  <2> QED BY <2>1 DEF SettleInv, Settling, RowSettles, Untouched, Dealt
<1>2. Init => SettleInv(0)
  BY SettledInitially
<1>3. CronAtWork /\ CronAtWork' /\ [FailsUnsent]_vars /\ SettleInv(0) /\ [Next]_vars => SettleInv(0)'
  BY SettleStep DEF Explains
<1> QED BY <1>1, <1>2, <1>3, PTL DEF Spec

\* As many repetitions as failures so far explain.
CronInv == SettleInv(faults)

LEMMA CronInvariant == Spec /\ []CronAtWork => []CronInv
<1>1. ASSUME Init PROVE CronInv
  <2>1. faults = 0 /\ SettleInv(0)
    BY <1>1, SettledInitially DEF Init
  <2> QED BY <2>1 DEF CronInv
<1>2. ASSUME CronAtWork, CronAtWork', CronInv, [Next]_vars PROVE CronInv'
  <2>1. TypeOK /\ TypeInv'
    BY <1>2, StepTyped DEF CronInv, SettleInv, TypeInv
  <2>2. faults \in Nat /\ faults' \in Nat
    BY <2>1 DEF TypeInv, TypeOK
  <2>3. PICK f \in Nat : f = faults
    BY <2>2
  <2>4. PICK g \in Nat : g = faults'
    BY <2>2
  <2>5. f <= g /\ (faults' = faults \/ f < g)
    BY <1>2, <2>1, <2>2, <2>3, <2>4, FaultsGrow
  <2>6. Explains(f, g)
    BY <2>5 DEF Explains, FailsUnsent
  <2>7. SettleInv(f)
    BY <1>2, <2>3 DEF CronInv
  <2>8. SettleInv(g)'
    BY <1>2, <2>5, <2>6, <2>7, SettleStep
  <2> QED BY <2>4, <2>8 DEF CronInv, SettleInv, Settling, RowSettles, Untouched, Dealt
<1> QED BY <1>1, <1>2, PTL DEF Spec

(* As long as the cron is alone at work, every transfer or refund of a row  *)
(* beyond its first has a failure of its own before it, whatever fails and  *)
(* however often the server dies: a row is listed again only when a mark    *)
(* was lost, and each lost mark costs one failure.                          *)
THEOREM CronRepeats == Spec /\ []CronAtWork => []RepeatsFollowFaults
<1>1. CronInv => RepeatsFollowFaults
  <2> SUFFICES ASSUME CronInv, NEW i \in Ids PROVE sends[i] + refunds[i] <= 1 + faults
    BY DEF RepeatsFollowFaults
  <2>1. sends[i] \in Nat /\ refunds[i] \in Nat /\ faults \in Nat
    BY DEF CronInv, SettleInv, TypeInv, TypeOK
  <2> QED BY <2>1 DEF CronInv, SettleInv, Settling, RowSettles, Untouched, Dealt
<1> QED BY <1>1, CronInvariant, PTL

(* As long as the cron is alone at work every step of the model is a step   *)
(* of the promise or leaves it alone, whatever fails: an accepted           *)
(* withdrawal is owed, an owed one is settled one way, and what is settled  *)
(* stays as it is.  A row that was paid and is then refunded by the catch   *)
(* stays one that was paid.                                                 *)
THEOREM CronKeepsPromise ==
    Spec /\ []CronAtWork => Promise!Init /\ [][Promise!Next]_Outcome
<1>1. Init => Promise!Init
  BY DEF Init, Promise!Init, Outcome, NoRow
<1>2. ASSUME CronAtWork, CronAtWork', CronInv, [Next]_vars
      PROVE  [Promise!Next]_Outcome
  <2>0. /\ TypeOK /\ Payers \subseteq Workers
        /\ \A i \in Ids : sends[i] \in Nat /\ refunds[i] \in Nat
    BY <1>2 DEF CronInv, SettleInv, TypeInv, TypeOK, Workers
  <2>1. ASSUME NEW i \in Ids, Outcome[i] = "none", Outcome'[i] = "owed",
               \A j \in Ids : j # i => Outcome'[j] = Outcome[j]
        PROVE  Promise!Next
    <3>1. Outcome' = [Outcome EXCEPT ![i] = "owed"]
      BY <2>1 DEF Outcome
    <3> QED BY <2>1, <3>1 DEF Promise!Next, Promise!Accept
  <2>2. ASSUME NEW i \in Ids,
               \/ Outcome'[i] = Outcome[i]
               \/ Outcome[i] = "owed" /\ Outcome'[i] \in {"paid", "refunded"},
               \A j \in Ids : j # i => Outcome'[j] = Outcome[j]
        PROVE  [Promise!Next]_Outcome
    <3>1. Outcome' = [Outcome EXCEPT ![i] = Outcome'[i]]
      BY <2>2 DEF Outcome
    <3>2. CASE Outcome'[i] = Outcome[i]
      BY <2>2, <3>2 DEF Outcome
    <3>3. CASE Outcome[i] = "owed" /\ Outcome'[i] \in {"paid", "refunded"}
      BY <3>1, <3>3 DEF Promise!Next, Promise!Settle
    <3> QED BY <2>2, <3>2, <3>3
  <2>3. CASE UNCHANGED <<rows, sends, refunds>>
    BY <2>3 DEF Outcome
  <2>4. ASSUME NEW r \in Requests, CommitRequest(r) PROVE Promise!Next
    <3>1. PICK i \in Ids : /\ rows[i] = NoRow
                           /\ rows'[i].status = "pending"
                           /\ \A j \in Ids : j # i => rows'[j] = rows[j]
      BY <2>0, <2>4 DEF CommitRequest, TypeOK
    <3>2. UNCHANGED <<sends, refunds>>
      BY <2>4 DEF CommitRequest
    <3>3. rows[i].status = "none"
      BY <3>1 DEF NoRow
    <3>4. sends[i] = 0 /\ refunds[i] = 0
      BY <1>2, <3>3 DEF CronInv, SettleInv, Settling, RowSettles, Dealt, Open
    <3> QED BY <2>1, <3>1, <3>2, <3>3, <3>4 DEF Outcome
  (* A row of the run is sent: it was owed, or sent before. *)
  <2>5. ASSUME NEW p \in Payers, NEW i \in work[p].todo, work[p].pc = "loop",
               UNCHANGED <<rows, refunds>>, sends' = [sends EXCEPT ![i] = @ + 1]
        PROVE  [Promise!Next]_Outcome
    <3>1. i \in Ids /\ rows[i].status \in Open /\ refunds[i] = 0
      BY <1>2, <2>0, <2>5, Locals DEF CronInv, SettleInv, Settling, Untouched
    <3>2. sends'[i] = sends[i] + 1 /\ \A j \in Ids : j # i => sends'[j] = sends[j]
      BY <2>0, <2>5, <3>1 DEF TypeOK
    <3>3. /\ Outcome'[i] = "paid" /\ Outcome[i] \in {"owed", "paid"}
          /\ \A j \in Ids : j # i => Outcome'[j] = Outcome[j]
      BY <2>0, <2>5, <3>1, <3>2 DEF Outcome, Open
    <3> QED BY <2>2, <3>1, <3>3
  <2>6. ASSUME NEW p \in Payers, CommitStatus(p) PROVE [Promise!Next]_Outcome
    <3> DEFINE i == work[p].id
    <3>1. i \in Ids /\ Dealt(faults, p, i) /\ work[p].seen = rows[i]
      BY <1>2, <2>0, <2>6 DEF CommitStatus, CronInv, SettleInv, Settling, TypeInv, GivenARow
    <3>2. /\ rows'[i].status = work[p].goal
          /\ \A j \in Ids : j # i => rows'[j] = rows[j]
      BY <2>0, <2>6, <3>1 DEF CommitStatus, TypeOK, Row
    <3>3. UNCHANGED sends
      BY <2>6 DEF CommitStatus
    <3>4. CASE work[p].goal = "completed"
      <4>1. UNCHANGED refunds
        BY <2>6, <3>4 DEF CommitStatus, RefundDue
      <4>2. rows[i].status # "none" /\ rows'[i].status # "none"
        BY <3>1, <3>2, <3>4 DEF Dealt, Open
      <4>3. \A j \in Ids : Outcome'[j] = Outcome[j]
        BY <3>1, <3>2, <3>3, <4>1, <4>2 DEF Outcome
      <4> QED BY <2>2, <3>1, <4>3
    <3>5. CASE work[p].goal = "failed"
      <4>1. refunds' = [refunds EXCEPT ![i] = @ + 1]
        BY <2>6, <3>1, <3>5 DEF CommitStatus, RefundDue, Dealt, Open
      <4>2. /\ refunds[i] = 0 /\ rows[i].status # "none" /\ rows'[i].status = "failed"
        BY <3>1, <3>2, <3>5 DEF Dealt, Open
      <4>3. refunds'[i] = 1 /\ \A j \in Ids : j # i => refunds'[j] = refunds[j]
        BY <2>0, <3>1, <4>1, <4>2 DEF TypeOK
      <4>4. \/ Outcome'[i] = Outcome[i]
            \/ Outcome[i] = "owed" /\ Outcome'[i] = "refunded"
        BY <2>0, <3>1, <3>3, <4>2, <4>3 DEF Outcome
      <4>5. \A j \in Ids : j # i => Outcome'[j] = Outcome[j]
        BY <3>2, <3>3, <4>3 DEF Outcome
      <4> QED BY <2>2, <3>1, <4>4, <4>5
    <3> QED BY <3>1, <3>4, <3>5 DEF Dealt
  <2>7. ASSUME NEW r \in Requests, RequestStep(r) PROVE [Promise!Next]_Outcome
    BY <2>3, <2>4, <2>7
       DEF RequestStep, Request, CheckFunds, ReserveFunds, RequestThrows
  <2>8. ASSUME NEW p \in Payers, PayerStep(p) PROVE [Promise!Next]_Outcome
    <3>1. ASSUME NEW i \in Ids, SendRejected(p, i) PROVE [Promise!Next]_Outcome
      BY <2>3, <2>5, <3>1 DEF SendRejected
    <3>2. ASSUME NEW i \in Ids, Pay(p, i) PROVE [Promise!Next]_Outcome
      BY <2>5, <3>2 DEF Pay
    <3> QED BY <2>3, <2>6, <2>8, <3>1, <3>2
            DEF PayerStep, StatusStep, StartRun, EndRun, ReadStatus, ApplyStatus, StatusThrows
  <2>9. CASE UNCHANGED vars
    BY <2>3, <2>9 DEF vars
  <2>10. CASE Crash
    BY <2>3, <2>10 DEF Crash
  <2>11. \/ \E r \in Requests : RequestStep(r)
         \/ \E p \in Payers : PayerStep(p)
         \/ Crash
         \/ UNCHANGED vars
    BY <1>2, <2>0, CronSteps
  <2> QED BY <2>7, <2>8, <2>9, <2>10, <2>11
<1> QED BY <1>1, <1>2, CronInvariant, PTL DEF Spec
-----------------------------------------------------------------------------
(* A row marked failed has its funds back, when the cron alone marks rows.  *)

(* What the cron has still to deal with, and the row it deals with, are     *)
(* open: the status updateTransactionStatus reads asks for the refund.      *)
StillOpen ==
    \A p \in Payers :
        /\ work[p].pc # "idle" => \A i \in work[p].todo : rows[i].status \in Open
        /\ work[p].pc \in {"update", "read", "commit"} =>
               /\ rows[work[p].id].status \in Open
               /\ work[p].id \notin work[p].todo

FailedInv == FailedIsRefunded /\ StillOpen

LEMMA FailedRequest ==
    ASSUME RefundInv, FailedInv, NEW r \in Requests, RequestStep(r)
    PROVE  FailedInv'
<1>1. UNCHANGED <<work, refunds>>
  BY DEF RequestStep, Request, CheckFunds, ReserveFunds, CommitRequest, RequestThrows
<1>2. CASE UNCHANGED rows
  BY <1>1, <1>2 DEF FailedInv, FailedIsRefunded, StillOpen
<1>3. CASE CommitRequest(r)
  <2>1. PICK i \in Ids :
           /\ rows[i] = NoRow
           /\ rows' = [rows EXCEPT ![i] = [status |-> "pending", owner |-> req[r].user,
                                           amount |-> req[r].amount, hash |-> FALSE]]
    BY <1>3 DEF CommitRequest
  <2>2. /\ rows'[i].status = "pending"
        /\ \A j \in Ids : j # i => rows'[j] = rows[j]
    BY <2>1 DEF RefundInv, TypeInv, TypeOK
  <2>3. \A p \in Payers : /\ work[p].todo \in SUBSET Ids
                          /\ work[p].pc \in {"update", "read", "commit"} => work[p].id \in Ids
    BY Locals DEF RefundInv, TypeInv, GivenARow, Workers
  <2>4. \A j \in Ids : rows[j].status \in Open => rows'[j].status \in Open
    BY <2>2 DEF Open
  <2>5. FailedIsRefunded'
    BY <1>1, <2>2 DEF FailedInv, FailedIsRefunded
  <2>6. StillOpen'
    BY <1>1, <2>3, <2>4 DEF FailedInv, StillOpen
  <2> QED BY <2>5, <2>6 DEF FailedInv
<1> QED BY <1>2, <1>3 DEF RequestStep, Request, CheckFunds, ReserveFunds, RequestThrows

LEMMA FailedStatus ==
    ASSUME RefundInv, FailedInv, NEW p \in Payers, Alone(p), StatusStep(p)
    PROVE  FailedInv'
<1> DEFINE w == work[p]
<1>0. /\ TypeOK /\ p \in Workers /\ w \in Work /\ w.id \in Ids /\ w.todo \in SUBSET Ids
      /\ \A q \in Payers : q # p => work[q].pc = "idle" /\ work'[q] = work[q]
      /\ rows[w.id].status \in Open /\ w.goal \in {"completed", "failed"}
      /\ w.id \notin w.todo /\ \A i \in w.todo : rows[i].status \in Open
  BY Locals DEF RefundInv, LocalsTrue, TypeInv, GivenARow, StatusStep, ReadStatus,
                ApplyStatus, CommitStatus, StatusThrows, Alone, Workers,
                FailedInv, StillOpen
<1>1. ASSUME UNCHANGED <<rows, refunds>>, work'[p].todo \in SUBSET w.todo,
             \/ work'[p].pc \in {"idle", "loop"}
             \/ work'[p].id = w.id
      PROVE  FailedInv'
  BY <1>0, <1>1 DEF FailedInv, FailedIsRefunded, StillOpen
<1>2. CASE ReadStatus(p)
  <2>1. work'[p] = [w EXCEPT !.pc = "read", !.seen = rows[w.id]]
    BY <1>0, <1>2 DEF ReadStatus, TypeOK
  <2>2. work'[p].id = w.id /\ work'[p].todo = w.todo
    BY <1>0, <2>1 DEF Work
  <2> QED BY <1>1, <1>2, <2>2 DEF ReadStatus
<1>3. CASE ApplyStatus(p)
  <2>1. work'[p] = [w EXCEPT !.pc = "commit"]
    BY <1>0, <1>3 DEF ApplyStatus, TypeOK
  <2>2. work'[p].id = w.id /\ work'[p].todo = w.todo
    BY <1>0, <2>1 DEF Work
  <2> QED BY <1>1, <1>3, <2>2 DEF ApplyStatus
<1>4. CASE CommitStatus(p)
  <2>1. /\ rows'[w.id].status = w.goal
        /\ \A i \in Ids : i # w.id => rows'[i] = rows[i]
    BY <1>0, <1>4 DEF CommitStatus, TypeOK, Row
  <2>2. w.seen = rows[w.id]
    BY <1>0, <1>4 DEF CommitStatus, RefundInv, LocalsTrue
  <2>3. work'[p].pc \in {"idle", "loop"} /\ work'[p].todo \in SUBSET w.todo
    <3>1. work'[p] = Returned(p)
      BY <1>0, <1>4 DEF CommitStatus, TypeOK
    <3> QED BY <3>1 DEF Returned, IdleWork
  <2>4. StillOpen'
    BY <1>0, <2>1, <2>3 DEF StillOpen
  <2>5. FailedIsRefunded'
    <3>1. CASE w.goal = "failed"
      <4>1. refunds' = [refunds EXCEPT ![w.id] = @ + 1]
        BY <1>0, <1>4, <2>2, <3>1 DEF CommitStatus, RefundDue, Open
      <4>2. refunds'[w.id] > 0 /\ \A i \in Ids : i # w.id => refunds'[i] = refunds[i]
        BY <1>0, <4>1 DEF TypeOK
      <4> QED BY <2>1, <4>2 DEF FailedInv, FailedIsRefunded
    <3>2. CASE w.goal = "completed"
      <4>1. UNCHANGED refunds
        BY <1>4, <3>2 DEF CommitStatus, RefundDue
      <4> QED BY <2>1, <3>2, <4>1 DEF FailedInv, FailedIsRefunded
    <3> QED BY <1>0, <3>1, <3>2
  <2> QED BY <2>4, <2>5 DEF FailedInv
<1>5. CASE StatusThrows(p)
  <2> DEFINE retry == [w EXCEPT !.pc = "update", !.goal = "failed", !.hash = FALSE]
  <2>1. work'[p] = retry \/ work'[p] = IdleWork
    BY <1>0, <1>5 DEF StatusThrows, TypeOK
  <2>2. retry.id = w.id /\ retry.todo = w.todo
    BY <1>0 DEF Work
  <2>3. IdleWork.pc = "idle" /\ IdleWork.todo = {}
    BY DEF IdleWork
  <2> HIDE DEF retry
  <2> QED BY <1>1, <1>5, <2>1, <2>2, <2>3 DEF StatusThrows
<1> QED BY <1>2, <1>3, <1>4, <1>5 DEF StatusStep

LEMMA FailedPayer ==
    ASSUME RefundInv, FailedInv, NEW p \in Payers, Alone(p), PayerStep(p)
    PROVE  FailedInv'
<1>0. /\ TypeOK /\ p \in Workers /\ work[p].todo \in SUBSET Ids
      /\ \A q \in Payers : q # p => work[q].pc = "idle" /\ work'[q] = work[q]
      /\ work[p].pc # "idle" => \A i \in work[p].todo : rows[i].status \in Open
  BY Locals DEF RefundInv, TypeInv, Workers, Alone, FailedInv, StillOpen
<1>1. CASE StartRun(p)
  <2>1. work'[p] = [IdleWork EXCEPT !.pc = "loop", !.todo = OpenRows]
    BY <1>0, <1>1 DEF StartRun, TypeOK
  <2>2. work'[p].pc = "loop" /\ work'[p].todo = OpenRows
    BY <2>1 DEF IdleWork
  <2>3. \A i \in OpenRows : rows[i].status \in Open
    BY DEF OpenRows
  <2> QED BY <1>0, <1>1, <2>2, <2>3 DEF StartRun, FailedInv, FailedIsRefunded, StillOpen
<1>2. ASSUME work[p].pc = "loop", NEW i \in work[p].todo, NEW w, w.id = i, w.todo = work[p].todo \ {i},
             work' = [work EXCEPT ![p] = w], UNCHANGED <<rows, refunds>>
      PROVE  FailedInv'
  <2>1. work'[p] = w
    BY <1>0, <1>2 DEF TypeOK
  <2> QED BY <1>0, <1>2, <2>1 DEF FailedInv, FailedIsRefunded, StillOpen
<1>3. ASSUME NEW i \in Ids, Pay(p, i) PROVE FailedInv'
  <2> DEFINE w == [IdleWork EXCEPT !.pc = "update", !.id = i, !.goal = "completed",
                                   !.hash = TRUE, !.todo = work[p].todo \ {i}]
  <2>1. w.id = i /\ w.todo = work[p].todo \ {i}
    BY DEF IdleWork
  <2>2. /\ work[p].pc = "loop" /\ i \in work[p].todo
        /\ work' = [work EXCEPT ![p] = w] /\ UNCHANGED <<rows, refunds>>
    BY <1>3 DEF Pay
  <2> HIDE DEF w
  <2> QED BY <1>2, <2>1, <2>2
<1>4. ASSUME NEW i \in Ids, SendRejected(p, i) PROVE FailedInv'
  <2> DEFINE w == [IdleWork EXCEPT !.pc = "update", !.id = i, !.goal = "failed",
                                   !.todo = work[p].todo \ {i}]
  <2>1. w.id = i /\ w.todo = work[p].todo \ {i}
    BY DEF IdleWork
  <2>2. /\ work[p].pc = "loop" /\ i \in work[p].todo
        /\ work' = [work EXCEPT ![p] = w] /\ UNCHANGED <<rows, refunds>>
    BY <1>4 DEF SendRejected
  <2> HIDE DEF w
  <2> QED BY <1>2, <2>1, <2>2
<1>5. CASE EndRun(p)
  <2>1. work'[p].pc = "idle" /\ work'[p].todo = {}
    BY <1>0, <1>5 DEF EndRun, TypeOK, IdleWork
  <2> QED BY <1>0, <1>5, <2>1 DEF EndRun, FailedInv, FailedIsRefunded, StillOpen
<1> QED BY <1>1, <1>3, <1>4, <1>5, FailedStatus DEF PayerStep

(* As long as the cron is alone at work, a row that says failed has its     *)
(* funds back with the user, whatever calls fail and however often the      *)
(* server dies: the catch of processPendingWithdrawals marks rows that are  *)
(* open when it reads them.                                                 *)
THEOREM CronRefundsFailedRows == ASSUME OpenSeen PROVE Spec /\ []CronAtWork => []FailedIsRefunded
<1>1. Init => FailedInv
  BY DEF Init, FailedInv, FailedIsRefunded, StillOpen, IdleWork, NoRow, Workers
<1>2. ASSUME CronAtWork, CronAtWork', RefundInv, FailedInv, [Next]_vars PROVE FailedInv'
  <2>1. CASE Crash
    BY <1>2, <2>1 DEF Crash, FailedInv, FailedIsRefunded, StillOpen, IdleWork, Workers
  <2>2. CASE UNCHANGED vars
    BY <1>2, <2>2 DEF vars, FailedInv, FailedIsRefunded, StillOpen
  <2>3. TypeOK
    BY <1>2 DEF RefundInv, TypeInv
  <2> QED BY <1>2, <2>1, <2>2, <2>3, CronSteps, FailedRequest, FailedPayer
<1>3. FailedInv => FailedIsRefunded
  BY DEF FailedInv
<1>4. CronAtWork => OneAtWork
  BY DEF CronAtWork
<1>5. Spec /\ []OneAtWork => []RefundInv
  BY RefundInvariant
<1> QED BY <1>1, <1>2, <1>3, <1>4, <1>5, PTL DEF Spec
-----------------------------------------------------------------------------
(* processApprovedWithdrawal is called for one row at a time, next to one   *)
(* administrator at a time, who approves what is pending.                   *)
PayerAtWork ==
    /\ \A p \in Payers : work[p].pc = "idle"
    /\ \A p, q \in Admins : work[p].pc # "idle" /\ work[q].pc # "idle" => p = q
    /\ \A p, q \in AutoPayers : work[p].pc # "idle" /\ work[q].pc # "idle" => p = q

PendingSeen ==
    /\ AdminGoals \subseteq {"approved"}
    /\ ApproveSees \subseteq {"pending"}

AloneIn(S, p) == \A q \in S : q # p => work[q].pc = "idle" /\ work'[q] = work[q]

(* The steps of handlers when the cron rests.                               *)
LEMMA PayerSteps ==
    ASSUME TypeOK, PayerAtWork, PayerAtWork', [Next]_vars
    PROVE  \/ \E r \in Requests : RequestStep(r)
           \/ \E p \in Admins : AloneIn(Admins, p) /\ AdminStep(p)
           \/ \E p \in AutoPayers : AloneIn(AutoPayers, p) /\ AutoStep(p)
           \/ Crash
           \/ UNCHANGED vars
<1>1. Admins \subseteq Workers /\ Payers \subseteq Workers /\ AutoPayers \subseteq Workers
  BY DEF Workers
<1>2. ASSUME NEW p \in Payers, PayerStep(p) PROVE FALSE
  BY <1>1, <1>2, AtWork DEF PayerAtWork
<1>3. ASSUME NEW p \in Admins, AdminStep(p) PROVE AloneIn(Admins, p)
  <2>1. /\ work[p].pc # "idle" \/ work'[p].pc # "idle"
        /\ \A q \in Workers : q # p => work'[q] = work[q]
    BY <1>1, <1>3, AtWork
  <2> QED BY <1>1, <2>1 DEF AloneIn, PayerAtWork
<1>4. ASSUME NEW p \in AutoPayers, AutoStep(p) PROVE AloneIn(AutoPayers, p)
  <2>1. /\ work[p].pc # "idle" \/ work'[p].pc # "idle"
        /\ \A q \in Workers : q # p => work'[q] = work[q]
    BY <1>1, <1>4, AtWork
  <2> QED BY <1>1, <2>1 DEF AloneIn, PayerAtWork
<1> QED BY <1>2, <1>3, <1>4 DEF Next, HandlerStep

(* Nothing is refunded, and a handler's row keeps its status until the      *)
(* handler marks it.                                                        *)
OnItsRow ==
    /\ \A p \in Admins :
          /\ work[p].pc \in {"idle", "approve"}
          /\ work[p].pc = "approve" => rows[work[p].id].status = "pending"
    /\ \A p \in AutoPayers :
          /\ work[p].pc \in {"idle"} \cup Paying
          /\ work[p].pc \in Paying => rows[work[p].id].status = "approved"
    /\ \A i \in Ids : refunds[i] = 0

\* A call that has broadcast its row's transfer and not marked the row.
HasSent(p) == work[p].pc \in Paying \ {"preflight"}

(* The transfer of an approved row, beyond those that f failures explain,   *)
(* is the work of a call that is still on it.                               *)
SentUpTo(f) ==
    /\ \A i \in Ids :
          /\ sends[i] <= 1 + f
          /\ rows[i].status \in {"none", "pending"} => sends[i] <= f
          /\ rows[i].status = "approved" /\ sends[i] > f =>
                 \E p \in AutoPayers : work[p].id = i /\ HasSent(p)
    /\ \A p \in AutoPayers : work[p].pc = "preflight" => sends[work[p].id] <= f

PayInv == TypeInv /\ OnItsRow

\* The server dies, or the catch's own update fails, and a row that was
\* broadcast stays approved.
LeavesSent ==
    \/ Crash /\ \E p \in AutoPayers : HasSent(p)
    \/ \E p \in AutoPayers : AutoFailThrows(p)

PaysOn == OnItsRow' /\ \A f \in Nat : SentUpTo(f) => SentUpTo(f)'

LEMMA PayRequest ==
    ASSUME PayInv, NEW r \in Requests, RequestStep(r)
    PROVE  PaysOn
<1>1. UNCHANGED <<work, sends, refunds>>
  BY DEF RequestStep, Request, CheckFunds, ReserveFunds, CommitRequest, RequestThrows
<1>2. CASE UNCHANGED rows
  BY <1>1, <1>2 DEF PaysOn, PayInv, SentUpTo, OnItsRow, HasSent
<1>3. CASE CommitRequest(r)
  <2>1. PICK i \in Ids :
           /\ rows[i] = NoRow
           /\ rows' = [rows EXCEPT ![i] = [status |-> "pending", owner |-> req[r].user,
                                           amount |-> req[r].amount, hash |-> FALSE]]
    BY <1>3 DEF CommitRequest
  <2>2. /\ rows[i].status = "none" /\ rows'[i].status = "pending"
        /\ \A j \in Ids : j # i => rows'[j] = rows[j]
    BY <2>1 DEF NoRow, PayInv, TypeInv, TypeOK
  <2>3. ASSUME NEW f \in Nat, SentUpTo(f) PROVE SentUpTo(f)'
    BY <1>1, <2>2, <2>3 DEF SentUpTo, HasSent
  <2>4. \A p \in Admins \cup AutoPayers : work[p].pc \notin {"idle", "loop"} => work[p].id \in Ids
    BY DEF PayInv, TypeInv, GivenARow, Workers
  <2>5. OnItsRow'
    <3>1. ASSUME NEW p \in Admins, work[p].pc = "approve"
          PROVE  rows'[work[p].id].status = "pending"
      BY <2>2, <2>4, <3>1 DEF PayInv, OnItsRow
    <3>2. ASSUME NEW p \in AutoPayers, work[p].pc \in Paying
          PROVE  rows'[work[p].id].status = "approved"
      BY <2>2, <2>4, <3>2 DEF PayInv, OnItsRow, Paying
    <3> QED BY <1>1, <3>1, <3>2 DEF PayInv, OnItsRow
  <2> QED BY <2>3, <2>5 DEF PaysOn
<1> QED BY <1>2, <1>3 DEF RequestStep, Request, CheckFunds, ReserveFunds, RequestThrows

LEMMA PayAdmin ==
    ASSUME PendingSeen, PayInv, NEW p \in Admins, AloneIn(Admins, p), AdminStep(p)
    PROVE  PaysOn
<1>0. /\ TypeOK /\ p \in Workers
      /\ \A q \in Admins : q # p => q \in Workers /\ work[q].pc = "idle" /\ work'[q] = work[q]
      /\ \A q \in AutoPayers : q \in Workers /\ q # p
      /\ work[p].pc \in {"idle", "approve"}
  BY WithdrawalsAssumption DEF PayInv, TypeInv, Workers, AloneIn, OnItsRow
<1>1. ASSUME NEW i \in Ids, NEW goal \in AdminGoals, NEW h \in BOOLEAN, Ask(p, i, goal, h)
      PROVE  PaysOn
  <2> DEFINE w == [IdleWork EXCEPT !.pc = IF goal = "approved" THEN "approve" ELSE "update",
                                   !.id = i, !.goal = goal, !.hash = h]
  <2>1. goal = "approved" /\ w.pc = "approve" /\ w.id = i
    BY DEF IdleWork, PendingSeen
  <2> HIDE DEF w
  <2>2. /\ work'[p] = w /\ \A q \in AutoPayers : work'[q] = work[q]
    BY <1>0, <1>1 DEF Ask, TypeOK, w
  <2>3. rows[i].status = "pending" /\ UNCHANGED <<rows, sends, refunds>>
    BY <1>1, <2>1 DEF Ask, PendingSeen
  <2>4. ASSUME NEW f \in Nat, SentUpTo(f) PROVE SentUpTo(f)'
    BY <2>2, <2>3, <2>4 DEF PayInv, OnItsRow, SentUpTo, HasSent
  <2>5. OnItsRow'
    BY <1>0, <2>1, <2>2, <2>3 DEF PayInv, OnItsRow
  <2> QED BY <2>4, <2>5 DEF PaysOn
<1>2. CASE Approve(p)
  <2>1. work[p].id \in Ids /\ rows[work[p].id].status = "pending"
    BY <1>0, <1>2 DEF PayInv, TypeInv, GivenARow, OnItsRow, Approve
  <2>2. /\ rows'[work[p].id].status = "approved"
        /\ \A j \in Ids : j # work[p].id => rows'[j] = rows[j]
    BY <1>0, <1>2, <2>1 DEF Approve, TypeOK, Row
  <2>3. work'[p].pc = "idle" /\ \A q \in AutoPayers : work'[q] = work[q]
    BY <1>0, <1>2 DEF Approve, TypeOK, IdleWork
  <2>4. UNCHANGED <<sends, refunds>>
    BY <1>2 DEF Approve
  <2>5. ASSUME NEW f \in Nat, SentUpTo(f) PROVE SentUpTo(f)'
    <3>1. sends[work[p].id] <= f /\ sends[work[p].id] \in Nat
      BY <1>0, <2>1, <2>5 DEF SentUpTo, TypeOK
    <3>2. ~(sends'[work[p].id] > f)
      BY <2>4, <3>1
    <3> QED BY <2>1, <2>2, <2>3, <2>4, <2>5, <3>2 DEF PayInv, OnItsRow, SentUpTo, HasSent
  <2>6. ASSUME NEW q \in AutoPayers
        PROVE  /\ work'[q].pc \in {"idle"} \cup Paying
               /\ work'[q].pc \in Paying => rows'[work'[q].id].status = "approved"
    <3>1. work[q].pc \in Paying => work[q].id \in Ids
      BY <1>0 DEF PayInv, TypeInv, GivenARow, Paying
    <3> QED BY <2>2, <2>3, <2>4, <3>1 DEF PayInv, OnItsRow
  <2> QED BY <1>0, <2>3, <2>4, <2>5, <2>6 DEF PaysOn, PayInv, OnItsRow
<1>3. ~StatusStep(p)
  BY <1>0 DEF StatusStep, ReadStatus, ApplyStatus, CommitStatus, StatusThrows
<1> QED BY <1>1, <1>2, <1>3 DEF AdminStep

LEMMA PayAuto ==
    ASSUME PayInv, NEW p \in AutoPayers, AloneIn(AutoPayers, p), AutoStep(p)
    PROVE  PaysOn \/ (AutoFailThrows(p) /\ OnItsRow')
<1>0. /\ TypeOK /\ p \in Workers /\ work[p] \in Work
      /\ \A q \in AutoPayers : q # p => work[q].pc = "idle" /\ work'[q] = work[q]
      /\ \A q \in Admins : /\ q \in Workers /\ q # p /\ work[q].pc \in {"idle", "approve"}
                           /\ work[q].pc = "approve" => /\ work[q].id \in Ids
                                                        /\ rows[work[q].id].status = "pending"
      /\ work[p].pc \in Paying => work[p].id \in Ids /\ rows[work[p].id].status = "approved"
  BY Locals, WithdrawalsAssumption
     DEF PayInv, TypeInv, Workers, AloneIn, OnItsRow, GivenARow, Paying
<1> DEFINE w == work[p]
(* A call that goes on with its row and leaves the row as it is.            *)
<1>1. ASSUME UNCHANGED <<rows, refunds>>, w.pc \in Paying, work'[p].id = w.id,
             work'[p].pc \in Paying \ {"preflight"},
             \A q \in Admins : work'[q] = work[q],
             \A i \in Ids : i # w.id => sends'[i] = sends[i],
             \A f \in Nat : SentUpTo(f) => sends'[w.id] <= 1 + f
      PROVE  PaysOn
  <2>1. ASSUME NEW f \in Nat, SentUpTo(f) PROVE SentUpTo(f)'
    BY <1>0, <1>1, <2>1 DEF PayInv, OnItsRow, SentUpTo, HasSent, Paying
  <2>2. OnItsRow'
    BY <1>0, <1>1 DEF PayInv, OnItsRow
  <2> QED BY <2>1, <2>2 DEF PaysOn
(* A call that marks its row and ends.                                      *)
<1>2. ASSUME NEW status \in {"approved", "completed", "failed"}, AutoUpdate(p, status),
             w.pc \in Paying, status = "approved" => w.pc = "preflight"
      PROVE  PaysOn
  <2>1. /\ rows'[w.id].status = status
        /\ \A j \in Ids : j # w.id => rows'[j] = rows[j]
    BY <1>0, <1>2 DEF AutoUpdate, TypeOK, Row
  <2>2. work'[p].pc = "idle" /\ \A q \in Admins : work'[q] = work[q]
    BY <1>0, <1>2 DEF AutoUpdate, TypeOK, IdleWork
  <2>3. UNCHANGED <<sends, refunds>>
    BY <1>2 DEF AutoUpdate
  <2>4. \A f \in Nat : SentUpTo(f) /\ status = "approved" => ~(sends[w.id] > f)
    <3>1. sends[w.id] \in Nat
      BY <1>0, <1>2 DEF TypeOK
    <3> QED BY <1>2, <3>1 DEF SentUpTo
  <2>5. ASSUME NEW f \in Nat, SentUpTo(f) PROVE SentUpTo(f)'
    BY <1>0, <1>2, <2>1, <2>2, <2>3, <2>4, <2>5 DEF PayInv, OnItsRow, SentUpTo, HasSent
  <2>6. OnItsRow'
    BY <1>0, <1>2, <2>1, <2>2, <2>3 DEF PayInv, OnItsRow, Paying
  <2> QED BY <2>5, <2>6 DEF PaysOn
<1>3. ASSUME NEW i \in Ids, AutoStart(p, i) PROVE PaysOn
  <2> DEFINE v == [IdleWork EXCEPT !.pc = "preflight", !.id = i]
  <2>1. v.pc = "preflight" /\ v.id = i
    BY DEF IdleWork
  <2> HIDE DEF v
  <2>2. work'[p] = v /\ \A q \in Admins : work'[q] = work[q]
    BY <1>0, <1>3 DEF AutoStart, TypeOK, v
  <2>3. /\ rows[i].status = "approved" /\ w.pc = "idle"
        /\ UNCHANGED <<rows, sends, refunds>>
    BY <1>3 DEF AutoStart
  <2>4. \A f \in Nat : SentUpTo(f) => \A j \in Ids : rows[j].status = "approved" => sends[j] <= f
    <3>1. \A j \in Ids : sends[j] \in Nat
      BY <1>0 DEF TypeOK
    <3> QED BY <1>0, <2>3, <3>1 DEF PayInv, OnItsRow, SentUpTo, HasSent, Paying
  <2>5. ASSUME NEW f \in Nat, SentUpTo(f) PROVE SentUpTo(f)'
    <3>1. \A j \in Ids : sends[j] \in Nat
      BY <1>0 DEF TypeOK
    <3> QED BY <1>0, <2>1, <2>2, <2>3, <2>4, <2>5, <3>1 DEF SentUpTo, HasSent, Paying
  <2>6. OnItsRow'
    BY <1>0, <2>1, <2>2, <2>3 DEF PayInv, OnItsRow, Paying
  <2> QED BY <2>5, <2>6 DEF PaysOn
<1>4. CASE AutoSend(p)
  <2>1. w.pc = "preflight" /\ (\A f \in Nat : SentUpTo(f) => sends[w.id] <= f) /\ w.id \in Ids
    BY <1>0, <1>4 DEF AutoSend, SentUpTo, Paying
  <2>2. /\ \A f \in Nat : SentUpTo(f) => sends'[w.id] <= 1 + f
        /\ \A i \in Ids : i # w.id => sends'[i] = sends[i]
    BY <1>0, <1>4, <2>1 DEF AutoSend, TypeOK
  <2>3. work'[p].pc = "saveHash" /\ work'[p].id = w.id
        /\ \A q \in Admins : work'[q] = work[q]
    BY <1>0, <1>4 DEF AutoSend, TypeOK, Work
  <2>4. UNCHANGED <<rows, refunds>>
    BY <1>4 DEF AutoSend
  <2> QED BY <1>1, <2>1, <2>2, <2>3, <2>4 DEF Paying
<1>5. CASE AutoSaveHash(p)
  <2>1. w.pc = "saveHash" /\ w.id \in Ids
    BY <1>0, <1>5 DEF AutoSaveHash, Paying
  <2>2. /\ \A i \in Ids : rows'[i].status = rows[i].status
    BY <1>0, <1>5, <2>1 DEF AutoSaveHash, TypeOK, Row
  <2>3. work'[p].pc = "wait" /\ work'[p].id = w.id
        /\ \A q \in Admins : work'[q] = work[q]
    BY <1>0, <1>5 DEF AutoSaveHash, TypeOK, Work
  <2>4. UNCHANGED <<sends, refunds>>
    BY <1>5 DEF AutoSaveHash
  <2>5. ASSUME NEW f \in Nat, SentUpTo(f) PROVE SentUpTo(f)'
    BY <1>0, <2>1, <2>2, <2>3, <2>4, <2>5 DEF PayInv, OnItsRow, SentUpTo, HasSent, Paying
  <2>6. OnItsRow'
    BY <1>0, <2>1, <2>2, <2>3, <2>4 DEF PayInv, OnItsRow, Paying
  <2> QED BY <2>5, <2>6 DEF PaysOn
<1>6. CASE AutoThrows(p)
  <2>1. w.pc \in Paying /\ w.id \in Ids /\ UNCHANGED <<rows, refunds>>
    BY <1>0, <1>6 DEF AutoThrows, Paying
  <2>2. work'[p].pc = "abandon" /\ work'[p].id = w.id
        /\ \A q \in Admins : work'[q] = work[q]
    BY <1>0, <1>6 DEF AutoThrows, TypeOK, Work
  <2>3. /\ \A f \in Nat : SentUpTo(f) => sends'[w.id] <= 1 + f
        /\ \A i \in Ids : i # w.id => sends'[i] = sends[i]
    <3>1. \/ UNCHANGED sends
          \/ w.pc = "preflight" /\ sends' = [sends EXCEPT ![w.id] = @ + 1]
      BY <1>6 DEF AutoThrows
    <3> QED BY <1>0, <2>1, <3>1 DEF SentUpTo, TypeOK
  <2> QED BY <1>1, <2>1, <2>2, <2>3 DEF Paying
<1>7. AutoInsufficientFunds(p) \/ AutoConfirmed(p) \/ AutoFail(p) => PaysOn
  BY <1>2 DEF AutoInsufficientFunds, AutoConfirmed, AutoFail, Paying
<1>8. AutoFailThrows(p) => OnItsRow'
  <2> SUFFICES ASSUME AutoFailThrows(p) PROVE OnItsRow'
    OBVIOUS
  <2>1. work'[p].pc = "idle" /\ UNCHANGED <<rows, refunds>> /\ \A q \in Admins : work'[q] = work[q]
    BY <1>0 DEF AutoFailThrows, TypeOK, IdleWork
  <2> QED BY <1>0, <2>1 DEF PayInv, OnItsRow, Paying
<1> QED BY <1>3, <1>4, <1>5, <1>6, <1>7, <1>8 DEF AutoStep

LEMMA PayStep ==
    ASSUME PendingSeen, PayerAtWork, PayerAtWork', PayInv, [Next]_vars
    PROVE  PayInv' /\ (PaysOn \/ Crash \/ \E p \in AutoPayers : AutoFailThrows(p))
<1>0. TypeOK /\ TypeInv'
  BY StepTyped DEF PayInv, TypeInv
<1>1. CASE UNCHANGED vars
  BY <1>0, <1>1 DEF vars, PaysOn, PayInv, SentUpTo, OnItsRow, HasSent
<1>2. CASE Crash
  <2>1. Admins \subseteq Workers /\ AutoPayers \subseteq Workers
    BY DEF Workers
  <2>2. \A p \in Workers : work'[p].pc = "idle"
    BY <1>2 DEF Crash, IdleWork
  <2> QED BY <1>0, <1>2, <2>1, <2>2 DEF Crash, PayInv, OnItsRow, Paying
<1>3. PaysOn \/ OnItsRow' => PayInv'
  BY <1>0 DEF PaysOn, PayInv
<1> QED BY <1>0, <1>1, <1>2, <1>3, PayerSteps, PayRequest, PayAdmin, PayAuto

LEMMA PayInvariant == ASSUME PendingSeen PROVE Spec /\ []PayerAtWork => []PayInv
<1>1. Init => PayInv
  <2>1. Init => OnItsRow
    BY DEF Init, OnItsRow, IdleWork, Workers, Paying
  <2> QED BY <2>1, InitTyped DEF PayInv
<1> QED BY <1>1, PayStep, PTL DEF Spec

(* As long as processApprovedWithdrawal is at work for one row at a time,   *)
(* next to one administrator at a time, it sends a row's transfer at most   *)
(* once and never for a row that was refunded, unless the server dies       *)
(* between the broadcast and the mark or the catch's own update fails: then *)
(* alone a sent row stays approved, to be sent again by the next call.  An  *)
(* answer that gets lost or a hash that cannot be saved does not do it.     *)
THEOREM OnePayerSettlesOnce ==
    ASSUME PendingSeen
    PROVE  Spec /\ []PayerAtWork /\ [][~LeavesSent]_vars => []SettledOnce
<1>1. PayInv /\ SentUpTo(0) => SettledOnce
  BY DEF PayInv, TypeInv, TypeOK, OnItsRow, SentUpTo, SettledOnce
<1>2. Init => SentUpTo(0)
  BY DEF Init, SentUpTo, IdleWork, NoRow, Workers
<1>3. ASSUME PayerAtWork, PayerAtWork', PayInv, SentUpTo(0), [Next]_vars, [~LeavesSent]_vars PROVE SentUpTo(0)'
  <2>1. CASE UNCHANGED vars
    BY <1>3, <2>1 DEF vars, SentUpTo, HasSent
  <2>2. CASE Crash /\ ~LeavesSent
    <3>1. \A p \in AutoPayers : p \in Workers /\ ~HasSent(p) /\ work'[p].pc = "idle"
      BY <2>2 DEF Crash, LeavesSent, IdleWork, Workers
    <3> QED BY <1>3, <2>2, <3>1 DEF Crash, SentUpTo
  <2>3. CASE PaysOn
    BY <1>3, <2>3 DEF PaysOn
  <2> QED BY <1>3, <2>1, <2>2, <2>3, PayStep DEF LeavesSent
<1> QED BY <1>1, <1>2, <1>3, PayInvariant, PTL DEF Spec

(* Whatever fails and however often the server dies, every transfer of a    *)
(* row beyond its first has a failure of its own before it: a call sends a  *)
(* row that was sent only after a failure has left it approved.             *)
THEOREM OnePayerRepeats == ASSUME PendingSeen PROVE Spec /\ []PayerAtWork => []RepeatsFollowFaults
<1>1. PayInv /\ SentUpTo(faults) => RepeatsFollowFaults
  BY DEF PayInv, TypeInv, TypeOK, OnItsRow, SentUpTo, RepeatsFollowFaults
<1>2. Init => SentUpTo(faults)
  BY DEF Init, SentUpTo, IdleWork, NoRow, Workers
<1>3. ASSUME PayerAtWork, PayerAtWork', PayInv, SentUpTo(faults), [Next]_vars PROVE SentUpTo(faults)'
  <2>1. /\ TypeOK /\ TypeInv' /\ faults \in Nat /\ faults' \in Nat
        /\ \A i \in Ids : sends[i] \in Nat
    BY <1>3, StepTyped DEF PayInv, TypeInv, TypeOK
  <2>2. PICK f \in Nat : f = faults
    BY <2>1
  <2>3. SentUpTo(f)
    BY <1>3, <2>2 DEF SentUpTo
  <2>4. CASE PaysOn
    <3>1. SentUpTo(f)'
      BY <2>3, <2>4 DEF PaysOn
    <3>2. PICK g \in Nat : g = faults' /\ f <= g
      BY <1>3, <2>1, <2>2, FaultsGrow
    <3>3. \A i \in Ids : sends'[i] \in Nat
      BY <2>1 DEF TypeInv, TypeOK
    <3>4. \A p \in AutoPayers : work'[p].pc = "preflight" => work'[p].id \in Ids
      BY <2>1 DEF TypeInv, GivenARow, Workers
    <3>5. SentUpTo(g)'
      BY <3>1, <3>2, <3>3, <3>4 DEF SentUpTo
    <3> QED BY <3>2, <3>5 DEF SentUpTo
  <2>5. CASE Crash \/ \E p \in AutoPayers : AutoFailThrows(p)
    <3>1. faults' = f + 1 /\ UNCHANGED <<sends, rows>>
      BY <2>1, <2>2, <2>5, FaultsCount DEF Crash, AutoFailThrows
    <3>2. \A i \in Ids : sends'[i] <= faults'
      BY <2>1, <2>3, <3>1 DEF SentUpTo
    <3>3. \A i \in Ids : ~(sends'[i] > faults') /\ sends'[i] <= 1 + faults'
      BY <2>1, <3>1, <3>2
    <3>4. \A p \in AutoPayers : work'[p].pc = "preflight" => work'[p].id \in Ids
      BY <2>1 DEF TypeInv, GivenARow, Workers
    <3> QED BY <3>2, <3>3, <3>4 DEF SentUpTo
  <2> QED BY <1>3, <2>4, <2>5, PayStep
<1> QED BY <1>1, <1>2, <1>3, PayInvariant, PTL DEF Spec

(* As long as processApprovedWithdrawal is at work for one row at a time,   *)
(* next to one administrator at a time, no money is lost or made, whatever  *)
(* fails and however often the server dies: requests take the amount of the *)
(* row they insert, and processApprovedWithdrawal moves no balance at all,  *)
(* so what it gives up on stays held by its row.                            *)
THEOREM OnePayerKeepsFunds == ASSUME PendingSeen PROVE Spec /\ []PayerAtWork => []FundsConserved
<1>1. ASSUME PayerAtWork, PayerAtWork', PayInv, Books, [Next]_vars PROVE Books'
  <2>0. TypeInv /\ TypeOK /\ \A i \in Ids : refunds[i] = 0
    BY <1>1 DEF PayInv, TypeInv, OnItsRow
  <2>1. CASE UNCHANGED <<balance, rows, refunds>>
    BY <1>1, <2>1, FundsKept
  <2>2. ASSUME NEW r \in Requests, RequestStep(r) PROVE Books'
    BY <1>1, <2>0, <2>1, <2>2, RequestTakes
       DEF RequestStep, Request, CheckFunds, ReserveFunds, RequestThrows
  <2>3. ASSUME NEW p \in Workers, Approve(p) \/ (p \in AutoPayers /\ AutoStep(p)) PROVE Books'
    <3>1. work[p].pc = "saveHash" => rows[work[p].id].status # "none"
      BY <1>1, <2>3 DEF PayInv, OnItsRow, Paying, Approve
    <3> QED BY <1>1, <2>0, <2>3, <3>1, PayersKeep
  <2>4. ASSUME NEW p \in Admins, AdminStep(p) PROVE Books'
    <3>1. p \in Workers /\ work[p].pc \in {"idle", "approve"}
      BY <1>1 DEF PayInv, OnItsRow, Workers
    <3>2. ~StatusStep(p)
      BY <3>1 DEF StatusStep, ReadStatus, ApplyStatus, CommitStatus, StatusThrows
    <3> QED BY <2>1, <2>3, <2>4, <3>1, <3>2 DEF AdminStep, Ask
  <2>5. AutoPayers \subseteq Workers
    BY DEF Workers
  <2> QED BY <1>1, <2>0, <2>1, <2>2, <2>3, <2>4, <2>5, PayerSteps DEF vars, Crash
<1>2. Books => FundsConserved
  BY DEF Books
<1> QED BY <1>1, <1>2, BooksOpen, PayInvariant, PTL DEF Spec

(* Under the same assumptions no recorded hash is lost and no funds go      *)
(* back, since nothing but processApprovedWithdrawal and approvals touches  *)
(* a row.                                                                   *)
THEOREM OnePayerKeepsHashes ==
    ASSUME PendingSeen
    PROVE  Spec /\ []PayerAtWork => HashKept /\ []RefundedAtMostOnce
<1>1. ASSUME PayerAtWork, PayInv, [Next]_vars PROVE HashesKept \/ UNCHANGED rows
  <2>1. [Next]_vars /\ TypeInv
    BY <1>1 DEF PayInv
  <2>2. \A p \in Workers : work[p].pc # "commit"
    BY <1>1 DEF PayInv, OnItsRow, PayerAtWork, Workers, Paying
  <2> QED BY <2>1, <2>2, HashStep
<1>2. PayInv => RefundedAtMostOnce
  BY DEF PayInv, OnItsRow, RefundedAtMostOnce
<1> QED BY <1>1, <1>2, PayInvariant, PTL DEF Spec, HashKept, HashesKept

-----------------------------------------------------------------------------
(* A user has one pending withdrawal at most, when one request at a time is *)
(* between its check and its commit.                                        *)
OneRequest == \A r, q \in Requests : req[r].pc # "idle" /\ req[q].pc # "idle" => r = q

(* No handler is about to make a row pending again.                         *)
NoneReopens ==
    \A p \in Workers : work[p].pc \in {"update", "read", "commit"} => work[p].goal # "pending"

CheckStands ==
    \A r \in Requests : req[r].pc # "idle" => ~HasPendingWithdrawal(req[r].user)

PendingInv == TypeInv /\ NoneReopens /\ OnePending /\ CheckStands

(* A step which makes no row pending keeps what was checked.                *)
LEMMA NothingReopened ==
    ASSUME OnePending, CheckStands,
           \A i \in Ids : rows'[i].status = "pending" =>
                              rows[i].status = "pending" /\ rows'[i].owner = rows[i].owner,
           \A r \in Requests : req'[r].pc # "idle" =>
                                   \/ req'[r].pc = "checked" /\ ~HasPendingWithdrawal(req'[r].user)
                                   \/ req[r].pc # "idle" /\ req'[r].user = req[r].user
    PROVE  OnePending' /\ CheckStands'
<1>1. OnePending'
  BY DEF OnePending
<1>2. CheckStands'
  <2> SUFFICES ASSUME NEW r \in Requests, req'[r].pc # "idle", NEW i \in Ids,
                      rows'[i].owner = req'[r].user, rows'[i].status = "pending"
               PROVE  FALSE
    BY DEF CheckStands, HasPendingWithdrawal
  <2>1. HasPendingWithdrawal(req'[r].user)
    BY DEF HasPendingWithdrawal
  <2> QED BY <2>1 DEF CheckStands
<1> QED BY <1>1, <1>2

LEMMA PendingRequest ==
    ASSUME OneRequest, OneRequest', PendingInv, NEW r \in Requests, RequestStep(r)
    PROVE  NoneReopens' /\ OnePending' /\ CheckStands'
<1>0. /\ TypeOK /\ OnePending /\ CheckStands
      /\ \A q \in Requests : q # r => req[q].pc = "idle" /\ req'[q] = req[q]
  <2>1. TypeOK /\ OnePending /\ CheckStands
    BY DEF PendingInv, TypeInv
  <2>2. \A q \in Requests : q # r => req'[q] = req[q]
    BY <2>1 DEF RequestStep, Request, CheckFunds, ReserveFunds, CommitRequest, RequestThrows, TypeOK
  <2>3. req[r].pc # "idle" \/ req'[r].pc # "idle"
    BY <2>1 DEF RequestStep, Request, CheckFunds, ReserveFunds, CommitRequest, RequestThrows, TypeOK
  <2> QED BY <2>1, <2>2, <2>3 DEF OneRequest
<1>1. NoneReopens'
  BY DEF RequestStep, Request, CheckFunds, ReserveFunds, CommitRequest, RequestThrows,
         PendingInv, NoneReopens
<1>2. ASSUME NEW u \in Users, NEW a \in Amounts, Request(r, u, a)
      PROVE  OnePending' /\ CheckStands'
  <2>1. /\ req'[r].pc = "checked" /\ req'[r].user = u
        /\ ~HasPendingWithdrawal(u) /\ UNCHANGED rows
    BY <1>0, <1>2 DEF Request, TypeOK
  <2> QED BY <1>0, <2>1, NothingReopened
<1>3. CASE CheckFunds(r) \/ ReserveFunds(r) \/ RequestThrows(r)
  <2>1. /\ req'[r].pc # "idle" => req[r].pc # "idle" /\ req'[r].user = req[r].user
        /\ UNCHANGED rows
    BY <1>0, <1>3 DEF CheckFunds, ReserveFunds, RequestThrows, TypeOK, Call, IdleReq
  <2>2. \A q \in Requests : req'[q].pc # "idle" => req[q].pc # "idle" /\ req'[q].user = req[q].user
    BY <1>0, <2>1
  <2> QED BY <1>0, <1>1, <2>1, <2>2, NothingReopened
<1>4. CASE CommitRequest(r)
  <2>1. PICK i \in Ids :
           /\ rows[i] = NoRow
           /\ rows' = [rows EXCEPT ![i] = [status |-> "pending", owner |-> req[r].user,
                                           amount |-> req[r].amount, hash |-> FALSE]]
    BY <1>4 DEF CommitRequest
  <2>2. /\ rows'[i].status = "pending" /\ rows'[i].owner = req[r].user
        /\ \A j \in Ids : j # i => rows'[j] = rows[j]
    BY <1>0, <2>1 DEF TypeOK
  <2>3. \A j \in Ids : rows[j].status = "pending" => rows[j].owner # req[r].user
    BY <1>0, <1>4 DEF CommitRequest, CheckStands, HasPendingWithdrawal
  <2>4. OnePending'
    BY <1>0, <2>2, <2>3 DEF OnePending
  <2>5. req'[r].pc = "idle"
    BY <1>0, <1>4 DEF CommitRequest, TypeOK, IdleReq
  <2>6. \A q \in Requests : req'[q].pc = "idle"
    BY <1>0, <2>5
  <2> QED BY <1>1, <2>4, <2>6 DEF CheckStands
<1> QED BY <1>1, <1>2, <1>3, <1>4 DEF RequestStep

LEMMA PendingStatus ==
    ASSUME PendingInv, NEW p \in Workers, StatusStep(p)
    PROVE  NoneReopens' /\ OnePending' /\ CheckStands'
<1>0. /\ TypeOK /\ OnePending /\ CheckStands /\ NoneReopens /\ work[p] \in Work
      /\ work[p].id \in Ids /\ work[p].goal # "pending" /\ UNCHANGED req
  BY Locals DEF PendingInv, TypeInv, NoneReopens, GivenARow,
                StatusStep, ReadStatus, ApplyStatus, CommitStatus, StatusThrows
<1>1. \A i \in Ids : rows'[i].status = "pending" =>
                         rows[i].status = "pending" /\ rows'[i].owner = rows[i].owner
  <2>1. CASE CommitStatus(p)
    <3>1. rows'[work[p].id].status = work[p].goal
          /\ \A i \in Ids : i # work[p].id => rows'[i] = rows[i]
      BY <1>0, <2>1 DEF CommitStatus, TypeOK, Row
    <3> QED BY <1>0, <3>1
  <2> QED BY <2>1 DEF StatusStep, ReadStatus, ApplyStatus, StatusThrows
<1>2. work'[p].pc \in {"update", "read", "commit"} => work'[p].goal # "pending"
  <2>1. CASE ReadStatus(p) \/ ApplyStatus(p)
    BY <1>0, <2>1 DEF ReadStatus, ApplyStatus, TypeOK, Work
  <2>2. CASE CommitStatus(p)
    <3>1. work'[p] = Returned(p)
      BY <1>0, <2>2 DEF CommitStatus, TypeOK
    <3> QED BY <3>1 DEF Returned, IdleWork
  <2>3. CASE StatusThrows(p)
    <3> DEFINE retry == [work[p] EXCEPT !.pc = "update", !.goal = "failed", !.hash = FALSE]
    <3>1. work'[p] = retry \/ work'[p] = IdleWork
      BY <1>0, <2>3 DEF StatusThrows, TypeOK
    <3>2. retry.goal = "failed" /\ IdleWork.pc = "idle"
      BY <1>0 DEF Work, IdleWork
    <3> QED BY <3>1, <3>2
  <2> QED BY <2>1, <2>2, <2>3 DEF StatusStep
<1>3. \A q \in Workers : q # p => work'[q] = work[q]
  BY <1>0 DEF StatusStep, ReadStatus, ApplyStatus, CommitStatus, StatusThrows, TypeOK
<1>4. NoneReopens'
  BY <1>0, <1>2, <1>3 DEF NoneReopens
<1>5. OnePending' /\ CheckStands'
  BY <1>0, <1>1, NothingReopened
<1> QED BY <1>4, <1>5

(* The other steps of a handler: one row at most is updated, by id, to a    *)
(* status that is not pending, or its hash is saved.                        *)
LEMMA PendingWorker ==
    ASSUME PendingInv, NEW p \in Workers,
           \/ AdminStep(p)
           \/ PayerStep(p)
           \/ AutoStep(p)
    PROVE  NoneReopens' /\ OnePending' /\ CheckStands'
<1>0. /\ TypeOK /\ OnePending /\ CheckStands /\ NoneReopens /\ work[p] \in Work
      /\ work[p].pc \notin {"idle", "loop"} => work[p].id \in Ids
  BY Locals DEF PendingInv, TypeInv, GivenARow
(* The rows keep their status.                                              *)
<1>1. ASSUME UNCHANGED req,
             \A i \in Ids : rows'[i].status = "pending" =>
                                rows[i].status = "pending" /\ rows'[i].owner = rows[i].owner,
             \A q \in Workers : q # p => work'[q] = work[q],
             work'[p].pc \in {"update", "read", "commit"} => work'[p].goal # "pending"
      PROVE  NoneReopens' /\ OnePending' /\ CheckStands'
  <2>1. NoneReopens'
    BY <1>0, <1>1 DEF NoneReopens
  <2>2. OnePending' /\ CheckStands'
    BY <1>0, <1>1, NothingReopened
  <2> QED BY <2>1, <2>2
<1>2. ASSUME NEW status \in {"approved", "completed", "failed"}, work[p].id \in Ids,
             rows' = [rows EXCEPT ![work[p].id].status = status],
             work' = [work EXCEPT ![p] = IdleWork], UNCHANGED req
      PROVE  NoneReopens' /\ OnePending' /\ CheckStands'
  <2>1. /\ rows'[work[p].id].status = status
        /\ \A i \in Ids : i # work[p].id => rows'[i] = rows[i]
    BY <1>0, <1>2 DEF TypeOK, Row
  <2>2. work'[p].pc = "idle" /\ \A q \in Workers : q # p => work'[q] = work[q]
    BY <1>0, <1>2 DEF TypeOK, IdleWork
  <2> QED BY <1>1, <1>2, <2>1, <2>2
<1>3. ASSUME NEW w, work' = [work EXCEPT ![p] = w], UNCHANGED <<req, rows>>,
             w.pc \in {"update", "read", "commit"} => w.goal # "pending"
      PROVE  NoneReopens' /\ OnePending' /\ CheckStands'
  <2>1. work'[p] = w /\ \A q \in Workers : q # p => work'[q] = work[q]
    BY <1>0, <1>3 DEF TypeOK
  <2> QED BY <1>1, <1>3, <2>1
<1>4. ASSUME NEW i \in Ids, NEW goal \in AdminGoals, NEW h \in BOOLEAN, Ask(p, i, goal, h)
      PROVE  NoneReopens' /\ OnePending' /\ CheckStands'
  <2> DEFINE w == [IdleWork EXCEPT !.pc = IF goal = "approved" THEN "approve" ELSE "update",
                                   !.id = i, !.goal = goal, !.hash = h]
  <2>1. w.goal # "pending"
    BY WithdrawalsAssumption DEF IdleWork
  <2>2. work' = [work EXCEPT ![p] = w] /\ UNCHANGED <<req, rows>>
    BY <1>4 DEF Ask
  <2> HIDE DEF w
  <2> QED BY <1>3, <2>1, <2>2
<1>5. CASE Approve(p)
  BY <1>0, <1>2, <1>5 DEF Approve
<1>6. CASE StartRun(p)
  <2> DEFINE w == [IdleWork EXCEPT !.pc = "loop", !.todo = OpenRows]
  <2>1. w.pc = "loop"
    BY DEF IdleWork
  <2>2. work' = [work EXCEPT ![p] = w] /\ UNCHANGED <<req, rows>>
    BY <1>6 DEF StartRun
  <2> HIDE DEF w
  <2> QED BY <1>3, <2>1, <2>2
<1>7. ASSUME NEW i \in Ids, Pay(p, i) PROVE NoneReopens' /\ OnePending' /\ CheckStands'
  <2> DEFINE w == [IdleWork EXCEPT !.pc = "update", !.id = i, !.goal = "completed",
                                   !.hash = TRUE, !.todo = work[p].todo \ {i}]
  <2>1. w.goal = "completed"
    BY DEF IdleWork
  <2>2. work' = [work EXCEPT ![p] = w] /\ UNCHANGED <<req, rows>>
    BY <1>7 DEF Pay
  <2> HIDE DEF w
  <2> QED BY <1>3, <2>1, <2>2
<1>8. ASSUME NEW i \in Ids, SendRejected(p, i)
      PROVE  NoneReopens' /\ OnePending' /\ CheckStands'
  <2> DEFINE w == [IdleWork EXCEPT !.pc = "update", !.id = i, !.goal = "failed",
                                   !.todo = work[p].todo \ {i}]
  <2>1. w.goal = "failed"
    BY DEF IdleWork
  <2>2. work' = [work EXCEPT ![p] = w] /\ UNCHANGED <<req, rows>>
    BY <1>8 DEF SendRejected
  <2> HIDE DEF w
  <2> QED BY <1>3, <2>1, <2>2
<1>9. CASE EndRun(p)
  <2>1. IdleWork.pc = "idle"
    BY DEF IdleWork
  <2>2. work' = [work EXCEPT ![p] = IdleWork] /\ UNCHANGED <<req, rows>>
    BY <1>9 DEF EndRun
  <2> QED BY <1>3, <2>1, <2>2
<1>10. ASSUME NEW i \in Ids, AutoStart(p, i) PROVE NoneReopens' /\ OnePending' /\ CheckStands'
  <2> DEFINE w == [IdleWork EXCEPT !.pc = "preflight", !.id = i]
  <2>1. w.pc = "preflight"
    BY DEF IdleWork
  <2>2. work' = [work EXCEPT ![p] = w] /\ UNCHANGED <<req, rows>>
    BY <1>10 DEF AutoStart
  <2> HIDE DEF w
  <2> QED BY <1>3, <2>1, <2>2
<1>11. CASE AutoInsufficientFunds(p) \/ AutoConfirmed(p) \/ AutoFail(p)
  BY <1>0, <1>2, <1>11 DEF AutoInsufficientFunds, AutoConfirmed, AutoFail, AutoUpdate
<1>12. CASE AutoSend(p) \/ AutoSaveHash(p) \/ AutoThrows(p)
  <2>1. /\ work'[p].pc \in {"saveHash", "wait", "abandon"}
        /\ \A q \in Workers : q # p => work'[q] = work[q]
    BY <1>0, <1>12 DEF AutoSend, AutoSaveHash, AutoThrows, TypeOK, Work
  <2>2. \A i \in Ids : rows'[i].status = rows[i].status /\ rows'[i].owner = rows[i].owner
    <3>1. CASE AutoSaveHash(p)
      BY <1>0, <3>1 DEF AutoSaveHash, TypeOK, Row
    <3> QED BY <1>12, <3>1 DEF AutoSend, AutoThrows
  <2>3. UNCHANGED req
    BY <1>12 DEF AutoSend, AutoSaveHash, AutoThrows
  <2> QED BY <1>1, <2>1, <2>2, <2>3
<1>13. CASE AutoFailThrows(p)
  BY <1>3, <1>13 DEF AutoFailThrows, IdleWork
<1> QED BY <1>4, <1>5, <1>6, <1>7, <1>8, <1>9, <1>10, <1>11, <1>12, <1>13, PendingStatus
        DEF AdminStep, PayerStep, AutoStep

(* As long as one request at a time is between its check and its commit, no *)
(* user has two pending withdrawals, whoever approves, pays and refuses     *)
(* rows in the meantime and whatever fails: nothing makes a row pending     *)
(* again, so the check of createWithdrawal still stands at its commit.      *)
THEOREM OneRequestOnePending == Spec /\ []OneRequest => []OnePending
<1>1. Init => PendingInv
  <2>1. Init => NoneReopens /\ OnePending /\ CheckStands
    BY DEF Init, NoneReopens, OnePending, CheckStands, IdleWork, IdleReq, NoRow
  <2> QED BY <2>1, InitTyped DEF PendingInv
<1>2. ASSUME OneRequest, OneRequest', PendingInv, [Next]_vars PROVE PendingInv'
  <2> SUFFICES NoneReopens' /\ OnePending' /\ CheckStands'
    BY <1>2, StepTyped DEF PendingInv
  <2>1. CASE Crash
    BY <1>2, <2>1 DEF Crash, PendingInv, NoneReopens, OnePending, CheckStands, IdleWork, IdleReq
  <2>2. CASE UNCHANGED vars
    BY <1>2, <2>2 DEF vars, PendingInv, NoneReopens, OnePending, CheckStands, HasPendingWithdrawal
  <2>3. Admins \subseteq Workers /\ Payers \subseteq Workers /\ AutoPayers \subseteq Workers
    BY DEF Workers
  <2> QED BY <1>2, <2>1, <2>2, <2>3, PendingRequest, PendingWorker DEF Next, HandlerStep
<1>3. PendingInv => OnePending
  BY DEF PendingInv
<1> QED BY <1>1, <1>2, <1>3, PTL DEF Spec
=============================================================================
