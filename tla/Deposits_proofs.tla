--------------------------- MODULE Deposits_proofs ---------------------------
(***************************************************************************)
(* Proofs about deposits, for every number of users, rows, pages and calls *)
(* in flight together.  Of deposits on chain: only transfers that succeeded*)
(* and came to the deposit wallet are credited.  Of deposit tickets: they  *)
(* are credited once, with their own amount, the engine hears of it, and   *)
(* users keep to their limit.                                              *)
(***************************************************************************)
EXTENDS Deposits, DepositTickets, FiniteSetTheorems, TLAPS

-----------------------------------------------------------------------------
(* Deposits on chain.                                                       *)

CheckPc == {"idle", "receipt", "refuse", "retry", "lookup", "credit", "sync"}

(* A row is blank until it is inserted, and checks are of rows there are.   *)
ChecksNameRows ==
    /\ \A i \in Ids : rows[i].status = "none" => rows[i] = NoRow
    /\ \A i \in Ids : rows[i].status # "none" => rows[i].hash \in Hashes /\ rows[i].owner \in Users
    /\ \A v \in Runs, i \in Ids : check[v][i].pc # "idle" => rows[i].status # "none"
    /\ \A s \in Submits : submit[s].pc # "idle" => submit[s].user \in Users /\ submit[s].hash \in Hashes
    /\ \A d \in Detectors : detect[d].pc # "idle" => detect[d].user \in Users /\ detect[d].hash \in Hashes

OnChain(h) == h \in Hashes /\ chain[h] = "ok" /\ h \in Valid

(* What is past the look at the chain is on chain.                          *)
ExaminedIsOnChain ==
    /\ \A v \in Runs, i \in Ids : check[v][i].pc \in {"lookup", "credit"} => OnChain(rows[i].hash)
    /\ \A d \in Detectors : detect[d].pc = "commit" => OnChain(detect[d].hash)

ChainInv == TypeOK /\ ChecksNameRows /\ ExaminedIsOnChain /\ CreditedIsOnChain

-----------------------------------------------------------------------------
LEMMA ChainStart == Init => ChainInv
  BY DepositsAssumption
     DEF Init, ChainInv, TypeOK, Row, Statuses, Call, NoRow, IdleCall, IdleCheck, ChecksNameRows, ExaminedIsOnChain,
         CreditedIsOnChain

(* A submission: a row is inserted where there was none.                    *)
LEMMA SubmitKeepsChain == ASSUME ChainInv, NEW s \in Submits, SubmitStep(s) PROVE ChainInv'
<1>0. /\ TypeOK /\ ChecksNameRows /\ ExaminedIsOnChain /\ CreditedIsOnChain
      /\ IdleCall \in Call({"own", "create"}) /\ IdleCall.pc = "idle" /\ submit[s] \in Call({"own", "create"})
    BY DepositsAssumption DEF ChainInv, TypeOK, IdleCall, Call
<1>1. UNCHANGED <<chain, balance, live, detect, check, credits>> /\ faults' \in Nat
    <2>1. UNCHANGED <<chain, balance, live, detect, check, credits>>
        BY DEF SubmitStep, Submit, FindOtherClaim, CreatePending, SubmitThrows
    <2>2. faults \in Nat /\ (faults' = faults \/ faults' = faults + 1)
        BY <1>0 DEF SubmitStep, Submit, FindOtherClaim, CreatePending, SubmitThrows, Fault, TypeOK
    <2> QED BY <2>1, <2>2
<1>2. ASSUME NEW call \in Call({"own", "create"}), submit' = [submit EXCEPT ![s] = call], UNCHANGED rows,
             call.pc # "idle" => call.user \in Users /\ call.hash \in Hashes
      PROVE  ChainInv'
    <2>1. TypeOK'
        BY <1>0, <1>1, <1>2 DEF TypeOK
    <2>2. ChecksNameRows'
        BY <1>0, <1>1, <1>2 DEF ChecksNameRows, TypeOK
    <2>3. ExaminedIsOnChain' /\ CreditedIsOnChain'
        BY <1>0, <1>1, <1>2 DEF ExaminedIsOnChain, CreditedIsOnChain, OnChain
    <2> QED
        BY <2>1, <2>2, <2>3 DEF ChainInv
<1>3. ASSUME NEW u \in Users, NEW h \in Hashes, Submit(s, u, h) PROVE ChainInv'
    <2> DEFINE call == [IdleCall EXCEPT !.pc = "own", !.user = u, !.hash = h]
    <2>1. call \in Call({"own", "create"}) /\ call.user = u /\ call.hash = h
        BY DepositsAssumption DEF Call, IdleCall
    <2>2. submit' = [submit EXCEPT ![s] = call] /\ UNCHANGED rows
        BY <1>3 DEF Submit
    <2> HIDE DEF call
    <2> QED
        BY <1>2, <2>1, <2>2
<1>4. CASE FindOtherClaim(s)
    <2>1. UNCHANGED rows
        BY <1>4 DEF FindOtherClaim
    <2>2. CASE ForeignClaim(submit[s].user, submit[s].hash) = {}
        <3> DEFINE call == [submit[s] EXCEPT !.pc = "create"]
        <3>1. /\ call \in Call({"own", "create"}) /\ call.user = submit[s].user /\ call.hash = submit[s].hash
              /\ call.user \in Users /\ call.hash \in Hashes
            BY <1>0, <1>4 DEF Call, FindOtherClaim, ChecksNameRows
        <3>2. submit' = [submit EXCEPT ![s] = call]
            BY <1>4, <2>2 DEF FindOtherClaim
        <3> HIDE DEF call
        <3> QED
            BY <1>2, <2>1, <3>1, <3>2
    <2>3. CASE ForeignClaim(submit[s].user, submit[s].hash) # {}
        <3>1. submit' = [submit EXCEPT ![s] = IdleCall]
            BY <1>4, <2>3 DEF FindOtherClaim
        <3> QED
            BY <1>0, <1>2, <2>1, <3>1
    <2> QED
        BY <2>2, <2>3
<1>5. CASE CreatePending(s)
    <2> DEFINE row == [NoRow EXCEPT !.status = "pending_verification",
                                    !.owner = submit[s].user, !.hash = submit[s].hash]
    <2>1. PICK i \in Unused : rows' = [rows EXCEPT ![i] = row]
        BY <1>5 DEF CreatePending
    <2>2. row \in Row /\ row.status = "pending_verification" /\ row.owner \in Users /\ row.hash \in Hashes
        BY <1>0, <1>5, DepositsAssumption DEF Row, Statuses, CreatePending, ChecksNameRows, Call, NoRow
    <2>3. rows' = [rows EXCEPT ![i] = row] /\ submit' = [submit EXCEPT ![s] = IdleCall]
        BY <1>5, <2>1 DEF CreatePending
    <2> HIDE DEF row
    <2>4. i \in Ids /\ rows[i].status = "none" /\ \A v \in Runs : check[v][i].pc = "idle"
        BY <1>0 DEF Unused, NoRow, ChecksNameRows
    <2>5. TypeOK'
        BY <1>0, <1>1, <2>2, <2>3, <2>4 DEF TypeOK
    <2>6. \A j \in Ids \ {i} : rows'[j] = rows[j]
        BY <1>0, <2>3 DEF TypeOK
    <2>7. rows'[i] = row /\ \A t \in Submits : submit'[t].pc # "idle" => submit'[t] = submit[t] /\ submit[t].pc # "idle"
        BY <1>0, <2>3, <2>4 DEF TypeOK
    <2>8. ChecksNameRows'
        BY <1>0, <1>1, <2>2, <2>4, <2>6, <2>7 DEF ChecksNameRows
    <2>9. ExaminedIsOnChain' /\ CreditedIsOnChain'
        BY <1>0, <1>1, <2>4, <2>6 DEF ExaminedIsOnChain, CreditedIsOnChain, OnChain
    <2> QED
        BY <2>5, <2>8, <2>9 DEF ChainInv
<1>6. CASE SubmitThrows(s)
    BY <1>0, <1>2, <1>6 DEF SubmitThrows
<1> QED
    BY <1>3, <1>4, <1>5, <1>6 DEF SubmitStep

(* A step of a check gives it a new place, and its row new contents but the *)
(* same hash and owner.                                                     *)
LEMMA CheckMoves ==
    ASSUME ChainInv, NEW v \in Runs, NEW i \in Ids, UNCHANGED <<chain, submit, detect>>, faults' \in Nat,
           NEW c \in [pc : CheckPc, attempts : Nat], check[v][i].pc # "idle",
           check' = [check EXCEPT ![v] = [check[v] EXCEPT ![i] = c]],
           c.pc \in {"lookup", "credit"} => OnChain(rows[i].hash),
           NEW status \in {"completed", "failed", rows[i].status}, NEW attempts \in Nat,
           rows' = [rows EXCEPT ![i] = [rows[i] EXCEPT !.status = status, !.attempts = attempts]],
           balance' \in [Users -> Nat], live' \in [Users -> Int], credits' \in [Hashes -> Nat],
           \A h \in Hashes : credits'[h] > 0 => credits[h] > 0 \/ OnChain(h)
    PROVE  ChainInv'
<1> DEFINE row == [rows[i] EXCEPT !.status = status, !.attempts = attempts]
<1>0. /\ TypeOK /\ ChecksNameRows /\ ExaminedIsOnChain /\ CreditedIsOnChain
      /\ rows[i] \in Row /\ rows[i].status # "none" /\ rows[i].hash \in Hashes /\ rows[i].owner \in Users
    BY DEF ChainInv, TypeOK, ChecksNameRows
<1>1. row \in Row /\ row.status # "none" /\ row.hash = rows[i].hash /\ row.owner = rows[i].owner
    BY <1>0 DEF Row, Statuses
<1>2. rows' = [rows EXCEPT ![i] = row]
    OBVIOUS
<1> HIDE DEF row
<1>3. rows'[i] = row /\ \A j \in Ids \ {i} : rows'[j] = rows[j]
    BY <1>0, <1>2 DEF TypeOK
<1>4. check \in [Runs -> [Ids -> [pc : CheckPc, attempts : Nat]]]
    BY <1>0 DEF TypeOK, CheckPc
<1>5. /\ check' \in [Runs -> [Ids -> [pc : CheckPc, attempts : Nat]]] /\ check'[v][i] = c
      /\ \A w \in Runs, j \in Ids : w # v \/ j # i => check'[w][j] = check[w][j]
    BY <1>4
<1>6. TypeOK'
    BY <1>0, <1>1, <1>2, <1>5 DEF TypeOK, CheckPc
<1>7. ChecksNameRows'
    BY <1>0, <1>1, <1>3, <1>5 DEF ChecksNameRows
<1>8. \A j \in Ids : rows'[j].hash = rows[j].hash
    BY <1>1, <1>3
<1>9. ExaminedIsOnChain'
    BY <1>0, <1>5, <1>8 DEF ExaminedIsOnChain, OnChain
<1>10. CreditedIsOnChain'
    BY <1>0 DEF CreditedIsOnChain, OnChain
<1> QED
    BY <1>6, <1>7, <1>9, <1>10 DEF ChainInv

LEMMA CheckKeepsChain == ASSUME ChainInv, NEW v \in Runs, NEW i \in Ids, CheckStep(v, i) PROVE ChainInv'
<1>0. /\ TypeOK /\ ChecksNameRows /\ ExaminedIsOnChain /\ CreditedIsOnChain
      /\ check[v][i] \in [pc : CheckPc, attempts : Nat] /\ check \in [Runs -> [Ids -> [pc : CheckPc, attempts : Nat]]]
      /\ balance \in [Users -> Nat] /\ live \in [Users -> Int] /\ credits \in [Hashes -> Nat] /\ faults \in Nat
      /\ rows[i] \in Row /\ rows \in [Ids -> Row]
    BY DEF ChainInv, TypeOK, CheckPc
<1>1. check[v][i].pc # "idle" /\ UNCHANGED <<chain, submit, detect>> /\ faults' \in Nat
    BY <1>0 DEF CheckStep, Examine, FindDuplicate, Refuse, Retry, Credit, SyncLive, CheckThrows, Fault
<1>2. rows[i].hash \in Hashes /\ rows[i].owner \in Users /\ rows[i].status # "none"
    BY <1>0, <1>1 DEF ChecksNameRows
<1>3. rows' = rows => rows' = [rows EXCEPT ![i] = [rows[i] EXCEPT !.status = rows[i].status, !.attempts = rows[i].attempts]]
    BY <1>0 DEF Row
<1>4. rows[i].attempts \in Nat
    BY <1>0 DEF Row
<1>5. ASSUME NEW pc \in CheckPc, Goto(v, i, pc), pc \in {"lookup", "credit"} => OnChain(rows[i].hash),
             UNCHANGED <<rows, balance, live, credits>>
      PROVE  ChainInv'
    <2> DEFINE c == [check[v][i] EXCEPT !.pc = pc]
    <2>1. c \in [pc : CheckPc, attempts : Nat] /\ c.pc = pc
        BY <1>0
    <2>2. check' = [check EXCEPT ![v] = [check[v] EXCEPT ![i] = c]]
        BY <1>0, <1>5 DEF Goto
    <2> HIDE DEF c
    <2> QED
        BY <1>0, <1>1, <1>3, <1>4, <1>5, <2>1, <2>2, CheckMoves
<1>6. IdleCheck \in [pc : CheckPc, attempts : Nat] /\ IdleCheck.pc = "idle"
    BY DEF IdleCheck, CheckPc
<1>7. ASSUME check' = [check EXCEPT ![v][i] = IdleCheck], live' \in [Users -> Int], UNCHANGED <<balance, credits>>,
             NEW status \in {"failed", rows[i].status}, NEW attempts \in Nat,
             rows' = [rows EXCEPT ![i] = [rows[i] EXCEPT !.status = status, !.attempts = attempts]]
      PROVE  ChainInv'
    <2>1. check' = [check EXCEPT ![v] = [check[v] EXCEPT ![i] = IdleCheck]]
        BY <1>7
    <2> QED
        BY <1>0, <1>1, <1>6, <1>7, <2>1, CheckMoves
<1>8. CASE Examine(v, i)
    <2>1. /\ UNCHANGED <<rows, balance, live, credits>>
          /\ \E pc \in {"refuse", "retry", "lookup"} : /\ Goto(v, i, pc)
                                                       /\ pc = "lookup" => OnChain(rows[i].hash)
        BY <1>2, <1>8 DEF Examine, OnChain
    <2>2. {"refuse", "retry", "lookup"} \subseteq CheckPc \ {"credit"}
        BY DEF CheckPc
    <2> QED
        BY <1>5, <2>1, <2>2
<1>9. CASE FindDuplicate(v, i)
    <2>1. OnChain(rows[i].hash)
        BY <1>0, <1>9 DEF FindDuplicate, ExaminedIsOnChain
    <2>2. "credit" \in CheckPc /\ "refuse" \in CheckPc
        BY DEF CheckPc
    <2> QED
        BY <1>5, <1>9, <2>1, <2>2 DEF FindDuplicate
<1>10. CASE Refuse(v, i)
    <2>1. rows' = [rows EXCEPT ![i] = [rows[i] EXCEPT !.status = "failed", !.attempts = check[v][i].attempts]]
        BY <1>10 DEF Refuse
    <2>2. check[v][i].attempts \in Nat
        BY <1>0
    <2> QED
        BY <1>0, <1>7, <1>10, <2>1, <2>2 DEF Refuse
<1>11. CASE Retry(v, i)
    <2>1. rows' = [rows EXCEPT ![i] = [rows[i] EXCEPT !.status = rows[i].status, !.attempts = check[v][i].attempts]]
        BY <1>0, <1>11 DEF Retry, Row
    <2>2. check[v][i].attempts \in Nat
        BY <1>0
    <2> QED
        BY <1>0, <1>7, <1>11, <2>1, <2>2 DEF Retry
<1>12. CASE Credit(v, i)
    <2> DEFINE c == [check[v][i] EXCEPT !.pc = "sync"]
    <2>1. c \in [pc : CheckPc, attempts : Nat] /\ c.pc = "sync"
        BY <1>0 DEF CheckPc
    <2>2. check' = [check EXCEPT ![v] = [check[v] EXCEPT ![i] = c]]
        BY <1>0, <1>12 DEF Credit, Goto
    <2>3. rows' = [rows EXCEPT ![i] = [rows[i] EXCEPT !.status = "completed", !.attempts = check[v][i].attempts]]
        BY <1>12 DEF Credit
    <2>4. balance' \in [Users -> Nat] /\ live' \in [Users -> Int] /\ credits' \in [Hashes -> Nat] /\ check[v][i].attempts \in Nat
        BY <1>0, <1>2, <1>12 DEF Credit
    <2>5. OnChain(rows[i].hash)
        BY <1>0, <1>12 DEF Credit, ExaminedIsOnChain
    <2>6. \A h \in Hashes : credits'[h] > 0 => credits[h] > 0 \/ OnChain(h)
        BY <1>0, <1>12, <2>5 DEF Credit
    <2> HIDE DEF c
    <2> QED
        BY <1>1, <2>1, <2>2, <2>3, <2>4, <2>6, CheckMoves
<1>13. CASE SyncLive(v, i)
    <2>1. live' \in [Users -> Int]
        BY <1>0, <1>2, <1>13 DEF SyncLive
    <2> QED
        BY <1>3, <1>4, <1>7, <1>13, <2>1 DEF SyncLive
<1>14. CASE CheckThrows(v, i)
    <2>1. "retry" \in CheckPc
        BY DEF CheckPc
    <2> QED
        BY <1>0, <1>3, <1>4, <1>5, <1>7, <1>14, <2>1 DEF CheckThrows
<1> QED
    BY <1>8, <1>9, <1>10, <1>11, <1>12, <1>13, <1>14 DEF CheckStep

LEMMA RunKeepsChain == ASSUME ChainInv, NEW v \in Runs, StartRun(v) PROVE ChainInv'
<1>0. /\ TypeOK /\ ChecksNameRows /\ ExaminedIsOnChain /\ CreditedIsOnChain
      /\ check \in [Runs -> [Ids -> [pc : CheckPc, attempts : Nat]]]
      /\ UNCHANGED <<chain, balance, live, rows, submit, detect, credits, faults>>
    BY DEF ChainInv, TypeOK, CheckPc, StartRun
<1> DEFINE started == [i \in Ids |-> IF rows[i].status = "pending_verification"
                                       THEN [pc |-> "receipt", attempts |-> rows[i].attempts + 1] ELSE IdleCheck]
<1>1. check' = [check EXCEPT ![v] = started]
    BY DEF StartRun
<1>2. started \in [Ids -> [pc : CheckPc, attempts : Nat]]
    <2>1. \A i \in Ids : rows[i].attempts \in Nat
        BY <1>0 DEF TypeOK, Row
    <2> QED
        BY <2>1 DEF CheckPc, IdleCheck
<1>3. \A i \in Ids : /\ started[i].pc \notin {"lookup", "credit"}
                     /\ started[i].pc # "idle" => rows[i].status # "none"
    BY DEF IdleCheck
<1> HIDE DEF started
<1>4. check' \in [Runs -> [Ids -> [pc : CheckPc, attempts : Nat]]] /\ check'[v] = started
      /\ \A w \in Runs \ {v} : check'[w] = check[w]
    BY <1>0, <1>1, <1>2
<1>5. TypeOK'
    BY <1>0, <1>4 DEF TypeOK, CheckPc
<1>6. ChecksNameRows' /\ ExaminedIsOnChain' /\ CreditedIsOnChain'
    BY <1>0, <1>3, <1>4 DEF ChecksNameRows, ExaminedIsOnChain, CreditedIsOnChain, OnChain
<1> QED
    BY <1>5, <1>6 DEF ChainInv

LEMMA DetectKeepsChain == ASSUME ChainInv, NEW d \in Detectors, DetectStep(d) PROVE ChainInv'
<1> DEFINE c == detect[d]
<1>0. /\ TypeOK /\ ChecksNameRows /\ ExaminedIsOnChain /\ CreditedIsOnChain
      /\ IdleCall \in Call({"called", "free", "commit"}) /\ IdleCall.pc = "idle" /\ c \in Call({"called", "free", "commit"})
      /\ live \in [Users -> Int]
    BY DepositsAssumption DEF ChainInv, TypeOK, IdleCall, Call
<1>1. UNCHANGED <<chain, submit, check>> /\ faults' \in Nat
    BY <1>0 DEF DetectStep, Detect, FindHash, Validate, CommitDetected, DetectThrows, Fault, TypeOK
<1>2. ASSUME NEW call \in Call({"called", "free", "commit"}), detect' = [detect EXCEPT ![d] = call],
             UNCHANGED <<rows, balance, credits>>, live' \in [Users -> Int],
             call.pc # "idle" => call.user \in Users /\ call.hash \in Hashes,
             call.pc = "commit" => OnChain(call.hash)
      PROVE  ChainInv'
    <2>1. TypeOK'
        BY <1>0, <1>1, <1>2 DEF TypeOK
    <2>2. ChecksNameRows'
        BY <1>0, <1>1, <1>2 DEF ChecksNameRows, TypeOK
    <2>3. ExaminedIsOnChain' /\ CreditedIsOnChain'
        BY <1>0, <1>1, <1>2 DEF ExaminedIsOnChain, CreditedIsOnChain, OnChain, TypeOK
    <2> QED
        BY <2>1, <2>2, <2>3 DEF ChainInv
<1>3. ASSUME detect' = [detect EXCEPT ![d] = IdleCall], UNCHANGED <<rows, balance, live, credits>> PROVE ChainInv'
    BY <1>0, <1>2, <1>3
<1>4. ASSUME NEW pc \in {"free", "commit"}, detect' = [detect EXCEPT ![d].pc = pc], c.pc # "idle",
             UNCHANGED <<rows, balance, credits>>, live' \in [Users -> Int], pc = "commit" => OnChain(c.hash)
      PROVE  ChainInv'
    <2> DEFINE call == [c EXCEPT !.pc = pc]
    <2>1. /\ call \in Call({"called", "free", "commit"}) /\ call.pc = pc /\ call.user = c.user /\ call.hash = c.hash
          /\ c.user \in Users /\ c.hash \in Hashes
        BY <1>0, <1>4 DEF Call, ChecksNameRows
    <2>2. detect' = [detect EXCEPT ![d] = call]
        BY <1>4
    <2> HIDE DEF call
    <2> QED
        BY <1>2, <1>4, <2>1, <2>2
<1>5. ASSUME NEW u \in Users, NEW h \in Hashes, NEW spelling \in Spellings, Detect(d, u, h, spelling)
      PROVE  ChainInv'
    <2> DEFINE call == [pc |-> "called", user |-> u, hash |-> h, spelling |-> spelling]
    <2>1. call \in Call({"called", "free", "commit"}) /\ call.user = u /\ call.hash = h /\ call.pc = "called"
        BY DEF Call
    <2>2. detect' = [detect EXCEPT ![d] = call] /\ UNCHANGED <<rows, balance, live, credits>>
        BY <1>5 DEF Detect
    <2> HIDE DEF call
    <2> QED
        BY <1>0, <1>2, <2>1, <2>2
<1>6. CASE FindHash(d)
    <2>1. CASE AnyDeposit(c.hash, c.spelling) = {}
        <3>1. detect' = [detect EXCEPT ![d].pc = "free"] /\ UNCHANGED <<rows, balance, live, credits>> /\ c.pc # "idle"
            BY <1>6, <2>1 DEF FindHash
        <3> QED
            BY <1>0, <1>4, <3>1
    <2>2. CASE AnyDeposit(c.hash, c.spelling) # {}
        BY <1>3, <1>6, <2>2 DEF FindHash
    <2> QED
        BY <2>1, <2>2
<1>7. CASE Validate(d)
    <2>1. c.user \in Users /\ c.hash \in Hashes /\ c.pc # "idle" /\ UNCHANGED <<rows, balance, credits>>
        BY <1>0, <1>7 DEF Validate, ChecksNameRows
    <2>2. CASE detect' = [detect EXCEPT ![d] = IdleCall] /\ UNCHANGED live
        BY <1>3, <2>1, <2>2
    <2>3. CASE /\ chain[c.hash] = "ok" /\ c.hash \in Valid
               /\ live' = [live EXCEPT ![c.user] = @ + 1] /\ detect' = [detect EXCEPT ![d].pc = "commit"]
        <3>1. live' \in [Users -> Int] /\ OnChain(c.hash)
            BY <1>0, <2>1, <2>3 DEF OnChain
        <3> QED
            BY <1>4, <2>1, <2>3, <3>1
    <2> QED
        BY <1>7, <2>2, <2>3 DEF Validate
<1>8. CASE CommitDetected(d)
    <2> DEFINE row == [NoRow EXCEPT !.status = "completed", !.owner = c.user,
                                    !.hash = c.hash, !.spelling = c.spelling]
    <2>1. PICK i \in Unused : rows' = [rows EXCEPT ![i] = row]
        BY <1>8 DEF CommitDetected
    <2>2. OnChain(c.hash) /\ c.user \in Users /\ c.hash \in Hashes
        BY <1>0, <1>8 DEF CommitDetected, ExaminedIsOnChain, ChecksNameRows
    <2>3. row \in Row /\ row.status = "completed" /\ row.owner \in Users /\ row.hash \in Hashes
        BY <1>0, <2>2 DEF Row, Statuses, NoRow, Call
    <2>4. i \in Ids /\ \A v \in Runs : check[v][i].pc = "idle"
        BY <1>0 DEF Unused, NoRow, ChecksNameRows
    <2> HIDE DEF row
    <2>5. rows' \in [Ids -> Row] /\ rows'[i] = row /\ \A j \in Ids \ {i} : rows'[j] = rows[j]
        BY <1>0, <2>1, <2>3, <2>4 DEF TypeOK
    <2>6. /\ detect' = [detect EXCEPT ![d] = IdleCall] /\ UNCHANGED live
          /\ balance' \in [Users -> Nat] /\ credits' \in [Hashes -> Nat]
          /\ \A h \in Hashes : credits'[h] > 0 => credits[h] > 0 \/ OnChain(h)
        BY <1>0, <1>8, <2>2 DEF CommitDetected, TypeOK
    <2>7. \A e \in Detectors : detect'[e].pc # "idle" => detect'[e] = detect[e]
        BY <1>0, <2>6 DEF TypeOK
    <2>8. TypeOK'
        BY <1>0, <1>1, <2>5, <2>6 DEF TypeOK
    <2>9. ChecksNameRows'
        BY <1>0, <1>1, <2>3, <2>4, <2>5, <2>7 DEF ChecksNameRows
    <2>10. ExaminedIsOnChain'
        BY <1>0, <1>1, <2>4, <2>5, <2>7 DEF ExaminedIsOnChain, OnChain
    <2>11. CreditedIsOnChain'
        BY <1>0, <1>1, <2>6 DEF CreditedIsOnChain, OnChain
    <2> QED
        BY <2>8, <2>9, <2>10, <2>11 DEF ChainInv
<1>9. CASE DetectThrows(d)
    BY <1>3, <1>9 DEF DetectThrows
<1> QED
    BY <1>5, <1>6, <1>7, <1>8, <1>9 DEF DetectStep

LEMMA CrashKeepsChain == ASSUME ChainInv, Crash PROVE ChainInv'
<1>0. TypeOK /\ ChecksNameRows /\ ExaminedIsOnChain /\ CreditedIsOnChain
    BY DEF ChainInv
<1>1. /\ IdleCheck.pc = "idle" /\ IdleCall.pc = "idle" /\ IdleCall \in Call({"own", "create"})
      /\ IdleCall \in Call({"called", "free", "commit"}) /\ IdleCheck \in [pc : CheckPc, attempts : Nat]
    BY DepositsAssumption DEF IdleCheck, IdleCall, Call, CheckPc
<1>2. TypeOK'
    BY <1>0, <1>1 DEF Crash, Fault, TypeOK, CheckPc
<1>3. ChecksNameRows' /\ ExaminedIsOnChain' /\ CreditedIsOnChain'
    BY <1>0, <1>1 DEF Crash, ChecksNameRows, ExaminedIsOnChain, CreditedIsOnChain, OnChain
<1> QED
    BY <1>2, <1>3 DEF ChainInv

LEMMA ChainKept == ASSUME ChainInv, [Next]_vars PROVE ChainInv'
<1>1. CASE UNCHANGED vars
    BY <1>1 DEF vars, ChainInv, TypeOK, ChecksNameRows, ExaminedIsOnChain, CreditedIsOnChain, OnChain
<1>2. ASSUME NEW h \in Hashes, Mine(h) PROVE ChainInv'
    <2>1. TypeOK /\ ChecksNameRows /\ ExaminedIsOnChain /\ CreditedIsOnChain
        BY DEF ChainInv
    <2>2. \A g \in Hashes : chain[g] = "ok" => chain'[g] = "ok"
        BY <1>2, <2>1 DEF Mine, TypeOK
    <2>3. TypeOK'
        BY <1>2, <2>1 DEF Mine, TypeOK
    <2>4. ChecksNameRows' /\ ExaminedIsOnChain' /\ CreditedIsOnChain'
        BY <1>2, <2>1, <2>2 DEF Mine, ChecksNameRows, ExaminedIsOnChain, CreditedIsOnChain, OnChain
    <2> QED
        BY <2>3, <2>4 DEF ChainInv
<1> QED
    BY <1>1, <1>2, SubmitKeepsChain, RunKeepsChain, CheckKeepsChain, DetectKeepsChain, CrashKeepsChain DEF Next

(* However many submissions, detections and verifier runs overlap, and      *)
(* whatever fails or dies between their reads and their writes, only a      *)
(* transfer that is on chain, succeeded and came to the deposit wallet is   *)
(* credited (verifyOnePendingDeposit, createDepositRequest).                *)
THEOREM CreditsAreOnChain == Spec => []CreditedIsOnChain
<1>1. Init => ChainInv
    BY ChainStart
<1>2. ChainInv /\ [Next]_vars => ChainInv'
    BY ChainKept
<1>3. ChainInv => CreditedIsOnChain
    BY DEF ChainInv
<1> QED
    BY <1>1, <1>2, <1>3, PTL DEF Spec

-----------------------------------------------------------------------------
(* No verifier run overlaps another: the state of affairs a lock on the run *)
(* would bring about.                                                       *)
OneRun == \A v, w \in Runs : ~Settled(v) /\ ~Settled(w) => v = w

(* Nor do two submissions of one transfer, or any detection.                *)
OneAtATime ==
    /\ OneRun
    /\ \A s, t \in Submits :
          submit[s].pc # "idle" /\ submit[t].pc # "idle" /\ submit[s].hash = submit[t].hash => s = t
    /\ \A d \in Detectors : detect[d].pc = "idle"

(* A check is of a pending row until it has credited it.                    *)
LoneCheck ==
    \A v \in Runs, i \in Ids :
        /\ check[v][i].pc \in {"receipt", "refuse", "retry", "lookup", "credit"}
             => rows[i].status = "pending_verification"
        /\ check[v][i].pc = "sync" => rows[i].status = "completed"

Claimed == {"pending_verification", "completed"}

OneClaim ==
    \A i, j \in Ids : rows[i].status \in Claimed /\ rows[j].status \in Claimed /\ rows[i].hash = rows[j].hash => i = j

(* Nobody claims what a submission has looked for.                          *)
SoughtIsFree ==
    \A s \in Submits : submit[s].pc # "idle" =>
        \A i \in Ids : rows[i].hash = submit[s].hash /\ rows[i].status \in Claimed =>
            rows[i].owner # submit[s].user /\ submit[s].pc = "own"

CountedOnce ==
    \A h \in Hashes : /\ credits[h] <= 1
                      /\ credits[h] = 1 => \E i \in Ids : rows[i].hash = h /\ rows[i].status = "completed"

DoneRows(u) == {i \in Ids : rows[i].owner = u /\ rows[i].status = "completed"}
Owed(u) == {c \in Runs \X Ids : check[c[1]][c[2]].pc = "sync" /\ rows[c[2]].owner = u}

BooksAgree == \A u \in Users : /\ balance[u] = Cardinality(DoneRows(u))
                               /\ live[u] + Cardinality(Owed(u)) = balance[u]

(* Hashes are compared as they are written: submissions write them alike.   *)
Lowered == \A i \in Ids : rows[i].spelling = "lower"

SoloInv == LoneCheck /\ OneClaim /\ SoughtIsFree /\ CountedOnce /\ BooksAgree

LEMMA BookSetsFinite ==
    ASSUME NEW u
    PROVE  /\ IsFiniteSet(DoneRows(u)) /\ Cardinality(DoneRows(u)) \in Nat
           /\ IsFiniteSet(Owed(u)) /\ Cardinality(Owed(u)) \in Nat
<1>1. IsFiniteSet(Runs \X Ids)
    BY FS_Product, DepositsAssumption
<1>2. DoneRows(u) \subseteq Ids /\ Owed(u) \subseteq Runs \X Ids
    BY DEF DoneRows, Owed
<1> QED
    BY <1>1, <1>2, FS_Subset, FS_CardinalityType, DepositsAssumption

(* A step that completes no row, moves no money and lets a row only go from *)
(* pending to failed, or from blank to pending when nobody claims its hash. *)
LEMMA QuietRows ==
    ASSUME ChainInv, SoloInv, ChecksNameRows', UNCHANGED <<balance, live, credits>>,
           \A i \in Ids : \/ rows'[i].status = rows[i].status /\ rows'[i].hash = rows[i].hash /\ rows'[i].owner = rows[i].owner
                          \/ /\ rows[i].status = "pending_verification" /\ rows'[i].status = "failed"
                             /\ rows'[i].hash = rows[i].hash /\ rows'[i].owner = rows[i].owner
                          \/ /\ rows[i].status = "none" /\ rows'[i].status = "pending_verification"
                             /\ \A j \in Ids \ {i} : rows'[j].status \in Claimed => rows'[j].hash # rows'[i].hash,
           \A v \in Runs, i \in Ids :
             /\ check'[v][i].pc = "sync" <=> check[v][i].pc = "sync"
             /\ check'[v][i].pc \in {"receipt", "refuse", "retry", "lookup", "credit"}
                  => rows'[i].status = "pending_verification",
           SoughtIsFree'
    PROVE  SoloInv'
<1>0. LoneCheck /\ OneClaim /\ CountedOnce /\ BooksAgree
    BY DEF SoloInv
<1>1. \A i \in Ids : rows'[i].status = "completed" <=> rows[i].status = "completed"
    OBVIOUS
<1>2. \A i \in Ids : rows[i].status = "completed" => rows'[i].owner = rows[i].owner /\ rows'[i].hash = rows[i].hash
    OBVIOUS
<1>3. LoneCheck'
    BY <1>0, <1>1 DEF LoneCheck
<1>4. OneClaim'
    <2> SUFFICES ASSUME NEW i \in Ids, NEW j \in Ids, rows'[i].status \in Claimed, rows'[j].status \in Claimed,
                        rows'[i].hash = rows'[j].hash
                 PROVE  i = j
        BY DEF OneClaim
    <2>1. CASE rows[i].status = "none" \/ rows[j].status = "none"
        BY <2>1 DEF Claimed
    <2>2. CASE rows[i].status # "none" /\ rows[j].status # "none"
        <3>1. rows[i].status \in Claimed /\ rows[j].status \in Claimed /\ rows[i].hash = rows[j].hash
            BY <2>2 DEF Claimed
        <3> QED
            BY <1>0, <3>1 DEF OneClaim
    <2> QED
        BY <2>1, <2>2
<1>5. CountedOnce'
    BY <1>0, <1>1, <1>2 DEF CountedOnce
<1>6. \A u : DoneRows(u)' = DoneRows(u)
    BY <1>1, <1>2 DEF DoneRows
<1>7. \A u : Owed(u)' = Owed(u)
    <2>1. \A c \in Runs \X Ids : /\ check'[c[1]][c[2]].pc = "sync" <=> check[c[1]][c[2]].pc = "sync"
                                 /\ check[c[1]][c[2]].pc = "sync" => rows'[c[2]].owner = rows[c[2]].owner
        BY <1>0, <1>2 DEF LoneCheck
    <2> QED
        BY <2>1 DEF Owed
<1>8. BooksAgree'
    BY <1>0, <1>6, <1>7 DEF BooksAgree
<1> QED
    BY <1>3, <1>4, <1>5, <1>8 DEF SoloInv

LEMMA SubmitKeepsSolo ==
    ASSUME OneAtATime, ChainInv, ChainInv', Lowered, SoloInv, NEW s \in Submits, SubmitStep(s) PROVE SoloInv'
<1>0. /\ TypeOK /\ TypeOK' /\ ChecksNameRows /\ ChecksNameRows' /\ LoneCheck /\ SoughtIsFree
      /\ submit \in [Submits -> Call({"own", "create"})] /\ rows \in [Ids -> Row]
      /\ \A i \in Ids : rows[i].status # "none" => rows[i].hash \in Hashes /\ rows[i].owner \in Users
    BY DEF ChainInv, SoloInv, TypeOK, ChecksNameRows
<1>1. UNCHANGED <<balance, live, check, credits>>
    BY DEF SubmitStep, Submit, FindOtherClaim, CreatePending, SubmitThrows
<1>8. /\ \A t \in Submits \ {s} : submit'[t] = submit[t]
      /\ \A t \in Submits \ {s} : submit[s].pc # "idle" /\ submit[t].pc # "idle" => submit[t].hash # submit[s].hash
    BY <1>0 DEF SubmitStep, Submit, FindOtherClaim, CreatePending, SubmitThrows, OneAtATime
<1>2. ASSUME UNCHANGED rows, SoughtIsFree' PROVE SoloInv'
    BY <1>0, <1>1, <1>2, QuietRows DEF LoneCheck
<1>3. ASSUME UNCHANGED rows, submit'[s].pc = "idle" PROVE SoloInv'
    BY <1>0, <1>2, <1>3, <1>8 DEF SoughtIsFree
<1>4. ASSUME NEW u \in Users, NEW h \in Hashes, Submit(s, u, h) PROVE SoloInv'
    <2>1. submit'[s].user = u /\ submit'[s].hash = h /\ submit'[s].pc = "own" /\ UNCHANGED rows
        BY <1>0, <1>4 DEF Submit, IdleCall
    <2>2. \A i \in Ids : rows[i].hash = h /\ rows[i].status \in Claimed => rows[i].owner # u
        BY <1>4 DEF Submit, OwnClaim, RowsOf, Recorded, Claimed, Lowered
    <2> QED
        BY <1>0, <1>2, <1>8, <2>1, <2>2 DEF SoughtIsFree
<1>5. CASE FindOtherClaim(s)
    <2>1. UNCHANGED rows /\ submit[s].pc = "own"
        BY <1>5 DEF FindOtherClaim
    <2>2. CASE ForeignClaim(submit[s].user, submit[s].hash) # {}
        <3>1. submit'[s].pc = "idle"
            BY <1>0, <1>5, <2>2 DEF FindOtherClaim, IdleCall
        <3> QED
            BY <1>3, <2>1, <3>1
    <2>3. CASE ForeignClaim(submit[s].user, submit[s].hash) = {}
        <3>1. submit'[s].user = submit[s].user /\ submit'[s].hash = submit[s].hash
            BY <1>0, <1>5, <2>3 DEF FindOtherClaim, Call
        <3>2. \A i \in Ids : rows[i].hash = submit[s].hash /\ rows[i].status \in Claimed => rows[i].owner = submit[s].user
            BY <2>3 DEF ForeignClaim, RowsOf, Claimed, Lowered
        <3>3. \A i \in Ids : ~(rows[i].hash = submit[s].hash /\ rows[i].status \in Claimed)
            BY <1>0, <2>1, <3>2 DEF SoughtIsFree
        <3>4. SoughtIsFree'
            BY <1>0, <1>8, <2>1, <3>1, <3>3 DEF SoughtIsFree
        <3> QED
            BY <1>2, <2>1, <3>4
    <2> QED
        BY <2>2, <2>3
<1>6. CASE CreatePending(s)
    <2> DEFINE row == [NoRow EXCEPT !.status = "pending_verification",
                                    !.owner = submit[s].user, !.hash = submit[s].hash]
    <2>1. PICK i \in Unused : rows' = [rows EXCEPT ![i] = row]
        BY <1>6 DEF CreatePending
    <2>2. row.status = "pending_verification" /\ row.hash = submit[s].hash
        BY DEF NoRow
    <2> HIDE DEF row
    <2>3. i \in Ids /\ rows'[i] = row /\ rows[i].status = "none" /\ \A j \in Ids \ {i} : rows'[j] = rows[j]
        BY <1>0, <2>1 DEF Unused, NoRow
    <2>4. submit'[s].pc = "idle" /\ submit[s].pc = "create"
        BY <1>0, <1>6 DEF CreatePending, IdleCall
    <2>5. \A j \in Ids : rows[j].status \in Claimed => rows[j].hash # submit[s].hash
        BY <1>0, <2>4 DEF SoughtIsFree
    <2>6. SoughtIsFree'
        <3> SUFFICES ASSUME NEW t \in Submits, submit'[t].pc # "idle",
                            NEW j \in Ids, rows'[j].hash = submit'[t].hash, rows'[j].status \in Claimed
                     PROVE  rows'[j].owner # submit'[t].user /\ submit'[t].pc = "own"
            BY DEF SoughtIsFree
        <3>1. submit'[t] = submit[t] /\ submit[t].hash # submit[s].hash
            BY <1>8, <2>4
        <3>2. rows'[j] = rows[j]
            BY <2>2, <2>3, <3>1
        <3> QED
            BY <1>0, <3>1, <3>2 DEF SoughtIsFree
    <2>7. \A v \in Runs, j \in Ids : check[v][j].pc \in {"receipt", "refuse", "retry", "lookup", "credit"}
             => rows'[j].status = "pending_verification"
        BY <1>0, <2>2, <2>3 DEF LoneCheck
    <2>8. \A j \in Ids : \/ rows'[j] = rows[j]
                         \/ /\ rows[j].status = "none" /\ rows'[j].status = "pending_verification"
                            /\ \A k \in Ids \ {j} : rows'[k].status \in Claimed => rows'[k].hash # rows'[j].hash
        BY <2>2, <2>3, <2>5
    <2> QED
        BY <1>0, <1>1, <2>6, <2>7, <2>8, QuietRows
<1>7. CASE SubmitThrows(s)
    <2>1. UNCHANGED rows /\ submit'[s].pc = "idle"
        BY <1>0, <1>7 DEF SubmitThrows, IdleCall
    <2> QED
        BY <1>3, <2>1
<1> QED
    BY <1>4, <1>5, <1>6, <1>7 DEF SubmitStep

LEMMA LoweredKept == ASSUME OneAtATime, OneAtATime', ChainInv, Lowered, [Next]_vars PROVE Lowered'
<1>0. rows \in [Ids -> Row] /\ NoRow.spelling = "lower"
    BY DEF ChainInv, TypeOK, NoRow
<1>1. CASE UNCHANGED rows
    BY <1>1 DEF Lowered
<1>2. ASSUME NEW s \in Submits, CreatePending(s) PROVE Lowered'
    <2> DEFINE row == [NoRow EXCEPT !.status = "pending_verification",
                                    !.owner = submit[s].user, !.hash = submit[s].hash]
    <2>1. PICK i \in Unused : rows' = [rows EXCEPT ![i] = row]
        BY <1>2 DEF CreatePending
    <2>2. row.spelling = "lower"
        BY DEF NoRow
    <2> HIDE DEF row
    <2> QED BY <1>0, <2>1, <2>2 DEF Lowered
<1>3. ASSUME NEW v \in Runs, NEW i \in Ids, Refuse(v, i) \/ Retry(v, i) \/ Credit(v, i) PROVE Lowered'
    BY <1>0, <1>3 DEF Refuse, Retry, Credit, Lowered, Row
<1>4. ASSUME NEW d \in Detectors, DetectStep(d) PROVE UNCHANGED rows
    <2>1. detect[d].pc = "idle" /\ detect'[d].pc = "idle" /\ detect \in [Detectors -> Call({"called", "free", "commit"})]
        BY DEF OneAtATime, ChainInv, TypeOK
    <2> QED BY <1>4, <2>1 DEF DetectStep, Detect, FindHash, Validate, CommitDetected, DetectThrows
<1> QED
    BY <1>1, <1>2, <1>3, <1>4 DEF Next, vars, Mine, SubmitStep, Submit, FindOtherClaim, SubmitThrows, StartRun, CheckStep,
       Examine, FindDuplicate, SyncLive, CheckThrows, Crash

(* What a step of a check does, as functions.                               *)
LEMMA CheckWrites ==
    ASSUME OneRun, ChainInv, NEW v \in Runs, NEW i \in Ids, CheckStep(v, i)
    PROVE  /\ \A w \in Runs, j \in Ids : j # i => check'[w][j] = check[w][j]
           /\ \A w \in Runs \ {v}, j \in Ids : check[w][j].pc = "idle" /\ check'[w][j] = check[w][j]
           /\ \A j \in Ids \ {i} : rows'[j] = rows[j]
           /\ rows'[i].hash = rows[i].hash /\ rows'[i].owner = rows[i].owner
           /\ UNCHANGED submit
<1>0. /\ check \in [Runs -> [Ids -> [pc : CheckPc, attempts : Nat]]] /\ rows \in [Ids -> Row] /\ rows[i] \in Row
      /\ \A w \in Runs \ {v}, j \in Ids : check[w][j].pc = "idle"
    BY DEF ChainInv, TypeOK, CheckPc, OneRun, Settled, CheckStep, Examine, FindDuplicate, Refuse, Retry, Credit, SyncLive,
       CheckThrows
<1>1. /\ \A j \in Ids \ {i} : rows'[j] = rows[j]
      /\ rows'[i].hash = rows[i].hash /\ rows'[i].owner = rows[i].owner
    <2>1. CASE UNCHANGED rows
        BY <2>1
    <2>2. CASE Refuse(v, i)
        BY <1>0, <2>2 DEF Refuse, Row
    <2>3. CASE Retry(v, i)
        BY <1>0, <2>3 DEF Retry, Row
    <2>4. CASE Credit(v, i)
        BY <1>0, <2>4 DEF Credit, Row
    <2> QED
        BY <2>1, <2>2, <2>3, <2>4 DEF CheckStep, Examine, FindDuplicate, SyncLive, CheckThrows
<1>2. UNCHANGED submit
    BY DEF CheckStep, Examine, FindDuplicate, Refuse, Retry, Credit, SyncLive, CheckThrows
<1>3. \/ \E pc \in CheckPc : Goto(v, i, pc)
      \/ check' = [check EXCEPT ![v][i] = IdleCheck]
    BY DEF CheckStep, Examine, FindDuplicate, Refuse, Retry, Credit, SyncLive, CheckThrows, CheckPc
<1>4. \A w \in Runs, j \in Ids : w # v \/ j # i => check'[w][j] = check[w][j]
    BY <1>0, <1>3 DEF Goto
<1> QED
    BY <1>0, <1>1, <1>2, <1>4

(* Of the row a check is at, and what becomes of it.                        *)
LEMMA CheckGoes ==
    ASSUME ChainInv, NEW v \in Runs, NEW i \in Ids
    PROVE  /\ \A pc : Goto(v, i, pc) => check'[v][i].pc = pc
           /\ check' = [check EXCEPT ![v][i] = IdleCheck] => check'[v][i].pc = "idle"
<1>1. check \in [Runs -> [Ids -> [pc : CheckPc, attempts : Nat]]]
    BY DEF ChainInv, TypeOK, CheckPc
<1> QED
    BY <1>1 DEF Goto, IdleCheck

LEMMA CheckKeepsSolo ==
    ASSUME OneAtATime, ChainInv, ChainInv', SoloInv, NEW v \in Runs, NEW i \in Ids, CheckStep(v, i) PROVE SoloInv'
<1>0. /\ ChecksNameRows /\ ChecksNameRows' /\ LoneCheck /\ OneClaim /\ SoughtIsFree /\ CountedOnce /\ BooksAgree
      /\ rows \in [Ids -> Row] /\ rows[i] \in Row /\ check[v][i].pc # "idle"
      /\ balance \in [Users -> Nat] /\ live \in [Users -> Int] /\ credits \in [Hashes -> Nat]
    BY DEF ChainInv, SoloInv, TypeOK, CheckStep, Examine, FindDuplicate, Refuse, Retry, Credit, SyncLive, CheckThrows
<1>1. /\ \A w \in Runs, j \in Ids : j # i => check'[w][j] = check[w][j]
      /\ \A w \in Runs \ {v}, j \in Ids : check[w][j].pc = "idle" /\ check'[w][j] = check[w][j]
      /\ \A j \in Ids \ {i} : rows'[j] = rows[j]
      /\ rows'[i].hash = rows[i].hash /\ rows'[i].owner = rows[i].owner
      /\ UNCHANGED submit
    BY CheckWrites DEF OneAtATime
<1>2. rows[i].status # "none" /\ rows[i].hash \in Hashes /\ rows[i].owner \in Users
    BY <1>0 DEF ChecksNameRows
<1>3. \A j \in Ids : rows'[j].status = rows[j].status \/ j = i
    BY <1>1
<1>4. ASSUME rows[i].status \in Claimed PROVE SoughtIsFree'
    BY <1>0, <1>1, <1>4 DEF SoughtIsFree, Claimed
<1>5. CASE /\ check[v][i].pc # "sync" /\ check'[v][i].pc # "sync" /\ UNCHANGED <<balance, live, credits>>
           /\ rows'[i].status = rows[i].status \/ (check'[v][i].pc = "idle" /\ rows'[i].status = "failed")
    <2>1. rows[i].status = "pending_verification"
        <3>1. check[v][i] \in [pc : CheckPc, attempts : Nat]
            BY DEF ChainInv, TypeOK, CheckPc
        <3> QED
            BY <1>0, <1>5, <3>1 DEF LoneCheck, CheckPc
    <2>2. \A w \in Runs, j \in Ids : /\ check'[w][j].pc = "sync" <=> check[w][j].pc = "sync"
                                     /\ check'[w][j].pc \in {"receipt", "refuse", "retry", "lookup", "credit"}
                                          => rows'[j].status = "pending_verification"
        BY <1>0, <1>1, <1>5, <2>1 DEF LoneCheck
    <2>3. SoughtIsFree'
        BY <1>4, <2>1 DEF Claimed
    <2>4. \A j \in Ids : \/ rows'[j].status = rows[j].status /\ rows'[j].hash = rows[j].hash /\ rows'[j].owner = rows[j].owner
                         \/ /\ rows[j].status = "pending_verification" /\ rows'[j].status = "failed"
                            /\ rows'[j].hash = rows[j].hash /\ rows'[j].owner = rows[j].owner
        BY <1>1, <1>5, <2>1
    <2> QED
        BY <1>0, <1>5, <2>2, <2>3, <2>4, QuietRows
<1>6. CASE Examine(v, i) \/ FindDuplicate(v, i) \/ CheckThrows(v, i)
    <2>1. UNCHANGED <<rows, balance, live, credits>> /\ check[v][i].pc # "sync"
        BY <1>6 DEF Examine, FindDuplicate, CheckThrows
    <2>2. \/ \E pc \in {"refuse", "retry", "lookup", "credit"} : Goto(v, i, pc)
          \/ check' = [check EXCEPT ![v][i] = IdleCheck]
        BY <1>6 DEF Examine, FindDuplicate, CheckThrows
    <2>3. check'[v][i].pc # "sync"
        BY <2>2, CheckGoes
    <2> QED
        BY <1>5, <2>1, <2>3
<1>7. CASE Refuse(v, i) \/ Retry(v, i)
    <2>1. /\ check[v][i].pc # "sync" /\ check'[v][i].pc = "idle" /\ UNCHANGED <<balance, live, credits>>
        BY <1>7, CheckGoes DEF Refuse, Retry
    <2>2. rows'[i].status = rows[i].status \/ rows'[i].status = "failed"
        BY <1>0, <1>7 DEF Refuse, Retry, Row
    <2> QED
        BY <1>5, <2>1, <2>2
<1>8. CASE Credit(v, i)
    <2> DEFINE u == rows[i].owner
               h == rows[i].hash
    <2>1. /\ check[v][i].pc = "credit" /\ check'[v][i].pc = "sync" /\ rows[i].status = "pending_verification"
          /\ rows'[i].status = "completed" /\ UNCHANGED live
          /\ balance' = [balance EXCEPT ![u] = @ + 1] /\ credits' = [credits EXCEPT ![h] = @ + 1]
        BY <1>0, <1>8, CheckGoes DEF Credit, LoneCheck, Row
    <2>2. LoneCheck'
        BY <1>0, <1>1, <2>1 DEF LoneCheck
    <2>3. OneClaim'
        BY <1>0, <1>1, <2>1 DEF OneClaim, Claimed
    <2>4. SoughtIsFree'
        BY <1>4, <2>1 DEF Claimed
    <2>5. CountedOnce'
        <3>1. credits[h] = 0
            <4>1. \A j \in Ids : rows[j].hash = h => rows[j].status # "completed"
                BY <1>0, <2>1 DEF OneClaim, Claimed
            <4> QED
                BY <1>0, <1>2, <4>1 DEF CountedOnce
        <3>2. credits'[h] = 1 /\ \A g \in Hashes \ {h} : credits'[g] = credits[g]
            BY <1>0, <1>2, <2>1, <3>1
        <3>3. \A g \in Hashes : (\E j \in Ids : rows[j].hash = g /\ rows[j].status = "completed")
                                 => \E j \in Ids : rows'[j].hash = g /\ rows'[j].status = "completed"
            BY <1>1, <2>1
        <3>4. rows'[i].hash = h /\ rows'[i].status = "completed"
            BY <1>1, <2>1
        <3> QED
            BY <1>0, <3>2, <3>3, <3>4 DEF CountedOnce
    <2>6. PICK m \in Users : m = rows[i].owner
        BY <1>2
    <2>7. /\ i \notin DoneRows(m) /\ DoneRows(m)' = DoneRows(m) \cup {i}
          /\ \A q : q # m => DoneRows(q)' = DoneRows(q)
        BY <1>1, <2>1, <2>6 DEF DoneRows
    <2>8. /\ <<v, i>> \notin Owed(m) /\ Owed(m)' = Owed(m) \cup {<<v, i>>}
          /\ \A q : q # m => Owed(q)' = Owed(q)
        <3>1. \A c \in Runs \X Ids : \/ c = <<v, i>>
                                     \/ /\ c[2] \in Ids \ {i}
                                        /\ check'[c[1]][c[2]] = check[c[1]][c[2]] /\ rows'[c[2]] = rows[c[2]]
                                     \/ check[c[1]][c[2]].pc = "idle" /\ check'[c[1]][c[2]].pc = "idle"
            BY <1>1
        <3> QED
            BY <1>1, <2>1, <2>6, <3>1 DEF Owed
    <2>9. /\ Cardinality(DoneRows(m)') = Cardinality(DoneRows(m)) + 1
          /\ Cardinality(Owed(m)') = Cardinality(Owed(m)) + 1
        <3>1. Cardinality(DoneRows(m) \cup {i}) = Cardinality(DoneRows(m)) + 1
            BY <2>7, BookSetsFinite, FS_AddElement
        <3>2. Cardinality(Owed(m) \cup {<<v, i>>}) = Cardinality(Owed(m)) + 1
            BY <2>8, BookSetsFinite, FS_AddElement
        <3> QED
            BY <2>7, <2>8, <3>1, <3>2
    <2>10. balance'[m] = balance[m] + 1 /\ \A q \in Users \ {m} : balance'[q] = balance[q]
        BY <1>0, <2>1, <2>6
    <2>11. BooksAgree'
        <3>1. balance'[m] = Cardinality(DoneRows(m)') /\ live[m] + Cardinality(Owed(m)') = balance'[m]
            <4>1. PICK a \in Nat, b \in Nat, l \in Int : a = Cardinality(DoneRows(m)) /\ b = Cardinality(Owed(m)) /\ l = live[m]
                BY <1>0, BookSetsFinite
            <4>2. balance[m] = a /\ l + b = balance[m]
                BY <1>0, <4>1 DEF BooksAgree
            <4> QED
                BY <2>9, <2>10, <4>1, <4>2
        <3>2. \A q \in Users \ {m} : /\ balance'[q] = Cardinality(DoneRows(q)')
                                     /\ live[q] + Cardinality(Owed(q)') = balance'[q]
            BY <1>0, <2>7, <2>8, <2>10 DEF BooksAgree
        <3>3. \A q \in Users : balance'[q] = Cardinality(DoneRows(q)') /\ live'[q] + Cardinality(Owed(q)') = balance'[q]
            BY <2>1, <3>1, <3>2
        <3> QED
            BY <3>3 DEF BooksAgree
    <2> QED
        BY <2>2, <2>3, <2>4, <2>5, <2>11 DEF SoloInv
<1>9. CASE SyncLive(v, i)
    <2>1. /\ check[v][i].pc = "sync" /\ check'[v][i].pc = "idle" /\ UNCHANGED <<rows, balance, credits>>
          /\ live' = [live EXCEPT ![rows[i].owner] = @ + 1] /\ rows[i].status = "completed"
        BY <1>0, <1>9, CheckGoes DEF SyncLive, LoneCheck
    <2>2. LoneCheck' /\ OneClaim' /\ CountedOnce'
        BY <1>0, <1>1, <2>1 DEF LoneCheck, OneClaim, CountedOnce
    <2>3. SoughtIsFree'
        BY <1>4, <2>1 DEF Claimed
    <2>4. PICK m \in Users : m = rows[i].owner
        BY <1>2
    <2>5. \A q : DoneRows(q)' = DoneRows(q)
        BY <2>1 DEF DoneRows
    <2>6. /\ <<v, i>> \in Owed(m) /\ Owed(m)' = Owed(m) \ {<<v, i>>}
          /\ \A q : q # m => Owed(q)' = Owed(q)
        <3>1. \A c \in Runs \X Ids : \/ c = <<v, i>>
                                     \/ /\ c[2] \in Ids \ {i}
                                        /\ check'[c[1]][c[2]] = check[c[1]][c[2]] /\ rows'[c[2]] = rows[c[2]]
                                     \/ check[c[1]][c[2]].pc = "idle" /\ check'[c[1]][c[2]].pc = "idle"
            BY <1>1
        <3> QED
            BY <1>1, <2>1, <2>4, <3>1 DEF Owed
    <2>7. Cardinality(Owed(m)') = Cardinality(Owed(m)) - 1
        BY <2>6, BookSetsFinite, FS_RemoveElement
    <2>8. live'[m] = live[m] + 1 /\ \A q \in Users \ {m} : live'[q] = live[q]
        BY <1>0, <2>1, <2>4
    <2>9. live'[m] + Cardinality(Owed(m)') = balance[m]
        <3>1. PICK b \in Nat, l \in Int : b = Cardinality(Owed(m)) /\ l = live[m]
            BY <1>0, BookSetsFinite
        <3>2. l + b = balance[m]
            BY <1>0, <3>1 DEF BooksAgree
        <3> QED
            BY <2>7, <2>8, <3>1, <3>2
    <2>10. \A q \in Users : balance'[q] = Cardinality(DoneRows(q)') /\ live'[q] + Cardinality(Owed(q)') = balance'[q]
        <3>1. \A q \in Users : balance'[q] = Cardinality(DoneRows(q)')
            BY <1>0, <2>1, <2>5 DEF BooksAgree
        <3>2. ASSUME NEW q \in Users \ {m} PROVE live'[q] + Cardinality(Owed(q)') = balance'[q]
            <4>1. live[q] + Cardinality(Owed(q)) = balance[q]
                BY <1>0 DEF BooksAgree
            <4> QED
                BY <2>1, <2>6, <2>8, <4>1
        <3>3. live'[m] + Cardinality(Owed(m)') = balance'[m]
            BY <2>1, <2>9
        <3> QED
            BY <3>1, <3>2, <3>3
    <2>11. BooksAgree'
        BY <2>10 DEF BooksAgree
    <2> QED
        BY <2>2, <2>3, <2>11 DEF SoloInv
<1> QED
    BY <1>6, <1>7, <1>8, <1>9 DEF CheckStep

LEMMA SoloKept ==
    ASSUME OneAtATime, OneAtATime', ChainInv, ChainInv', Lowered, SoloInv, [Next]_vars PROVE SoloInv'
<1>0. ChecksNameRows' /\ LoneCheck /\ SoughtIsFree /\ BooksAgree
    BY DEF ChainInv, SoloInv
<1>1. ASSUME UNCHANGED <<balance, live, rows, submit, check, credits>> PROVE SoloInv'
    <2>1. SoughtIsFree'
        BY <1>0, <1>1 DEF SoughtIsFree
    <2>2. \A v \in Runs, i \in Ids : check[v][i].pc \in {"receipt", "refuse", "retry", "lookup", "credit"}
             => rows[i].status = "pending_verification"
        BY <1>0 DEF LoneCheck
    <2> QED
        BY <1>0, <1>1, <2>1, <2>2, QuietRows
<1>2. CASE UNCHANGED vars
    BY <1>1, <1>2 DEF vars
<1>3. ASSUME NEW h \in Hashes, Mine(h) PROVE SoloInv'
    BY <1>1, <1>3 DEF Mine
<1>4. ASSUME NEW v \in Runs, StartRun(v) PROVE SoloInv'
    <2>1. /\ UNCHANGED <<balance, live, rows, submit, credits>>
          /\ \A w \in Runs \ {v}, i \in Ids : check'[w][i] = check[w][i]
        BY <1>4 DEF StartRun, ChainInv, TypeOK
    <2>2. \A i \in Ids : /\ check[v][i].pc = "idle"
                         /\ check'[v][i].pc = IF rows[i].status = "pending_verification" THEN "receipt" ELSE "idle"
        BY <1>4 DEF StartRun, Settled, ChainInv, TypeOK, IdleCheck
    <2>3. SoughtIsFree'
        BY <1>0, <2>1 DEF SoughtIsFree
    <2>4. \A w \in Runs, i \in Ids :
             /\ check'[w][i].pc = "sync" <=> check[w][i].pc = "sync"
             /\ check'[w][i].pc \in {"receipt", "refuse", "retry", "lookup", "credit"} => rows[i].status = "pending_verification"
        BY <1>0, <2>1, <2>2 DEF LoneCheck
    <2> QED
        BY <1>0, <2>1, <2>3, <2>4, QuietRows
<1>5. ASSUME NEW d \in Detectors, DetectStep(d) PROVE SoloInv'
    <2>1. detect[d].pc = "idle" /\ detect'[d].pc = "idle" /\ detect \in [Detectors -> Call({"called", "free", "commit"})]
        BY DEF OneAtATime, ChainInv, TypeOK
    <2> QED
        BY <1>5, <2>1 DEF DetectStep, Detect, FindHash, Validate, CommitDetected, DetectThrows
<1>6. CASE Crash
    <2>1. /\ UNCHANGED <<balance, rows, credits>> /\ live' = balance
          /\ \A s \in Submits : submit'[s].pc = "idle"
          /\ \A v \in Runs, i \in Ids : check'[v][i].pc = "idle"
        BY <1>6 DEF Crash, IdleCall, IdleCheck
    <2>2. LoneCheck' /\ OneClaim' /\ SoughtIsFree' /\ CountedOnce'
        BY <2>1 DEF SoloInv, LoneCheck, OneClaim, SoughtIsFree, CountedOnce
    <2>3. \A u : DoneRows(u)' = DoneRows(u) /\ Owed(u)' = {}
        BY <2>1 DEF DoneRows, Owed
    <2>4. Cardinality({}) = 0
        BY FS_EmptySet
    <2>5. balance \in [Users -> Nat]
        BY DEF ChainInv, TypeOK
    <2>6. \A u \in Users : balance'[u] = Cardinality(DoneRows(u)') /\ live'[u] + Cardinality(Owed(u)') = balance'[u]
        <3>1. \A u \in Users : balance[u] = Cardinality(DoneRows(u))
            BY <1>0 DEF BooksAgree
        <3>2. \A u : Cardinality(Owed(u)') = 0
            BY <2>3, <2>4
        <3>3. \A u \in Users : live'[u] + 0 = balance'[u]
            BY <2>1, <2>5
        <3> QED
            BY <2>1, <2>3, <3>1, <3>2, <3>3
    <2>7. BooksAgree'
        BY <2>6 DEF BooksAgree
    <2> QED
        BY <2>2, <2>7 DEF SoloInv
<1> QED
    BY <1>2, <1>3, <1>4, <1>5, <1>6, SubmitKeepsSolo, CheckKeepsSolo DEF Next

LEMMA SoloStart == Init => SoloInv
<1> SUFFICES ASSUME Init PROVE SoloInv
    OBVIOUS
<1>1. LoneCheck /\ OneClaim /\ SoughtIsFree /\ CountedOnce
    BY DEF Init, LoneCheck, OneClaim, SoughtIsFree, CountedOnce, NoRow, IdleCall, IdleCheck, Claimed
<1>2. \A u : DoneRows(u) = {} /\ Owed(u) = {}
    BY DEF Init, DoneRows, Owed, NoRow, IdleCheck
<1>3. Cardinality({}) = 0
    BY FS_EmptySet
<1>4. \A u \in Users : balance[u] = Cardinality(DoneRows(u)) /\ live[u] + Cardinality(Owed(u)) = balance[u]
    <2>1. \A u : Cardinality(DoneRows(u)) = 0 /\ Cardinality(Owed(u)) = 0
        BY <1>2, <1>3
    <2>2. \A u \in Users : balance[u] = 0 /\ live[u] = 0
        BY DEF Init
    <2> QED
        BY <2>1, <2>2
<1> QED
    BY <1>1, <1>4 DEF SoloInv, BooksAgree

(* In any run where two submissions of one transfer are never in flight     *)
(* together, nor two verifier runs, and no deposit is detected, whatever    *)
(* the chain answers, whatever the database refuses and whenever the        *)
(* process stops: a transfer is credited once, two accounts never both      *)
(* claim it, and both copies of a balance hold exactly the completed rows   *)
(* (submitDeposit, runDepositVerifier).                                     *)
THEOREM DepositsHold == Spec /\ []OneAtATime => []DepositsSafe
<1>1. Init => ChainInv /\ Lowered /\ SoloInv
    BY ChainStart, SoloStart DEF Init, Lowered, NoRow
<1>2. OneAtATime /\ OneAtATime' /\ ChainInv /\ Lowered /\ SoloInv /\ [Next]_vars
          => (ChainInv /\ Lowered /\ SoloInv)'
    BY ChainKept, LoweredKept, SoloKept
<1>3. OneAtATime /\ ChainInv /\ SoloInv => DepositsSafe
    <2> SUFFICES ASSUME OneAtATime, ChainInv, SoloInv PROVE DepositsSafe
        OBVIOUS
    <2>1. TypeOK /\ CreditedOnce
        BY DEF ChainInv, SoloInv, CountedOnce, CreditedOnce
    <2>2. OneClaimant
        BY DEF SoloInv, OneClaim, OneClaimant, Claimed
    <2>3. BalanceIsCompletedRows
        BY DEF SoloInv, BooksAgree, DoneRows, BalanceIsCompletedRows
    <2>4. LiveAgrees
        <3>1. \A u : {d \in Detectors : detect[d].pc = "commit" /\ detect[d].user = u} = {} /\ Cardinality({}) = 0
            BY FS_EmptySet DEF OneAtATime
        <3>2. balance \in [Users -> Nat]
            BY DEF ChainInv, TypeOK
        <3> QED
            <4>1. \A u \in Users : live[u] + Cardinality(Owed(u)) = balance[u]
                BY DEF SoloInv, BooksAgree
            <4>2. \A u : Cardinality({d \in Detectors : detect[d].pc = "commit" /\ detect[d].user = u}) = 0
                BY <3>1
            <4>3. \A u \in Users : live[u] + Cardinality(Owed(u)) =
                     balance[u] + Cardinality({d \in Detectors : detect[d].pc = "commit" /\ detect[d].user = u})
                <5> SUFFICES ASSUME NEW u \in Users
                             PROVE  live[u] + Cardinality(Owed(u)) =
                                      balance[u] + Cardinality({d \in Detectors : detect[d].pc = "commit" /\ detect[d].user = u})
                    OBVIOUS
                <5>1. balance[u] + Cardinality({d \in Detectors : detect[d].pc = "commit" /\ detect[d].user = u}) = balance[u]
                    <6>1. balance[u] + 0 = balance[u]
                        BY <3>2
                    <6> QED
                        BY <4>2, <6>1
                <5> QED
                    BY <4>1, <5>1
            <4> QED
                BY <4>3 DEF Owed, LiveAgrees
    <2> QED
        BY <2>1, <2>2, <2>3, <2>4 DEF DepositsSafe
<1> QED
    BY <1>1, <1>2, <1>3, PTL DEF Spec

(* One run of the verifier at a time, any number of submissions and         *)
(* detections.                                                              *)

LEMMA InsertsAreOfNewRows ==
    ASSUME ChainInv, NEW i \in Unused, NEW r, rows' = [rows EXCEPT ![i] = r]
    PROVE  /\ \A j \in Ids : rows[j].status # "none" => rows'[j] = rows[j]
           /\ rows \in [Ids -> Row]
    BY DEF Unused, ChainInv, TypeOK, NoRow

LEMMA OtherStepsKeepRows ==
    ASSUME ChainInv, [Next]_vars, ~\E v \in Runs, i \in Ids : CheckStep(v, i)
    PROVE  \A i \in Ids : rows[i].status # "none" => rows'[i] = rows[i]
<1>1. ASSUME NEW s \in Submits, SubmitStep(s) PROVE \A i \in Ids : rows[i].status # "none" => rows'[i] = rows[i]
    BY <1>1, InsertsAreOfNewRows DEF SubmitStep, Submit, FindOtherClaim, CreatePending, SubmitThrows
<1>2. ASSUME NEW d \in Detectors, DetectStep(d) PROVE \A i \in Ids : rows[i].status # "none" => rows'[i] = rows[i]
    BY <1>2, InsertsAreOfNewRows DEF DetectStep, Detect, FindHash, Validate, CommitDetected, DetectThrows
<1>3. ASSUME UNCHANGED rows PROVE \A i \in Ids : rows[i].status # "none" => rows'[i] = rows[i]
    BY <1>3
<1> QED
    BY <1>1, <1>2, <1>3 DEF Next, Mine, StartRun, Crash, vars

LEMMA LoneCheckKept == ASSUME OneRun, OneRun', ChainInv, LoneCheck, [Next]_vars PROVE LoneCheck'
<1>0. TypeOK /\ ChecksNameRows
    BY DEF ChainInv
<1>1. ASSUME NEW v \in Runs, NEW i \in Ids, CheckStep(v, i) PROVE LoneCheck'
    <2>1. /\ \A w \in Runs \ {v}, j \in Ids : check'[w][j].pc = "idle"
          /\ \A j \in Ids \ {i} : check'[v][j] = check[v][j] /\ rows'[j] = rows[j]
        BY <1>1, CheckWrites
    <2>2. /\ check'[v][i].pc \in {"receipt", "refuse", "retry", "lookup", "credit"} => rows'[i].status = "pending_verification"
          /\ check'[v][i].pc = "sync" => rows'[i].status = "completed"
        <3>0. /\ check[v][i].pc \in {"receipt", "refuse", "retry", "lookup", "credit"} => rows[i].status = "pending_verification"
              /\ check[v][i].pc = "sync" => rows[i].status = "completed"
            BY DEF LoneCheck
        <3>1. CASE Examine(v, i) \/ FindDuplicate(v, i)
            <4>1. /\ UNCHANGED rows /\ check[v][i].pc \in {"receipt", "lookup"}
                  /\ check'[v][i].pc \in {"refuse", "retry", "lookup", "credit"}
                BY <1>0, <3>1 DEF Examine, FindDuplicate, Goto, TypeOK
            <4> QED
                BY <3>0, <4>1
        <3>2. CASE Refuse(v, i) \/ Retry(v, i) \/ SyncLive(v, i)
            <4>1. check'[v][i] = IdleCheck
                BY <1>0, <3>2 DEF Refuse, Retry, SyncLive, TypeOK
            <4> QED
                BY <4>1 DEF IdleCheck
        <3>3. CASE Credit(v, i)
            <4>1. check'[v][i].pc = "sync" /\ rows'[i].status = "completed"
                BY <1>0, <3>3 DEF Credit, Goto, TypeOK, Row
            <4> QED
                BY <4>1
        <3>4. CASE CheckThrows(v, i)
            <4>1. /\ UNCHANGED rows /\ check[v][i].pc \in {"lookup", "refuse", "credit", "retry"}
                  /\ check'[v][i].pc \in {"idle", "retry"}
                BY <1>0, <3>4 DEF CheckThrows, Goto, TypeOK, IdleCheck
            <4> QED
                BY <3>0, <4>1
        <3> QED
            BY <1>1, <3>1, <3>2, <3>3, <3>4 DEF CheckStep
    <2> QED
        BY <2>1, <2>2 DEF LoneCheck
<1>2. ASSUME ~\E v \in Runs, i \in Ids : CheckStep(v, i) PROVE LoneCheck'
    <2>1. \A i \in Ids : rows[i].status # "none" => rows'[i] = rows[i]
        BY <1>2, OtherStepsKeepRows
    <2>2. CASE UNCHANGED check
        BY <1>0, <2>1, <2>2 DEF LoneCheck, ChecksNameRows
    <2>3. ASSUME NEW v \in Runs, StartRun(v) PROVE LoneCheck'
        <3>1. /\ UNCHANGED rows /\ \A w \in Runs \ {v} : check'[w] = check[w]
              /\ \A i \in Ids : check'[v][i].pc = IF rows[i].status = "pending_verification" THEN "receipt" ELSE "idle"
            BY <1>0, <2>3 DEF StartRun, TypeOK, IdleCheck
        <3> QED
            BY <3>1 DEF LoneCheck
    <2>4. CASE Crash
        BY <2>4 DEF Crash, LoneCheck, IdleCheck
    <2> QED
        BY <1>2, <2>2, <2>3, <2>4 DEF Next, Mine, SubmitStep, Submit, FindOtherClaim, CreatePending, SubmitThrows, DetectStep,
           Detect, FindHash, Validate, CommitDetected, DetectThrows, vars
<1> QED
    BY <1>1, <1>2

(* With one verifier run at a time, whatever submissions and detections     *)
(* overlap it and whatever fails or dies: a deposit that was completed or   *)
(* refused stays as it is (the updates by id of verifyOnePendingDeposit).   *)
THEOREM DepositsStayResolved == Spec /\ []OneRun => ResolvedIsFinal
<1> DEFINE Final == \A i \in Ids : rows[i].status \in {"completed", "failed"} => rows'[i].status = rows[i].status
<1>1. Init => ChainInv /\ LoneCheck
    BY ChainStart DEF Init, LoneCheck, IdleCheck
<1>2. OneRun /\ OneRun' /\ ChainInv /\ LoneCheck /\ [Next]_vars => (ChainInv /\ LoneCheck)'
    BY ChainKept, LoneCheckKept
<1>3. ASSUME ChainInv, LoneCheck, [Next]_vars PROVE Final \/ UNCHANGED rows
    <2>1. ASSUME NEW v \in Runs, NEW i \in Ids, CheckStep(v, i) PROVE Final \/ UNCHANGED rows
        <3>1. \A j \in Ids \ {i} : rows'[j] = rows[j]
            BY <1>3, <2>1 DEF CheckStep, Examine, FindDuplicate, Refuse, Retry, Credit, SyncLive, CheckThrows, ChainInv, TypeOK
        <3>2. UNCHANGED rows \/ rows[i].status = "pending_verification"
            BY <1>3, <2>1 DEF LoneCheck, CheckStep, Examine, FindDuplicate, Refuse, Retry, Credit, SyncLive, CheckThrows
        <3> QED
            BY <3>1, <3>2
    <2>2. ASSUME ~\E v \in Runs, i \in Ids : CheckStep(v, i) PROVE Final
        BY <1>3, <2>2, OtherStepsKeepRows
    <2> QED
        BY <2>1, <2>2
<1> QED
    BY <1>1, <1>2, <1>3, PTL DEF Spec, ResolvedIsFinal

-----------------------------------------------------------------------------
(* Deposit tickets.                                                         *)

TicketRow == [status : TicketStatus, user : TicketUsers \cup {"nobody"}, hash : Transfers \cup {NoTransfer}]
OpeningCall == [pc : {"idle", "duplicate", "create"},
                user : TicketUsers \cup {"nobody"}, hash : Transfers \cup {NoTransfer}]
DeskPage == [selected : Tickets \cup {NoTicket}, status : TicketStatus,
             form : Tickets \cup {NoTicket}, submitting : BOOLEAN, crossed : BOOLEAN]
TicketCall == [pc : CallPc, desk : Desks \cup {"none"}, ticket : Tickets \cup {NoTicket},
               status : TicketStatus, form : Tickets \cup {NoTicket}]

(* The types need more to be inductive: a call in flight is about a ticket  *)
(* there is, from a page there is, and an approval names an amount.         *)
CallsNameTickets ==
    \A k \in DeskCalls : deskCall[k].pc # "idle" =>
        /\ deskCall[k].ticket \in Tickets /\ deskCall[k].desk \in Desks
        /\ ticket[deskCall[k].ticket].status # "absent"
        /\ deskCall[k].pc \in {"approve", "credit"} => deskCall[k].form \in Tickets

PagesNameTickets ==
    \A d \in Desks : desk[d].selected \in Tickets => ticket[desk[d].selected].status # "absent"

OpenersNameUsers == \A c \in Openers : opening[c].pc # "idle" => opening[c].user \in TicketUsers

TicketsBlank == \A t \in Tickets : ticket[t].status = "absent" => ticket[t] = Absent

(* Between its read and its write a call has the ticket to itself, as it    *)
(* read it, or the ticket is marked.                                        *)
WritersAlone ==
    \A t \in Tickets \ overlapped : \A k \in DeskCalls : Writing(k, t) =>
        /\ deskCall[k].status = ticket[t].status
        /\ \A other \in DeskCalls : Writing(other, t) => other = k

WritersMayWrite ==
    \A k \in DeskCalls :
        /\ deskCall[k].pc = "analyze" => deskCall[k].status \in Unresolved
        /\ deskCall[k].pc \in {"credit", "deny"} => deskCall[k].status \notin Resolved

CreditedIsFinal ==
    \A t \in Tickets \ overlapped :
        /\ ticketCredits[t].times <= 1
        /\ ticketCredits[t].times = 1 => ticket[t].status = "credited"

(* A request in flight that is its user's only one still has room, and the  *)
(* hash it looked for is still not there.                                   *)
OpenersAlone ==
    \A u \in TicketUsers \ crowded : \A c \in Openers :
        opening[c].pc # "idle" /\ opening[c].user = u =>
            /\ Cardinality(OpenTickets(u) \ overlapped) < MaxOpen
            /\ \A h \in Transfers : opening[c].pc = "create" /\ opening[c].hash = h => SameHash(u, h) = {}
            /\ \A other \in Openers : opening[other].pc # "idle" /\ opening[other].user = u => other = c

(* While no page has two tickets on their way, the amount in the form is    *)
(* the one of the ticket that is shown or awaited.                          *)
FormIsOfTicket ==
    \A d \in Desks : ~desk[d].crossed =>
        /\ desk[d].selected # NoTicket => desk[d].selected = desk[d].form
        /\ \A k \in DeskCalls : AsksDetail(k, d) => deskCall[k].ticket = desk[d].form
        /\ \A k \in DeskCalls : deskCall[k].desk = d /\ deskCall[k].pc \in {"approve", "credit"}
                                   => deskCall[k].form = deskCall[k].ticket

TicketTypeInv == TicketTypeOK /\ CallsNameTickets /\ PagesNameTickets /\ OpenersNameUsers
                 /\ TicketsBlank

TicketInv ==
    /\ TicketTypeInv
    /\ WritersAlone /\ WritersMayWrite /\ CreditedIsFinal
    /\ OpenersAlone /\ TicketsWithinLimit
    /\ FormIsOfTicket /\ CreditIsForItsTicket
    /\ EngineToldOfCredits
-----------------------------------------------------------------------------
(* What a call in flight names is there.                                   *)

LEMMA RowsTyped ==
    ASSUME TicketTypeInv, NEW k \in DeskCalls, deskCall[k].pc # "idle"
    PROVE  /\ deskCall[k] \in TicketCall /\ deskCall[k].ticket \in Tickets /\ deskCall[k].desk \in Desks
           /\ ticket[deskCall[k].ticket] \in TicketRow /\ ticket[deskCall[k].ticket].status # "absent"
           /\ desk[deskCall[k].desk] \in DeskPage
           /\ ticketCredits[deskCall[k].ticket] \in [times : Nat, amounts : SUBSET Tickets]
           /\ told[deskCall[k].ticket] \in Nat
    BY DEF TicketTypeInv, TicketTypeOK, CallsNameTickets, TicketCall, TicketRow, DeskPage

-----------------------------------------------------------------------------
(* Types.                                                                   *)

LEMMA TypedOpening == ASSUME TicketTypeInv, NEW c \in Openers, OpeningStep(c) PROVE TicketTypeInv'
<1> USE DEF TicketTypeInv
<1>0. opening[c] \in OpeningCall /\ IdleOpening \in OpeningCall
    BY DEF TicketTypeOK, OpeningCall, IdleOpening
<1>1. ASSUME NEW u \in TicketUsers, NEW h \in Transfers \cup {NoTransfer}, StartOpening(c, u, h)
      PROVE  TicketTypeInv'
    <2> DEFINE o == [pc |-> IF h = NoTransfer THEN "create" ELSE "duplicate", user |-> u, hash |-> h]
    <2>1. o \in OpeningCall /\ o.user = u
        BY DEF OpeningCall
    <2> HIDE DEF o
    <2>2. opening' = [opening EXCEPT ![c] = o]
        BY <1>1 DEF StartOpening, o
    <2>3. UNCHANGED <<ticket, ticketCredits, told, desk, deskCall, overlapped, deskCalls, ticketFaults>>
        BY <1>1 DEF StartOpening
    <2>4. crowded' \in SUBSET TicketUsers
        BY <1>1 DEF StartOpening, TicketTypeOK
    <2> QED
        BY <2>1, <2>2, <2>3, <2>4 DEF TicketTypeOK, CallsNameTickets, PagesNameTickets, OpenersNameUsers, TicketsBlank, OpeningCall
<1>2. CASE LookForDuplicate(c)
    <2>1. PICK o \in OpeningCall :
             opening' = [opening EXCEPT ![c] = o] /\ (o.pc # "idle" => o.user \in TicketUsers)
        <3>1. CASE SameHash(opening[c].user, opening[c].hash) = {}
            <4>1. [opening[c] EXCEPT !.pc = "create"] \in OpeningCall
                BY <1>0 DEF OpeningCall
            <4>2. [opening[c] EXCEPT !.pc = "create"].user \in TicketUsers
                BY <1>0, <1>2 DEF OpeningCall, LookForDuplicate, OpenersNameUsers
            <4> QED
                BY <1>2, <3>1, <4>1, <4>2 DEF LookForDuplicate
        <3>2. CASE SameHash(opening[c].user, opening[c].hash) # {}
            BY <1>0, <1>2, <3>2 DEF LookForDuplicate, IdleOpening
        <3> QED
            BY <3>1, <3>2
    <2>2. UNCHANGED <<ticket, ticketCredits, told, desk, deskCall, overlapped, crowded, deskCalls, ticketFaults>>
        BY <1>2 DEF LookForDuplicate
    <2> QED
        BY <2>1, <2>2 DEF TicketTypeOK, CallsNameTickets, PagesNameTickets, OpenersNameUsers, TicketsBlank, OpeningCall
<1>3. ASSUME NEW t \in Tickets, CreateTicket(c, t) PROVE TicketTypeInv'
    <2> DEFINE row == [status |-> "open", user |-> opening[c].user, hash |-> opening[c].hash]
    <2>1. row \in TicketRow /\ row.status # "absent"
        BY <1>0 DEF OpeningCall, TicketRow, TicketStatus
    <2> HIDE DEF row
    <2>2. /\ ticket' = [ticket EXCEPT ![t] = row] /\ opening' = [opening EXCEPT ![c] = IdleOpening]
          /\ UNCHANGED <<ticketCredits, told, desk, deskCall, overlapped, crowded, deskCalls, ticketFaults>>
        BY <1>3 DEF CreateTicket, row
    <2>3. IdleOpening.pc = "idle"
        BY DEF IdleOpening
    <2>4. TicketTypeOK'
        BY <1>0, <2>1, <2>2 DEF TicketTypeOK, TicketRow, OpeningCall
    <2> QED
        BY <2>1, <2>2, <2>3, <2>4 DEF TicketTypeOK, CallsNameTickets, PagesNameTickets, OpenersNameUsers, TicketsBlank
<1> QED
    BY <1>1, <1>2, <1>3 DEF OpeningStep

(* A step that gives one call new values and leaves the tickets there are.  *)
LEMMA TypedCall ==
    ASSUME TicketTypeInv, NEW k \in DeskCalls, NEW call \in TicketCall,
           deskCall' = [deskCall EXCEPT ![k] = call],
           call.pc # "idle" => /\ call.ticket \in Tickets /\ call.desk \in Desks
                               /\ ticket[call.ticket].status # "absent"
                               /\ call.pc \in {"approve", "credit"} => call.form \in Tickets,
           UNCHANGED opening,
           ticket' \in [Tickets -> TicketRow],
           \A t \in Tickets : ticket[t].status # "absent" => ticket'[t].status # "absent",
           \A t \in Tickets : ticket'[t].status = "absent" => ticket'[t] = ticket[t],
           ticketCredits' \in [Tickets -> [times : Nat, amounts : SUBSET Tickets]],
           told' \in [Tickets -> Nat],
           desk' \in [Desks -> DeskPage],
           \A d \in Desks : desk'[d].selected \in Tickets => ticket[desk'[d].selected].status # "absent",
           overlapped' \in SUBSET Tickets, UNCHANGED crowded, deskCalls' \in Nat, ticketFaults' \in Nat
    PROVE  TicketTypeInv'
<1>1. TicketTypeOK'
    BY DEF TicketTypeInv, TicketTypeOK, TicketRow, DeskPage, TicketCall
<1>2. CallsNameTickets'
    BY DEF TicketTypeInv, TicketTypeOK, CallsNameTickets
<1>3. PagesNameTickets' /\ OpenersNameUsers' /\ TicketsBlank'
    BY DEF TicketTypeInv, PagesNameTickets, OpenersNameUsers, TicketsBlank
<1> QED
    BY <1>1, <1>2, <1>3 DEF TicketTypeInv

LEMMA TypedDesk == ASSUME TicketTypeInv, NEW d \in Desks, NEW k \in DeskCalls, DeskStep(d, k) PROVE TicketTypeInv'
<1>0. /\ TicketTypeOK /\ desk[d] \in DeskPage /\ desk \in [Desks -> DeskPage] /\ ticket \in [Tickets -> TicketRow]
      /\ PagesNameTickets /\ TicketsBlank
      /\ ticketCredits \in [Tickets -> [times : Nat, amounts : SUBSET Tickets]] /\ told \in [Tickets -> Nat]
      /\ overlapped \in SUBSET Tickets /\ deskCalls \in Nat /\ ticketFaults \in Nat
    BY DEF TicketTypeInv, TicketTypeOK, DeskPage, TicketRow
<1>1. ASSUME NEW t \in Tickets, OpenDetail(d, k, t) PROVE TicketTypeInv'
    <2> DEFINE call == [pc |-> "get", desk |-> d, ticket |-> t, status |-> "absent", form |-> NoTicket]
               page == [desk[d] EXCEPT !.selected = NoTicket, !.form = t,
                                       !.crossed = desk[d].crossed \/ \E other \in DeskCalls : AsksDetail(other, d)]
    <2>1. call \in TicketCall /\ call.pc = "get" /\ call.ticket = t /\ call.desk = d
        BY DEF TicketCall, CallPc, TicketStatus
    <2>2. page \in DeskPage /\ page.selected = NoTicket
        BY <1>0 DEF DeskPage
    <2>3. ticket[t].status # "absent"
        BY <1>0, <1>1 DEF OpenDetail, TicketsBlank
    <2> HIDE DEF call, page
    <2>4. /\ deskCall' = [deskCall EXCEPT ![k] = call] /\ deskCalls' \in Nat
          /\ UNCHANGED <<ticket, ticketCredits, told, opening, overlapped, crowded, ticketFaults>>
        BY <1>0, <1>1 DEF OpenDetail, DeskAsks, call
    <2>7. desk' = [desk EXCEPT ![d] = page]
        BY <1>1 DEF OpenDetail, page
    <2>5. desk' \in [Desks -> DeskPage]
        BY <1>0, <2>2, <2>7
    <2>6. \A e \in Desks : desk'[e].selected \in Tickets => ticket[desk'[e].selected].status # "absent"
        BY <1>0, <2>2, <2>4, <2>7, TicketAssumption DEF PagesNameTickets
    <2> QED
        BY <1>0, <2>1, <2>3, <2>4, <2>5, <2>6, TypedCall DEF TicketTypeOK
<1>2. ASSUME NEW form \in Tickets \cup {NoTicket}, NEW pc \in {"approve", "reject"}, Actionable(d),
             DeskAsks(k, pc, d, desk[d].selected, form), pc = "approve" => form # NoTicket,
             desk' = [desk EXCEPT ![d].submitting = TRUE],
             UNCHANGED <<ticket, ticketCredits, told, opening, overlapped, crowded, ticketFaults>>
      PROVE  TicketTypeInv'
    <2> DEFINE call == [pc |-> pc, desk |-> d, ticket |-> desk[d].selected, status |-> "absent", form |-> form]
               page == [desk[d] EXCEPT !.submitting = TRUE]
    <2>1. /\ call \in TicketCall /\ call.pc = pc /\ call.ticket = desk[d].selected /\ call.desk = d /\ call.form = form
          /\ desk[d].selected \in Tickets
        BY <1>0, <1>2 DEF TicketCall, CallPc, TicketStatus, DeskPage, Actionable
    <2>2. page \in DeskPage /\ page.selected = desk[d].selected
        BY <1>0 DEF DeskPage
    <2> HIDE DEF call, page
    <2>3. deskCall' = [deskCall EXCEPT ![k] = call] /\ desk' = [desk EXCEPT ![d] = page] /\ deskCalls' \in Nat
        BY <1>0, <1>2 DEF DeskAsks, TicketTypeOK, call, page
    <2>4. desk' \in [Desks -> DeskPage]
        BY <1>0, <2>2, <2>3
    <2>5. \A e \in Desks : desk'[e].selected \in Tickets => ticket[desk'[e].selected].status # "absent"
        BY <1>0, <1>2, <2>2, <2>3 DEF PagesNameTickets
    <2> QED
        BY <1>0, <1>2, <2>1, <2>3, <2>4, <2>5, TypedCall DEF TicketTypeOK, PagesNameTickets
<1>3. CASE HandleApprove(d, k)
    BY <1>0, <1>2, <1>3 DEF HandleApprove, DeskPage
<1>4. CASE HandleReject(d, k)
    BY <1>2, <1>4 DEF HandleReject
<1> QED
    BY <1>1, <1>3, <1>4 DEF DeskStep

(* What each handler's step does to its call and its ticket.                *)
LEMMA CallMoves ==
    ASSUME TicketTypeInv, NEW k \in DeskCalls, DeskCallStep(k)
    PROVE  /\ deskCall[k].pc # "idle"
           /\ \A other \in DeskCalls \ {k} : deskCall'[other] = deskCall[other]
           /\ \A t \in Tickets \ {deskCall[k].ticket} : ticket'[t] = ticket[t]
           /\ UNCHANGED <<opening, crowded, deskCalls>>
    BY DEF DeskCallStep, ReadDetail, ReadForApproval, ReadForRejection, ReadsTicket, Analyze, CreditTicket,
           TellEngine, Deny, Show, Done, Refused, DeskCallThrows, TicketTypeInv, TicketTypeOK

LEMMA TypedDeskCall == ASSUME TicketTypeInv, NEW k \in DeskCalls, DeskCallStep(k) PROVE TicketTypeInv'
<1> DEFINE c == deskCall[k]
<1>0. /\ TicketTypeOK /\ c \in TicketCall /\ c.ticket \in Tickets /\ c.desk \in Desks
      /\ ticket[c.ticket] \in TicketRow /\ ticket[c.ticket].status # "absent" /\ desk[c.desk] \in DeskPage
      /\ ticketCredits[c.ticket] \in [times : Nat, amounts : SUBSET Tickets] /\ told[c.ticket] \in Nat
      /\ c.pc # "idle" /\ (c.pc \in {"approve", "credit"} => c.form \in Tickets)
      /\ desk \in [Desks -> DeskPage] /\ ticket \in [Tickets -> TicketRow]
      /\ ticketCredits \in [Tickets -> [times : Nat, amounts : SUBSET Tickets]] /\ told \in [Tickets -> Nat]
      /\ overlapped \in SUBSET Tickets /\ deskCalls \in Nat /\ ticketFaults \in Nat
    BY CallMoves, RowsTyped DEF TicketTypeInv, TicketTypeOK, CallsNameTickets, DeskPage, TicketRow
<1>a. IdleDeskCall \in TicketCall /\ IdleDeskCall.pc = "idle"
    BY DEF IdleDeskCall, TicketCall, CallPc, TicketStatus
<1>b. \A d \in Desks : desk[d].selected \in Tickets => ticket[desk[d].selected].status # "absent"
    BY DEF TicketTypeInv, PagesNameTickets
<1>1. ASSUME NEW pc \in CallPc, pc = "credit" => c.form \in Tickets, pc # "approve",
             deskCall' = [deskCall EXCEPT ![k].status = ticket[c.ticket].status, ![k].pc = pc],
             overlapped' \in SUBSET Tickets,
             UNCHANGED <<ticket, ticketCredits, told, opening, desk, crowded, deskCalls, ticketFaults>>
      PROVE  TicketTypeInv'
    <2> DEFINE call == [c EXCEPT !.status = ticket[c.ticket].status, !.pc = pc]
    <2>1. call \in TicketCall /\ call.ticket = c.ticket /\ call.desk = c.desk /\ call.form = c.form /\ call.pc = pc
        BY <1>0, <1>1 DEF TicketCall, TicketRow
    <2>2. deskCall' = [deskCall EXCEPT ![k] = call]
        BY <1>1
    <2> HIDE DEF call
    <2> QED
        BY <1>0, <1>1, <1>b, <2>1, <2>2, TypedCall
<1>2. ASSUME ReadDetail(k) \/ ReadForApproval(k) \/ ReadForRejection(k) PROVE TicketTypeInv'
    <2>1. /\ overlapped' \in SUBSET Tickets
          /\ UNCHANGED <<ticket, ticketCredits, told, opening, desk, crowded, deskCalls, ticketFaults>>
        BY <1>0, <1>2 DEF ReadDetail, ReadForApproval, ReadForRejection, ReadsTicket
    <2>2. PICK pc \in {"analyze", "show", "credit", "refused", "deny"} :
             /\ deskCall' = [deskCall EXCEPT ![k].status = ticket[c.ticket].status, ![k].pc = pc]
             /\ pc = "credit" => c.pc = "approve"
        BY <1>2 DEF ReadDetail, ReadForApproval, ReadForRejection, ReadsTicket
    <2>3. pc \in CallPc /\ pc # "approve"
        BY DEF CallPc
    <2> QED
        BY <1>0, <1>1, <2>1, <2>2, <2>3
<1>3. ASSUME NEW status \in TicketStatus \ {"absent"}, NEW pc \in CallPc \ {"approve", "credit"},
             ticket' = [ticket EXCEPT ![c.ticket].status = status], deskCall' = [deskCall EXCEPT ![k].pc = pc],
             ticketCredits' \in [Tickets -> [times : Nat, amounts : SUBSET Tickets]],
             UNCHANGED <<told, opening, desk, overlapped, crowded, deskCalls, ticketFaults>>
      PROVE  TicketTypeInv'
    <2> DEFINE row == [ticket[c.ticket] EXCEPT !.status = status]
    <2>1. PICK call \in TicketCall :
             /\ call.ticket = c.ticket /\ call.desk = c.desk /\ call.pc \notin {"approve", "credit"}
             /\ deskCall' = [deskCall EXCEPT ![k] = call]
        <3>1. [c EXCEPT !.pc = pc] \in TicketCall
            BY <1>0 DEF TicketCall
        <3> QED
            BY <1>0, <1>3, <3>1 DEF TicketCall
    <2>2. row \in TicketRow /\ row.status = status
        BY <1>0 DEF TicketRow
    <2>3. ticket' = [ticket EXCEPT ![c.ticket] = row]
        BY <1>3
    <2> HIDE DEF row
    <2>4. /\ ticket' \in [Tickets -> TicketRow]
          /\ \A t \in Tickets : ticket[t].status # "absent" => ticket'[t].status # "absent"
          /\ \A t \in Tickets : ticket'[t].status = "absent" => ticket'[t] = ticket[t]
        BY <1>0, <1>3, <2>2, <2>3
    <2>5. \A d \in Desks : desk'[d].selected \in Tickets => ticket[desk'[d].selected].status # "absent"
        BY <1>3, <1>b
    <2>6. /\ told' \in [Tickets -> Nat] /\ desk' \in [Desks -> DeskPage]
          /\ ticketCredits' \in [Tickets -> [times : Nat, amounts : SUBSET Tickets]]
          /\ overlapped' \in SUBSET Tickets /\ deskCalls' \in Nat /\ ticketFaults' \in Nat
          /\ UNCHANGED <<opening, crowded>>
        BY <1>0, <1>3
    <2>7. call.ticket \in Tickets /\ call.desk \in Desks /\ ticket[call.ticket].status # "absent"
        BY <1>0, <2>1
    <2> QED
        BY <2>1, <2>4, <2>5, <2>6, <2>7, TypedCall
<1>4. CASE Analyze(k)
    BY <1>0, <1>3, <1>4 DEF Analyze, TicketStatus, CallPc
<1>5. CASE Deny(k)
    BY <1>0, <1>3, <1>5 DEF Deny, TicketStatus, CallPc
<1>6. CASE CreditTicket(k)
    <2> DEFINE credit == [times |-> ticketCredits[c.ticket].times + 1,
                          amounts |-> ticketCredits[c.ticket].amounts \cup {c.form}]
    <2>1. c.form \in Tickets
        BY <1>0, <1>6 DEF CreditTicket
    <2>2. credit \in [times : Nat, amounts : SUBSET Tickets]
        BY <1>0, <2>1
    <2>3. ticketCredits' = [ticketCredits EXCEPT ![c.ticket] = credit]
        BY <1>6 DEF CreditTicket
    <2> HIDE DEF credit
    <2>4. ticketCredits' \in [Tickets -> [times : Nat, amounts : SUBSET Tickets]]
        BY <1>0, <2>2, <2>3
    <2> QED
        BY <1>3, <1>6, <2>4 DEF CreditTicket, TicketStatus, CallPc
<1>7. ASSUME NEW pc \in CallPc \ {"approve", "credit"}, deskCall' = [deskCall EXCEPT ![k].pc = pc],
             told' \in [Tickets -> Nat], ticketFaults' \in Nat,
             UNCHANGED <<ticket, ticketCredits, opening, desk, overlapped, crowded, deskCalls>>
      PROVE  TicketTypeInv'
    <2> DEFINE call == [c EXCEPT !.pc = pc]
    <2>1. call \in TicketCall /\ call.ticket = c.ticket /\ call.desk = c.desk
          /\ call.pc \notin {"approve", "credit"}
        BY <1>0, <1>7 DEF TicketCall
    <2>2. deskCall' = [deskCall EXCEPT ![k] = call]
        BY <1>7
    <2> HIDE DEF call
    <2> QED
        <3>1. /\ ticketCredits' \in [Tickets -> [times : Nat, amounts : SUBSET Tickets]] /\ ticket' \in [Tickets -> TicketRow]
              /\ desk' \in [Desks -> DeskPage] /\ overlapped' \in SUBSET Tickets /\ deskCalls' \in Nat
              /\ UNCHANGED <<opening, crowded>>
            BY <1>0, <1>7
        <3>2. \A d \in Desks : desk'[d].selected \in Tickets => ticket[desk'[d].selected].status # "absent"
            BY <1>7, <1>b
        <3>3. \A t \in Tickets : /\ ticket[t].status # "absent" => ticket'[t].status # "absent"
                                 /\ ticket'[t].status = "absent" => ticket'[t] = ticket[t]
            BY <1>7
        <3>4. call.ticket \in Tickets /\ call.desk \in Desks /\ ticket[call.ticket].status # "absent"
              /\ (call.pc \in {"approve", "credit"} => call.form \in Tickets)
            BY <1>0, <2>1
        <3> QED
            BY <1>7, <3>1, <3>2, <3>3, <3>4, <2>1, <2>2, TypedCall
<1>8. CASE TellEngine(k)
    <2>1. told' \in [Tickets -> Nat] /\ ticketFaults' \in Nat
        BY <1>0, <1>8 DEF TellEngine
    <2>2. "done" \in CallPc \ {"approve", "credit"}
        BY DEF CallPc
    <2> QED
        BY <1>7, <1>8, <2>1, <2>2 DEF TellEngine
<1>9. CASE DeskCallThrows(k)
    <2>1. told' \in [Tickets -> Nat] /\ ticketFaults' \in Nat
        BY <1>0, <1>9 DEF DeskCallThrows, TicketFault
    <2>2. "refused" \in CallPc \ {"approve", "credit"}
        BY DEF CallPc
    <2> QED
        BY <1>7, <1>9, <2>1, <2>2 DEF DeskCallThrows
<1>10. ASSUME NEW page \in DeskPage, desk' = [desk EXCEPT ![c.desk] = page],
              page.selected \in {c.ticket, NoTicket, desk[c.desk].selected},
              deskCall' = [deskCall EXCEPT ![k] = IdleDeskCall],
              UNCHANGED <<ticket, ticketCredits, told, opening, overlapped, crowded, deskCalls, ticketFaults>>
       PROVE  TicketTypeInv'
    <2>1. desk' \in [Desks -> DeskPage]
        BY <1>0, <1>10
    <2>2. \A d \in Desks : desk'[d].selected \in Tickets => ticket[desk'[d].selected].status # "absent"
        BY <1>0, <1>10, <1>b, TicketAssumption
    <2> QED
        BY <1>0, <1>10, <1>a, <2>1, <2>2, TypedCall
<1>11. CASE Show(k)
    <2> DEFINE page == [desk[c.desk] EXCEPT !.selected = c.ticket, !.status = c.status]
    <2>1. page \in DeskPage /\ page.selected = c.ticket
        BY <1>0 DEF DeskPage, TicketCall
    <2>2. desk' = [desk EXCEPT ![c.desk] = page]
        BY <1>11 DEF Show
    <2> HIDE DEF page
    <2> QED
        BY <1>10, <1>11, <2>1, <2>2 DEF Show
<1>12. CASE Done(k)
    <2> DEFINE page == [desk[c.desk] EXCEPT !.selected = NoTicket, !.submitting = FALSE]
    <2>1. page \in DeskPage /\ page.selected = NoTicket
        BY <1>0 DEF DeskPage
    <2>2. desk' = [desk EXCEPT ![c.desk] = page]
        BY <1>12 DEF Done
    <2> HIDE DEF page
    <2> QED
        BY <1>10, <1>12, <2>1, <2>2 DEF Done
<1>13. CASE Refused(k)
    <2> DEFINE page == [desk[c.desk] EXCEPT !.submitting = FALSE]
    <2>1. page \in DeskPage /\ page.selected = desk[c.desk].selected
        BY <1>0 DEF DeskPage
    <2>2. desk' = [desk EXCEPT ![c.desk] = page]
        BY <1>13 DEF Refused
    <2> HIDE DEF page
    <2> QED
        BY <1>10, <1>13, <2>1, <2>2 DEF Refused
<1> QED
    BY <1>2, <1>4, <1>5, <1>6, <1>8, <1>9, <1>11, <1>12, <1>13 DEF DeskCallStep

LEMMA TypedRestart == ASSUME TicketTypeInv, TicketRestart PROVE TicketTypeInv'
<1>1. IdleDeskCall \in TicketCall /\ IdleDeskCall.pc = "idle" /\ IdleOpening \in OpeningCall /\ IdleOpening.pc = "idle"
    BY DEF IdleDeskCall, TicketCall, CallPc, TicketStatus, IdleOpening, OpeningCall
<1>2. \A d \in Desks : desk[d] \in DeskPage
    BY DEF TicketTypeInv, TicketTypeOK, DeskPage
<1>3. \A d \in Desks : LET page == [desk[d] EXCEPT !.submitting = FALSE]
                       IN  page \in DeskPage /\ page.selected = desk[d].selected
    BY <1>2 DEF DeskPage
<1>4. desk' \in [Desks -> DeskPage] /\ \A d \in Desks : desk'[d].selected = desk[d].selected
    BY <1>3 DEF TicketRestart
<1>5. told' \in [Tickets -> Nat] /\ ticketFaults' \in Nat
    BY DEF TicketRestart, TicketFault, TicketTypeInv, TicketTypeOK
<1>6. TicketTypeOK'
    BY <1>1, <1>4, <1>5 DEF TicketRestart, TicketTypeInv, TicketTypeOK, DeskPage, TicketCall, OpeningCall
<1>7. CallsNameTickets' /\ OpenersNameUsers' /\ TicketsBlank'
    BY <1>1 DEF TicketRestart, TicketTypeInv, CallsNameTickets, OpenersNameUsers, TicketsBlank
<1>8. PagesNameTickets'
    BY <1>4 DEF TicketRestart, TicketTypeInv, PagesNameTickets
<1> QED
    BY <1>6, <1>7, <1>8 DEF TicketTypeInv

LEMMA TicketStepTyped == ASSUME TicketTypeInv, [TicketNext]_ticketVars PROVE TicketTypeInv'
<1>1. CASE UNCHANGED ticketVars
    BY <1>1 DEF ticketVars, TicketTypeInv, TicketTypeOK, CallsNameTickets, PagesNameTickets, OpenersNameUsers, TicketsBlank
<1> QED
    BY <1>1, TypedOpening, TypedDesk, TypedDeskCall, TypedRestart DEF TicketNext

-----------------------------------------------------------------------------
(* One ticket, one writer.                                                  *)

DeskInv == WritersAlone /\ WritersMayWrite /\ CreditedIsFinal

(* A step after which no call writes that did not before, and which changes *)
(* only tickets nobody was to write, keeps the invariant.                   *)
LEMMA WritersFewer ==
    ASSUME TicketTypeInv, DeskInv, UNCHANGED <<ticketCredits, overlapped>>,
           \A k \in DeskCalls : deskCall'[k] = deskCall[k] \/ deskCall'[k].pc \notin {"analyze", "credit", "deny"},
           \A t \in Tickets : ticket'[t] = ticket[t] \/ ticket[t].status = "absent"
    PROVE  DeskInv'
<1>1. \A k \in DeskCalls : \A t \in Tickets : Writing(k, t)' => deskCall'[k] = deskCall[k] /\ Writing(k, t)
    BY DEF Writing
<1>2. \A k \in DeskCalls : \A t \in Tickets : Writing(k, t) => ticket'[t] = ticket[t]
    BY DEF Writing, TicketTypeInv, CallsNameTickets
<1>3. WritersAlone'
    BY <1>1, <1>2 DEF DeskInv, WritersAlone
<1>4. WritersMayWrite'
    BY DEF DeskInv, WritersMayWrite
<1>5. CreditedIsFinal'
    BY DEF DeskInv, CreditedIsFinal
<1> QED
    BY <1>3, <1>4, <1>5 DEF DeskInv

(* A write: the call that made it writes no more, and if nothing overlapped *)
(* on the ticket it was the last to.                                        *)
LEMMA WriterLeaves ==
    ASSUME TicketTypeInv, DeskInv, NEW k \in DeskCalls, NEW t \in Tickets, Writing(k, t),
           UNCHANGED overlapped,
           deskCall'[k].pc \notin {"analyze", "credit", "deny"},
           \A other \in DeskCalls \ {k} : deskCall'[other] = deskCall[other],
           \A q \in Tickets \ {t} : ticket'[q] = ticket[q] /\ ticketCredits'[q] = ticketCredits[q],
           t \notin overlapped => /\ ticketCredits'[t].times <= 1
                                  /\ ticketCredits'[t].times = 1 => ticket'[t].status = "credited"
    PROVE  DeskInv'
<1>1. \A other \in DeskCalls : \A q \in Tickets :
         Writing(other, q)' => other # k /\ deskCall'[other] = deskCall[other] /\ Writing(other, q)
    BY DEF Writing
<1>2. t \notin overlapped => \A other \in DeskCalls : ~Writing(other, t)'
    BY <1>1 DEF DeskInv, WritersAlone
<1>3. WritersAlone'
    BY <1>1, <1>2 DEF DeskInv, WritersAlone
<1>4. WritersMayWrite'
    BY DEF DeskInv, WritersMayWrite
<1>5. CreditedIsFinal'
    BY DEF DeskInv, CreditedIsFinal
<1> QED
    BY <1>3, <1>4, <1>5 DEF DeskInv

(* A read: the call is about to write, and the ticket is marked when        *)
(* another already was.                                                     *)
LEMMA WriterEnters ==
    ASSUME TicketTypeInv, DeskInv, NEW k \in DeskCalls,
           ReadDetail(k) \/ ReadForApproval(k) \/ ReadForRejection(k)
    PROVE  DeskInv'
<1> DEFINE c == deskCall[k]
<1>0. /\ c \in TicketCall /\ c.ticket \in Tickets /\ c.pc \in {"get", "approve", "reject"}
      /\ UNCHANGED <<ticket, ticketCredits>>
    BY RowsTyped DEF ReadDetail, ReadForApproval, ReadForRejection, ReadsTicket
<1>1. \A other \in DeskCalls \ {k} : deskCall'[other] = deskCall[other]
    BY CallMoves DEF DeskCallStep
<1>2. /\ deskCall'[k].status = ticket[c.ticket].status /\ deskCall'[k].ticket = c.ticket
      /\ deskCall'[k].pc = "analyze" => ticket[c.ticket].status \in Unresolved
      /\ deskCall'[k].pc \in {"credit", "deny"} => ticket[c.ticket].status \notin Resolved
      /\ overlapped' = IF /\ deskCall'[k].pc \in {"analyze", "credit", "deny"}
                          /\ \E other \in DeskCalls : Writing(other, c.ticket)
                         THEN overlapped \cup {c.ticket} ELSE overlapped
    <2>1. deskCall \in [DeskCalls -> TicketCall]
        BY DEF TicketTypeInv, TicketTypeOK, TicketCall
    <2>2. CASE ReadDetail(k)
        BY <1>0, <2>1, <2>2 DEF ReadDetail, ReadsTicket, TicketCall
    <2>3. CASE ReadForApproval(k)
        BY <1>0, <2>1, <2>3 DEF ReadForApproval, ReadsTicket, TicketCall
    <2>4. CASE ReadForRejection(k)
        BY <1>0, <2>1, <2>4 DEF ReadForRejection, ReadsTicket, TicketCall
    <2> QED
        BY <2>2, <2>3, <2>4
<1>3. overlapped \subseteq overlapped'
    BY <1>2
<1>4. \A t : ~Writing(k, t)
    BY <1>0 DEF Writing
<1>5. \A other \in DeskCalls : \A t \in Tickets :
         Writing(other, t)' => \/ other # k /\ Writing(other, t) /\ deskCall'[other] = deskCall[other]
                               \/ other = k /\ t = c.ticket /\ deskCall'[k].pc \in {"analyze", "credit", "deny"}
    BY <1>1, <1>2 DEF Writing
<1>6. WritersAlone'
    BY <1>0, <1>2, <1>3, <1>4, <1>5 DEF DeskInv, WritersAlone
<1>7. WritersMayWrite'
    BY <1>1, <1>2 DEF DeskInv, WritersMayWrite
<1>8. CreditedIsFinal'
    BY <1>0, <1>3 DEF DeskInv, CreditedIsFinal
<1> QED
    BY <1>6, <1>7, <1>8 DEF DeskInv

LEMMA DeskKeeps == ASSUME TicketTypeInv, DeskInv, [TicketNext]_ticketVars PROVE DeskInv'
<1>0. TicketTypeOK
    BY DEF TicketTypeInv
<1>1. CASE UNCHANGED ticketVars
    BY <1>1, WritersFewer DEF ticketVars
<1>2. ASSUME NEW c \in Openers, OpeningStep(c) PROVE DeskInv'
    <2>1. UNCHANGED <<ticketCredits, overlapped, deskCall>>
        BY <1>2 DEF OpeningStep, StartOpening, LookForDuplicate, CreateTicket
    <2>2. \A t \in Tickets : ticket'[t] = ticket[t] \/ ticket[t].status = "absent"
        BY <1>0, <1>2 DEF OpeningStep, StartOpening, LookForDuplicate, CreateTicket, TicketTypeOK, Absent
    <2> QED
        BY <2>1, <2>2, WritersFewer
<1>3. ASSUME NEW d \in Desks, NEW k \in DeskCalls, DeskStep(d, k) PROVE DeskInv'
    <2>1. UNCHANGED <<ticketCredits, overlapped, ticket>>
        BY <1>3 DEF DeskStep, OpenDetail, HandleApprove, HandleReject
    <2>2. \A j \in DeskCalls : deskCall'[j] = deskCall[j] \/ deskCall'[j].pc \notin {"analyze", "credit", "deny"}
        <3>1. ASSUME NEW pc \in {"get", "approve", "reject"}, NEW t, NEW form, DeskAsks(k, pc, d, t, form)
              PROVE  \A j \in DeskCalls : deskCall'[j] = deskCall[j] \/ deskCall'[j].pc \notin {"analyze", "credit", "deny"}
            BY <1>0, <3>1 DEF DeskAsks, TicketTypeOK
        <3> QED
            BY <1>3, <3>1 DEF DeskStep, OpenDetail, HandleApprove, HandleReject
    <2> QED
        BY <2>1, <2>2, WritersFewer
<1>4. ASSUME NEW k \in DeskCalls, DeskCallStep(k) PROVE DeskInv'
    <2> DEFINE c == deskCall[k]
    <2>1. /\ c \in TicketCall /\ c.ticket \in Tickets /\ ticket[c.ticket] \in TicketRow
          /\ ticketCredits[c.ticket].times \in Nat /\ deskCall \in [DeskCalls -> TicketCall]
        BY <1>0, <1>4, CallMoves, RowsTyped DEF TicketTypeOK, TicketCall
    <2>2. \A other \in DeskCalls \ {k} : deskCall'[other] = deskCall[other]
        BY <1>4, CallMoves
    <2>3. CASE TellEngine(k) \/ Show(k) \/ Done(k) \/ Refused(k) \/ DeskCallThrows(k)
        <3>1. UNCHANGED <<ticket, ticketCredits, overlapped>>
            BY <2>3 DEF TellEngine, Show, Done, Refused, DeskCallThrows
        <3>2. deskCall'[k].pc \notin {"analyze", "credit", "deny"}
            BY <2>1, <2>3 DEF TellEngine, Show, Done, Refused, DeskCallThrows, IdleDeskCall, TicketCall
        <3> QED
            BY <2>2, <3>1, <3>2, WritersFewer
    <2>4. ASSUME Analyze(k) \/ Deny(k) PROVE DeskInv'
        <3>1. Writing(k, c.ticket)
            BY <2>4 DEF Analyze, Deny, Writing
        <3>2. deskCall'[k].pc \in {"show", "done"} /\ UNCHANGED <<overlapped, ticketCredits>>
            BY <2>1, <2>4 DEF Analyze, Deny, TicketCall
        <3>3. \A q \in Tickets \ {c.ticket} : ticket'[q] = ticket[q]
            BY <1>4, CallMoves
        <3>4. c.ticket \notin overlapped => ticketCredits[c.ticket].times = 0
            BY <2>1, <2>4, <3>1 DEF Analyze, Deny, DeskInv, WritersAlone, WritersMayWrite, CreditedIsFinal, Unresolved, Resolved
        <3> QED
            BY <2>1, <2>2, <3>1, <3>2, <3>3, <3>4, WriterLeaves
    <2>5. CASE CreditTicket(k)
        <3>1. Writing(k, c.ticket)
            BY <2>5 DEF CreditTicket, Writing
        <3>2. deskCall'[k].pc = "tell" /\ UNCHANGED overlapped
            BY <2>1, <2>5 DEF CreditTicket, TicketCall
        <3>3. /\ ticket'[c.ticket].status = "credited"
              /\ ticketCredits'[c.ticket].times = ticketCredits[c.ticket].times + 1
              /\ \A q \in Tickets \ {c.ticket} : ticket'[q] = ticket[q] /\ ticketCredits'[q] = ticketCredits[q]
            <4> DEFINE n == [times |-> ticketCredits[c.ticket].times + 1,
                             amounts |-> ticketCredits[c.ticket].amounts \cup {c.form}]
            <4>1. ticketCredits' = [ticketCredits EXCEPT ![c.ticket] = n] /\ n.times = ticketCredits[c.ticket].times + 1
                BY <2>5 DEF CreditTicket
            <4> HIDE DEF n
            <4>2. ticketCredits'[c.ticket].times = ticketCredits[c.ticket].times + 1
                BY <1>0, <2>1, <4>1 DEF TicketTypeOK
            <4>3. \A q \in Tickets \ {c.ticket} : ticketCredits'[q] = ticketCredits[q]
                BY <1>0, <4>1 DEF TicketTypeOK
            <4>4. ticket'[c.ticket].status = "credited" /\ \A q \in Tickets \ {c.ticket} : ticket'[q] = ticket[q]
                BY <1>0, <2>1, <2>5 DEF CreditTicket, TicketTypeOK
            <4> QED
                BY <4>2, <4>3, <4>4
        <3>4. c.ticket \notin overlapped => ticketCredits[c.ticket].times = 0
            <4>1. c.ticket \notin overlapped => ticket[c.ticket].status # "credited"
                BY <2>1, <2>5, <3>1 DEF CreditTicket, DeskInv, WritersAlone, WritersMayWrite, Resolved
            <4> QED
                BY <2>1, <4>1 DEF DeskInv, CreditedIsFinal
        <3> QED
            BY <2>1, <2>2, <3>1, <3>2, <3>3, <3>4, WriterLeaves
    <2> QED
        BY <1>4, <2>3, <2>4, <2>5, WriterEnters DEF DeskCallStep
<1>5. CASE TicketRestart
    <2>1. UNCHANGED <<ticketCredits, overlapped, ticket>>
        BY <1>5 DEF TicketRestart
    <2>2. \A k \in DeskCalls : deskCall'[k].pc = "idle"
        BY <1>5 DEF TicketRestart, IdleDeskCall
    <2> QED
        BY <2>1, <2>2, WritersFewer
<1> QED
    BY <1>1, <1>2, <1>3, <1>4, <1>5 DEF TicketNext

-----------------------------------------------------------------------------
(* A user's tickets.                                                        *)

OpenInv == OpenersAlone /\ TicketsWithinLimit

LEMMA TicketSetsFinite ==
    ASSUME NEW u, NEW h
    PROVE  /\ IsFiniteSet(OpenTickets(u)) /\ IsFiniteSet(OpenTickets(u) \ overlapped) /\ IsFiniteSet(SameHash(u, h))
           /\ Cardinality(OpenTickets(u)) \in Nat /\ Cardinality(OpenTickets(u) \ overlapped) \in Nat
           /\ Cardinality(SameHash(u, h)) \in Nat
           /\ Cardinality(OpenTickets(u) \ overlapped) <= Cardinality(OpenTickets(u))
<1>1. OpenTickets(u) \subseteq Tickets /\ SameHash(u, h) \subseteq Tickets
    BY DEF OpenTickets, SameHash
<1>2. IsFiniteSet(OpenTickets(u)) /\ IsFiniteSet(SameHash(u, h))
    BY <1>1, FS_Subset, TicketAssumption
<1>3. OpenTickets(u) \ overlapped \subseteq OpenTickets(u)
    OBVIOUS
<1> QED
    BY <1>2, <1>3, FS_Subset, FS_CardinalityType

(* No step but the insertion gives a user a ticket, and only a call that    *)
(* overlapped with another puts a resolved one back in the queue.           *)
LEMMA TicketsOnlyResolved ==
    ASSUME TicketTypeInv, DeskInv, NEW k \in DeskCalls, DeskCallStep(k)
    PROVE  /\ \A u : OpenTickets(u)' \ overlapped' \subseteq OpenTickets(u) \ overlapped
           /\ \A u, h : SameHash(u, h)' = SameHash(u, h)
<1> DEFINE c == deskCall[k]
<1>0. TicketTypeOK /\ c.ticket \in Tickets
    BY CallMoves, RowsTyped DEF TicketTypeInv
<1>a. overlapped \subseteq overlapped'
    BY DEF DeskCallStep, ReadDetail, ReadForApproval, ReadForRejection, ReadsTicket,
           Analyze, CreditTicket, TellEngine, Deny, Show, Done, Refused, DeskCallThrows
<1>1. \A t \in Tickets : ticket'[t].user = ticket[t].user /\ ticket'[t].hash = ticket[t].hash
    <2>1. CASE Analyze(k) \/ CreditTicket(k) \/ Deny(k)
        <3>1. PICK status : ticket' = [ticket EXCEPT ![c.ticket].status = status]
            BY <2>1 DEF Analyze, CreditTicket, Deny
        <3> QED
            BY <1>0, <3>1 DEF TicketTypeOK
    <2>2. CASE UNCHANGED ticket
        BY <2>2
    <2> QED
        BY <2>1, <2>2 DEF DeskCallStep, ReadDetail, ReadForApproval, ReadForRejection, ReadsTicket, TellEngine,
           Show, Done, Refused, DeskCallThrows
<1>2. ASSUME NEW t \in Tickets \ overlapped, ticket'[t].status \in Unresolved
      PROVE  ticket[t].status \in Unresolved
    <2>1. CASE Analyze(k) /\ t = c.ticket
        BY <1>2, <2>1 DEF Analyze, Writing, DeskInv, WritersAlone, WritersMayWrite
    <2>2. CASE (CreditTicket(k) \/ Deny(k)) /\ t = c.ticket
        BY <1>0, <1>2, <2>2 DEF TicketTypeOK, CreditTicket, Deny, Unresolved
    <2>3. CASE t # c.ticket
        BY <1>2, <2>3, CallMoves
    <2>4. CASE UNCHANGED ticket
        BY <1>2, <2>4
    <2> QED
        BY <2>1, <2>2, <2>3, <2>4 DEF DeskCallStep, ReadDetail, ReadForApproval, ReadForRejection, ReadsTicket, TellEngine,
           Show, Done, Refused, DeskCallThrows
<1>3. \A u : OpenTickets(u)' \ overlapped' \subseteq OpenTickets(u) \ overlapped
    BY <1>a, <1>1, <1>2 DEF OpenTickets
<1>4. \A u, h : SameHash(u, h)' = SameHash(u, h)
    BY <1>1 DEF SameHash
<1> QED
    BY <1>3, <1>4

(* Such steps, and the end of a request, keep the limits.                   *)
LEMMA OpenersFewer ==
    ASSUME OpenInv, UNCHANGED crowded,
           \A c \in Openers : opening'[c] = opening[c] \/ opening'[c].pc = "idle",
           \A u : OpenTickets(u)' \ overlapped' \subseteq OpenTickets(u) \ overlapped,
           \A u, h : SameHash(u, h)' = SameHash(u, h)
    PROVE  OpenInv'
<1>1. \A u : /\ Cardinality(OpenTickets(u)' \ overlapped') <= Cardinality(OpenTickets(u) \ overlapped)
             /\ Cardinality(OpenTickets(u)' \ overlapped') \in Nat
             /\ Cardinality(OpenTickets(u) \ overlapped) \in Nat
    BY TicketSetsFinite, FS_Subset, FS_CardinalityType
<1>2. ASSUME NEW u \in TicketUsers \ crowded, NEW c \in Openers, opening'[c].pc # "idle", opening'[c].user = u
      PROVE  /\ Cardinality(OpenTickets(u)' \ overlapped') < MaxOpen
             /\ \A g \in Transfers : opening'[c].pc = "create" /\ opening'[c].hash = g => SameHash(u, g)' = {}
             /\ \A other \in Openers : opening'[other].pc # "idle" /\ opening'[other].user = u => other = c
    <2>1. opening'[c] = opening[c]
        BY <1>2
    <2>2. Cardinality(OpenTickets(u) \ overlapped) < MaxOpen
        BY <1>2, <2>1 DEF OpenInv, OpenersAlone
    <2>3. Cardinality(OpenTickets(u)' \ overlapped') < MaxOpen
        BY <1>1, <2>2, TicketAssumption
    <2>4. \A g \in Transfers : opening'[c].pc = "create" /\ opening'[c].hash = g => SameHash(u, g) = {}
        BY <1>2, <2>1 DEF OpenInv, OpenersAlone
    <2>5. \A other \in Openers : opening'[other].pc # "idle" /\ opening'[other].user = u => other = c
        BY <1>2, <2>1 DEF OpenInv, OpenersAlone
    <2> QED
        BY <2>3, <2>4, <2>5
<1>3. OpenersAlone'
    BY <1>2 DEF OpenersAlone
<1>4. TicketsWithinLimit'
    <2> SUFFICES ASSUME NEW u \in TicketUsers \ crowded
                 PROVE  /\ Cardinality(OpenTickets(u)' \ overlapped') <= MaxOpen
                        /\ \A h \in Transfers : Cardinality(SameHash(u, h)') <= 1
        BY DEF TicketsWithinLimit
    <2>1. Cardinality(OpenTickets(u) \ overlapped) <= MaxOpen /\ \A h \in Transfers : Cardinality(SameHash(u, h)) <= 1
        BY DEF OpenInv, TicketsWithinLimit
    <2>2. Cardinality(OpenTickets(u)' \ overlapped') <= MaxOpen
        <3>1. PICK n \in Nat, m \in Nat : /\ n = Cardinality(OpenTickets(u)' \ overlapped')
                                         /\ m = Cardinality(OpenTickets(u) \ overlapped) /\ n <= m
            BY <1>1
        <3>2. n <= MaxOpen
            BY <2>1, <3>1, TicketAssumption
        <3> QED
            BY <3>1, <3>2
    <2> QED
        BY <2>1, <2>2
<1> QED
    BY <1>3, <1>4 DEF OpenInv

LEMMA OpeningStarts ==
    ASSUME TicketTypeInv, OpenInv, NEW c \in Openers, NEW v \in TicketUsers, NEW h \in Transfers \cup {NoTransfer},
           StartOpening(c, v, h)
    PROVE  OpenInv'
<1>1. UNCHANGED <<ticket, overlapped>> /\ crowded \subseteq crowded' /\ (Busy(v) => v \in crowded')
    BY DEF StartOpening
<1>2. /\ opening'[c].user = v /\ opening'[c].hash = h
      /\ opening'[c].pc = IF h = NoTransfer THEN "create" ELSE "duplicate"
      /\ \A other \in Openers \ {c} : opening'[other] = opening[other]
    BY DEF StartOpening, TicketTypeInv, TicketTypeOK
<1>3. Cardinality(OpenTickets(v) \ overlapped) < MaxOpen
    <2>1. Cardinality(OpenTickets(v)) < MaxOpen
        BY DEF StartOpening
    <2> QED
        BY <2>1, TicketSetsFinite, TicketAssumption
<1>4. \A u, g : OpenTickets(u)' \ overlapped' = OpenTickets(u) \ overlapped /\ SameHash(u, g)' = SameHash(u, g)
    BY <1>1 DEF OpenTickets, SameHash
<1>5. ASSUME NEW u \in TicketUsers \ crowded', NEW o \in Openers, opening'[o].pc # "idle", opening'[o].user = u
      PROVE  /\ Cardinality(OpenTickets(u) \ overlapped) < MaxOpen
             /\ \A g \in Transfers : opening'[o].pc = "create" /\ opening'[o].hash = g => SameHash(u, g) = {}
             /\ \A other \in Openers : opening'[other].pc # "idle" /\ opening'[other].user = u => other = o
    <2>1. u \notin crowded
        BY <1>1
    <2>2. CASE u = v
        <3>1. \A other \in Openers : opening[other].pc # "idle" => opening[other].user # v
            BY <1>1, <2>2 DEF Busy
        <3>2. o = c
            BY <1>2, <1>5, <2>2, <3>1
        <3> QED
            BY <1>2, <1>3, <2>2, <3>1, <3>2, TicketAssumption
    <2>3. CASE u # v
        BY <1>2, <1>5, <2>1, <2>3 DEF OpenInv, OpenersAlone
    <2> QED
        BY <2>2, <2>3
<1>6. OpenersAlone'
    BY <1>4, <1>5 DEF OpenersAlone
<1>7. TicketsWithinLimit'
    BY <1>1, <1>4 DEF OpenInv, TicketsWithinLimit
<1> QED
    BY <1>6, <1>7 DEF OpenInv

LEMMA OpeningLooks ==
    ASSUME TicketTypeInv, OpenInv, NEW c \in Openers, LookForDuplicate(c)
    PROVE  OpenInv'
<1> DEFINE o == opening[c]
<1>1. UNCHANGED <<ticket, overlapped, crowded>> /\ o \in OpeningCall /\ o.pc = "duplicate" /\ opening \in [Openers -> OpeningCall]
    BY DEF LookForDuplicate, TicketTypeInv, TicketTypeOK, OpeningCall
<1>2. \A u, g : OpenTickets(u)' \ overlapped' = OpenTickets(u) \ overlapped /\ SameHash(u, g)' = SameHash(u, g)
    BY <1>1 DEF OpenTickets, SameHash
<1>3. \A other \in Openers \ {c} : opening'[other] = opening[other]
    BY <1>1 DEF LookForDuplicate
<1>4. CASE SameHash(o.user, o.hash) # {}
    <2>1. opening'[c].pc = "idle"
        BY <1>1, <1>4 DEF LookForDuplicate, IdleOpening
    <2> QED
        BY <1>1, <1>2, <1>3, <2>1, OpenersFewer
<1>5. CASE SameHash(o.user, o.hash) = {}
    <2>1. opening'[c].user = o.user /\ opening'[c].hash = o.hash /\ opening'[c].pc = "create"
        BY <1>1, <1>5 DEF LookForDuplicate, OpeningCall
    <2>2. OpenersAlone'
        <3> SUFFICES ASSUME NEW u \in TicketUsers \ crowded, NEW e \in Openers, opening'[e].pc # "idle", opening'[e].user = u
                     PROVE  /\ Cardinality(OpenTickets(u)' \ overlapped') < MaxOpen
                            /\ \A g \in Transfers : opening'[e].pc = "create" /\ opening'[e].hash = g => SameHash(u, g)' = {}
                            /\ \A other \in Openers : opening'[other].pc # "idle" /\ opening'[other].user = u => other = e
            BY <1>1 DEF OpenersAlone
        <3>1. \A other \in Openers : opening'[other].pc # "idle" => opening[other].pc # "idle" /\ opening[other].user = opening'[other].user
            BY <1>1, <1>3, <2>1
        <3>2. /\ Cardinality(OpenTickets(u) \ overlapped) < MaxOpen
              /\ \A g \in Transfers : opening[e].pc = "create" /\ opening[e].hash = g => SameHash(u, g) = {}
              /\ \A other \in Openers : opening[other].pc # "idle" /\ opening[other].user = u => other = e
            BY <3>1 DEF OpenInv, OpenersAlone
        <3>3. e = c => SameHash(u, opening'[c].hash) = {}
            BY <1>5, <2>1
        <3>4. \A g \in Transfers : opening'[e].pc = "create" /\ opening'[e].hash = g => SameHash(u, g) = {}
            BY <1>3, <3>2, <3>3
        <3> QED
            BY <1>2, <3>1, <3>2, <3>4
    <2>3. TicketsWithinLimit'
        BY <1>1, <1>2 DEF OpenInv, TicketsWithinLimit
    <2> QED
        BY <2>2, <2>3 DEF OpenInv
<1> QED
    BY <1>4, <1>5

LEMMA OpeningInserts ==
    ASSUME TicketTypeInv, OpenInv, NEW c \in Openers, NEW t \in Tickets, CreateTicket(c, t)
    PROVE  OpenInv'
<1>a. PICK h : h = opening[c].hash
    OBVIOUS
<1>b. PICK v \in TicketUsers : v = opening[c].user
    BY DEF CreateTicket, TicketTypeInv, OpenersNameUsers
<1>1. /\ UNCHANGED <<overlapped, crowded>> /\ opening[c].pc = "create"
      /\ ticket[t].status = "absent" /\ ticket[t].hash = NoTransfer
      /\ ticket'[t].status = "open" /\ ticket'[t].user = v /\ ticket'[t].hash = h
      /\ \A q \in Tickets \ {t} : ticket'[q] = ticket[q]
    BY <1>a, <1>b DEF CreateTicket, TicketTypeInv, TicketTypeOK, Absent
<1>2. opening'[c].pc = "idle" /\ \A other \in Openers \ {c} : opening'[other] = opening[other]
    BY DEF CreateTicket, TicketTypeInv, TicketTypeOK, IdleOpening
<1>3. \A u : u # v => OpenTickets(u)' \ overlapped' = OpenTickets(u) \ overlapped
    BY <1>1 DEF OpenTickets, Unresolved
<1>4. \A u : \A g \in Transfers : u # v \/ g # h => SameHash(u, g)' = SameHash(u, g)
    BY <1>1, TicketAssumption DEF SameHash
<1>5. ASSUME v \notin crowded
      PROVE  /\ Cardinality(OpenTickets(v)' \ overlapped') <= MaxOpen
             /\ h \in Transfers => SameHash(v, h)' = {t}
             /\ \A other \in Openers : opening'[other].pc # "idle" => opening'[other].user # v
    <2>1. /\ Cardinality(OpenTickets(v) \ overlapped) < MaxOpen
          /\ h \in Transfers => SameHash(v, h) = {}
          /\ \A other \in Openers : opening[other].pc # "idle" /\ opening[other].user = v => other = c
        BY <1>a, <1>b, <1>1, <1>5 DEF OpenInv, OpenersAlone
    <2>2. Cardinality(OpenTickets(v)' \ overlapped') <= MaxOpen
        <3> DEFINE S == OpenTickets(v) \ overlapped
        <3>1. OpenTickets(v)' \ overlapped' \subseteq S \cup {t}
            BY <1>1 DEF OpenTickets
        <3>2. IsFiniteSet(S) /\ Cardinality(S) \in Nat /\ Cardinality(S) < MaxOpen
            BY <2>1, TicketSetsFinite
        <3> HIDE DEF S
        <3>3. IsFiniteSet(S \cup {t}) /\ Cardinality(S \cup {t}) <= Cardinality(S) + 1 /\ Cardinality(S \cup {t}) \in Nat
            <4>1. IsFiniteSet(S \cup {t}) /\ Cardinality(S \cup {t}) = IF t \in S THEN Cardinality(S) ELSE Cardinality(S) + 1
                BY <3>2, FS_AddElement
            <4> QED
                BY <3>2, <4>1
        <3>4. Cardinality(OpenTickets(v)' \ overlapped') <= Cardinality(S \cup {t})
              /\ Cardinality(OpenTickets(v)' \ overlapped') \in Nat
            BY <3>1, <3>3, FS_Subset, FS_CardinalityType
        <3> QED
            BY <3>2, <3>3, <3>4, TicketAssumption
    <2>3. h \in Transfers => SameHash(v, h)' = {t}
        BY <1>1, <2>1 DEF SameHash
    <2> QED
        BY <1>2, <2>1, <2>2, <2>3
<1>6. OpenersAlone'
    <2> SUFFICES ASSUME NEW u \in TicketUsers \ crowded, NEW o \in Openers, opening'[o].pc # "idle", opening'[o].user = u
                 PROVE  /\ Cardinality(OpenTickets(u)' \ overlapped') < MaxOpen
                        /\ \A g \in Transfers : opening'[o].pc = "create" /\ opening'[o].hash = g => SameHash(u, g)' = {}
                        /\ \A other \in Openers : opening'[other].pc # "idle" /\ opening'[other].user = u => other = o
        BY <1>1 DEF OpenersAlone
    <2>1. u # v /\ o # c /\ opening'[o] = opening[o]
        BY <1>2, <1>5
    <2>2. /\ Cardinality(OpenTickets(u) \ overlapped) < MaxOpen
          /\ \A g \in Transfers : opening[o].pc = "create" /\ opening[o].hash = g => SameHash(u, g) = {}
          /\ \A other \in Openers : opening[other].pc # "idle" /\ opening[other].user = u => other = o
        BY <2>1 DEF OpenInv, OpenersAlone
    <2> QED
        BY <1>2, <1>3, <1>4, <2>1, <2>2
<1>7. TicketsWithinLimit'
    <2> SUFFICES ASSUME NEW u \in TicketUsers \ crowded
                 PROVE  /\ Cardinality(OpenTickets(u)' \ overlapped') <= MaxOpen
                        /\ \A g \in Transfers : Cardinality(SameHash(u, g)') <= 1
        BY <1>1 DEF TicketsWithinLimit
    <2>1. Cardinality(OpenTickets(u)' \ overlapped') <= MaxOpen
        BY <1>3, <1>5 DEF OpenInv, TicketsWithinLimit
    <2>2. ASSUME NEW g \in Transfers PROVE Cardinality(SameHash(u, g)') <= 1
        <3>1. CASE u = v /\ g = h
            <4>1. SameHash(u, g)' = {t}
                BY <1>5, <3>1
            <4>2. Cardinality({t}) = 1
                BY FS_Singleton
            <4> QED
                BY <4>1, <4>2
        <3>2. CASE u # v \/ g # h
            BY <1>4, <3>2 DEF OpenInv, TicketsWithinLimit
        <3> QED
            BY <3>1, <3>2
    <2> QED
        BY <2>1, <2>2
<1> QED
    BY <1>6, <1>7 DEF OpenInv

LEMMA OpenKeeps == ASSUME TicketTypeInv, DeskInv, OpenInv, [TicketNext]_ticketVars PROVE OpenInv'
<1>1. ASSUME UNCHANGED <<ticket, overlapped, crowded>>, \A c \in Openers : opening'[c] = opening[c] \/ opening'[c].pc = "idle"
      PROVE  OpenInv'
    <2>1. \A u, h : OpenTickets(u)' \ overlapped' = OpenTickets(u) \ overlapped /\ SameHash(u, h)' = SameHash(u, h)
        BY <1>1 DEF OpenTickets, SameHash
    <2> QED
        BY <1>1, <2>1, OpenersFewer
<1>2. CASE UNCHANGED ticketVars
    BY <1>1, <1>2 DEF ticketVars
<1>3. ASSUME NEW c \in Openers, OpeningStep(c) PROVE OpenInv'
    BY <1>3, OpeningStarts, OpeningLooks, OpeningInserts DEF OpeningStep
<1>4. ASSUME NEW d \in Desks, NEW k \in DeskCalls, DeskStep(d, k) PROVE OpenInv'
    BY <1>1, <1>4 DEF DeskStep, OpenDetail, HandleApprove, HandleReject
<1>5. ASSUME NEW k \in DeskCalls, DeskCallStep(k) PROVE OpenInv'
    BY <1>5, CallMoves, TicketsOnlyResolved, OpenersFewer
<1>6. CASE TicketRestart
    BY <1>1, <1>6 DEF TicketRestart, IdleOpening
<1> QED
    BY <1>2, <1>3, <1>4, <1>5, <1>6 DEF TicketNext

-----------------------------------------------------------------------------
(* The amount in the form.                                                  *)

FormInv == FormIsOfTicket /\ CreditIsForItsTicket

LEMMA CrossedStays ==
    ASSUME TicketTypeInv, TicketNext
    PROVE  \A d \in Desks : desk[d].crossed => desk'[d].crossed
<1>0. desk \in [Desks -> DeskPage]
    BY DEF TicketTypeInv, TicketTypeOK, DeskPage
<1>1. ASSUME NEW d \in Desks, NEW k \in DeskCalls, DeskStep(d, k)
      PROVE  \A e \in Desks : desk[e].crossed => desk'[e].crossed
    <2>1. ASSUME NEW t \in Tickets, OpenDetail(d, k, t) PROVE \A e \in Desks : desk[e].crossed => desk'[e].crossed
        <3> DEFINE page == [desk[d] EXCEPT !.selected = NoTicket, !.form = t,
                                           !.crossed = desk[d].crossed \/ \E other \in DeskCalls : AsksDetail(other, d)]
        <3>1. desk[d].crossed => page.crossed
            BY <1>0 DEF DeskPage
        <3>2. desk' = [desk EXCEPT ![d] = page]
            BY <2>1 DEF OpenDetail
        <3> HIDE DEF page
        <3> QED
            BY <1>0, <3>1, <3>2
    <2>2. CASE desk' = [desk EXCEPT ![d].submitting = TRUE]
        BY <1>0, <2>2 DEF DeskPage
    <2> QED
        BY <1>1, <2>1, <2>2 DEF DeskStep, HandleApprove, HandleReject
<1>2. ASSUME NEW k \in DeskCalls, DeskCallStep(k) PROVE \A e \in Desks : desk[e].crossed => desk'[e].crossed
    <2>1. CASE Show(k)
        BY <1>0, <2>1 DEF Show, DeskPage
    <2>2. CASE Done(k)
        BY <1>0, <2>2 DEF Done, DeskPage
    <2>3. CASE Refused(k)
        BY <1>0, <2>3 DEF Refused, DeskPage
    <2>4. CASE UNCHANGED desk
        BY <2>4
    <2> QED
        BY <1>2, <2>1, <2>2, <2>3, <2>4 DEF DeskCallStep, ReadDetail, ReadForApproval, ReadForRejection, ReadsTicket,
           Analyze, CreditTicket, TellEngine, Deny, DeskCallThrows
<1>3. CASE TicketRestart
    BY <1>0, <1>3 DEF TicketRestart, DeskPage
<1>4. ASSUME NEW c \in Openers, OpeningStep(c) PROVE UNCHANGED desk
    BY <1>4 DEF OpeningStep, StartOpening, LookForDuplicate, CreateTicket
<1> QED
    BY <1>1, <1>2, <1>3, <1>4 DEF TicketNext

(* The call that credits is the only step that touches the credits.         *)
LEMMA CreditsOwnAmount ==
    ASSUME TicketTypeInv, FormInv, TicketNext
    PROVE  CreditIsForItsTicket'
<1>1. \A d \in Desks : desk[d].crossed => desk'[d].crossed
    BY CrossedStays
<1>2. CASE UNCHANGED ticketCredits
    BY <1>1, <1>2 DEF FormInv, CreditIsForItsTicket
<1>3. ASSUME NEW k \in DeskCalls, CreditTicket(k) PROVE CreditIsForItsTicket'
    <2> DEFINE c == deskCall[k]
               n == [times |-> ticketCredits[c.ticket].times + 1,
                     amounts |-> ticketCredits[c.ticket].amounts \cup {c.form}]
    <2>1. c.ticket \in Tickets /\ c.desk \in Desks /\ c.pc = "credit"
        BY <1>3, RowsTyped DEF CreditTicket
    <2>2. ticketCredits' = [ticketCredits EXCEPT ![c.ticket] = n] /\ n.amounts = ticketCredits[c.ticket].amounts \cup {c.form}
        BY <1>3 DEF CreditTicket
    <2> HIDE DEF n
    <2>3. /\ ticketCredits'[c.ticket].amounts = ticketCredits[c.ticket].amounts \cup {c.form}
          /\ \A q \in Tickets \ {c.ticket} : ticketCredits'[q] = ticketCredits[q]
        BY <2>1, <2>2 DEF TicketTypeInv, TicketTypeOK
    <2>4. c.form = c.ticket \/ desk[c.desk].crossed
        BY <2>1 DEF FormInv, FormIsOfTicket
    <2> QED
        BY <1>1, <2>1, <2>3, <2>4 DEF FormInv, CreditIsForItsTicket
<1> QED
    BY <1>2, <1>3 DEF TicketNext, OpeningStep, StartOpening, LookForDuplicate, CreateTicket, DeskStep, OpenDetail, HandleApprove, HandleReject,
       DeskCallStep, ReadDetail, ReadForApproval, ReadForRejection, ReadsTicket, Analyze, TellEngine, Deny, Show, Done,
       Refused, DeskCallThrows, TicketRestart

(* A step that opens no detail and asks for no approval.                    *)
LEMMA FormsStay ==
    ASSUME FormInv,
           \A d \in Desks : desk'[d].crossed = desk[d].crossed /\ desk'[d].form = desk[d].form,
           \A d \in Desks : \/ desk'[d].selected \in {desk[d].selected, NoTicket}
                            \/ \E k \in DeskCalls : AsksDetail(k, d) /\ desk'[d].selected = deskCall[k].ticket,
           \A k \in DeskCalls :
             \/ deskCall'[k].pc \notin {"get", "analyze", "show", "approve", "credit"}
             \/ /\ deskCall'[k].desk = deskCall[k].desk /\ deskCall'[k].ticket = deskCall[k].ticket
                /\ deskCall'[k].form = deskCall[k].form
                /\ deskCall'[k].pc \in {"get", "analyze", "show"} => deskCall[k].pc \in {"get", "analyze", "show"}
                /\ deskCall'[k].pc \in {"approve", "credit"} => deskCall[k].pc \in {"approve", "credit"}
    PROVE  FormIsOfTicket'
<1> SUFFICES ASSUME NEW d \in Desks, ~desk'[d].crossed
             PROVE  /\ desk'[d].selected # NoTicket => desk'[d].selected = desk'[d].form
                    /\ \A k \in DeskCalls : AsksDetail(k, d)' => deskCall'[k].ticket = desk'[d].form
                    /\ \A k \in DeskCalls : deskCall'[k].desk = d /\ deskCall'[k].pc \in {"approve", "credit"}
                                               => deskCall'[k].form = deskCall'[k].ticket
    BY DEF FormIsOfTicket
<1>1. /\ desk[d].selected # NoTicket => desk[d].selected = desk[d].form
      /\ \A k \in DeskCalls : AsksDetail(k, d) => deskCall[k].ticket = desk[d].form
      /\ \A k \in DeskCalls : deskCall[k].desk = d /\ deskCall[k].pc \in {"approve", "credit"}
                                 => deskCall[k].form = deskCall[k].ticket
    BY DEF FormInv, FormIsOfTicket
<1>2. desk'[d].selected # NoTicket => desk'[d].selected = desk'[d].form
    BY <1>1
<1>3. \A k \in DeskCalls : AsksDetail(k, d)' => AsksDetail(k, d) /\ deskCall'[k].ticket = deskCall[k].ticket
    BY DEF AsksDetail
<1>4. \A k \in DeskCalls : deskCall'[k].desk = d /\ deskCall'[k].pc \in {"approve", "credit"}
         => /\ deskCall[k].desk = d /\ deskCall[k].pc \in {"approve", "credit"}
            /\ deskCall'[k].form = deskCall[k].form /\ deskCall'[k].ticket = deskCall[k].ticket
    OBVIOUS
<1> QED
    BY <1>1, <1>2, <1>3, <1>4

(* What a page asks for: one new call, of this page.                        *)
LEMMA DeskAsked ==
    ASSUME TicketTypeInv, NEW d \in Desks, NEW k \in DeskCalls, NEW pc, NEW t, NEW form, DeskAsks(k, pc, d, t, form)
    PROVE  /\ deskCall[k].pc = "idle"
           /\ deskCall'[k].pc = pc /\ deskCall'[k].desk = d /\ deskCall'[k].ticket = t /\ deskCall'[k].form = form
           /\ \A other \in DeskCalls \ {k} : deskCall'[other] = deskCall[other]
    BY DEF DeskAsks, TicketTypeInv, TicketTypeOK

LEMMA DetailKeepsForms ==
    ASSUME TicketTypeInv, FormInv, NEW d \in Desks, NEW k \in DeskCalls, NEW t \in Tickets, OpenDetail(d, k, t)
    PROVE  FormIsOfTicket'
<1> DEFINE page == [desk[d] EXCEPT !.selected = NoTicket, !.form = t,
                                   !.crossed = desk[d].crossed \/ \E other \in DeskCalls : AsksDetail(other, d)]
<1>0. desk \in [Desks -> DeskPage]
    BY DEF TicketTypeInv, TicketTypeOK, DeskPage
<1>1. /\ page.selected = NoTicket /\ page.form = t
      /\ page.crossed = (desk[d].crossed \/ \E other \in DeskCalls : AsksDetail(other, d))
    BY <1>0 DEF DeskPage
<1>2. desk' = [desk EXCEPT ![d] = page]
    BY DEF OpenDetail
<1> HIDE DEF page
<1>3. desk'[d] = page /\ \A e \in Desks \ {d} : desk'[e] = desk[e]
    BY <1>0, <1>2
<1>4. /\ deskCall'[k].pc = "get" /\ deskCall'[k].desk = d /\ deskCall'[k].ticket = t
      /\ \A other \in DeskCalls \ {k} : deskCall'[other] = deskCall[other]
    <2>1. DeskAsks(k, "get", d, t, NoTicket)
        BY DEF OpenDetail
    <2> QED
        BY <2>1, DeskAsked
<1>5. ASSUME NEW e \in Desks, ~desk'[e].crossed
      PROVE  /\ desk'[e].selected # NoTicket => desk'[e].selected = desk'[e].form
             /\ \A j \in DeskCalls : AsksDetail(j, e)' => deskCall'[j].ticket = desk'[e].form
             /\ \A j \in DeskCalls : deskCall'[j].desk = e /\ deskCall'[j].pc \in {"approve", "credit"}
                                        => deskCall'[j].form = deskCall'[j].ticket
    <2>1. ~desk[e].crossed /\ (e = d => \A j \in DeskCalls : ~AsksDetail(j, d))
        BY <1>1, <1>3, <1>5
    <2>2. desk'[e].selected # NoTicket => desk'[e].selected = desk'[e].form
        BY <1>1, <1>3, <2>1 DEF FormInv, FormIsOfTicket
    <2>3. \A j \in DeskCalls : AsksDetail(j, e)' => deskCall'[j].ticket = desk'[e].form
        BY <1>1, <1>3, <1>4, <2>1 DEF FormInv, FormIsOfTicket, AsksDetail
    <2>4. \A j \in DeskCalls : deskCall'[j].desk = e /\ deskCall'[j].pc \in {"approve", "credit"}
                                  => deskCall'[j].form = deskCall'[j].ticket
        BY <1>4, <2>1 DEF FormInv, FormIsOfTicket
    <2> QED
        BY <2>2, <2>3, <2>4
<1> QED
    BY <1>5 DEF FormIsOfTicket

LEMMA ButtonsKeepForms ==
    ASSUME TicketTypeInv, FormInv, NEW d \in Desks, NEW k \in DeskCalls, HandleApprove(d, k) \/ HandleReject(d, k)
    PROVE  FormIsOfTicket'
<1>0. desk \in [Desks -> DeskPage]
    BY DEF TicketTypeInv, TicketTypeOK, DeskPage
<1>1. desk' = [desk EXCEPT ![d].submitting = TRUE]
    BY DEF HandleApprove, HandleReject
<1>2. \A e \in Desks : /\ desk'[e].crossed = desk[e].crossed /\ desk'[e].form = desk[e].form
                       /\ desk'[e].selected = desk[e].selected
    BY <1>0, <1>1 DEF DeskPage
<1>3. /\ desk[d].selected # NoTicket
      /\ deskCall'[k].desk = d /\ deskCall'[k].pc \in {"approve", "reject"}
      /\ deskCall'[k].ticket = desk[d].selected /\ (deskCall'[k].pc = "approve" => deskCall'[k].form = desk[d].form)
      /\ \A other \in DeskCalls \ {k} : deskCall'[other] = deskCall[other]
    <2>1. CASE HandleApprove(d, k)
        <3>1. DeskAsks(k, "approve", d, desk[d].selected, desk[d].form)
            BY <2>1 DEF HandleApprove
        <3> QED
            BY <2>1, <3>1, DeskAsked DEF HandleApprove, Actionable
    <2>2. CASE HandleReject(d, k)
        <3>1. DeskAsks(k, "reject", d, desk[d].selected, NoTicket)
            BY <2>2 DEF HandleReject
        <3> QED
            BY <2>2, <3>1, DeskAsked DEF HandleReject, Actionable
    <2> QED
        BY <2>1, <2>2
<1>4. ASSUME NEW e \in Desks, ~desk'[e].crossed
      PROVE  /\ desk'[e].selected # NoTicket => desk'[e].selected = desk'[e].form
             /\ \A j \in DeskCalls : AsksDetail(j, e)' => deskCall'[j].ticket = desk'[e].form
             /\ \A j \in DeskCalls : deskCall'[j].desk = e /\ deskCall'[j].pc \in {"approve", "credit"}
                                        => deskCall'[j].form = deskCall'[j].ticket
    <2>1. /\ desk[e].selected # NoTicket => desk[e].selected = desk[e].form
          /\ \A j \in DeskCalls : AsksDetail(j, e) => deskCall[j].ticket = desk[e].form
          /\ \A j \in DeskCalls : deskCall[j].desk = e /\ deskCall[j].pc \in {"approve", "credit"}
                                     => deskCall[j].form = deskCall[j].ticket
        BY <1>2, <1>4 DEF FormInv, FormIsOfTicket
    <2>2. \A j \in DeskCalls : AsksDetail(j, e)' => j # k /\ AsksDetail(j, e) /\ deskCall'[j] = deskCall[j]
        BY <1>3 DEF AsksDetail
    <2>3. deskCall'[k].desk = e => e = d
        BY <1>3
    <2> QED
        BY <1>2, <1>3, <2>1, <2>2, <2>3
<1> QED
    BY <1>4 DEF FormIsOfTicket

LEMMA HandlersKeepForms ==
    ASSUME TicketTypeInv, FormInv, NEW k \in DeskCalls, DeskCallStep(k)
    PROVE  FormIsOfTicket'
<1> DEFINE c == deskCall[k]
<1>0. /\ desk \in [Desks -> DeskPage] /\ deskCall \in [DeskCalls -> TicketCall] /\ c \in TicketCall /\ c.desk \in Desks
      /\ \A other \in DeskCalls \ {k} : deskCall'[other] = deskCall[other]
    BY CallMoves, RowsTyped DEF TicketTypeInv, TicketTypeOK, DeskPage, TicketCall
<1>1. \/ deskCall'[k].pc \notin {"get", "analyze", "show", "approve", "credit"}
      \/ /\ deskCall'[k].desk = c.desk /\ deskCall'[k].ticket = c.ticket /\ deskCall'[k].form = c.form
         /\ deskCall'[k].pc \in {"get", "analyze", "show"} => c.pc \in {"get", "analyze", "show"}
         /\ deskCall'[k].pc \in {"approve", "credit"} => c.pc \in {"approve", "credit"}
    <2>1. CASE ReadDetail(k)
        BY <1>0, <2>1 DEF ReadDetail, ReadsTicket, TicketCall
    <2>2. CASE ReadForApproval(k)
        BY <1>0, <2>2 DEF ReadForApproval, ReadsTicket, TicketCall
    <2>3. CASE ReadForRejection(k)
        BY <1>0, <2>3 DEF ReadForRejection, ReadsTicket, TicketCall
    <2>4. CASE Analyze(k)
        BY <1>0, <2>4 DEF Analyze, TicketCall
    <2>5. CASE CreditTicket(k) \/ TellEngine(k) \/ Deny(k) \/ DeskCallThrows(k)
        BY <1>0, <2>5 DEF CreditTicket, TellEngine, Deny, DeskCallThrows, TicketCall
    <2>6. CASE Show(k) \/ Done(k) \/ Refused(k)
        BY <1>0, <2>6 DEF Show, Done, Refused, IdleDeskCall
    <2> QED
        BY <2>1, <2>2, <2>3, <2>4, <2>5, <2>6 DEF DeskCallStep
<1>2. /\ \A d \in Desks : desk'[d].crossed = desk[d].crossed /\ desk'[d].form = desk[d].form
      /\ \A d \in Desks : \/ desk'[d].selected \in {desk[d].selected, NoTicket}
                          \/ \E j \in DeskCalls : AsksDetail(j, d) /\ desk'[d].selected = deskCall[j].ticket
    <2>1. CASE Show(k)
        <3>1. AsksDetail(k, c.desk)
            BY <2>1 DEF Show, AsksDetail
        <3>2. /\ \A d \in Desks : desk'[d].crossed = desk[d].crossed /\ desk'[d].form = desk[d].form
              /\ desk'[c.desk].selected = c.ticket /\ \A d \in Desks \ {c.desk} : desk'[d].selected = desk[d].selected
            BY <1>0, <2>1 DEF Show, DeskPage
        <3> QED
            BY <3>1, <3>2
    <2>2. CASE Done(k)
        BY <1>0, <2>2 DEF Done, DeskPage
    <2>3. CASE Refused(k)
        BY <1>0, <2>3 DEF Refused, DeskPage
    <2>4. CASE UNCHANGED desk
        BY <2>4
    <2> QED
        BY <2>1, <2>2, <2>3, <2>4 DEF DeskCallStep, ReadDetail, ReadForApproval, ReadForRejection, ReadsTicket,
           Analyze, CreditTicket, TellEngine, Deny, DeskCallThrows
<1> QED
    BY <1>0, <1>1, <1>2, FormsStay

LEMMA FormKeeps == ASSUME TicketTypeInv, FormInv, [TicketNext]_ticketVars PROVE FormInv'
<1>1. CASE UNCHANGED ticketVars
    BY <1>1 DEF ticketVars, FormInv, FormIsOfTicket, CreditIsForItsTicket, AsksDetail
<1>2. CASE TicketNext
    <2>1. ASSUME NEW c \in Openers, OpeningStep(c) PROVE FormIsOfTicket'
        <3>1. UNCHANGED <<desk, deskCall>>
            BY <2>1 DEF OpeningStep, StartOpening, LookForDuplicate, CreateTicket
        <3> QED
            BY <3>1 DEF FormInv, FormIsOfTicket, AsksDetail
    <2>2. ASSUME NEW d \in Desks, NEW k \in DeskCalls, DeskStep(d, k) PROVE FormIsOfTicket'
        BY <2>2, DetailKeepsForms, ButtonsKeepForms DEF DeskStep
    <2>3. ASSUME TicketRestart PROVE FormIsOfTicket'
        <3>1. \A d \in Desks : /\ desk'[d].crossed = desk[d].crossed /\ desk'[d].form = desk[d].form
                               /\ desk'[d].selected = desk[d].selected
            BY <2>3 DEF TicketRestart, TicketTypeInv, TicketTypeOK
        <3>2. \A k \in DeskCalls : deskCall'[k].pc = "idle"
            BY <2>3 DEF TicketRestart, IdleDeskCall
        <3>3. \A d \in Desks : desk'[d].selected \in {desk[d].selected, NoTicket}
            BY <3>1
        <3>4. \A k \in DeskCalls : deskCall'[k].pc \notin {"get", "analyze", "show", "approve", "credit"}
            BY <3>2
        <3>5. \A d \in Desks : desk'[d].crossed = desk[d].crossed /\ desk'[d].form = desk[d].form
            BY <3>1
        <3> QED
            BY <3>3, <3>4, <3>5, FormsStay
    <2>4. ASSUME NEW k \in DeskCalls, DeskCallStep(k) PROVE FormIsOfTicket'
        BY <2>4, HandlersKeepForms
    <2>5. FormIsOfTicket'
        BY <1>2, <2>1, <2>2, <2>3, <2>4 DEF TicketNext
    <2> QED
        BY <1>2, <2>5, CreditsOwnAmount DEF FormInv
<1> QED
    BY <1>1, <1>2

-----------------------------------------------------------------------------
(* What the engine knows.                                                   *)

Telling(t) == {k \in DeskCalls : deskCall[k].ticket = t /\ deskCall[k].pc = "tell"}

LEMMA TellingFinite == ASSUME NEW t PROVE IsFiniteSet(Telling(t)) /\ Cardinality(Telling(t)) \in Nat
<1>1. IsFiniteSet(Telling(t))
    BY FS_Subset, TicketAssumption DEF Telling
<1> QED
    BY <1>1, FS_CardinalityType

LEMMA ToldUnlessMoved ==
    ASSUME EngineToldOfCredits, UNCHANGED <<told, ticketCredits>>, \A t \in Tickets : Telling(t)' = Telling(t)
    PROVE  EngineToldOfCredits'
    BY DEF EngineToldOfCredits, Telling

(* A call that credits is about to tell.                                    *)
LEMMA CreditIsDue ==
    ASSUME TicketTypeInv, EngineToldOfCredits, NEW k \in DeskCalls, CreditTicket(k)
    PROVE  EngineToldOfCredits'
<1>0. PICK t \in Tickets : t = deskCall[k].ticket
    BY RowsTyped DEF CreditTicket
<1> DEFINE n == [times |-> ticketCredits[t].times + 1,
                 amounts |-> ticketCredits[t].amounts \cup {deskCall[k].form}]
<1>1. deskCall[k].pc = "credit" /\ UNCHANGED told
      /\ told \in [Tickets -> Nat] /\ ticketCredits[t].times \in Nat
    BY <1>0, RowsTyped DEF CreditTicket, TicketTypeInv, TicketTypeOK
<1>2. ticketCredits' = [ticketCredits EXCEPT ![t] = n] /\ n.times = ticketCredits[t].times + 1
    BY <1>0 DEF CreditTicket
<1> HIDE DEF n
<1>3. /\ ticketCredits'[t].times = ticketCredits[t].times + 1
      /\ \A q \in Tickets \ {t} : ticketCredits'[q] = ticketCredits[q]
    BY <1>1, <1>2 DEF TicketTypeInv, TicketTypeOK
<1>4. deskCall'[k].ticket = t /\ deskCall'[k].pc = "tell" /\ \A j \in DeskCalls \ {k} : deskCall'[j] = deskCall[j]
    BY <1>0, <1>1 DEF CreditTicket, TicketTypeInv, TicketTypeOK, TicketCall
<1>5. k \notin Telling(t) /\ Telling(t)' = Telling(t) \cup {k}
    BY <1>0, <1>1, <1>4 DEF Telling
<1>6. \A q \in Tickets \ {t} : Telling(q)' = Telling(q)
    BY <1>0, <1>1, <1>4 DEF Telling
<1>7. Cardinality(Telling(t)') = Cardinality(Telling(t)) + 1
    BY <1>5, TellingFinite, FS_AddElement
<1>8. told[t] + Cardinality(Telling(t)') = ticketCredits'[t].times
    <2>1. told[t] + Cardinality(Telling(t)) = ticketCredits[t].times
        BY <1>1 DEF EngineToldOfCredits, Telling
    <2>2. PICK a \in Nat, b \in Nat : a = told[t] /\ b = Cardinality(Telling(t))
        BY <1>1, TellingFinite
    <2> QED
        BY <1>3, <1>7, <2>1, <2>2
<1>9. \A q \in Tickets \ {t} : told[q] + Cardinality(Telling(q)') = ticketCredits'[q].times
    BY <1>3, <1>6 DEF EngineToldOfCredits, Telling
<1>10. \A q \in Tickets : told'[q] + Cardinality(Telling(q)') = ticketCredits'[q].times
    BY <1>1, <1>8, <1>9
<1> QED
    BY <1>10 DEF EngineToldOfCredits, Telling

LEMMA CreditIsTold ==
    ASSUME TicketTypeInv, EngineToldOfCredits, NEW k \in DeskCalls, TellEngine(k)
    PROVE  EngineToldOfCredits'
<1>0. PICK t \in Tickets : t = deskCall[k].ticket
    BY RowsTyped DEF TellEngine
<1>1. deskCall[k].pc = "tell" /\ UNCHANGED ticketCredits /\ told \in [Tickets -> Nat]
    BY <1>0, RowsTyped DEF TellEngine, TicketTypeInv, TicketTypeOK
<1>2. told'[t] = told[t] + 1 /\ \A q \in Tickets \ {t} : told'[q] = told[q]
    BY <1>0, <1>1 DEF TellEngine
<1>3. deskCall'[k].pc = "done" /\ \A j \in DeskCalls \ {k} : deskCall'[j] = deskCall[j]
    <2>1. deskCall \in [DeskCalls -> TicketCall]
        BY DEF TicketTypeInv, TicketTypeOK, TicketCall
    <2> QED
        BY <1>1, <2>1 DEF TellEngine, TicketCall
<1>4. k \in Telling(t) /\ Telling(t)' = Telling(t) \ {k}
    BY <1>0, <1>1, <1>3 DEF Telling
<1>5. \A q \in Tickets \ {t} : Telling(q)' = Telling(q)
    BY <1>0, <1>1, <1>3 DEF Telling
<1>6. Cardinality(Telling(t)') = Cardinality(Telling(t)) - 1
    BY <1>4, TellingFinite, FS_RemoveElement
<1>7. told'[t] + Cardinality(Telling(t)') = ticketCredits[t].times
    <2>1. told[t] + Cardinality(Telling(t)) = ticketCredits[t].times
        BY <1>1 DEF EngineToldOfCredits, Telling
    <2>2. PICK a \in Nat, b \in Nat : a = told[t] /\ b = Cardinality(Telling(t))
        BY <1>1, TellingFinite
    <2> QED
        BY <1>2, <1>6, <2>1, <2>2
<1>8. \A q \in Tickets \ {t} : told'[q] + Cardinality(Telling(q)') = ticketCredits[q].times
    BY <1>2, <1>5 DEF EngineToldOfCredits, Telling
<1>9. \A q \in Tickets : told'[q] + Cardinality(Telling(q)') = ticketCredits'[q].times
    BY <1>1, <1>7, <1>8
<1> QED
    BY <1>9 DEF EngineToldOfCredits, Telling

LEMMA ToldKeeps == ASSUME TicketTypeInv, EngineToldOfCredits, [TicketNext]_ticketVars PROVE EngineToldOfCredits'
<1>0. deskCall \in [DeskCalls -> TicketCall]
    BY DEF TicketTypeInv, TicketTypeOK, TicketCall
<1>1. ASSUME UNCHANGED <<told, ticketCredits, deskCall>> PROVE EngineToldOfCredits'
    BY <1>1, ToldUnlessMoved DEF Telling
<1>2. ASSUME NEW c \in Openers, OpeningStep(c) PROVE EngineToldOfCredits'
    BY <1>1, <1>2 DEF OpeningStep, StartOpening, LookForDuplicate, CreateTicket
<1>3. ASSUME UNCHANGED <<told, ticketCredits>>, NEW k \in DeskCalls, deskCall[k].pc # "tell", deskCall'[k].pc # "tell",
             \A j \in DeskCalls \ {k} : deskCall'[j] = deskCall[j]
      PROVE  EngineToldOfCredits'
    <2>1. \A t \in Tickets : Telling(t)' = Telling(t)
        BY <1>3 DEF Telling
    <2> QED
        BY <1>3, <2>1, ToldUnlessMoved
<1>4. ASSUME NEW d \in Desks, NEW k \in DeskCalls, DeskStep(d, k) PROVE EngineToldOfCredits'
    <2>1. UNCHANGED <<told, ticketCredits>>
        BY <1>4 DEF DeskStep, OpenDetail, HandleApprove, HandleReject
    <2>2. ASSUME NEW pc \in {"get", "approve", "reject"}, NEW t, NEW form, DeskAsks(k, pc, d, t, form)
          PROVE  EngineToldOfCredits'
        BY <1>3, <2>1, <2>2, DeskAsked
    <2> QED
        BY <1>4, <2>2 DEF DeskStep, OpenDetail, HandleApprove, HandleReject
<1>5. ASSUME NEW k \in DeskCalls, DeskCallStep(k) PROVE EngineToldOfCredits'
    <2>1. \A j \in DeskCalls \ {k} : deskCall'[j] = deskCall[j]
        BY <1>5, CallMoves
    <2>2. CASE ReadDetail(k) \/ ReadForApproval(k) \/ ReadForRejection(k)
        <3>1. UNCHANGED <<told, ticketCredits>> /\ deskCall[k].pc # "tell" /\ deskCall'[k].pc # "tell"
            BY <1>0, <2>2 DEF ReadDetail, ReadForApproval, ReadForRejection, ReadsTicket, TicketCall
        <3> QED
            BY <1>3, <2>1, <3>1
    <2>3. CASE Analyze(k) \/ Deny(k) \/ Show(k) \/ Done(k) \/ Refused(k) \/ DeskCallThrows(k)
        <3>1. UNCHANGED <<told, ticketCredits>> /\ deskCall[k].pc # "tell"
            BY <2>3 DEF Analyze, Deny, Show, Done, Refused, DeskCallThrows
        <3>2. deskCall'[k].pc # "tell"
            BY <1>0, <2>3 DEF Analyze, Deny, Show, Done, Refused, DeskCallThrows, IdleDeskCall, TicketCall
        <3> QED
            BY <1>3, <2>1, <3>1, <3>2
    <2> QED
        BY <1>5, <2>2, <2>3, CreditIsDue, CreditIsTold DEF DeskCallStep
<1>6. CASE TicketRestart
    <2>1. \A t \in Tickets : Telling(t)' = {} /\ told'[t] = ticketCredits[t].times /\ ticketCredits[t].times \in Nat
        BY <1>6 DEF TicketRestart, IdleDeskCall, Telling, TicketTypeInv, TicketTypeOK
    <2>2. Cardinality({}) = 0
        BY FS_EmptySet
    <2>3. UNCHANGED ticketCredits
        BY <1>6 DEF TicketRestart
    <2>4. \A t \in Tickets : told'[t] + Cardinality(Telling(t)') = ticketCredits'[t].times
        BY <2>1, <2>2, <2>3
    <2> QED
        BY <2>4 DEF EngineToldOfCredits, Telling
<1>7. CASE UNCHANGED ticketVars
    BY <1>1, <1>7 DEF ticketVars
<1> QED
    BY <1>2, <1>4, <1>5, <1>6, <1>7 DEF TicketNext

-----------------------------------------------------------------------------
LEMMA TicketsStart == TicketInit => TicketInv
<1> SUFFICES ASSUME TicketInit PROVE TicketInv
    OBVIOUS
<1> USE DEF TicketInit
<1>1. TicketTypeInv
    <2>1. Absent \in TicketRow /\ Absent.status = "absent"
        BY DEF Absent, TicketRow, TicketStatus
    <2>2. IdleOpening \in OpeningCall /\ IdleOpening.pc = "idle"
        BY DEF IdleOpening, OpeningCall
    <2>3. BlankDesk \in DeskPage /\ BlankDesk.selected = NoTicket
        BY DEF BlankDesk, DeskPage, TicketStatus
    <2>4. IdleDeskCall \in TicketCall /\ IdleDeskCall.pc = "idle"
        BY DEF IdleDeskCall, TicketCall, CallPc, TicketStatus
    <2>5. [times |-> 0, amounts |-> {}] \in [times : Nat, amounts : SUBSET Tickets]
        OBVIOUS
    <2>6. TicketTypeOK
        BY <2>1, <2>2, <2>3, <2>4, <2>5 DEF TicketTypeOK, TicketRow, OpeningCall, DeskPage, TicketCall
    <2> QED
        BY <2>1, <2>2, <2>3, <2>4, <2>6, TicketAssumption
           DEF TicketTypeInv, CallsNameTickets, PagesNameTickets, OpenersNameUsers, TicketsBlank
<1>2. WritersAlone /\ WritersMayWrite
    BY DEF WritersAlone, WritersMayWrite, Writing, IdleDeskCall
<1>3. CreditedIsFinal /\ CreditIsForItsTicket
    BY DEF CreditedIsFinal, CreditIsForItsTicket
<1>4. OpenersAlone
    BY DEF OpenersAlone, IdleOpening
<1>5. TicketsWithinLimit
    <2>1. \A u : OpenTickets(u) \ overlapped = {}
        BY DEF OpenTickets, Absent, Unresolved
    <2>2. \A u : \A h \in Transfers : SameHash(u, h) = {}
        BY TicketAssumption DEF SameHash, Absent
    <2>3. Cardinality({}) = 0
        BY FS_EmptySet
    <2> QED
        <3>1. \A u : Cardinality(OpenTickets(u) \ overlapped) = 0
            BY <2>1, <2>3
        <3>2. \A u : \A h \in Transfers : Cardinality(SameHash(u, h)) = 0
            BY <2>2, <2>3
        <3> QED
            BY <3>1, <3>2, TicketAssumption DEF TicketsWithinLimit
<1>6. FormIsOfTicket
    BY DEF FormIsOfTicket, AsksDetail, BlankDesk, IdleDeskCall
<1>7. EngineToldOfCredits
    <2>1. \A t \in Tickets : Telling(t) = {} /\ told[t] = 0 /\ ticketCredits[t].times = 0
        BY DEF Telling, IdleDeskCall
    <2>2. Cardinality({}) = 0
        BY FS_EmptySet
    <2> QED
        <3>1. \A t \in Tickets : Cardinality(Telling(t)) = 0
            BY <2>1, <2>2
        <3>2. \A t \in Tickets : told[t] + Cardinality(Telling(t)) = ticketCredits[t].times
            BY <2>1, <3>1
        <3> QED
            BY <3>2 DEF EngineToldOfCredits, Telling
<1> QED
    BY <1>1, <1>2, <1>3, <1>4, <1>5, <1>6, <1>7 DEF TicketInv

LEMMA TicketInvKept == ASSUME TicketInv, [TicketNext]_ticketVars PROVE TicketInv'
<1>1. TicketTypeInv /\ DeskInv /\ OpenInv /\ FormInv /\ EngineToldOfCredits
    BY DEF TicketInv, DeskInv, OpenInv, FormInv
<1>2. TicketTypeInv' /\ DeskInv' /\ OpenInv' /\ FormInv' /\ EngineToldOfCredits'
    BY <1>1, TicketStepTyped, DeskKeeps, OpenKeeps, FormKeeps, ToldKeeps
<1> QED
    BY <1>2 DEF TicketInv, DeskInv, OpenInv, FormInv

(* However many pages, calls and requests there are, whatever fails and     *)
(* whenever the process stops: a ticket on which no two calls overlapped is *)
(* credited once at most (adminApproveTicket), with the amount its page     *)
(* took from it unless two details were awaited together; the engine has    *)
(* every credit but those about to be passed on (applyUserBalanceDelta);    *)
(* and a user whose createTicket calls do not overlap keeps to the limit.   *)
THEOREM TicketsHold == TicketSpec => []TicketsSafe
<1>1. TicketInit => TicketInv
    BY TicketsStart
<1>2. TicketInv /\ [TicketNext]_ticketVars => TicketInv'
    BY TicketInvKept
<1>3. TicketInv => TicketsSafe
    BY DEF TicketInv, TicketTypeInv, CreditedIsFinal, TicketsSafe, TicketCreditedOnce
<1> QED
    BY <1>1, <1>2, <1>3, PTL DEF TicketSpec

(* Unless calls overlapped on it, a credited ticket stays credited and a    *)
(* rejected one never returns to the queue (the status checks of            *)
(* adminApproveTicket, adminRejectTicket and adminGetTicket).               *)
THEOREM TicketsStayResolved == TicketSpec => TicketStaysResolved
<1> DEFINE Stays == \A t \in Tickets : t \notin overlapped' =>
                       /\ ticket[t].status = "credited" => ticket'[t].status = "credited"
                       /\ ticket[t].status = "rejected" => ticket'[t].status \in {"rejected", "credited"}
<1>1. TicketInit => TicketInv
    BY TicketsStart
<1>2. TicketInv /\ [TicketNext]_ticketVars => TicketInv'
    BY TicketInvKept
<1>3. TicketInv /\ [TicketNext]_ticketVars => [Stays]_ticketVars
    <2> SUFFICES ASSUME TicketInv, TicketNext PROVE Stays
        OBVIOUS
    <2>0. TicketTypeOK /\ TicketTypeInv
        BY DEF TicketInv, TicketTypeInv
    <2>1. CASE UNCHANGED ticket
        BY <2>1
    <2>2. ASSUME NEW k \in DeskCalls, Analyze(k) \/ CreditTicket(k) \/ Deny(k) PROVE Stays
        <3> DEFINE q == deskCall[k].ticket
        <3>1. q \in Tickets /\ UNCHANGED overlapped /\ Writing(k, q)
            BY <2>0, <2>2, RowsTyped DEF Analyze, CreditTicket, Deny, Writing
        <3>2. \A t \in Tickets \ {q} : ticket'[t] = ticket[t]
            BY <2>0, <2>2, <3>1 DEF Analyze, CreditTicket, Deny, TicketTypeOK
        <3>3. q \notin overlapped => deskCall[k].status = ticket[q].status
            BY <3>1 DEF TicketInv, WritersAlone
        <3>4. CASE Analyze(k)
            BY <3>1, <3>2, <3>3, <3>4 DEF Analyze, TicketInv, WritersMayWrite, Unresolved
        <3>5. CASE CreditTicket(k)
            <4>1. ticket'[q].status = "credited"
                BY <2>0, <3>1, <3>5 DEF CreditTicket, TicketTypeOK
            <4> QED
                BY <3>2, <4>1
        <3>6. CASE Deny(k)
            <4>1. ticket'[q].status = "rejected"
                BY <2>0, <3>1, <3>6 DEF Deny, TicketTypeOK
            <4>2. q \notin overlapped => ticket[q].status # "credited"
                BY <3>3, <3>6 DEF Deny, TicketInv, WritersMayWrite, Resolved
            <4> QED
                BY <3>1, <3>2, <4>1, <4>2
        <3> QED
            BY <2>2, <3>4, <3>5, <3>6
    <2>3. ASSUME NEW c \in Openers, NEW t \in Tickets, CreateTicket(c, t) PROVE Stays
        <3>1. ticket[t].status = "absent" /\ \A q \in Tickets \ {t} : ticket'[q] = ticket[q]
            BY <2>0, <2>3 DEF CreateTicket, Absent, TicketTypeOK
        <3> QED
            BY <3>1
    <2> QED
        BY <2>1, <2>2, <2>3 DEF TicketNext, OpeningStep, StartOpening, LookForDuplicate, DeskStep, OpenDetail, HandleApprove,
           HandleReject, DeskCallStep, ReadDetail, ReadForApproval, ReadForRejection, ReadsTicket, TellEngine, Show, Done,
           Refused, DeskCallThrows, TicketRestart
<1> QED
    BY <1>1, <1>2, <1>3, PTL DEF TicketSpec, TicketStaysResolved
=============================================================================
