---------------------------- MODULE EngineBalance ----------------------------
(***************************************************************************)
(* The POL balance a miner has in the engine's memory, and the column of   *)
(* the database it shadows.  The engine charges boosts and rig upgrades in *)
(* memory; persistMinerProfile writes what memory has moved since it last  *)
(* agreed with the database (lastPersistedBalance).  Request handlers move *)
(* the column and tell the engine (applyUserBalanceDelta); blocks reward   *)
(* memory first and the column later; joins and reloads copy the column    *)
(* when it is the larger.  Every await between those is a step of its own. *)
(***************************************************************************)
EXTENDS Integers, FiniteSets

CONSTANTS
    Users,
    Referrer,     \* who referred whom; users that nobody did map to themselves
    Savers,       \* persistMinerProfile calls that may overlap for one user
    Loads,        \* joins and reloads in flight together
    Handlers,     \* requests in flight that move the column
    Amounts,      \* what they may move: purchases below zero, deposits above
    BoostCost,
    UpgradeCost,
    Reward,       \* a miner's share of a block
    Commission,   \* referrer's share of a reward
    Funds,        \* balances to begin with
    MaxBalance,   \* bound on what a user is credited
    MaxDebt,      \* bound on what memory charges beyond what is due
    FaultKinds,   \* database errors, by the call that throws; "crash"
    MaxFaults     \* bound on how many happen

ASSUME EngineBalanceAssumption ==
    /\ IsFiniteSet(Users)
    /\ Referrer \in [Users -> Users]
    /\ Amounts \subseteq Int \ {0}
    /\ BoostCost \in Nat /\ UpgradeCost \in Nat /\ Reward \in Nat /\ Commission \in Nat
    /\ Funds \subseteq Nat
    /\ MaxBalance \in Nat /\ MaxDebt \in Nat
    /\ FaultKinds \subseteq {"save", "block", "handler", "crash"}
    /\ MaxFaults \in Nat

VARIABLES
    db,       \* users.polBalance
    online,   \* users the engine has a miner for
    mem,      \* miner.balance
    saved,    \* miner.lastPersistedBalance
    save,     \* persistMinerProfile calls
    load,     \* miner:join and reloadMinerProfile calls
    handler,  \* requests
    block,    \* the persistBlockRewards call
    due,      \* what the user is entitled to: earned less spent
    faults

vars == <<db, online, mem, saved, save, load, handler, block, due, faults>>

IdleSave == [pc |-> "idle", delta |-> 0]
IdleLoad == [pc |-> "idle", user |-> "nobody", balance |-> 0]
IdleRequest == [pc |-> "idle", user |-> "nobody", amount |-> 0]
NoBlock == [pc |-> "idle", workers |-> {}, snapshot |-> [u \in Users |-> 0]]

Init ==
    /\ db \in [Users -> Funds]
    /\ online \in SUBSET Users
    /\ mem = [u \in Users |-> IF u \in online THEN db[u] ELSE 0]
    /\ saved = mem
    /\ save = [u \in Users |-> [p \in Savers |-> IdleSave]]
    /\ load = [l \in Loads |-> IdleLoad]
    /\ handler = [h \in Handlers |-> IdleRequest]
    /\ block = NoBlock
    /\ due = db
    /\ faults = 0

Fault(kind) == kind \in FaultKinds /\ faults < MaxFaults /\ faults' = faults + 1

\* Bound on credits.
Room(u, amount) == db[u] + amount <= MaxBalance /\ due[u] + amount <= MaxBalance

-----------------------------------------------------------------------------
(* Charges made in memory.                                                  *)

Charge(u, cost) ==
    /\ u \in online
    /\ mem[u] >= cost
    /\ due[u] - cost >= -MaxDebt
    /\ mem' = [mem EXCEPT ![u] = @ - cost]
    /\ due' = [due EXCEPT ![u] = @ - cost]

Boost(u) ==
    /\ Charge(u, BoostCost)
    /\ UNCHANGED <<db, online, saved, save, load, handler, block, faults>>

\* upgradeRig, and the save the socket handler starts in the same turn.
Upgrade(u, p) ==
    /\ Charge(u, UpgradeCost)
    /\ save[u][p] = IdleSave
    /\ save' = [save EXCEPT ![u][p] =
                  IF mem'[u] = saved[u]
                    THEN IdleSave ELSE [pc |-> "write", delta |-> mem'[u] - saved[u]]]
    /\ UNCHANGED <<db, online, saved, load, handler, block, faults>>

-----------------------------------------------------------------------------
(* persistMinerProfile, called by the timer for every miner and by socket   *)
(* handlers (toggle, wallet, disconnect) for theirs.                        *)

StartSaveOfGains(u, p) ==
    /\ u \in online
    /\ save[u][p] = IdleSave
    /\ mem[u] > saved[u]
    /\ save' = [save EXCEPT ![u][p] = [pc |-> "write", delta |-> mem[u] - saved[u]]]
    /\ UNCHANGED <<db, online, mem, saved, load, handler, block, due, faults>>

StartSave(u, p) ==
    /\ u \in online
    /\ save[u][p] = IdleSave
    /\ mem[u] # saved[u]
    /\ save' = [save EXCEPT ![u][p] = [pc |-> "write", delta |-> mem[u] - saved[u]]]
    /\ UNCHANGED <<db, online, mem, saved, load, handler, block, due, faults>>

WriteSave(u, p) ==
    /\ save[u][p].pc = "write"
    /\ db' = [db EXCEPT ![u] = @ + save[u][p].delta]
    /\ save' = [save EXCEPT ![u][p].pc = "ack"]
    /\ UNCHANGED <<online, mem, saved, load, handler, block, due, faults>>

FinishSaveForgetting(u, p) ==
    /\ save[u][p].pc = "ack"
    /\ save' = [save EXCEPT ![u][p] = IdleSave]
    /\ UNCHANGED <<db, online, mem, saved, load, handler, block, due, faults>>

\* What memory holds by now counts as saved, not what was written.
FinishSave(u, p) ==
    /\ save[u][p].pc = "ack"
    /\ saved' = [saved EXCEPT ![u] = mem[u]]
    /\ save' = [save EXCEPT ![u][p] = IdleSave]
    /\ UNCHANGED <<db, online, mem, load, handler, block, due, faults>>

SaveThrows(u, p) ==
    /\ Fault("save")
    /\ save[u][p].pc = "write"
    /\ save' = [save EXCEPT ![u][p] = IdleSave]
    /\ UNCHANGED <<db, online, mem, saved, load, handler, block, due>>

-----------------------------------------------------------------------------
(* miner:join and reloadMinerProfile: the column is read, then applied.     *)

StartLoad(l, u) ==
    /\ load[l].pc = "idle"
    /\ \E kind \in {"join", "reload"} :
         load' = [load EXCEPT ![l] = [pc |-> kind, user |-> u, balance |-> db[u]]]
    /\ UNCHANGED <<db, online, mem, saved, save, handler, block, due, faults>>

TakeBalance(u, balance) ==
    /\ mem' = [mem EXCEPT ![u] = balance]
    /\ saved' = [saved EXCEPT ![u] = balance]

ApplyLoad(l) ==
    LET u == load[l].user
    IN  /\ load[l].pc # "idle"
        /\ load' = [load EXCEPT ![l] = IdleLoad]
        /\ \/ /\ u \in online /\ load[l].balance > mem[u]
              /\ TakeBalance(u, load[l].balance)
              /\ UNCHANGED online
           \/ /\ u \notin online /\ load[l].pc = "join"
              /\ TakeBalance(u, load[l].balance)
              /\ online' = online \cup {u}
           \/ /\ IF u \in online THEN load[l].balance <= mem[u] ELSE load[l].pc = "reload"
              /\ UNCHANGED <<online, mem, saved>>
        /\ UNCHANGED <<db, save, handler, block, due, faults>>

-----------------------------------------------------------------------------
(* Requests: the balance is checked, the column moves in a transaction, and *)
(* the engine is told after it (purchases, credits) or in it (createWithdrawal,
   createDepositRequest, a refund).                                         *)

Check(h, u, amount) ==
    /\ handler[h] = IdleRequest
    /\ db[u] + amount >= 0
    /\ Room(u, amount)
    /\ handler' = [handler EXCEPT ![h] = [pc |-> "checked", user |-> u, amount |-> amount]]
    /\ UNCHANGED <<db, online, mem, saved, save, load, block, due, faults>>

MoveColumn(h) ==
    LET u == handler[h].user
    IN  /\ db' = [db EXCEPT ![u] = @ + handler[h].amount]
        /\ due' = [due EXCEPT ![u] = @ + handler[h].amount]

\* applyUserBalanceDelta
TellEngine(h) ==
    LET u == handler[h].user
    IN  /\ mem' = [mem EXCEPT ![u] = IF u \in online THEN @ + handler[h].amount ELSE @]
        /\ saved' = [saved EXCEPT ![u] = IF u \in online THEN @ + handler[h].amount ELSE @]

CommitDone(h) ==
    /\ handler[h].pc = "checked"
    /\ MoveColumn(h)
    /\ handler' = [handler EXCEPT ![h].pc = "done"]
    /\ UNCHANGED <<online, mem, saved, save, load, block, faults>>

Commit(h) ==
    /\ handler[h].pc = "checked"
    /\ MoveColumn(h)
    /\ handler' = [handler EXCEPT ![h].pc = "tell"]
    /\ UNCHANGED <<online, mem, saved, save, load, block, faults>>

TellAfter(h) ==
    /\ handler[h].pc = "tell"
    /\ TellEngine(h)
    /\ handler' = [handler EXCEPT ![h] = IdleRequest]
    /\ UNCHANGED <<db, online, save, load, block, due, faults>>

TellBefore(h) ==
    /\ handler[h].pc = "checked"
    /\ TellEngine(h)
    /\ handler' = [handler EXCEPT ![h].pc = "commit"]
    /\ UNCHANGED <<db, online, save, load, block, due, faults>>

CommitTold(h) ==
    /\ handler[h].pc = "commit"
    /\ MoveColumn(h)
    /\ handler' = [handler EXCEPT ![h] = IdleRequest]
    /\ UNCHANGED <<online, mem, saved, save, load, block, faults>>

HandlerThrows(h) ==
    /\ Fault("handler")
    /\ handler[h].pc \in {"checked", "commit"}
    /\ handler' = [handler EXCEPT ![h] = IdleRequest]
    /\ UNCHANGED <<db, online, mem, saved, save, load, block, due>>

-----------------------------------------------------------------------------
(* distributeRewards and persistBlockRewards.                               *)

\* Bound: one block's rewards in flight, and none beyond MaxBalance.
Distribute(workers) ==
    /\ block.pc = "idle"
    /\ workers # {}
    /\ \A u \in Users : Room(u, Reward + Commission)
    /\ block' = [pc |-> "commit", workers |-> workers, snapshot |-> mem]
    /\ mem' = [u \in Users |-> IF u \in workers THEN mem[u] + Reward ELSE mem[u]]
    /\ saved' = [u \in Users |-> IF u \in workers THEN saved[u] + Reward ELSE saved[u]]
    /\ UNCHANGED <<db, online, save, load, handler, due, faults>>

Referred(u) == {w \in block.workers : Referrer[w] = u /\ w # u}

Commissions(u) == Commission * Cardinality(Referred(u))

Earned(u) == (IF u \in block.workers THEN Reward ELSE 0) + Commissions(u)

CommitBlock ==
    /\ block.pc = "commit"
    /\ db' = [u \in Users |-> db[u] + Earned(u)]
    /\ due' = [u \in Users |-> due[u] + Earned(u)]
    /\ block' = [block EXCEPT !.pc = "tell"]
    /\ UNCHANGED <<online, mem, saved, save, load, handler, faults>>

TellNobody ==
    /\ block.pc = "tell"
    /\ block' = NoBlock
    /\ UNCHANGED <<db, online, mem, saved, save, load, handler, due, faults>>

TellReferrers ==
    LET bonus == [u \in Users |-> IF u \in online THEN Commissions(u) ELSE 0]
    IN  /\ block.pc = "tell"
        /\ mem' = [u \in Users |-> mem[u] + bonus[u]]
        /\ saved' = [u \in Users |-> saved[u] + bonus[u]]
        /\ block' = NoBlock
        /\ UNCHANGED <<db, online, save, load, handler, due, faults>>

\* The transaction throws: balances go back to the snapshot, lastPersistedBalance
\* does not.
RollBack ==
    /\ Fault("block")
    /\ block.pc = "commit"
    /\ mem' = [u \in Users |-> IF u \in block.workers THEN block.snapshot[u] ELSE mem[u]]
    /\ block' = NoBlock
    /\ UNCHANGED <<db, online, saved, save, load, handler, due>>

-----------------------------------------------------------------------------
\* The server dies, and with it everything but the column.
Crash ==
    /\ Fault("crash")
    /\ online' = {}
    /\ mem' = [u \in Users |-> 0]
    /\ saved' = [u \in Users |-> 0]
    /\ save' = [u \in Users |-> [p \in Savers |-> IdleSave]]
    /\ load' = [l \in Loads |-> IdleLoad]
    /\ handler' = [h \in Handlers |-> IdleRequest]
    /\ block' = NoBlock
    /\ UNCHANGED <<db, due>>

SaveStep(u, p) ==
    \/ Upgrade(u, p)
    \/ StartSave(u, p)
    \/ WriteSave(u, p)
    \/ FinishSave(u, p)
    \/ SaveThrows(u, p)

HandlerStep(h) ==
    \/ \E u \in Users, amount \in Amounts : Check(h, u, amount)
    \/ Commit(h)
    \/ TellAfter(h)
    \/ TellBefore(h)
    \/ CommitTold(h)
    \/ HandlerThrows(h)

BlockStep ==
    \/ \E workers \in SUBSET online : Distribute(workers)
    \/ CommitBlock
    \/ TellReferrers
    \/ RollBack

Next ==
    \/ \E u \in Users : Boost(u)
    \/ \E u \in Users, p \in Savers : SaveStep(u, p)
    \/ \E l \in Loads : ApplyLoad(l) \/ \E u \in Users : StartLoad(l, u)
    \/ \E h \in Handlers : HandlerStep(h)
    \/ BlockStep
    \/ Crash

Spec == Init /\ [][Next]_vars

(* The persist timer fires for ever and a database promise settles.         *)
FairSpec ==
    /\ Spec
    /\ \A u \in Users, p \in Savers :
         /\ WF_vars(StartSave(u, p))
         /\ WF_vars(WriteSave(u, p))
         /\ WF_vars(FinishSave(u, p))

-----------------------------------------------------------------------------
Save == [pc : {"idle", "write", "ack"}, delta : Int]
Load == [pc : {"idle", "join", "reload"}, user : Users \cup {"nobody"}, balance : Int]
Request == [pc : {"idle", "checked", "tell", "commit"}, user : Users \cup {"nobody"}, amount : Int]
Block == [pc : {"idle", "commit", "tell"}, workers : SUBSET Users, snapshot : [Users -> Int]]

(* Every variable holds values of the kind its column, field or local has.  *)
TypeOK ==
    /\ db \in [Users -> Int]
    /\ online \in SUBSET Users
    /\ mem \in [Users -> Int]
    /\ saved \in [Users -> Int]
    /\ save \in [Users -> [Savers -> Save]]
    /\ load \in [Loads -> Load]
    /\ handler \in [Handlers -> Request]
    /\ block \in Block
    /\ due \in [Users -> Int]
    /\ faults \in Nat

\* No save has written without marking what it wrote yet.
Marked(u) == \A p \in Savers : save[u][p].pc # "ack"

(* The column, once what memory has not saved is added, holds at least what *)
(* the user is entitled to: rewards, deposits and restarts never cost a     *)
(* user anything, and no charge is written to the column twice.             *)
NothingLost == \A u \in Users : Marked(u) => db[u] + mem[u] - saved[u] >= due[u]

\* Nothing that has moved one of the two balances has yet to move the other.
Quiet(u) ==
    /\ block.pc = "idle"
    /\ \A h \in Handlers : handler[h].user # u \/ handler[h].pc = "checked"

(* Once the requests and the block under way are done, a miner's balance in *)
(* the engine is what the user is entitled to.                              *)
EngineKnows == \A u \in online : Quiet(u) => mem[u] = due[u]

(* What memory moved reaches the column, or is given up by a restart: the   *)
(* persist timer gets to every miner.                                       *)
EventuallySaved == \A u \in Users : mem[u] # saved[u] ~> mem[u] = saved[u]

(* A referrer and the miner they referred both keep what they are entitled  *)
(* to, and the engine knows of it once nothing is half way.                 *)
ReferredSafe == NothingLost /\ EngineKnows
=============================================================================
