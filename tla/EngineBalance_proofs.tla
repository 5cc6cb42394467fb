------------------------ MODULE EngineBalance_proofs ------------------------
(***************************************************************************)
(* Proofs about EngineBalance for every number of users, requests, joins   *)
(* and reloads, any number of saves per miner, and for all prices and      *)
(* rewards: type correctness; in any run where saves of one miner do not   *)
(* overlap and no block has to be rolled back, nothing a user is entitled  *)
(* to is lost; and, when moreover nothing loads a miner, memory differs    *)
(* from what is due by what is still to be told.                           *)
(***************************************************************************)
EXTENDS EngineBalance, FiniteSetTheorems, TLAPS

(* A function keeps its type when one value is replaced by one of its type. *)
LEMMA Put ==
    ASSUME NEW S, NEW T, NEW f \in [S -> T], NEW x, NEW v, x \in S => v \in T
    PROVE  [f EXCEPT ![x] = v] \in [S -> T]
OBVIOUS

LEMMA PutInside ==
    ASSUME NEW S, NEW R, NEW T, NEW f \in [S -> [R -> T]], NEW x \in S, NEW y \in R, NEW v \in T
    PROVE  [f EXCEPT ![x][y] = v] \in [S -> [R -> T]]
OBVIOUS

LEMMA IdleTyped ==
    /\ IdleSave \in Save /\ IdleLoad \in Load /\ IdleRequest \in Request /\ NoBlock \in Block
<1>1. [u \in Users |-> 0] \in [Users -> Int]
  OBVIOUS
<1> QED
  BY <1>1 DEF IdleSave, IdleLoad, IdleRequest, NoBlock, Save, Load, Request, Block

(* What a miner earns from a block is a number.                             *)
LEMMA EarningsTyped ==
    ASSUME TypeOK, NEW u \in Users
    PROVE  Commissions(u) \in Int /\ Earned(u) \in Int
<1>1. Referred(u) \subseteq Users
  BY DEF TypeOK, Block, Referred
<1>2. IsFiniteSet(Referred(u))
  BY <1>1, FS_Subset, EngineBalanceAssumption
<1>3. Cardinality(Referred(u)) \in Nat
  BY <1>2, FS_CardinalityType
<1> QED
  BY <1>3, EngineBalanceAssumption DEF Commissions, Earned

(* TypeOK alone is not inductive: a load under way is some user's.          *)
LoadsSomeone == \A l \in Loads : load[l].pc # "idle" => load[l].user \in Users

TypeInv == TypeOK /\ LoadsSomeone

LEMMA ChargeTyped ==
    ASSUME TypeOK, NEW u \in Users, NEW cost \in Nat, Charge(u, cost)
    PROVE  mem' \in [Users -> Int] /\ due' \in [Users -> Int]
<1>1. mem[u] - cost \in Int /\ due[u] - cost \in Int
  BY DEF TypeOK
<1> QED BY <1>1, Put DEF TypeOK, Charge

LEMMA BoostTyped ==
    ASSUME TypeInv, NEW u \in Users, Boost(u)
    PROVE  TypeInv'
<1>1. mem' \in [Users -> Int] /\ due' \in [Users -> Int]
  BY ChargeTyped, EngineBalanceAssumption DEF TypeInv, Boost
<1> QED BY <1>1 DEF TypeInv, TypeOK, LoadsSomeone, Boost

LEMMA SaveTyped ==
    ASSUME TypeInv, NEW u \in Users, NEW p \in Savers, SaveStep(u, p)
    PROVE  TypeInv'
<1>e. /\ save[u] \in [Savers -> Save]
      /\ db[u] \in Int /\ mem[u] \in Int /\ saved[u] \in Int /\ due[u] \in Int
  BY DEF TypeInv, TypeOK
<1>f. save[u][p] \in Save
  BY <1>e
<1>g. save[u][p].delta \in Int
  BY <1>f DEF Save
<1> USE IdleTyped, Put, PutInside
<1>a. UNCHANGED <<load, handler, block, online>>
  BY DEF SaveStep, Upgrade, StartSave, WriteSave, FinishSave, SaveThrows
<1>b. LoadsSomeone'
  BY <1>a DEF TypeInv, LoadsSomeone
<1>0. /\ TypeOK
      /\ save[u][p] \in Save /\ save[u][p].delta \in Int
      /\ db[u] \in Int /\ mem[u] \in Int /\ saved[u] \in Int /\ due[u] \in Int
  BY <1>e, <1>f, <1>g DEF TypeInv
<1> SUFFICES TypeOK'
  BY <1>b DEF TypeInv
<1>d. \A delta \in Int : [pc |-> "write", delta |-> delta] \in Save
  BY DEF Save
<1>2. CASE Upgrade(u, p)
  <2>1. mem' \in [Users -> Int] /\ due' \in [Users -> Int]
    BY <1>0, <1>2, ChargeTyped, EngineBalanceAssumption DEF Upgrade
  <2>2. [pc |-> "write", delta |-> mem'[u] - saved[u]] \in Save
    BY <1>0, <1>d, <2>1
  <2>3. save' \in [Users -> [Savers -> Save]]
    BY <1>0, <1>2, <2>2 DEF TypeOK, Upgrade
  <2> QED BY <1>0, <1>2, <2>1, <2>3 DEF TypeOK, Upgrade
<1>3. CASE StartSave(u, p)
  <2>1. [pc |-> "write", delta |-> mem[u] - saved[u]] \in Save
    BY <1>0, <1>d
  <2> QED BY <1>0, <1>3, <2>1 DEF TypeOK, StartSave
<1>4. CASE WriteSave(u, p)
  <2>1. [save[u][p] EXCEPT !.pc = "ack"] \in Save
    BY <1>0 DEF Save
  <2>2. save' = [save EXCEPT ![u][p] = [save[u][p] EXCEPT !.pc = "ack"]]
    BY <1>0, <1>4 DEF WriteSave
  <2>3. db' \in [Users -> Int]
    BY <1>0, <1>4 DEF TypeOK, WriteSave
  <2>4. save' \in [Users -> [Savers -> Save]]
    BY <1>0, <2>1, <2>2 DEF TypeOK
  <2> QED BY <1>0, <1>4, <2>3, <2>4 DEF TypeOK, WriteSave
<1>5. CASE FinishSave(u, p)
  BY <1>0, <1>5 DEF TypeOK, FinishSave
<1>6. CASE SaveThrows(u, p)
  <2>1. save' \in [Users -> [Savers -> Save]]
    BY <1>0, <1>6 DEF TypeOK, SaveThrows
  <2>2. faults' \in Nat
    BY <1>0, <1>6 DEF TypeOK, SaveThrows, Fault
  <2> QED BY <1>0, <1>6, <2>1, <2>2 DEF TypeOK, SaveThrows
<1> QED BY <1>2, <1>3, <1>4, <1>5, <1>6 DEF SaveStep

LEMMA LoadTyped ==
    ASSUME TypeInv, NEW l \in Loads,
           ApplyLoad(l) \/ \E u \in Users : StartLoad(l, u)
    PROVE  TypeInv'
<1> USE IdleTyped, Put
<1>0. TypeOK /\ LoadsSomeone /\ IdleLoad.pc = "idle" /\ load[l].balance \in Int
  BY DEF TypeInv, TypeOK, IdleLoad, Load
<1>1. CASE ApplyLoad(l)
  <2>1. load[l].user \in Users
    BY <1>0, <1>1 DEF LoadsSomeone, ApplyLoad
  <2>2. mem' \in [Users -> Int] /\ saved' \in [Users -> Int] /\ online' \in SUBSET Users
    BY <1>0, <1>1, <2>1 DEF TypeOK, ApplyLoad, TakeBalance
  <2>3. load' = [load EXCEPT ![l] = IdleLoad]
    BY <1>1 DEF ApplyLoad
  <2>4. load' \in [Loads -> Load] /\ LoadsSomeone'
    BY <1>0, <2>3 DEF TypeOK, LoadsSomeone
  <2> QED BY <1>0, <1>1, <2>2, <2>4 DEF TypeInv, TypeOK, ApplyLoad
<1>2. ASSUME NEW u \in Users, StartLoad(l, u) PROVE TypeInv'
  <2>1. PICK kind \in {"join", "reload"} :
          load' = [load EXCEPT ![l] = [pc |-> kind, user |-> u, balance |-> db[u]]]
    BY <1>2 DEF StartLoad
  <2>2. [pc |-> kind, user |-> u, balance |-> db[u]] \in Load
    BY <1>0 DEF TypeOK, Load
  <2>3. load' \in [Loads -> Load]
    BY <1>0, <2>1, <2>2 DEF TypeOK
  <2>4. LoadsSomeone'
    BY <1>0, <2>1 DEF TypeOK, LoadsSomeone
  <2> QED BY <1>0, <1>2, <2>3, <2>4 DEF TypeInv, TypeOK, StartLoad
<1> QED BY <1>1, <1>2

LEMMA HandlerTyped ==
    ASSUME TypeInv, NEW h \in Handlers, HandlerStep(h)
    PROVE  TypeInv'
<1> USE IdleTyped, Put
<1>a. UNCHANGED <<online, save, load, block>>
  BY DEF HandlerStep, Check, Commit, TellAfter, TellBefore, CommitTold, HandlerThrows
<1>b. LoadsSomeone'
  BY <1>a DEF TypeInv, LoadsSomeone
<1>0. TypeOK /\ handler[h] \in Request /\ handler[h].amount \in Int
  BY DEF TypeInv, TypeOK, Request
<1> SUFFICES TypeOK'
  BY <1>b DEF TypeInv
<1>c. ASSUME MoveColumn(h)
      PROVE  db' \in [Users -> Int] /\ due' \in [Users -> Int]
  BY <1>0, <1>c DEF TypeOK, MoveColumn
<1>d. ASSUME TellEngine(h)
      PROVE  mem' \in [Users -> Int] /\ saved' \in [Users -> Int]
  BY <1>0, <1>d DEF TypeOK, TellEngine
<1>1. ASSUME NEW u \in Users, NEW amount \in Amounts, Check(h, u, amount) PROVE TypeOK'
  <2>1. [pc |-> "checked", user |-> u, amount |-> amount] \in Request
    BY EngineBalanceAssumption DEF Request
  <2> QED BY <1>0, <1>1, <2>1 DEF TypeOK, Check
<1>2. CASE Commit(h)
  <2>1. [handler[h] EXCEPT !.pc = "tell"] \in Request
    BY <1>0 DEF Request
  <2> QED BY <1>0, <1>2, <1>c, <2>1 DEF TypeOK, Commit
<1>3. CASE TellAfter(h)
  BY <1>0, <1>3, <1>d DEF TypeOK, TellAfter
<1>4. CASE TellBefore(h)
  <2>1. [handler[h] EXCEPT !.pc = "commit"] \in Request
    BY <1>0 DEF Request
  <2> QED BY <1>0, <1>4, <1>d, <2>1 DEF TypeOK, TellBefore
<1>5. CASE CommitTold(h)
  BY <1>0, <1>5, <1>c DEF TypeOK, CommitTold
<1>6. CASE HandlerThrows(h)
  BY <1>0, <1>6 DEF TypeOK, HandlerThrows, Fault
<1> QED BY <1>1, <1>2, <1>3, <1>4, <1>5, <1>6 DEF HandlerStep

LEMMA BlockTyped ==
    ASSUME TypeInv, BlockStep
    PROVE  TypeInv'
<1> USE IdleTyped
<1>a. UNCHANGED <<online, save, load, handler>>
  BY DEF BlockStep, Distribute, CommitBlock, TellReferrers, RollBack
<1>b. LoadsSomeone'
  BY <1>a DEF TypeInv, LoadsSomeone
<1>0. TypeOK /\ block \in Block /\ block.workers \subseteq Users /\ block.snapshot \in [Users -> Int]
  BY DEF TypeInv, TypeOK, Block
<1> SUFFICES TypeOK'
  BY <1>b DEF TypeInv
<1>1. ASSUME NEW workers \in SUBSET online, Distribute(workers) PROVE TypeOK'
  <2>1. [pc |-> "commit", workers |-> workers, snapshot |-> mem] \in Block
    BY <1>0 DEF TypeOK, Block
  <2>2. mem' \in [Users -> Int] /\ saved' \in [Users -> Int]
    BY <1>0, <1>1, EngineBalanceAssumption DEF TypeOK, Distribute
  <2> QED BY <1>0, <1>1, <2>1, <2>2 DEF TypeOK, Distribute
<1>2. CASE CommitBlock
  <2>1. [block EXCEPT !.pc = "tell"] \in Block
    BY <1>0 DEF Block
  <2>2. db' \in [Users -> Int] /\ due' \in [Users -> Int]
    BY <1>0, <1>2, EarningsTyped DEF TypeOK, CommitBlock
  <2> QED BY <1>0, <1>2, <2>1, <2>2 DEF TypeOK, CommitBlock
<1>3. CASE TellReferrers
  <2>1. mem' \in [Users -> Int] /\ saved' \in [Users -> Int]
    BY <1>0, <1>3, EarningsTyped DEF TypeOK, TellReferrers
  <2> QED BY <1>0, <1>3, <2>1 DEF TypeOK, TellReferrers
<1>4. CASE RollBack
  <2>1. mem' \in [Users -> Int]
    BY <1>0, <1>4 DEF TypeOK, RollBack
  <2> QED BY <1>0, <1>4, <2>1 DEF TypeOK, RollBack, Fault
<1> QED BY <1>1, <1>2, <1>3, <1>4 DEF BlockStep

LEMMA CrashTyped ==
    ASSUME TypeInv, Crash
    PROVE  TypeInv'
<1>1. IdleLoad.pc = "idle"
  BY DEF IdleLoad
<1> QED BY <1>1, IdleTyped DEF TypeInv, TypeOK, LoadsSomeone, Crash, Fault

LEMMA InitTyped == Init => TypeInv
<1> SUFFICES ASSUME Init PROVE TypeInv
  OBVIOUS
<1>1. db \in [Users -> Int]
  <2>1. db \in [Users -> Funds] /\ Funds \subseteq Nat
    BY EngineBalanceAssumption DEF Init
  <2>2. \A u \in Users : db[u] \in Nat
    BY <2>1
  <2>3. \A n \in Nat : n \in Int
    OBVIOUS
  <2> QED BY <2>1, <2>2, <2>3
<1>2. mem \in [Users -> Int]
  BY <1>1 DEF Init
<1>3. IdleLoad.pc = "idle"
  BY DEF IdleLoad
<1>4. /\ save \in [Users -> [Savers -> Save]] /\ load \in [Loads -> Load]
      /\ handler \in [Handlers -> Request] /\ block \in Block
  BY IdleTyped DEF Init
<1>5. LoadsSomeone
  BY <1>3 DEF Init, LoadsSomeone
<1>6. /\ saved \in [Users -> Int] /\ due \in [Users -> Int]
      /\ online \in SUBSET Users /\ faults \in Nat
  <2>1. saved = mem /\ due = db /\ faults = 0 /\ online \in SUBSET Users
    BY DEF Init
  <2> QED BY <1>1, <1>2, <2>1
<1> QED BY <1>1, <1>2, <1>4, <1>5, <1>6 DEF TypeInv, TypeOK

LEMMA NextTyped == TypeInv /\ [Next]_vars => TypeInv'
<1> SUFFICES ASSUME TypeInv, [Next]_vars PROVE TypeInv'
  OBVIOUS
<1>1. CASE UNCHANGED vars
  BY <1>1 DEF TypeInv, TypeOK, LoadsSomeone, vars
<1> QED BY <1>1, BoostTyped, SaveTyped, LoadTyped, HandlerTyped, BlockTyped, CrashTyped DEF Next

(* Type correctness, for all constants.                                     *)
THEOREM TypeCorrect == Spec => []TypeOK
<1>1. TypeInv => TypeOK
  BY DEF TypeInv
<1> QED BY InitTyped, NextTyped, <1>1, PTL DEF Spec

-----------------------------------------------------------------------------
(* Nothing is lost.                                                         *)

(* No two saves of one user overlap: those of different users may, in any   *)
(* number.                                                                  *)
SavesFollow ==
    \A u \in Users : \A p, q \in Savers :
      save[u][p].pc # "idle" /\ save[u][q].pc # "idle" => p = q

(* Memory is never ahead of what it has saved but by charges; and the       *)
(* column covers what is due with what is unsaved added, with what a save   *)
(* is about to write added, and once a save has written as it is.           *)
Covered(u) ==
    /\ mem[u] <= saved[u]
    /\ Marked(u) => db[u] + mem[u] - saved[u] >= due[u]
    /\ \A p \in Savers :
         /\ save[u][p].pc = "write" => /\ save[u][p].delta <= 0
                                       /\ db[u] + save[u][p].delta >= due[u]
         /\ save[u][p].pc = "ack" => db[u] >= due[u]

CoverInv == \A u \in Users : Covered(u)

\* What the actions add to and take from, as numbers.
LEMMA Numbers ==
    ASSUME TypeInv, NEW u \in Users
    PROVE  /\ db[u] \in Int /\ mem[u] \in Int /\ saved[u] \in Int /\ due[u] \in Int
           /\ \A p \in Savers : save[u][p].delta \in Int
BY DEF TypeInv, TypeOK, Save

(* A step that moves nothing of a user's, or only moves column and due      *)
(* alike, or memory and lastPersistedBalance alike, or drops charges due.   *)
LEMMA CoverKept ==
    ASSUME TypeInv, TypeInv', NEW u \in Users, Covered(u),
           save'[u] = save[u],
           db'[u] - db[u] >= due'[u] - due[u],
           mem'[u] <= saved'[u],
           (db'[u] - db[u]) + (mem'[u] - saved'[u]) - (mem[u] - saved[u]) >= due'[u] - due[u]
    PROVE  Covered(u)'
<1>1. /\ db[u] \in Int /\ mem[u] \in Int /\ saved[u] \in Int /\ due[u] \in Int
      /\ \A p \in Savers : save[u][p].delta \in Int
  BY Numbers
<1>2. db'[u] \in Int /\ mem'[u] \in Int /\ saved'[u] \in Int /\ due'[u] \in Int
  BY DEF TypeInv, TypeOK
<1>3. Marked(u)' <=> Marked(u)
  BY DEF Marked
<1>4. Marked(u)' => db'[u] + mem'[u] - saved'[u] >= due'[u]
  BY <1>1, <1>2, <1>3 DEF Covered
<1>5. ASSUME NEW p \in Savers
      PROVE  /\ save'[u][p].pc = "write" => /\ save'[u][p].delta <= 0
                                            /\ db'[u] + save'[u][p].delta >= due'[u]
             /\ save'[u][p].pc = "ack" => db'[u] >= due'[u]
  BY <1>1, <1>2 DEF Covered
<1> QED BY <1>4, <1>5 DEF Covered

LEMMA BoostCovers ==
    ASSUME TypeInv, CoverInv, TypeInv', NEW v \in Users, Boost(v)
    PROVE  CoverInv'
<1> SUFFICES ASSUME NEW u \in Users PROVE Covered(u)'
  BY DEF CoverInv
<1>1. Covered(u) /\ db[u] \in Int /\ mem[u] \in Int /\ saved[u] \in Int /\ due[u] \in Int
  BY Numbers DEF CoverInv
<1>2. /\ db'[u] = db[u] /\ saved'[u] = saved[u] /\ save'[u] = save[u]
      /\ \/ mem'[u] = mem[u] /\ due'[u] = due[u]
         \/ mem'[u] = mem[u] - BoostCost /\ due'[u] = due[u] - BoostCost
  BY DEF Boost, Charge, TypeInv, TypeOK
<1>3. BoostCost \in Nat
  BY EngineBalanceAssumption
<1>4. mem[u] <= saved[u]
  BY <1>1 DEF Covered
<1>5. /\ db'[u] - db[u] >= due'[u] - due[u]
      /\ mem'[u] <= saved'[u]
      /\ (db'[u] - db[u]) + (mem'[u] - saved'[u]) - (mem[u] - saved[u]) >= due'[u] - due[u]
  BY <1>1, <1>2, <1>3, <1>4
<1> QED BY <1>1, <1>2, <1>5, CoverKept

LEMMA SaveCovers ==
    ASSUME TypeInv, CoverInv, TypeInv', SavesFollow, SavesFollow',
           NEW v \in Users, NEW p \in Savers, SaveStep(v, p)
    PROVE  CoverInv'
<1> SUFFICES ASSUME NEW u \in Users PROVE Covered(u)'
  BY DEF CoverInv
<1>0. Covered(u) /\ db[u] \in Int /\ mem[u] \in Int /\ saved[u] \in Int /\ due[u] \in Int
  BY Numbers DEF CoverInv
<1>1. CASE u # v
  <2>1. /\ save'[u] = save[u] /\ db'[u] = db[u] /\ mem'[u] = mem[u]
        /\ saved'[u] = saved[u] /\ due'[u] = due[u]
    BY <1>1 DEF SaveStep, Upgrade, Charge, StartSave, WriteSave, FinishSave, SaveThrows,
                TypeInv, TypeOK
  <2>2. mem[u] <= saved[u]
    BY <1>0 DEF Covered
  <2> QED BY <1>0, <2>1, <2>2, CoverKept
<1>2. CASE u = v
  <2>1. IdleSave.pc = "idle"
    BY DEF IdleSave
  <2>2. CASE save'[u] = save[u] /\ Charge(u, UpgradeCost) /\ db' = db /\ saved' = saved
    <3>1. /\ db'[u] = db[u] /\ saved'[u] = saved[u] /\ UpgradeCost \in Nat
          /\ mem'[u] = mem[u] - UpgradeCost /\ due'[u] = due[u] - UpgradeCost
      BY <2>2, EngineBalanceAssumption DEF Charge, TypeInv, TypeOK
    <3>2. /\ db'[u] - db[u] >= due'[u] - due[u]
          /\ mem'[u] <= saved'[u]
          /\ (db'[u] - db[u]) + (mem'[u] - saved'[u]) - (mem[u] - saved[u]) >= due'[u] - due[u]
      BY <1>0, <3>1 DEF Covered
    <3> QED BY <1>0, <2>2, <3>2, CoverKept
  <2>3. SUFFICES ASSUME ~(save'[u] = save[u] /\ Charge(u, UpgradeCost) /\ db' = db /\ saved' = saved)
                 PROVE  Covered(u)'
    BY <2>2
  <2>4. \A q \in Savers \ {p} : save'[u][q] = save[u][q]
    BY <1>2 DEF SaveStep, Upgrade, StartSave, WriteSave, FinishSave, SaveThrows, TypeInv, TypeOK
  <2>5. save[u][p].pc # "idle" \/ save'[u][p].pc # "idle"
    <3>1. CASE Upgrade(v, p)
      <4>1. CASE mem'[v] = saved[v]
        <5>1. save' = [save EXCEPT ![u][p] = IdleSave] /\ save[u][p] = IdleSave
          BY <1>2, <3>1, <4>1 DEF Upgrade
        <5>2. save'[u] = save[u]
          BY <5>1 DEF TypeInv, TypeOK
        <5> QED BY <1>2, <2>3, <3>1, <5>2 DEF Upgrade
      <4> QED BY <1>2, <3>1, <4>1 DEF Upgrade, TypeInv, TypeOK
    <3>2. CASE StartSave(v, p)
      BY <1>2, <3>2 DEF StartSave, TypeInv, TypeOK
    <3> QED BY <1>2, <3>1, <3>2 DEF SaveStep, WriteSave, FinishSave, SaveThrows
  <2>6. \A q \in Savers \ {p} : save[u][q].pc = "idle" /\ save'[u][q].pc = "idle"
    BY <2>4, <2>5 DEF SavesFollow
  <2>7. /\ mem[u] <= saved[u]
        /\ save[u][p].pc # "ack" => db[u] + mem[u] - saved[u] >= due[u]
        /\ save[u][p].pc = "write" => /\ save[u][p].delta <= 0
                                      /\ db[u] + save[u][p].delta >= due[u]
        /\ save[u][p].pc = "ack" => db[u] >= due[u]
    BY <1>0, <2>6 DEF Covered, Marked
  <2>8. SUFFICES
        /\ mem'[u] <= saved'[u]
        /\ save'[u][p].pc # "ack" => db'[u] + mem'[u] - saved'[u] >= due'[u]
        /\ save'[u][p].pc = "write" => /\ save'[u][p].delta <= 0
                                       /\ db'[u] + save'[u][p].delta >= due'[u]
        /\ save'[u][p].pc = "ack" => db'[u] >= due'[u]
    <3>1. ASSUME NEW q \in Savers, q # p
          PROVE  save'[u][q].pc # "write" /\ save'[u][q].pc # "ack"
      BY <2>6, <3>1
    <3> QED BY <3>1 DEF Covered, Marked
  <2>9. /\ IdleSave.pc = "idle"
        /\ save[u][p].delta \in Int
        /\ save[u] \in [Savers -> Save]
    BY Numbers DEF IdleSave, TypeInv, TypeOK
  <2>10. CASE Upgrade(v, p)
    <3>1. /\ db'[u] = db[u] /\ saved'[u] = saved[u]
          /\ mem'[u] = mem[u] - UpgradeCost /\ due'[u] = due[u] - UpgradeCost
      BY <1>2, <2>10 DEF Upgrade, Charge, TypeInv, TypeOK
    <3>2. save'[u][p] \in {IdleSave, [pc |-> "write", delta |-> mem'[u] - saved[u]]}
      BY <1>2, <2>9, <2>10 DEF Upgrade, TypeInv, TypeOK
    <3>3. UpgradeCost \in Nat /\ save[u][p].pc = "idle"
      BY <1>2, <2>9, <2>10, EngineBalanceAssumption DEF Upgrade
    <3>4. db'[u] + mem'[u] - saved'[u] >= due'[u] /\ mem'[u] <= saved'[u]
      BY <1>0, <2>7, <3>1, <3>3
    <3>5. CASE save'[u][p] = IdleSave
      BY <2>9, <3>4, <3>5
    <3>6. CASE save'[u][p] = [pc |-> "write", delta |-> mem'[u] - saved[u]]
      <4>1. save'[u][p].pc = "write" /\ save'[u][p].delta = mem'[u] - saved[u]
        BY <3>6
      <4> QED BY <1>0, <3>1, <3>3, <3>4, <4>1
    <3> QED BY <3>2, <3>5, <3>6
  <2>11. CASE StartSave(v, p)
    <3>1. /\ db'[u] = db[u] /\ saved'[u] = saved[u] /\ mem'[u] = mem[u] /\ due'[u] = due[u]
          /\ save[u][p].pc = "idle"
      BY <1>2, <2>9, <2>11 DEF StartSave
    <3>2. save'[u][p].pc = "write" /\ save'[u][p].delta = mem[u] - saved[u]
      BY <1>2, <2>9, <2>11 DEF StartSave, TypeInv, TypeOK
    <3> QED BY <1>0, <2>7, <3>1, <3>2
  <2>12. CASE WriteSave(v, p)
    <3>1. /\ saved'[u] = saved[u] /\ mem'[u] = mem[u] /\ due'[u] = due[u]
          /\ save[u][p].pc = "write" /\ db'[u] = db[u] + save[u][p].delta
      BY <1>2, <2>12 DEF WriteSave, TypeInv, TypeOK
    <3>2. save'[u][p].pc = "ack"
      BY <1>2, <2>9, <2>12 DEF WriteSave, TypeInv, TypeOK, Save
    <3> QED BY <1>0, <2>7, <2>9, <3>1, <3>2
  <2>13. CASE FinishSave(v, p)
    <3>1. /\ db'[u] = db[u] /\ saved'[u] = mem[u] /\ mem'[u] = mem[u] /\ due'[u] = due[u]
          /\ save[u][p].pc = "ack"
      BY <1>2, <2>13 DEF FinishSave, TypeInv, TypeOK
    <3>2. save'[u][p].pc = "idle"
      BY <1>2, <2>9, <2>13 DEF FinishSave, TypeInv, TypeOK
    <3> QED BY <1>0, <2>7, <3>1, <3>2
  <2>14. CASE SaveThrows(v, p)
    <3>1. /\ db'[u] = db[u] /\ saved'[u] = saved[u] /\ mem'[u] = mem[u] /\ due'[u] = due[u]
          /\ save[u][p].pc = "write"
      BY <1>2, <2>14 DEF SaveThrows
    <3>2. save'[u][p].pc = "idle"
      BY <1>2, <2>9, <2>14 DEF SaveThrows, TypeInv, TypeOK
    <3> QED BY <1>0, <2>7, <3>1, <3>2
  <2> QED BY <2>10, <2>11, <2>12, <2>13, <2>14 DEF SaveStep
<1> QED BY <1>1, <1>2

LEMMA LoadCovers ==
    ASSUME TypeInv, CoverInv, TypeInv', NEW l \in Loads,
           ApplyLoad(l) \/ \E v \in Users : StartLoad(l, v)
    PROVE  CoverInv'
<1> SUFFICES ASSUME NEW u \in Users PROVE Covered(u)'
  BY DEF CoverInv
<1>0. Covered(u) /\ db[u] \in Int /\ mem[u] \in Int /\ saved[u] \in Int /\ due[u] \in Int
  BY Numbers DEF CoverInv
<1>1. db'[u] = db[u] /\ due'[u] = due[u] /\ save'[u] = save[u]
  BY DEF ApplyLoad, StartLoad
<1>2. \/ mem'[u] = mem[u] /\ saved'[u] = saved[u]
      \/ mem'[u] = load[l].balance /\ saved'[u] = load[l].balance
  BY DEF ApplyLoad, StartLoad, TakeBalance, TypeInv, TypeOK
<1>3. load[l].balance \in Int /\ mem[u] <= saved[u]
  BY <1>0 DEF TypeInv, TypeOK, Load, Covered
<1>4. /\ db'[u] - db[u] >= due'[u] - due[u]
      /\ mem'[u] <= saved'[u]
      /\ (db'[u] - db[u]) + (mem'[u] - saved'[u]) - (mem[u] - saved[u]) >= due'[u] - due[u]
  BY <1>0, <1>1, <1>2, <1>3
<1> QED BY <1>0, <1>1, <1>4, CoverKept

LEMMA HandlerCovers ==
    ASSUME TypeInv, CoverInv, TypeInv', NEW h \in Handlers, HandlerStep(h)
    PROVE  CoverInv'
<1> SUFFICES ASSUME NEW u \in Users PROVE Covered(u)'
  BY DEF CoverInv
<1>0. Covered(u) /\ db[u] \in Int /\ mem[u] \in Int /\ saved[u] \in Int /\ due[u] \in Int
  BY Numbers DEF CoverInv
<1>1. save'[u] = save[u]
  BY DEF HandlerStep, Check, Commit, TellAfter, TellBefore, CommitTold, HandlerThrows
<1>2. \/ db'[u] = db[u] /\ due'[u] = due[u]
      \/ db'[u] = db[u] + handler[h].amount /\ due'[u] = due[u] + handler[h].amount
  BY DEF HandlerStep, Check, Commit, TellAfter, TellBefore, CommitTold, HandlerThrows,
         MoveColumn, TypeInv, TypeOK
<1>3. \/ mem'[u] = mem[u] /\ saved'[u] = saved[u]
      \/ mem'[u] = mem[u] + handler[h].amount /\ saved'[u] = saved[u] + handler[h].amount
  BY DEF HandlerStep, Check, Commit, TellAfter, TellBefore, CommitTold, HandlerThrows,
         TellEngine, TypeInv, TypeOK
<1>4. handler[h].amount \in Int /\ mem[u] <= saved[u]
  BY <1>0 DEF TypeInv, TypeOK, Request, Covered
<1>5. /\ db'[u] - db[u] = due'[u] - due[u]
      /\ mem'[u] - saved'[u] = mem[u] - saved[u]
      /\ db'[u] \in Int /\ due'[u] \in Int /\ mem'[u] \in Int /\ saved'[u] \in Int
  BY <1>0, <1>2, <1>3, <1>4
<1>6. /\ db'[u] - db[u] >= due'[u] - due[u]
      /\ mem'[u] <= saved'[u]
      /\ (db'[u] - db[u]) + (mem'[u] - saved'[u]) - (mem[u] - saved[u]) >= due'[u] - due[u]
  BY <1>0, <1>4, <1>5
<1> QED BY <1>0, <1>1, <1>6, CoverKept

LEMMA BlockCovers ==
    ASSUME TypeInv, CoverInv, TypeInv', BlockStep, "block" \notin FaultKinds
    PROVE  CoverInv'
<1> SUFFICES ASSUME NEW u \in Users PROVE Covered(u)'
  BY DEF CoverInv
<1>0. /\ Covered(u) /\ db[u] \in Int /\ mem[u] \in Int /\ saved[u] \in Int /\ due[u] \in Int
      /\ mem[u] <= saved[u]
  BY Numbers DEF CoverInv, Covered
<1>1. save'[u] = save[u]
  BY DEF BlockStep, Distribute, CommitBlock, TellReferrers, RollBack
<1>2. PICK paid \in Int, told \in Int :
        /\ db'[u] = db[u] + paid /\ due'[u] = due[u] + paid
        /\ mem'[u] = mem[u] + told /\ saved'[u] = saved[u] + told
  <2>0. Commissions(u) \in Int /\ Earned(u) \in Int /\ Reward \in Int /\ 0 \in Int
    BY EarningsTyped, EngineBalanceAssumption DEF TypeInv
  <2>1. CASE \E workers \in SUBSET online : Distribute(workers)
    <3>1. /\ db'[u] = db[u] + 0 /\ due'[u] = due[u] + 0
          /\ \/ mem'[u] = mem[u] + 0 /\ saved'[u] = saved[u] + 0
             \/ mem'[u] = mem[u] + Reward /\ saved'[u] = saved[u] + Reward
      BY <1>0, <2>1 DEF Distribute
    <3> QED BY <2>0, <3>1
  <2>2. CASE CommitBlock
    <3>1. /\ db'[u] = db[u] + Earned(u) /\ due'[u] = due[u] + Earned(u)
          /\ mem'[u] = mem[u] + 0 /\ saved'[u] = saved[u] + 0
      BY <1>0, <2>2 DEF CommitBlock
    <3> QED BY <2>0, <3>1
  <2>3. CASE TellReferrers
    <3>1. /\ db'[u] = db[u] + 0 /\ due'[u] = due[u] + 0
          /\ \/ mem'[u] = mem[u] + 0 /\ saved'[u] = saved[u] + 0
             \/ mem'[u] = mem[u] + Commissions(u) /\ saved'[u] = saved[u] + Commissions(u)
      BY <1>0, <2>3 DEF TellReferrers
    <3> QED BY <2>0, <3>1
  <2> QED BY <2>1, <2>2, <2>3 DEF BlockStep, RollBack, Fault
<1>3. /\ db'[u] - db[u] >= due'[u] - due[u]
      /\ mem'[u] <= saved'[u]
      /\ (db'[u] - db[u]) + (mem'[u] - saved'[u]) - (mem[u] - saved[u]) >= due'[u] - due[u]
  BY <1>0, <1>2
<1> QED BY <1>0, <1>1, <1>3, CoverKept

LEMMA CrashCovers ==
    ASSUME TypeInv, CoverInv, TypeInv', Crash
    PROVE  CoverInv'
<1> SUFFICES ASSUME NEW u \in Users PROVE Covered(u)'
  BY DEF CoverInv
<1>0. Covered(u) /\ db[u] \in Int /\ mem[u] \in Int /\ saved[u] \in Int /\ due[u] \in Int
  BY Numbers DEF CoverInv
<1>1. /\ db'[u] = db[u] /\ due'[u] = due[u] /\ mem'[u] = 0 /\ saved'[u] = 0
      /\ \A p \in Savers : save'[u][p].pc = "idle"
  BY DEF Crash, IdleSave
<1>2. db[u] >= due[u]
  BY <1>0 DEF Covered, Marked
<1> QED BY <1>0, <1>1, <1>2 DEF Covered

LEMMA InitCovers == Init => CoverInv
<1> SUFFICES ASSUME Init, NEW u \in Users PROVE Covered(u)
  BY DEF CoverInv
<1>1. /\ db[u] \in Int /\ mem[u] \in Int /\ mem[u] = saved[u] /\ due[u] = db[u]
      /\ \A p \in Savers : save[u][p].pc = "idle"
  BY InitTyped, Numbers DEF Init, IdleSave
<1> QED BY <1>1 DEF Covered

LEMMA NextCovers ==
    ASSUME "block" \notin FaultKinds
    PROVE  TypeInv /\ CoverInv /\ SavesFollow /\ SavesFollow' /\ [Next]_vars => CoverInv'
<1> SUFFICES ASSUME TypeInv, CoverInv, SavesFollow, SavesFollow', [Next]_vars PROVE CoverInv'
  OBVIOUS
<1>0. TypeInv'
  BY NextTyped
<1>1. CASE UNCHANGED vars
  BY <1>1 DEF CoverInv, Covered, Marked, vars
<1> QED BY <1>0, <1>1, BoostCovers, SaveCovers, LoadCovers, HandlerCovers, BlockCovers,
           CrashCovers DEF Next

(* In any run where the saves of a miner follow one another and no block's  *)
(* transaction fails, a user's balance holds all that is due, whatever      *)
(* joins, reloads, requests that fail, saves that fail and restarts         *)
(* interleave.                                                              *)
THEOREM NothingIsLost ==
    ASSUME "block" \notin FaultKinds
    PROVE  Spec /\ []SavesFollow => []NothingLost
<1>1. CoverInv => NothingLost
  BY DEF CoverInv, Covered, NothingLost
<1>2. TypeInv /\ CoverInv /\ SavesFollow /\ SavesFollow' /\ [Next]_vars => TypeInv' /\ CoverInv'
  BY NextTyped, NextCovers
<1> QED BY InitTyped, InitCovers, <1>1, <1>2, PTL DEF Spec

-----------------------------------------------------------------------------
(* The engine knows.                                                        *)

(* Nothing is loaded from the column while a miner is online, and no        *)
(* transaction of a request or a block fails.                               *)
NoReload == Loads = {} /\ FaultKinds \subseteq {"save", "crash"}

\* What a request has yet to tell the engine of a user: less than nothing when
\* it has told what it has not committed.
Untold(u) ==
    [h \in Handlers |-> IF handler[h].user # u THEN 0
                        ELSE IF handler[h].pc = "tell" THEN handler[h].amount
                        ELSE IF handler[h].pc = "commit" THEN 0 - handler[h].amount ELSE 0]

Negated(w) == [h \in Handlers |-> 0 - w[h]]

\* A number for every request, in units; those below zero have none.
UnitsOf(w) == {c \in Handlers \X Nat : 1 <= c[2] /\ c[2] <= w[c[1]]}

Finite(w) == IsFiniteSet(UnitsOf(w)) /\ IsFiniteSet(UnitsOf(Negated(w)))

Total(w) == Cardinality(UnitsOf(w)) - Cardinality(UnitsOf(Negated(w)))

\* What a block has yet to tell.
BlockUntold(u) ==
    IF block.pc = "commit" THEN (IF u \in block.workers THEN 0 - Reward ELSE 0)
    ELSE IF block.pc = "tell" THEN Commissions(u) ELSE 0

Knows(u) == Finite(Untold(u)) /\ mem[u] + Total(Untold(u)) + BlockUntold(u) = due[u]

KnowInv == \A u \in online : Knows(u)

LEMMA UnitsChanged ==
    ASSUME NEW w \in [Handlers -> Int], NEW v \in [Handlers -> Int], NEW h \in Handlers,
           \A k \in Handlers \ {h} : v[k] = w[k], IsFiniteSet(UnitsOf(w))
    PROVE  /\ IsFiniteSet(UnitsOf(v))
           /\ Cardinality(UnitsOf(v)) \in Nat /\ Cardinality(UnitsOf(w)) \in Nat
           /\ Cardinality(UnitsOf(v)) - (IF v[h] > 0 THEN v[h] ELSE 0)
                = Cardinality(UnitsOf(w)) - (IF w[h] > 0 THEN w[h] ELSE 0)
<1> DEFINE rest == {c \in UnitsOf(w) : c[1] # h}
           own(n) == {h} \X (1 .. n)
<1>1. IsFiniteSet(rest)
  BY FS_Subset
<1>2. ASSUME NEW n \in Int
      PROVE  /\ IsFiniteSet(own(n)) /\ Cardinality(own(n)) = IF n > 0 THEN n ELSE 0
             /\ IsFiniteSet(rest \cup own(n))
             /\ Cardinality(rest \cup own(n)) = Cardinality(rest) + (IF n > 0 THEN n ELSE 0)
  <2>1. IsFiniteSet(1 .. n) /\ Cardinality(1 .. n) = IF n > 0 THEN n ELSE 0
    <3>1. 1 \in Int /\ IsFiniteSet(1 .. n) /\ Cardinality(1 .. n) = IF 1 > n THEN 0 ELSE n - 1 + 1
      BY FS_Interval
    <3> QED BY <3>1
  <2>2. IsFiniteSet({h}) /\ Cardinality({h}) = 1
    BY FS_Singleton
  <2>3. IsFiniteSet(own(n)) /\ Cardinality(own(n)) = Cardinality({h}) * Cardinality(1 .. n)
    BY <2>1, <2>2, FS_Product
  <2>4. IsFiniteSet(own(n)) /\ Cardinality(own(n)) = IF n > 0 THEN n ELSE 0
    BY <2>1, <2>2, <2>3
  <2>5. rest \cap own(n) = {}
    OBVIOUS
  <2>6. /\ IsFiniteSet(rest \cup own(n))
        /\ Cardinality(rest \cup own(n)) = Cardinality(rest) + Cardinality(own(n)) - Cardinality(rest \cap own(n))
    BY <1>1, <2>4, FS_Union
  <2>7. Cardinality(rest \cap own(n)) = 0
    BY <2>5, FS_EmptySet
  <2>8. Cardinality(rest) \in Nat /\ Cardinality(own(n)) \in Nat
    BY <1>1, <2>4, FS_CardinalityType
  <2> QED BY <2>4, <2>6, <2>7, <2>8
<1>3. UnitsOf(w) = rest \cup own(w[h])
  BY DEF UnitsOf
<1>4. UnitsOf(v) = rest \cup own(v[h])
  BY DEF UnitsOf
<1>5. w[h] \in Int /\ v[h] \in Int /\ Cardinality(rest) \in Nat
  BY <1>1, FS_CardinalityType
<1> HIDE DEF rest, own
<1>6. /\ IsFiniteSet(UnitsOf(v)) /\ Cardinality(UnitsOf(v)) = Cardinality(rest) + (IF v[h] > 0 THEN v[h] ELSE 0)
      /\ Cardinality(UnitsOf(w)) = Cardinality(rest) + (IF w[h] > 0 THEN w[h] ELSE 0)
  BY <1>2, <1>3, <1>4, <1>5
<1> QED BY <1>5, <1>6

LEMMA TotalChanged ==
    ASSUME NEW w \in [Handlers -> Int], NEW v \in [Handlers -> Int], NEW h \in Handlers,
           \A k \in Handlers \ {h} : v[k] = w[k], Finite(w)
    PROVE  Finite(v) /\ Total(w) \in Int /\ Total(v) \in Int /\ Total(v) - v[h] = Total(w) - w[h]
<1>1. /\ Negated(w) \in [Handlers -> Int] /\ Negated(v) \in [Handlers -> Int]
      /\ \A k \in Handlers \ {h} : Negated(v)[k] = Negated(w)[k]
      /\ Negated(w)[h] = 0 - w[h] /\ Negated(v)[h] = 0 - v[h]
      /\ w[h] \in Int /\ v[h] \in Int
  BY DEF Negated
<1>2. /\ IsFiniteSet(UnitsOf(v))
      /\ Cardinality(UnitsOf(v)) \in Nat /\ Cardinality(UnitsOf(w)) \in Nat
      /\ Cardinality(UnitsOf(v)) - (IF v[h] > 0 THEN v[h] ELSE 0)
           = Cardinality(UnitsOf(w)) - (IF w[h] > 0 THEN w[h] ELSE 0)
  BY UnitsChanged DEF Finite
<1>3. /\ IsFiniteSet(UnitsOf(Negated(v)))
      /\ Cardinality(UnitsOf(Negated(v))) \in Nat /\ Cardinality(UnitsOf(Negated(w))) \in Nat
      /\ Cardinality(UnitsOf(Negated(v))) - (IF 0 - v[h] > 0 THEN 0 - v[h] ELSE 0)
           = Cardinality(UnitsOf(Negated(w))) - (IF 0 - w[h] > 0 THEN 0 - w[h] ELSE 0)
  BY <1>1, UnitsChanged DEF Finite
<1> QED BY <1>1, <1>2, <1>3 DEF Finite, Total

LEMMA UntoldTyped == ASSUME TypeInv, NEW u PROVE Untold(u) \in [Handlers -> Int]
BY DEF TypeInv, TypeOK, Request, Untold

LEMMA NothingUntold ==
    ASSUME NEW w \in [Handlers -> Int], \A h \in Handlers : w[h] = 0
    PROVE  Finite(w) /\ Total(w) = 0
<1>1. UnitsOf(w) = {} /\ UnitsOf(Negated(w)) = {}
  BY DEF UnitsOf, Negated
<1> QED BY <1>1, FS_EmptySet DEF Finite, Total

LEMMA BlockUntoldTyped == ASSUME TypeInv, NEW u \in Users PROVE BlockUntold(u) \in Int
BY EarningsTyped, EngineBalanceAssumption DEF TypeInv, BlockUntold

(* A step of one request.                                                   *)
LEMMA RequestKnows ==
    ASSUME NoReload, TypeInv, TypeInv', KnowInv, NEW h \in Handlers, HandlerStep(h)
    PROVE  KnowInv'
<1> SUFFICES ASSUME NEW u \in online PROVE Knows(u)'
  BY DEF HandlerStep, Check, Commit, TellAfter, TellBefore, CommitTold, HandlerThrows, KnowInv
<1>0. /\ u \in Users /\ Knows(u) /\ UNCHANGED block /\ BlockUntold(u) \in Int
      /\ mem[u] \in Int /\ due[u] \in Int /\ mem'[u] \in Int /\ due'[u] \in Int
      /\ Untold(u) \in [Handlers -> Int] /\ Untold(u)' \in [Handlers -> Int]
  <2>1. u \in Users /\ Knows(u)
    BY DEF TypeInv, TypeOK, KnowInv
  <2>2. UNCHANGED block
    BY DEF HandlerStep, Check, Commit, TellAfter, TellBefore, CommitTold, HandlerThrows
  <2>3. Untold(u) \in [Handlers -> Int]
    BY UntoldTyped
  <2>4. Untold(u)' \in [Handlers -> Int]
    BY DEF TypeInv, TypeOK, Request, Untold
  <2> QED BY <2>1, <2>2, <2>3, <2>4, BlockUntoldTyped DEF TypeInv, TypeOK
<1>1. BlockUntold(u)' = BlockUntold(u)
  BY <1>0 DEF BlockUntold, Commissions, Referred
<1> DEFINE a == handler[h].amount
           own == Untold(u)[h]
           own1 == Untold(u)'[h]
<1>2. \A k \in Handlers \ {h} : handler'[k] = handler[k]
  BY DEF HandlerStep, Check, Commit, TellAfter, TellBefore, CommitTold, HandlerThrows, TypeInv, TypeOK
<1>3. \A k \in Handlers \ {h} : Untold(u)'[k] = Untold(u)[k]
  BY <1>2 DEF Untold
<1>4. own \in Int /\ own1 \in Int
  BY <1>0
<1>5. Finite(Untold(u)') /\ Total(Untold(u)) \in Int /\ Total(Untold(u)') \in Int
      /\ Total(Untold(u)') - own1 = Total(Untold(u)) - own
  <2>1. PICK w \in [Handlers -> Int], v \in [Handlers -> Int] : w = Untold(u) /\ v = Untold(u)'
    BY <1>0
  <2>2. Finite(w)
    BY <1>0, <2>1 DEF Knows
  <2> QED BY <1>3, <2>1, <2>2, TotalChanged
<1>6. mem'[u] + own1 - due'[u] = mem[u] + own - due[u]
  <2>0. a \in Int /\ own = (IF handler[h].user # u THEN 0
                            ELSE IF handler[h].pc = "tell" THEN a
                            ELSE IF handler[h].pc = "commit" THEN 0 - a ELSE 0)
        /\ own1 = (IF handler'[h].user # u THEN 0
                   ELSE IF handler'[h].pc = "tell" THEN handler'[h].amount
                   ELSE IF handler'[h].pc = "commit" THEN 0 - handler'[h].amount ELSE 0)
        /\ handler[h] \in Request
    BY DEF TypeInv, TypeOK, Request, Untold
  <2>1. ASSUME NEW v \in Users, NEW amount \in Amounts, Check(h, v, amount)
        PROVE  mem'[u] + own1 - due'[u] = mem[u] + own - due[u]
    <3>1. handler'[h].pc = "checked" /\ handler[h].pc = "idle" /\ UNCHANGED <<mem, due>>
      BY <2>1 DEF Check, TypeInv, TypeOK, IdleRequest
    <3> QED BY <1>0, <2>0, <3>1
  <2>2. CASE Commit(h)
    <3>1. /\ handler'[h] = [handler[h] EXCEPT !.pc = "tell"] /\ handler[h].pc = "checked" /\ UNCHANGED mem
          /\ due'[u] = IF handler[h].user = u THEN due[u] + a ELSE due[u]
      BY <1>0, <2>2 DEF Commit, MoveColumn, TypeInv, TypeOK
    <3>2. handler'[h].pc = "tell" /\ handler'[h].user = handler[h].user /\ handler'[h].amount = a
      BY <2>0, <3>1 DEF Request
    <3> QED BY <1>0, <2>0, <3>1, <3>2
  <2>3. CASE TellAfter(h)
    <3>1. /\ handler'[h] = IdleRequest /\ handler[h].pc = "tell" /\ UNCHANGED due
          /\ mem'[u] = IF handler[h].user = u THEN mem[u] + a ELSE mem[u]
      BY <1>0, <2>3 DEF TellAfter, TellEngine, TypeInv, TypeOK
    <3>2. handler'[h].pc = "idle"
      BY <3>1 DEF IdleRequest
    <3> QED BY <1>0, <2>0, <3>1, <3>2
  <2>4. CASE TellBefore(h)
    <3>1. /\ handler'[h] = [handler[h] EXCEPT !.pc = "commit"] /\ handler[h].pc = "checked" /\ UNCHANGED due
          /\ mem'[u] = IF handler[h].user = u THEN mem[u] + a ELSE mem[u]
      BY <1>0, <2>4 DEF TellBefore, TellEngine, TypeInv, TypeOK
    <3>2. handler'[h].pc = "commit" /\ handler'[h].user = handler[h].user /\ handler'[h].amount = a
      BY <2>0, <3>1 DEF Request
    <3> QED BY <1>0, <2>0, <3>1, <3>2
  <2>5. CASE CommitTold(h)
    <3>1. /\ handler'[h] = IdleRequest /\ handler[h].pc = "commit" /\ UNCHANGED mem
          /\ due'[u] = IF handler[h].user = u THEN due[u] + a ELSE due[u]
      BY <1>0, <2>5 DEF CommitTold, MoveColumn, TypeInv, TypeOK
    <3>2. handler'[h].pc = "idle"
      BY <3>1 DEF IdleRequest
    <3> QED BY <1>0, <2>0, <3>1, <3>2
  <2> QED BY <2>1, <2>2, <2>3, <2>4, <2>5 DEF HandlerStep, HandlerThrows, Fault, NoReload
<1>7. mem[u] + Total(Untold(u)) + BlockUntold(u) = due[u]
  BY <1>0 DEF Knows
<1>8. mem'[u] + Total(Untold(u)') + BlockUntold(u)' = due'[u]
  BY <1>0, <1>1, <1>4, <1>5, <1>6, <1>7
<1> QED BY <1>5, <1>8 DEF Knows, Finite, Total

(* A step that leaves the requests alone and, for every miner, moves memory *)
(* and what the block has yet to tell of it as it moves what is due.        *)
LEMMA KnowKept ==
    ASSUME TypeInv, TypeInv', KnowInv, UNCHANGED <<handler, online>>,
           \A u \in online : mem'[u] + BlockUntold(u)' - due'[u] = mem[u] + BlockUntold(u) - due[u]
    PROVE  KnowInv'
<1> SUFFICES ASSUME NEW u \in online PROVE Knows(u)'
  BY DEF KnowInv
<1>1. /\ u \in Users /\ Knows(u) /\ BlockUntold(u) \in Int /\ BlockUntold(u)' \in Int
      /\ mem[u] \in Int /\ due[u] \in Int /\ mem'[u] \in Int /\ due'[u] \in Int
  <2>1. u \in Users /\ Knows(u)
    BY DEF TypeInv, TypeOK, KnowInv
  <2>2. BlockUntold(u)' \in Int
    <3>1. Referred(u)' \subseteq Users
      BY DEF TypeInv, TypeOK, Block, Referred
    <3>2. Cardinality(Referred(u)') \in Nat
      BY <3>1, FS_Subset, FS_CardinalityType, EngineBalanceAssumption
    <3>3. Commissions(u)' \in Int
      BY <3>2, EngineBalanceAssumption DEF Commissions
    <3> QED BY <3>3, EngineBalanceAssumption DEF BlockUntold
  <2> QED BY <2>1, <2>2, BlockUntoldTyped DEF TypeInv, TypeOK
<1>2. Untold(u)' = Untold(u)
  BY DEF Untold
<1>3. Finite(Untold(u)) /\ Total(Untold(u)) \in Int
  <2>1. Finite(Untold(u))
    BY <1>1 DEF Knows
  <2> QED BY <2>1, FS_CardinalityType DEF Finite, Total
<1>4. mem'[u] + Total(Untold(u)) + BlockUntold(u)' = due'[u]
  BY <1>1, <1>3 DEF Knows
<1> QED BY <1>2, <1>3, <1>4 DEF Knows, Finite, Total

LEMMA ChargeKnows ==
    ASSUME TypeInv, TypeInv', KnowInv, NEW v \in Users, NEW cost \in Nat, Charge(v, cost),
           UNCHANGED <<handler, online, block>>
    PROVE  KnowInv'
<1>1. ASSUME NEW u \in online PROVE mem'[u] + BlockUntold(u)' - due'[u] = mem[u] + BlockUntold(u) - due[u]
  <2>1. /\ u \in Users /\ mem[u] \in Int /\ due[u] \in Int
        /\ \/ mem'[u] = mem[u] /\ due'[u] = due[u]
           \/ mem'[u] = mem[u] - cost /\ due'[u] = due[u] - cost
    BY <1>1 DEF TypeInv, TypeOK, Charge
  <2>2. BlockUntold(u)' = BlockUntold(u) /\ BlockUntold(u) \in Int
    BY <2>1, BlockUntoldTyped DEF BlockUntold, Commissions, Referred
  <2> QED BY <2>1, <2>2
<1> QED BY <1>1, KnowKept

LEMMA BlockKnows ==
    ASSUME NoReload, TypeInv, TypeInv', KnowInv, BlockStep
    PROVE  KnowInv'
<1>0. UNCHANGED <<handler, online>>
  BY DEF BlockStep, Distribute, CommitBlock, TellReferrers, RollBack
<1>1. ASSUME NEW u \in online PROVE mem'[u] + BlockUntold(u)' - due'[u] = mem[u] + BlockUntold(u) - due[u]
  <2>0. /\ u \in Users /\ mem[u] \in Int /\ due[u] \in Int /\ Reward \in Int
        /\ Commissions(u) \in Int /\ BlockUntold(u) \in Int
    <3>1. u \in Users
      BY <1>1 DEF TypeInv, TypeOK
    <3> QED BY <3>1, EarningsTyped, BlockUntoldTyped, EngineBalanceAssumption DEF TypeInv, TypeOK
  <2>1. ASSUME NEW workers \in SUBSET online, Distribute(workers)
        PROVE  mem'[u] + BlockUntold(u)' - due'[u] = mem[u] + BlockUntold(u) - due[u]
    <3>1. /\ block.pc = "idle" /\ block'.pc = "commit" /\ block'.workers = workers /\ UNCHANGED due
          /\ mem'[u] = IF u \in workers THEN mem[u] + Reward ELSE mem[u]
      BY <2>0, <2>1 DEF Distribute
    <3>2. BlockUntold(u) = 0 /\ BlockUntold(u)' = IF u \in workers THEN 0 - Reward ELSE 0
      BY <3>1 DEF BlockUntold
    <3> QED BY <2>0, <3>1, <3>2
  <2>2. CASE CommitBlock
    <3>1. /\ block.pc = "commit" /\ block' = [block EXCEPT !.pc = "tell"] /\ UNCHANGED mem
          /\ due'[u] = due[u] + Earned(u)
      BY <2>0, <2>2 DEF CommitBlock
    <3>2. block'.pc = "tell" /\ block'.workers = block.workers
      BY <3>1 DEF TypeInv, TypeOK, Block
    <3>3. Commissions(u)' = Commissions(u)
      BY <3>2 DEF Commissions, Referred
    <3>4. BlockUntold(u) = (IF u \in block.workers THEN 0 - Reward ELSE 0) /\ BlockUntold(u)' = Commissions(u)
      BY <3>1, <3>2, <3>3 DEF BlockUntold
    <3>5. Earned(u) = (IF u \in block.workers THEN Reward ELSE 0) + Commissions(u)
      BY DEF Earned
    <3> QED BY <2>0, <3>1, <3>4, <3>5
  <2>3. CASE TellReferrers
    <3>1. /\ block.pc = "tell" /\ block' = NoBlock /\ UNCHANGED due
          /\ mem'[u] = mem[u] + Commissions(u)
      BY <1>1, <2>0, <2>3 DEF TellReferrers
    <3>2. BlockUntold(u) = Commissions(u) /\ BlockUntold(u)' = 0
      BY <3>1 DEF BlockUntold, NoBlock
    <3> QED BY <2>0, <3>1, <3>2
  <2> QED BY <2>1, <2>2, <2>3 DEF BlockStep, RollBack, Fault, NoReload
<1> QED BY <1>0, <1>1, KnowKept

LEMMA InitKnows == Init => KnowInv
<1> SUFFICES ASSUME Init, NEW u \in online PROVE Knows(u)
  BY DEF KnowInv
<1>1. /\ u \in Users /\ Untold(u) \in [Handlers -> Int] /\ mem[u] \in Int /\ mem[u] = due[u] /\ block.pc = "idle"
      /\ \A h \in Handlers : handler[h].pc = "idle"
  BY InitTyped, UntoldTyped DEF Init, TypeInv, TypeOK, NoBlock, IdleRequest
<1>2. \A h \in Handlers : Untold(u)[h] = 0
  BY <1>1 DEF Untold
<1>3. Finite(Untold(u)) /\ Total(Untold(u)) = 0
  BY <1>1, <1>2, NothingUntold
<1> QED BY <1>1, <1>3 DEF Knows, BlockUntold

LEMMA NextKnows ==
    ASSUME NoReload
    PROVE  TypeInv /\ KnowInv /\ [Next]_vars => KnowInv'
<1> SUFFICES ASSUME TypeInv, KnowInv, [Next]_vars PROVE KnowInv'
  OBVIOUS
<1>0. TypeInv'
  BY NextTyped
<1>1. ASSUME UNCHANGED <<online, mem, handler, block, due>> PROVE KnowInv'
  BY <1>1 DEF KnowInv, Knows, Untold, BlockUntold, Commissions, Referred, Finite, Total
<1>2. ASSUME NEW u \in Users, Boost(u) PROVE KnowInv'
  BY <1>0, <1>2, ChargeKnows, EngineBalanceAssumption DEF Boost
<1>3. ASSUME NEW u \in Users, NEW p \in Savers, SaveStep(u, p) PROVE KnowInv'
  <2>1. CASE Upgrade(u, p)
    BY <1>0, <2>1, ChargeKnows, EngineBalanceAssumption DEF Upgrade
  <2> QED BY <1>1, <1>3, <2>1 DEF SaveStep, StartSave, WriteSave, FinishSave, SaveThrows
<1>4. CASE Crash
  BY <1>4 DEF Crash, KnowInv
<1>5. CASE UNCHANGED vars
  BY <1>1, <1>5 DEF vars
<1> QED BY <1>0, <1>2, <1>3, <1>4, <1>5, RequestKnows, BlockKnows DEF Next, NoReload

(* In any run where no two saves of one miner overlap, no transaction of a  *)
(* request or a block fails and nothing is loaded again while the process   *)
(* is up, neither a miner nor the one who referred them loses anything, and *)
(* the engine's memory holds what a user is entitled to whenever no request *)
(* or block of theirs is half way, whatever requests, blocks, charges,      *)
(* saves and restarts interleave (applyUserBalanceDelta,                    *)
(* persistBlockRewards).                                                    *)
THEOREM ReferredKeep ==
    ASSUME NoReload
    PROVE  Spec /\ []SavesFollow => []ReferredSafe
<1>1. ASSUME TypeInv, KnowInv PROVE EngineKnows
  <2> SUFFICES ASSUME NEW u \in online, Quiet(u) PROVE mem[u] = due[u]
    BY DEF EngineKnows
  <2>1. u \in Users /\ mem[u] \in Int /\ Knows(u) /\ Untold(u) \in [Handlers -> Int]
    BY <1>1, UntoldTyped DEF TypeInv, TypeOK, KnowInv
  <2>2. \A h \in Handlers : Untold(u)[h] = 0
    BY DEF Quiet, Untold
  <2>3. Total(Untold(u)) = 0
    BY <2>1, <2>2, NothingUntold
  <2>4. BlockUntold(u) = 0
    BY DEF Quiet, BlockUntold
  <2> QED BY <2>1, <2>3, <2>4 DEF Knows
<1>2. TypeInv /\ CoverInv /\ KnowInv => ReferredSafe
  BY <1>1 DEF CoverInv, Covered, NothingLost, ReferredSafe
<1>3. "block" \notin FaultKinds
  BY DEF NoReload
<1>4. TypeInv /\ CoverInv /\ KnowInv /\ SavesFollow /\ SavesFollow' /\ [Next]_vars
        => TypeInv' /\ CoverInv' /\ KnowInv'
  BY <1>3, NextTyped, NextCovers, NextKnows
<1> QED BY InitTyped, InitCovers, InitKnows, <1>2, <1>4, PTL DEF Spec
=============================================================================
