------------------------------ MODULE Workshop ------------------------------
(***************************************************************************)
(* The machines of one account: in the inventory, or mounted on a slot.    *)
(* Two generations of handlers work on the same tables.  The rooms' mount  *)
(* a machine in a rack, whose slot number lies above the old ones, and     *)
(* mark the rack next to a machine of two slots as blocked by it; the old  *)
(* ones move machines among slots 0, 1, ... and send what is in the way    *)
(* to the inventory.  A row's id is its machine and how many rows the      *)
(* machine has had: a new row, a new id.                                   *)
(***************************************************************************)
EXTENDS Integers, FiniteSets

CONSTANTS
    Machines,
    Wide,          \* those of two slots; the others take one
    Owned,         \* those the account starts with, in its inventory
    NoId,
    RacksPerRoom,
    RoomMax,
    RoomPrice,     \* of a room beyond the first
    MinerPrice,
    WorkshopFunds, \* the account's balance to begin with
    OldSlots,      \* 80 in the code
    RackOffset,    \* 1000 in the code, above every old slot
    WorkshopCalls, \* handlers in flight together
    MaxWorkshopCalls,
    MaxWorkshopFaults

ASSUME WorkshopAssumption ==
    /\ Wide \subseteq Machines /\ Owned \subseteq Machines
    /\ NoId \notin Machines \X Nat
    /\ RacksPerRoom \in Nat \ {0} /\ RoomMax \in Nat \ {0}
    /\ RoomPrice \in Nat /\ MinerPrice \in Nat /\ WorkshopFunds \in Nat
    /\ OldSlots \in Nat /\ RackOffset \in Nat /\ OldSlots < RackOffset
    /\ MaxWorkshopCalls \in Nat /\ MaxWorkshopFaults \in Nat

VARIABLES
    inventory,   \* user_inventory: ids
    mounted,     \* user_miners: [id, slot, active]
    generation,  \* rows each machine has had
    rooms,       \* user_rooms: rooms 1 .. rooms
    rack,        \* user_racks: the mounted row, and the row that blocks it
    wallet,      \* the balance, and the engine's copy
    spent,       \* history: what rooms and machines have cost
    discarded,   \* history: machines whose owner deleted them
    counted,     \* ids the engine's hash rate counts
    reloadMissed,  \* history: the engine's last reload after a commit failed
    call,
    together,    \* history: two calls were in flight at once
    bypassed,    \* history: rows of racks that the old handlers moved or removed
    workshopCalls,
    workshopFaults

workshopVars == <<inventory, mounted, generation, rooms, rack, wallet, spent, discarded, counted,
                  reloadMissed, call, together, bypassed, workshopCalls, workshopFaults>>

Racks == (1 .. RoomMax) \X (0 .. RacksPerRoom - 1)
Free == [miner |-> NoId, blockedBy |-> NoId]
IdleHandler == [op |-> "none", pc |-> "idle", id |-> NoId, rack |-> <<1, 0>>, slot |-> 0, rows |-> {}]

WorkshopInit ==
    /\ inventory = {<<m, 1>> : m \in Owned}
    /\ mounted = {}
    /\ generation = [m \in Machines |-> IF m \in Owned THEN 1 ELSE 0]
    /\ rooms = 1
    /\ rack = [r \in Racks |-> Free]
    /\ wallet = [column |-> WorkshopFunds, live |-> WorkshopFunds]
    /\ spent = 0
    /\ discarded = {}
    /\ counted = {}
    /\ reloadMissed = FALSE
    /\ call = [k \in WorkshopCalls |-> IdleHandler]
    /\ together = FALSE
    /\ bypassed = {}
    /\ workshopCalls = 0
    /\ workshopFaults = 0

Size(id) == IF id[1] \in Wide THEN 2 ELSE 1
NewId(m) == <<m, generation[m] + 1>>
NewIds(ids) == {NewId(id[1]) : id \in ids}
Renewed(ids) == [m \in Machines |-> IF \E id \in ids : id[1] = m THEN generation[m] + 1 ELSE generation[m]]
MountedIds == {row.id : row \in mounted}
SlotOf(id) == (CHOOSE row \in mounted : row.id = id).slot
SlotTaken(slot, but) == \E row \in mounted : row.slot = slot /\ row.id \notin but
Active == {row.id : row \in {r \in mounted : r.active}}
RackSlot(r) == RackOffset + (r[1] - 1) * RacksPerRoom + r[2]
Unlocked(r) == r[1] <= rooms
IsFree(r) == rack[r] = Free
Next2(r) == <<r[1], r[2] + 1>>

\* user_racks.user_miner_id is set null when its row is deleted; blocked_by_miner_id is a plain number.
WithoutRows(ids) == [r \in Racks |-> IF rack[r].miner \in ids THEN [rack[r] EXCEPT !.miner = NoId] ELSE rack[r]]

-----------------------------------------------------------------------------
(* A call begins with its first read, or ends early.                        *)

Begin(k, handler) ==
    /\ call[k].pc = "idle"
    /\ workshopCalls < MaxWorkshopCalls
    /\ workshopCalls' = workshopCalls + 1
    /\ call' = [call EXCEPT ![k] = handler]
    /\ together' = (together \/ \E other \in WorkshopCalls \ {k} : call[other].pc # "idle")

Goes(k, pc) == call' = [call EXCEPT ![k].pc = pc]
Ends(k) == call' = [call EXCEPT ![k] = IdleHandler]
At(k, op, pc) == call[k].op = op /\ call[k].pc = pc

OnlyBegins == UNCHANGED <<inventory, mounted, generation, rooms, rack, wallet, spent, discarded, counted,
                          reloadMissed, bypassed, workshopFaults>>
OnlyReads == OnlyBegins /\ UNCHANGED <<together, workshopCalls>>
RowsMove == UNCHANGED <<rooms, wallet, spent, discarded, counted, reloadMissed, together, workshopCalls, workshopFaults>>

\* roomsController.installMiner
InstallReadsRack(k, r, id) ==
    /\ Begin(k, [op |-> "install", pc |-> "item", id |-> id, rack |-> r, slot |-> RackSlot(r), rows |-> {}])
    /\ Unlocked(r) /\ IsFree(r)
    /\ OnlyBegins

InstallReadsItem(k) ==
    /\ At(k, "install", "item")
    /\ IF call[k].id \notin inventory THEN Ends(k)
       ELSE Goes(k, IF Size(call[k].id) = 2 THEN "adjacent" ELSE "commit")
    /\ OnlyReads

InstallReadsAdjacent(k) ==
    LET next == Next2(call[k].rack)
    IN  /\ At(k, "install", "adjacent")
        /\ IF next \in Racks /\ IsFree(next) THEN Goes(k, "commit") ELSE Ends(k)
        /\ OnlyReads

\* The slot is unique, and a deletion of what is gone throws: both roll back.
InstallCommits(k) ==
    LET c == call[k]
        new == NewId(c.id[1])
    IN  /\ At(k, "install", "commit")
        /\ IF c.id \in inventory /\ ~SlotTaken(c.slot, {})
             THEN /\ mounted' = mounted \cup {[id |-> new, slot |-> c.slot, active |-> TRUE]}
                  /\ inventory' = inventory \ {c.id}
                  /\ generation' = Renewed({c.id})
                  /\ rack' = IF Size(c.id) = 2
                               THEN [rack EXCEPT ![c.rack].miner = new, ![Next2(c.rack)].blockedBy = new]
                               ELSE [rack EXCEPT ![c.rack].miner = new]
                  /\ Goes(k, "reload")
             ELSE /\ Ends(k)
                  /\ UNCHANGED <<inventory, mounted, generation, rack>>
        /\ UNCHANGED bypassed
        /\ RowsMove

\* roomsController.uninstallMiner
UninstallReads(k, r) ==
    /\ Begin(k, [op |-> "uninstall", pc |-> "commit", id |-> rack[r].miner, rack |-> r, slot |-> 0, rows |-> {}])
    /\ Unlocked(r) /\ rack[r].miner # NoId
    /\ OnlyBegins

ToInventory(ids) ==
    /\ mounted' = {row \in mounted : row.id \notin ids}
    /\ inventory' = inventory \cup NewIds(ids)
    /\ generation' = Renewed(ids)

UninstallCommits(k) ==
    LET c == call[k]
    IN  /\ At(k, "uninstall", "commit")
        /\ IF c.id \in MountedIds
             THEN /\ ToInventory({c.id})
                  /\ rack' = [r \in Racks |->
                               [miner |-> IF r = c.rack \/ rack[r].miner = c.id THEN NoId ELSE rack[r].miner,
                                blockedBy |-> IF r[1] = c.rack[1] /\ rack[r].blockedBy = c.id
                                                THEN NoId ELSE rack[r].blockedBy]]
                  /\ Goes(k, "reload")
             ELSE /\ Ends(k)
                  /\ UNCHANGED <<inventory, mounted, generation, rack>>
        /\ UNCHANGED bypassed
        /\ RowsMove

-----------------------------------------------------------------------------
(* The old handlers.                                                        *)

InRacks(ids) == {id \in ids : \E r \in Racks : id \in {rack[r].miner, rack[r].blockedBy}}

\* machinesController.removeMachine
RemoveReads(k, id) ==
    /\ Begin(k, [op |-> "remove", pc |-> "commit", id |-> id, rack |-> <<1, 0>>, slot |-> 0, rows |-> {}])
    /\ id \in MountedIds
    /\ OnlyBegins

RemoveForgetsRow(k) ==
    LET c == call[k]
    IN  /\ At(k, "remove", "commit")
        /\ inventory' = inventory \cup NewIds({c.id})
        /\ generation' = Renewed({c.id})
        /\ mounted' = {row \in mounted : row.id # c.id}
        /\ rack' = WithoutRows({c.id})
        /\ bypassed' = bypassed \cup InRacks({c.id})
        /\ Goes(k, "reload")
        /\ RowsMove

RemoveCommits(k) ==
    LET c == call[k]
    IN  /\ At(k, "remove", "commit")
        /\ IF c.id \in MountedIds
             THEN /\ ToInventory({c.id})
                  /\ rack' = WithoutRows({c.id})
                  /\ bypassed' = bypassed \cup InRacks({c.id})
                  /\ Goes(k, "reload")
             ELSE Ends(k) /\ UNCHANGED <<inventory, mounted, generation, rack, bypassed>>
        /\ RowsMove

ToggleReads(k, id) ==
    /\ Begin(k, [op |-> "toggle", pc |-> "commit", id |-> id, rack |-> <<1, 0>>, slot |-> 0, rows |-> {}])
    /\ id \in MountedIds
    /\ OnlyBegins

\* updateMachineActive, which throws when the row is gone.
ToggleCommits(k) ==
    LET c == call[k]
    IN  /\ At(k, "toggle", "commit")
        /\ mounted' = {IF row.id = c.id THEN [row EXCEPT !.active = ~@] ELSE row : row \in mounted}
        /\ IF c.id \in MountedIds THEN Goes(k, "reload") ELSE Ends(k)
        /\ UNCHANGED <<inventory, generation, rack, bypassed>>
        /\ RowsMove

\* moveMachine and installInventoryItem look for what stands on the target slots.
Covers(id, slot) == {slot + i : i \in 0 .. Size(id) - 1}
FitsAt(id, slot) == Size(id) = 2 => slot % 2 = 0

MoveReads(k, id, slot) ==
    /\ Begin(k, [op |-> "move", pc |-> "targets", id |-> id, rack |-> <<1, 0>>, slot |-> slot, rows |-> {}])
    /\ id \in MountedIds
    /\ FitsAt(id, slot)
    /\ OnlyBegins

PlaceReads(k, id, slot) ==
    /\ Begin(k, [op |-> "place", pc |-> "targets", id |-> id, rack |-> <<1, 0>>, slot |-> slot, rows |-> {}])
    /\ id \in inventory
    /\ FitsAt(id, slot)
    /\ OnlyBegins

ReadsFirstTarget(k) ==
    LET c == call[k]
    IN  /\ c.pc = "targets"
        /\ call' = [call EXCEPT ![k].pc = "commit",
                      ![k].rows = {row.id : row \in {r \in mounted : r.slot = c.slot /\ r.id # c.id}}]
        /\ OnlyReads

ReadsTargets(k) ==
    LET c == call[k]
    IN  /\ c.pc = "targets"
        /\ call' = [call EXCEPT ![k].pc = "commit",
                      ![k].rows = {row.id : row \in {r \in mounted : r.slot \in Covers(c.id, c.slot)
                                                                     /\ r.id # c.id}}]
        /\ OnlyReads

\* A machine of two slots that starts on the slot before, read inside the transaction.
FromBefore(c) ==
    {row.id : row \in {r \in mounted : /\ c.slot % 2 = 1 /\ r.slot = c.slot - 1
                                       /\ Size(r.id) = 2 /\ r.id \notin c.rows \cup {c.id}}}

MoveCommits(k) ==
    LET c == call[k]
        out == c.rows \cup FromBefore(c)
    IN  /\ At(k, "move", "commit")
        /\ IF c.rows \cup {c.id} \subseteq MountedIds /\ ~SlotTaken(c.slot, out \cup {c.id})
             THEN /\ mounted' = {IF row.id = c.id THEN [row EXCEPT !.slot = c.slot] ELSE row :
                                   row \in {r \in mounted : r.id \notin out}}
                  /\ inventory' = inventory \cup NewIds(out)
                  /\ generation' = Renewed(out)
                  /\ rack' = WithoutRows(out)
                  /\ bypassed' = bypassed \cup InRacks(out \cup {c.id})
                  /\ Goes(k, "reload")
             ELSE Ends(k) /\ UNCHANGED <<inventory, mounted, generation, rack, bypassed>>
        /\ RowsMove

PlaceCommits(k) ==
    LET c == call[k]
        out == c.rows \cup FromBefore(c)
    IN  /\ At(k, "place", "commit")
        /\ IF c.id \in inventory /\ c.rows \subseteq MountedIds /\ ~SlotTaken(c.slot, out)
             THEN /\ mounted' = {row \in mounted : row.id \notin out}
                                \cup {[id |-> NewId(c.id[1]), slot |-> c.slot, active |-> TRUE]}
                  /\ inventory' = (inventory \ {c.id}) \cup NewIds(out)
                  /\ generation' = Renewed(out \cup {c.id})
                  /\ rack' = WithoutRows(out)
                  /\ bypassed' = bypassed \cup InRacks(out)
                  /\ Goes(k, "reload")
             ELSE Ends(k) /\ UNCHANGED <<inventory, mounted, generation, rack, bypassed>>
        /\ RowsMove

\* removeInventoryItem is one statement.
DiscardItem(id) ==
    /\ id \in inventory
    /\ workshopCalls < MaxWorkshopCalls
    /\ workshopCalls' = workshopCalls + 1
    /\ inventory' = inventory \ {id}
    /\ discarded' = discarded \cup {id[1]}
    /\ UNCHANGED <<mounted, generation, rooms, rack, wallet, spent, counted, reloadMissed, call, together, bypassed,
                   workshopFaults>>

-----------------------------------------------------------------------------
(* Rooms, the shop, and what administrators send.                           *)

Price(room) == IF room = 1 THEN 0 ELSE RoomPrice

\* buyRoom reads the rooms, then the balance.
BuyRoomReads(k) ==
    /\ Begin(k, [op |-> "room", pc |-> "funds", id |-> NoId, rack |-> <<1, 0>>, slot |-> rooms + 1, rows |-> {}])
    /\ rooms < RoomMax
    /\ OnlyBegins

BuyRoomChecks(k) ==
    /\ At(k, "room", "funds")
    /\ IF wallet.column >= Price(call[k].slot) THEN Goes(k, "commit") ELSE Ends(k)
    /\ OnlyReads

Pays(cost) ==
    /\ wallet' = [wallet EXCEPT !.column = @ - cost]
    /\ spent' = spent + cost

\* (userId, roomNumber) is unique: a second purchase of the same room rolls back.
BuyRoomCommits(k) ==
    LET room == call[k].slot
    IN  /\ At(k, "room", "commit")
        /\ IF room > rooms THEN rooms' = room /\ Pays(Price(room)) /\ Goes(k, "tell")
           ELSE Ends(k) /\ UNCHANGED <<rooms, wallet, spent>>
        /\ UNCHANGED <<inventory, mounted, generation, rack, discarded, counted, reloadMissed, together, bypassed,
                       workshopCalls, workshopFaults>>

\* purchaseMiner: the balance is read, then everything is written.
PurchaseReads(k, m) ==
    /\ Begin(k, [op |-> "buy", pc |-> "commit", id |-> <<m, 1>>, rack |-> <<1, 0>>, slot |-> 0, rows |-> {}])
    /\ generation[m] = 0 /\ \A other \in WorkshopCalls : call[other].id # <<m, 1>>
    /\ wallet.column >= MinerPrice
    /\ OnlyBegins

PurchaseCommits(k) ==
    /\ At(k, "buy", "commit")
    /\ inventory' = inventory \cup {call[k].id}
    /\ generation' = [generation EXCEPT ![call[k].id[1]] = 1]
    /\ Pays(MinerPrice)
    /\ Goes(k, "tell")
    /\ UNCHANGED <<mounted, rooms, rack, discarded, counted, reloadMissed, together, bypassed, workshopCalls,
                   workshopFaults>>

\* applyUserBalanceDelta, after either.
TellsPurchase(k) ==
    /\ call[k].pc = "tell"
    /\ wallet' = [wallet EXCEPT !.live = @ - IF call[k].op = "room" THEN Price(call[k].slot) ELSE MinerPrice]
    /\ Ends(k)
    /\ UNCHANGED <<inventory, mounted, generation, rooms, rack, spent, discarded, counted, reloadMissed, together,
                   bypassed, workshopCalls, workshopFaults>>

\* POST /users/:id/send-miner
SendMiner(m) ==
    /\ workshopCalls < MaxWorkshopCalls
    /\ workshopCalls' = workshopCalls + 1
    /\ generation[m] = 0 /\ \A other \in WorkshopCalls : call[other].id # <<m, 1>>
    /\ inventory' = inventory \cup {<<m, 1>>}
    /\ generation' = [generation EXCEPT ![m] = 1]
    /\ UNCHANGED <<mounted, rooms, rack, wallet, spent, discarded, counted, reloadMissed, call, together, bypassed,
                   workshopFaults>>

-----------------------------------------------------------------------------
(* reloadMinerProfile: the profile is read, and its rate assigned later.    *)

ReloadReads(k) ==
    /\ call[k].pc = "reload"
    /\ call' = [call EXCEPT ![k].pc = "assign", ![k].rows = Active]
    /\ OnlyReads

ReloadAssigns(k) ==
    /\ call[k].pc = "assign"
    /\ counted' = call[k].rows
    /\ reloadMissed' = FALSE
    /\ Ends(k)
    /\ UNCHANGED <<inventory, mounted, generation, rooms, rack, wallet, spent, discarded, together, bypassed,
                   workshopCalls, workshopFaults>>

\* A statement throws and is answered 500: what was not committed is rolled back, and after
\* the commit the engine keeps the rate it had.
HandlerThrows(k) ==
    /\ call[k].pc \notin {"idle", "tell"}
    /\ reloadMissed' = (reloadMissed \/ call[k].pc \in {"reload", "assign"})
    /\ Ends(k)
    /\ UNCHANGED <<inventory, mounted, generation, rooms, rack, wallet, spent, discarded, counted, together, bypassed,
                   workshopCalls, workshopFaults>>

\* Calls are lost; the engine loads the profile and the balance again.
WorkshopRestart ==
    /\ workshopFaults < MaxWorkshopFaults
    /\ workshopFaults' = workshopFaults + 1
    /\ call' = [k \in WorkshopCalls |-> IdleHandler]
    /\ counted' = Active
    /\ reloadMissed' = FALSE
    /\ wallet' = [wallet EXCEPT !.live = wallet.column]
    /\ UNCHANGED <<inventory, mounted, generation, rooms, rack, spent, discarded, together, bypassed, workshopCalls>>

RoomStep(k) ==
    \/ \E r \in Racks, id \in inventory : InstallReadsRack(k, r, id)
    \/ InstallReadsItem(k) \/ InstallReadsAdjacent(k) \/ InstallCommits(k)
    \/ \E r \in Racks : UninstallReads(k, r)
    \/ UninstallCommits(k)
    \/ BuyRoomReads(k) \/ BuyRoomChecks(k) \/ BuyRoomCommits(k)

OldStep(k) ==
    \/ \E id \in MountedIds : RemoveReads(k, id) \/ ToggleReads(k, id)
    \/ RemoveCommits(k) \/ ToggleCommits(k)
    \/ \E id \in MountedIds, slot \in 0 .. OldSlots - 1 : MoveReads(k, id, slot)
    \/ \E id \in inventory, slot \in 0 .. OldSlots - 1 : PlaceReads(k, id, slot)
    \/ ReadsTargets(k) \/ MoveCommits(k) \/ PlaceCommits(k)

ShopStep(k) ==
    \/ \E m \in Machines : PurchaseReads(k, m)
    \/ PurchaseCommits(k) \/ TellsPurchase(k)
    \/ ReloadReads(k) \/ ReloadAssigns(k) \/ HandlerThrows(k)

WorkshopNext ==
    \/ \E k \in WorkshopCalls : RoomStep(k) \/ OldStep(k) \/ ShopStep(k)
    \/ \E id \in inventory : DiscardItem(id)
    \/ \E m \in Machines : SendMiner(m)
    \/ WorkshopRestart

WorkshopSpec == WorkshopInit /\ [][WorkshopNext]_workshopVars

-----------------------------------------------------------------------------
RowIds == Machines \X (Nat \ {0})
HandlerPc == {"idle", "item", "adjacent", "targets", "funds", "commit", "tell", "reload", "assign"}
HandlerOp == {"none", "install", "uninstall", "remove", "toggle", "move", "place", "room", "buy"}

(* Rows, racks and calls hold values of their kind.                         *)
WorkshopTypeOK ==
    /\ inventory \in SUBSET RowIds
    /\ mounted \in SUBSET [id : RowIds, slot : Nat, active : BOOLEAN]
    /\ generation \in [Machines -> Nat]
    /\ rooms \in 1 .. RoomMax
    /\ rack \in [Racks -> [miner : RowIds \cup {NoId}, blockedBy : RowIds \cup {NoId}]]
    /\ wallet \in [column : Int, live : Int]
    /\ spent \in Nat
    /\ discarded \in SUBSET Machines
    /\ counted \in SUBSET RowIds
    /\ reloadMissed \in BOOLEAN
    /\ call \in [WorkshopCalls -> [op : HandlerOp, pc : HandlerPc, id : RowIds \cup {NoId},
                                   rack : Racks, slot : Nat, rows : SUBSET RowIds]]
    /\ together \in BOOLEAN
    /\ bypassed \in SUBSET RowIds
    /\ workshopCalls \in Nat /\ workshopFaults \in Nat

PlacesOf(m) == {id \in inventory \cup MountedIds : id[1] = m}

(* However calls interleave, fail or are cut short, a machine that was      *)
(* acquired and not deleted by its owner has exactly one row in the two     *)
(* tables, the newest it was given; none is lost or doubled by an eviction. *)
EachMachineInOnePlace ==
    /\ inventory \cap MountedIds = {}
    /\ Cardinality(mounted) = Cardinality(MountedIds)
    /\ \A m \in Machines :
         PlacesOf(m) = IF generation[m] = 0 \/ m \in discarded THEN {} ELSE {<<m, generation[m]>>}

(* No two machines stand on one slot: of two that both write a slot one is  *)
(* refused, and, when calls come one after another, neither stands on the   *)
(* second slot of the other, in racks or on old slots.                      *)
SlotsDoNotOverlap ==
    /\ \A a \in mounted, b \in mounted : a.slot = b.slot => a = b
    /\ together \/ \A a \in mounted, b \in mounted :
         a # b => Covers(a.id, a.slot) \cap Covers(b.id, b.slot) = {}

(* When calls come one after another and only the rooms' handlers touched   *)
(* the machines that are in racks, every rack says what stands on it: a     *)
(* machine whose slot it is, or the wide machine of the rack before.        *)
RacksMatchMachines ==
    (~together /\ bypassed = {}) =>
        /\ \A r \in Racks : rack[r].miner # NoId =>
             rack[r].miner \in MountedIds /\ SlotOf(rack[r].miner) = RackSlot(r)
        /\ \A r \in Racks : rack[r].blockedBy # NoId =>
             /\ rack[r].miner = NoId
             /\ <<r[1], r[2] - 1>> \in Racks /\ rack[<<r[1], r[2] - 1>>].miner = rack[r].blockedBy
             /\ Size(rack[r].blockedBy) = 2
        /\ \A row \in mounted : row.slot >= RackOffset =>
             \E r \in Racks :
               /\ rack[r].miner = row.id
               /\ Size(row.id) = 2 => rack[Next2(r)].blockedBy = row.id

(* The balance pays exactly for the rooms and machines that were bought,    *)
(* races for the same room included, and the engine hears of every payment. *)
PaidForWhatWasBought ==
    /\ wallet.column + spent = WorkshopFunds
    /\ (\A k \in WorkshopCalls : call[k].pc # "tell") => wallet.live = wallet.column

(* Between calls that did not overlap the engine counts the hash rate of    *)
(* exactly the active machines that are mounted, except from a reload that  *)
(* failed after its commit to the next that succeeds: nothing else mends it.*)
EngineCountsMounted ==
    (~together /\ ~reloadMissed /\ \A k \in WorkshopCalls : call[k].pc = "idle") => counted = Active

\* Where a machine is, by its rows.
Place ==
    [m \in Machines |->
        LET stored == \E id \in inventory : id[1] = m
            mountedNow == \E id \in MountedIds : id[1] = m
        IN  IF stored /\ mountedNow THEN "both"
            ELSE IF stored THEN "inventory"
            ELSE IF mountedNow THEN "mounted"
            ELSE IF generation[m] = 0 THEN "nowhere" ELSE "deleted"]

B == INSTANCE Belongings WITH place <- Place

(* The handlers keep the promise of Belongings: an eviction, a failed       *)
(* transaction or a late commit never makes a machine vanish or appear, and *)
(* only the owner's deletion takes one from the inventory.                  *)
KeepsBelongings == B!BelongingsSpec

(* However calls interleave and fail, a machine is in one place, no two     *)
(* take the same slot, racks name the machines they hold, what was bought   *)
(* was paid for, and the engine counts what is mounted, unless its last     *)
(* reload failed.                                                           *)
WorkshopSafe ==
    /\ WorkshopTypeOK /\ EachMachineInOnePlace /\ SlotsDoNotOverlap
    /\ RacksMatchMachines /\ PaidForWhatWasBought /\ EngineCountsMounted
=============================================================================
