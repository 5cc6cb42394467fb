----------------------------- MODULE Belongings -----------------------------
(***************************************************************************)
(* What an owner of machines is promised: each is in one place, only its   *)
(* owner's deletion takes it away, and that only from the inventory.  A    *)
(* step may mount one machine and send those in its way to the inventory.  *)
(***************************************************************************)
CONSTANT Machines
VARIABLE place

BelongingsInit == place \in [Machines -> {"nowhere", "inventory"}]

InPlace(where) == {m \in Machines : place[m] = where}

Acquire(m) ==
    /\ place[m] = "nowhere"
    /\ place' = [place EXCEPT ![m] = "inventory"]

Mount(m, out) ==
    /\ place[m] \in {"inventory", "mounted"}
    /\ out \subseteq InPlace("mounted") \ {m}
    /\ place' = [n \in Machines |-> IF n = m THEN "mounted" ELSE IF n \in out THEN "inventory" ELSE place[n]]

Dismount(m) ==
    /\ place[m] = "mounted"
    /\ place' = [place EXCEPT ![m] = "inventory"]

Delete(m) ==
    /\ place[m] = "inventory"
    /\ place' = [place EXCEPT ![m] = "deleted"]

BelongingsNext ==
    \E m \in Machines :
        \/ Acquire(m) \/ Dismount(m) \/ Delete(m)
        \/ \E out \in SUBSET Machines : Mount(m, out)

BelongingsSpec == BelongingsInit /\ [][BelongingsNext]_place
=============================================================================
