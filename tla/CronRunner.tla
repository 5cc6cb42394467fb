----------------------------- MODULE CronRunner -----------------------------
(***************************************************************************)
(* The runner every timer goes through: an action takes its key in a set   *)
(* kept in memory, passes five stages that may each end it, and drops the  *)
(* key whatever happened.  A timer fires again while an earlier run is     *)
(* under way; an action may be declared concurrent, and then takes and     *)
(* drops the same key.                                                     *)
(***************************************************************************)
EXTENDS Integers, FiniteSets

CONSTANTS
    CronActions,  \* lockKey: cron and action
    CronRuns      \* runs under way together

ASSUME CronAssumption == "none" \notin CronActions

VARIABLES
    inFlight,     \* the set of keys
    cronRun,      \* action, stage and mode of each run
    shared        \* history: actions that a concurrent run was made of

cronVars == <<inFlight, cronRun, shared>>

NoRun == [stage |-> "idle", action |-> "none", concurrent |-> FALSE]

CronInit ==
    /\ inFlight = {}
    /\ cronRun = [r \in CronRuns |-> NoRun]
    /\ shared = {}

Underway(a) == {r \in CronRuns : cronRun[r].action = a}

\* Otherwise the run is skipped: "already_running".
Admitted(a, concurrent) == concurrent \/ a \notin inFlight

StartCronRun(r, a, concurrent) ==
    /\ cronRun[r] = NoRun
    /\ Admitted(a, concurrent)
    /\ inFlight' = inFlight \cup {a}
    /\ cronRun' = [cronRun EXCEPT ![r] = [stage |-> "prepare", action |-> a, concurrent |-> concurrent]]
    /\ shared' = IF concurrent THEN shared \cup {a} ELSE shared

Stages == {"prepare", "validate", "sanitize", "execute", "confirm"}
After == [prepare |-> "validate", validate |-> "sanitize", sanitize |-> "execute",
          execute |-> "confirm", confirm |-> "finally"]

\* A stage is awaited; it passes, or it throws or declines and the run ends.
PassStage(r) ==
    /\ cronRun[r].stage \in Stages
    /\ \E next \in {After[cronRun[r].stage], "finally"} :
         cronRun' = [cronRun EXCEPT ![r].stage = next]
    /\ UNCHANGED <<inFlight, shared>>

EndRunOnSuccess(r) ==
    /\ cronRun[r].stage = "finally"
    /\ inFlight' \in {inFlight, inFlight \ {cronRun[r].action}}
    /\ cronRun' = [cronRun EXCEPT ![r] = NoRun]
    /\ UNCHANGED shared

\* The key is dropped, whoever else runs under it.
EndRun(r) ==
    /\ cronRun[r].stage = "finally"
    /\ inFlight' = inFlight \ {cronRun[r].action}
    /\ cronRun' = [cronRun EXCEPT ![r] = NoRun]
    /\ UNCHANGED shared

CronRestart ==
    /\ inFlight' = {}
    /\ cronRun' = [r \in CronRuns |-> NoRun]
    /\ UNCHANGED shared

CronRunStep(r) == PassStage(r) \/ EndRun(r)

Fires(a) == \E r \in CronRuns, concurrent \in BOOLEAN : StartCronRun(r, a, concurrent)

CronNext ==
    \/ \E a \in CronActions : Fires(a)
    \/ \E r \in CronRuns : CronRunStep(r)
    \/ CronRestart

CronSpec == CronInit /\ [][CronNext]_cronVars

-----------------------------------------------------------------------------
(* Keys and runs hold values of their kind.                                 *)
CronTypeOK ==
    /\ inFlight \in SUBSET CronActions
    /\ cronRun \in [CronRuns -> [stage : Stages \cup {"idle", "finally"},
                                 action : CronActions \cup {"none"}, concurrent : BOOLEAN]]
    /\ shared \in SUBSET CronActions

(* Two runs of an action are under way together only if the action has been *)
(* run as concurrent: a skipped, failed or restarted run never lets another *)
(* in.                                                                      *)
RunsAlone ==
    \A a \in CronActions \ shared : \A r, s \in Underway(a) : r = s

(* A key that is held is held by a run: none is left behind by a stage that *)
(* threw or declined, so the action is never skipped for good.              *)
KeyHasRun == \A a \in inFlight : Underway(a) # {}

(* A cron's action that forbids it never runs twice at once, whichever      *)
(* stage of a run throws, and no run leaves its key behind.                 *)
CronsSafe ==
    /\ CronTypeOK /\ RunsAlone /\ KeyHasRun
=============================================================================
