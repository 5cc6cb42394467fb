----------------------------- MODULE Shortlink ------------------------------
(***************************************************************************)
(* The internal shortlink of one user (no statement reads another user's   *)
(* row): once a day a page walks timed steps, each with the token the one  *)
(* before it returned, and the one numbered last brings a machine.  A      *)
(* request names its step, and nothing compares the number with the row.   *)
(* The user may have several pages and click twice; every request reads    *)
(* the row and writes it later.                                            *)
(***************************************************************************)
EXTENDS Integers, FiniteSets

CONSTANTS
    LinkPages,    \* the user's pages
    LinkCalls,    \* requests in flight together
    StepNumbers,  \* steps a request may name
    StepWait,     \* the eight seconds a step must take
    LinkDay,      \* length of a day
    MaxLinkTime,  \* bound on the clock
    MaxLinkAsks,  \* bound on the requests
    MaxLinkCrossedAsks \* bound on them once two were in flight together

ASSUME LinkAssumption ==
    /\ StepNumbers \subseteq Nat /\ StepWait \in Nat /\ LinkDay \in Nat \ {0} /\ MaxLinkTime \in Nat
    /\ MaxLinkAsks \in Nat /\ MaxLinkCrossedAsks \in Nat

VARIABLES
    linkTime,
    linkRow,      \* shortlink_completions: of the user
    linkMachines, \* machines the user's inventory has from it
    linkReward,   \* an active reward of the internal type is configured: no handler changes that
    linkPage,     \* the token of each page, when the run it walks was started and steps taken since
    linkCall,
    linkTokens,   \* tokens made so far
    linkRuns,     \* history: [day, steps, started, ended] of each rewarded run
    linkCrossed,  \* history: two requests were in flight together
    linkAsks

linkVars == <<linkTime, linkRow, linkMachines, linkReward, linkPage, linkCall, linkTokens, linkRuns,
              linkCrossed, linkAsks>>

TotalSteps == 3
MaxDailyRuns == 1

NoLink == [exists |-> FALSE, step |-> 0, runs |-> 0, completed |-> 0, token |-> 0, stepAt |-> 0]
LinkIdle == [pc |-> "idle", page |-> "none", step |-> 0, taken |-> 0, token |-> 0, row |-> NoLink,
             now |-> 0, started |-> 0]
BlankPage == [taken |-> 0, token |-> 0, startedAt |-> 0]
LinkMidnight == (linkTime \div LinkDay) * LinkDay

\* The user is new, or has just finished the first run.
FirstEnd == 1 + TotalSteps * StepWait

LinkInit ==
    /\ linkReward \in BOOLEAN
    /\ \/ /\ linkTime = 1
          /\ linkRow = NoLink
          /\ linkMachines = 0 /\ linkTokens = 0 /\ linkRuns = {}
       \/ /\ linkReward
          /\ linkTime = FirstEnd
          /\ linkRow = [NoLink EXCEPT !.exists = TRUE, !.runs = 1, !.completed = FirstEnd, !.stepAt = FirstEnd]
          /\ linkMachines = 1 /\ linkTokens = TotalSteps
          /\ linkRuns = {[day |-> FirstEnd \div LinkDay, steps |-> TotalSteps, started |-> 1, ended |-> FirstEnd]}
    /\ linkPage = [p \in LinkPages |-> BlankPage]
    /\ linkCall = [k \in LinkCalls |-> LinkIdle]
    /\ linkCrossed = FALSE
    /\ linkAsks = 0

LinkTick ==
    /\ linkTime < MaxLinkTime
    /\ linkTime' = linkTime + 1
    /\ UNCHANGED <<linkRow, linkMachines, linkReward, linkPage, linkCall, linkTokens, linkRuns,
                   linkCrossed, linkAsks>>

AskLink(k, request) ==
    /\ linkCall[k].pc = "idle"
    /\ linkCrossed' = (linkCrossed \/ \E other \in LinkCalls : linkCall[other].pc # "idle")
    /\ linkAsks < IF linkCrossed' THEN MaxLinkCrossedAsks ELSE MaxLinkAsks
    /\ linkAsks' = linkAsks + 1
    /\ linkCall' = [linkCall EXCEPT ![k] = request]
    /\ UNCHANGED <<linkTime, linkRow, linkMachines, linkReward, linkPage, linkTokens, linkRuns>>

\* A page asks for the status, starts a run, or sends its token with any step.
AskStatus(k) == AskLink(k, [LinkIdle EXCEPT !.pc = "status"])
AskStart(k, p) == AskLink(k, [LinkIdle EXCEPT !.pc = "start", !.page = p])
AskStep(k, p, n) ==
    /\ linkPage[p].token # 0
    /\ AskLink(k, [LinkIdle EXCEPT !.pc = "step", !.page = p, !.step = n, !.now = linkTime,
                                   !.token = linkPage[p].token, !.taken = linkPage[p].taken,
                                   !.started = linkPage[p].startedAt])

\* findUnique; a missing row is created by the status, by the start only when it writes.
ReadLink(k) ==
    LET c == linkCall[k]
    IN  /\ c.pc \in {"status", "start", "step"}
        /\ linkRow' = IF c.pc = "status" THEN [linkRow EXCEPT !.exists = TRUE] ELSE linkRow
        /\ linkCall' = [linkCall EXCEPT ![k] =
              IF c.pc = "step" /\ linkRow.token = 0 THEN LinkIdle
              ELSE [c EXCEPT !.row = linkRow,
                             !.pc = CASE c.pc = "status" -> "resetStatus" [] c.pc = "start" -> "resetStart"
                                      [] OTHER -> "resetStep"]]
        /\ UNCHANGED <<linkTime, linkMachines, linkReward, linkPage, linkTokens, linkRuns,
                       linkCrossed, linkAsks>>

\* resetDailyIfNeeded: the last completion lies before midnight.

RunsAreOld(row) == row.runs > 0 /\ row.completed # 0 /\ row.completed < LinkMidnight

\* The reset, and the daily limit judged by the row it returned.
ResetLink(k) ==
    LET c == linkCall[k]
        old == RunsAreOld(c.row)
        runs == IF old THEN 0 ELSE c.row.runs
        tooOften == runs >= MaxDailyRuns
    IN  /\ c.pc \in {"resetStatus", "resetStart", "resetStep"}
        /\ linkRow' = IF old THEN [linkRow EXCEPT !.runs = 0] ELSE linkRow
        /\ linkCall' = [linkCall EXCEPT ![k] =
              IF c.pc = "resetStatus" \/ tooOften THEN LinkIdle
              ELSE [c EXCEPT !.pc = IF c.pc = "resetStart" THEN "begin" ELSE "check"]]
        /\ UNCHANGED <<linkTime, linkMachines, linkReward, linkPage, linkTokens, linkRuns,
                       linkCrossed, linkAsks>>

\* The upsert of startShortlink, and the page that takes its answer.
BeginRun(k) ==
    LET c == linkCall[k]
    IN  /\ c.pc = "begin"
        /\ linkTokens' = linkTokens + 1
        /\ linkRow' = [linkRow EXCEPT !.exists = TRUE, !.step = 0, !.token = linkTokens', !.stepAt = linkTime]
        /\ linkPage' = [linkPage EXCEPT ![c.page] = [taken |-> 0, token |-> linkTokens', startedAt |-> linkTime]]
        /\ linkCall' = [linkCall EXCEPT ![k] = LinkIdle]
        /\ UNCHANGED <<linkTime, linkMachines, linkReward, linkRuns, linkCrossed, linkAsks>>

TokenMatches(c) == c.row.token = c.token
SlowEnoughAtFirst(c) == c.step > 1 \/ c.now - c.row.stepAt >= StepWait
SlowEnough(c) == c.now - c.row.stepAt >= StepWait

\* An incident is only logged; the page is sent back to the start.
CheckStep(k) ==
    LET c == linkCall[k]
        clean == TokenMatches(c) /\ SlowEnough(c)
    IN  /\ c.pc = "check"
        /\ linkCall' = [linkCall EXCEPT ![k] = IF clean THEN [c EXCEPT !.pc = "advance"] ELSE LinkIdle]
        /\ linkPage' = IF clean THEN linkPage ELSE [linkPage EXCEPT ![c.page] = BlankPage]
        /\ UNCHANGED <<linkTime, linkRow, linkMachines, linkReward, linkTokens, linkRuns,
                       linkCrossed, linkAsks>>

\* The transaction of a step that is not the last.
Advance(k) ==
    LET c == linkCall[k]
    IN  /\ c.pc = "advance" /\ c.step # TotalSteps
        /\ linkTokens' = linkTokens + 1
        /\ linkRow' = [linkRow EXCEPT !.step = c.step + 1, !.token = linkTokens', !.stepAt = c.now]
        /\ linkPage' = [linkPage EXCEPT ![c.page] = [taken |-> c.taken + 1, token |-> linkTokens',
                                                    startedAt |-> c.started]]
        /\ linkCall' = [linkCall EXCEPT ![k] = LinkIdle]
        /\ UNCHANGED <<linkTime, linkMachines, linkReward, linkRuns, linkCrossed, linkAsks>>

\* The transaction of the last step: without a configured reward all of it is undone.
FinishRun(k) ==
    LET c == linkCall[k]
    IN  /\ c.pc = "advance" /\ c.step = TotalSteps
        /\ IF linkReward
             THEN /\ linkRow' = [linkRow EXCEPT !.step = 0, !.runs = @ + 1, !.completed = c.now,
                                                !.token = 0, !.stepAt = c.now]
                  /\ linkMachines' = linkMachines + 1
                  /\ linkRuns' = linkRuns \cup {[day |-> c.now \div LinkDay, steps |-> c.taken + 1,
                                                 started |-> c.started, ended |-> c.now]}
                  /\ linkPage' = [linkPage EXCEPT ![c.page] = BlankPage]
             ELSE UNCHANGED <<linkRow, linkMachines, linkRuns, linkPage>>
        /\ linkCall' = [linkCall EXCEPT ![k] = LinkIdle]
        /\ UNCHANGED <<linkTime, linkReward, linkTokens, linkCrossed, linkAsks>>

\* A statement throws, or the process stops.
LinkThrows(k) ==
    /\ linkCall[k].pc # "idle"
    /\ linkCall' = [linkCall EXCEPT ![k] = LinkIdle]
    /\ UNCHANGED <<linkTime, linkRow, linkMachines, linkReward, linkPage, linkTokens, linkRuns,
                   linkCrossed, linkAsks>>

LinkStep(k) ==
    \/ AskStatus(k)
    \/ \E p \in LinkPages : AskStart(k, p) \/ \E n \in StepNumbers : AskStep(k, p, n)
    \/ ReadLink(k) \/ ResetLink(k) \/ BeginRun(k) \/ CheckStep(k) \/ Advance(k) \/ FinishRun(k)
    \/ LinkThrows(k)

LinkNext == LinkTick \/ \E k \in LinkCalls : LinkStep(k)

LinkSpec == LinkInit /\ [][LinkNext]_linkVars

-----------------------------------------------------------------------------
LinkRows == [exists : BOOLEAN, step : Nat, runs : Nat, completed : Nat, token : Nat, stepAt : Nat]

(* The row, the pages and the requests hold values of their kind.           *)
LinkTypeOK ==
    /\ linkTime \in Nat /\ linkMachines \in Nat /\ linkTokens \in Nat /\ linkAsks \in Nat
    /\ linkRow \in LinkRows
    /\ linkReward \in BOOLEAN /\ linkCrossed \in BOOLEAN
    /\ linkPage \in [LinkPages -> [taken : Nat, token : Nat, startedAt : Nat]]
    /\ linkCall \in [LinkCalls ->
          [pc : {"idle", "status", "start", "step", "resetStatus", "resetStart", "resetStep",
                 "begin", "check", "advance"},
           page : LinkPages \cup {"none"}, step : Nat, taken : Nat, token : Nat, row : LinkRows,
           now : Nat, started : Nat]]
    /\ linkRuns \in SUBSET [day : Nat, steps : Nat, started : Nat, ended : Nat]

(* A user is rewarded once a day, however often pages start over, unless    *)
(* two requests were in flight together.                                    *)
OneRunADay ==
    ~linkCrossed => \A a \in linkRuns : \A b \in linkRuns \ {a} : a.day # b.day

(* A rewarded run took its page a wait for each step that was accepted,    *)
(* and at least one: this holds however requests overlap and whatever steps *)
(* they name, since each is judged from the time at which the one before it *)
(* began.  Three steps it need not have taken: the last may come first.     *)
RunsAreTimed == \A r \in linkRuns : r.steps >= 1 /\ r.ended - r.started >= r.steps * StepWait

(* A day's run counts against the limit only with its machine: a last step  *)
(* that finds no reward configured leaves the run to be finished later.     *)
RunCountsWithMachine ==
    linkRow.runs > 0 => /\ linkMachines > 0
                        /\ \E r \in linkRuns : r.ended = linkRow.completed

(* A user is rewarded once a day, for a run that took its time at every     *)
(* step it walked, and a run counts exactly when its machine was given.     *)
LinkSafe ==
    /\ LinkTypeOK /\ OneRunADay /\ RunsAreTimed /\ RunCountsWithMachine
=============================================================================
