--------------------------- MODULE Holdings_proofs ---------------------------
(*****************************************************************************)
(* What users own, the parts with a state of their own: the cron runner, the *)
(* paged lists, the daily check-in and the workshop, each with its theorems, *)
(* for any constants; and, of the composition MCHoldings, that the outcomes  *)
(* of deposits, tickets and check-ins are final in all its behaviours.       *)
(*****************************************************************************)
EXTENDS MCHoldings, Deposits_proofs, Sums, FiniteSetTheorems, TLAPS

-----------------------------------------------------------------------------
(* No two runs of an action that forbids it, and no key left behind, for any *)
(* set of actions and any number of runs.                                    *)

\* A run is idle, or under way with an action and at one of the stages.
RunsWhole ==
    \A r \in CronRuns :
        \/ cronRun[r] = NoRun
        \/ cronRun[r].action \in CronActions /\ cronRun[r].stage \in Stages \cup {"finally"}

\* The run of an action never run as concurrent holds the action's key.
RunHasKey ==
    \A r \in CronRuns :
        cronRun[r] = NoRun \/ cronRun[r].action \in shared \/ cronRun[r].action \in inFlight

CronInv == CronsSafe /\ RunsWhole /\ RunHasKey

LEMMA IdleHasNoAction == \A r \in CronRuns : CronInv => (cronRun[r].action \in CronActions <=> cronRun[r] # NoRun)
BY CronAssumption DEF CronInv, RunsWhole, NoRun

LEMMA CronInitially == CronInit => CronInv
<1> SUFFICES ASSUME CronInit PROVE CronInv
    OBVIOUS
<1>1. CronTypeOK
    BY DEF CronInit, CronTypeOK, NoRun
<1>2. RunsWhole /\ RunHasKey
    BY DEF CronInit, RunsWhole, RunHasKey
<1>3. \A a \in CronActions : Underway(a) = {}
    BY CronAssumption DEF CronInit, Underway, NoRun
<1>4. RunsAlone /\ KeyHasRun
    BY <1>3 DEF CronInit, RunsAlone, KeyHasRun
<1> QED
    BY <1>1, <1>2, <1>4 DEF CronInv, CronsSafe

\* An action's first run takes the key, and only a run declared concurrent
\* joins one that is under way.
LEMMA StartKeeps ==
    ASSUME CronInv, NEW r \in CronRuns, NEW a \in CronActions, NEW concurrent \in BOOLEAN,
           StartCronRun(r, a, concurrent)
    PROVE  CronInv'
<1> DEFINE run == [stage |-> "prepare", action |-> a, concurrent |-> concurrent]
<1>0. /\ cronRun[r] = NoRun /\ Admitted(a, concurrent)
      /\ inFlight' = inFlight \cup {a}
      /\ cronRun' = [cronRun EXCEPT ![r] = run]
      /\ shared' = IF concurrent THEN shared \cup {a} ELSE shared
    BY DEF StartCronRun
<1>1. /\ CronTypeOK /\ RunsAlone /\ KeyHasRun /\ RunsWhole /\ RunHasKey
    BY DEF CronInv, CronsSafe
<1>2. CronTypeOK'
    BY <1>0, <1>1 DEF CronTypeOK, Stages
<1>3. cronRun'[r] = run /\ \A s \in CronRuns \ {r} : cronRun'[s] = cronRun[s]
    BY <1>0, <1>1 DEF CronTypeOK
<1>4. RunsWhole'
    BY <1>1, <1>3 DEF RunsWhole, Stages
<1>5. RunHasKey'
    BY <1>0, <1>1, <1>3 DEF RunHasKey
<1>6. \A b \in CronActions : Underway(b)' = IF b = a THEN Underway(b) \cup {r} ELSE Underway(b)
    BY <1>0, <1>3, CronAssumption DEF Underway, NoRun
<1>7. KeyHasRun'
    BY <1>0, <1>1, <1>2, <1>6 DEF KeyHasRun, CronTypeOK
<1>8. RunsAlone'
    <2> SUFFICES ASSUME NEW b \in CronActions, b \notin shared', NEW s \in Underway(b)', NEW t \in Underway(b)'
                 PROVE  s = t
        BY DEF RunsAlone
    <2>1. b \notin shared
        BY <1>0
    <2>2. CASE b # a
        BY <2>1, <2>2, <1>1, <1>6 DEF RunsAlone
    <2>3. CASE b = a
        <3>1. ~concurrent /\ a \notin inFlight
            BY <1>0, <2>3 DEF Admitted
        <3>2. Underway(a) = {}
            BY <3>1, <2>1, <2>3, <1>1, CronAssumption DEF RunHasKey, Underway, NoRun
        <3> QED
            BY <3>2, <2>3, <1>6
    <2> QED
        BY <2>2, <2>3
<1> QED
    BY <1>2, <1>4, <1>5, <1>7, <1>8 DEF CronInv, CronsSafe

\* A stage changes neither the runs under way nor the keys.
LEMMA PassKeeps ==
    ASSUME CronInv, NEW r \in CronRuns, PassStage(r)
    PROVE  CronInv'
<1>1. /\ CronTypeOK /\ RunsAlone /\ KeyHasRun /\ RunsWhole /\ RunHasKey
    BY DEF CronInv, CronsSafe
<1>2. PICK next \in {After[cronRun[r].stage], "finally"} : cronRun' = [cronRun EXCEPT ![r].stage = next]
    BY DEF PassStage
<1>3. cronRun[r].stage \in Stages /\ inFlight' = inFlight /\ shared' = shared
    BY DEF PassStage
<1>4. next \in Stages \cup {"finally"}
    BY <1>2, <1>3 DEF Stages, After
<1>5. CronTypeOK'
    BY <1>1, <1>2, <1>3, <1>4 DEF CronTypeOK
<1>6. cronRun[r] # NoRun
    BY <1>3 DEF NoRun, Stages
<1>7. /\ cronRun'[r].stage = next /\ cronRun'[r].action = cronRun[r].action
      /\ \A s \in CronRuns \ {r} : cronRun'[s] = cronRun[s]
    BY <1>1, <1>2 DEF CronTypeOK
<1>8. RunsWhole'
    BY <1>1, <1>4, <1>6, <1>7 DEF RunsWhole
<1>9. RunHasKey'
    BY <1>1, <1>3, <1>6, <1>7 DEF RunHasKey
<1>10. \A b \in CronActions : Underway(b)' = Underway(b)
    BY <1>7 DEF Underway
<1>11. RunsAlone' /\ KeyHasRun'
    BY <1>1, <1>3, <1>10 DEF RunsAlone, KeyHasRun, CronTypeOK
<1> QED
    BY <1>5, <1>8, <1>9, <1>11 DEF CronInv, CronsSafe

\* The run that ends takes its key with it: a run of the same action that goes
\* on without one is of an action once run as concurrent.
LEMMA EndKeeps ==
    ASSUME CronInv, NEW r \in CronRuns, EndRun(r)
    PROVE  CronInv'
<1> DEFINE a == cronRun[r].action
<1>1. /\ CronTypeOK /\ RunsAlone /\ KeyHasRun /\ RunsWhole /\ RunHasKey
    BY DEF CronInv, CronsSafe
<1>2. /\ cronRun[r].stage = "finally" /\ inFlight' = inFlight \ {a} /\ shared' = shared
      /\ cronRun' = [cronRun EXCEPT ![r] = NoRun]
    BY DEF EndRun
<1>3. cronRun[r] # NoRun /\ a \in CronActions
    BY <1>1, <1>2 DEF RunsWhole, NoRun
<1>4. cronRun'[r] = NoRun /\ \A s \in CronRuns \ {r} : cronRun'[s] = cronRun[s]
    BY <1>1, <1>2 DEF CronTypeOK
<1>5. CronTypeOK'
    BY <1>1, <1>2 DEF CronTypeOK, NoRun
<1>6. RunsWhole'
    BY <1>1, <1>4 DEF RunsWhole
<1>7. \A b \in CronActions : Underway(b)' = Underway(b) \ {r}
    BY <1>4, CronAssumption DEF Underway, NoRun
<1>8. RunsAlone'
    BY <1>1, <1>2, <1>7 DEF RunsAlone
<1>9. r \in Underway(a) /\ \A b \in CronActions \ {a} : r \notin Underway(b)
    BY DEF Underway
<1>10. KeyHasRun'
    BY <1>1, <1>2, <1>7, <1>9 DEF KeyHasRun, CronTypeOK
<1>11. RunHasKey'
    <2> SUFFICES ASSUME NEW s \in CronRuns, cronRun'[s] # NoRun, cronRun'[s].action \notin shared
                 PROVE  cronRun'[s].action \in inFlight'
        BY <1>2 DEF RunHasKey
    <2>1. s # r /\ cronRun'[s] = cronRun[s]
        BY <1>4
    <2>2. cronRun[s].action \in inFlight
        BY <2>1, <1>1 DEF RunHasKey
    <2>3. cronRun[s].action # a
        BY <2>1, <1>1, <1>3 DEF RunsAlone, Underway
    <2> QED
        BY <2>1, <2>2, <2>3, <1>2
<1> QED
    BY <1>5, <1>6, <1>8, <1>10, <1>11 DEF CronInv, CronsSafe

LEMMA RestartKeeps == CronInv /\ CronRestart => CronInv'
<1> SUFFICES ASSUME CronInv, CronRestart PROVE CronInv'
    OBVIOUS
<1>1. inFlight' = {} /\ cronRun' = [s \in CronRuns |-> NoRun] /\ shared' = shared
    BY DEF CronRestart
<1>2. CronTypeOK' /\ RunsWhole' /\ RunHasKey'
    BY <1>1 DEF CronInv, CronsSafe, CronTypeOK, NoRun, RunsWhole, RunHasKey
<1>3. \A a \in CronActions : Underway(a)' = {}
    BY <1>1, CronAssumption DEF Underway, NoRun
<1>4. RunsAlone' /\ KeyHasRun'
    BY <1>1, <1>3 DEF RunsAlone, KeyHasRun
<1> QED
    BY <1>2, <1>4 DEF CronInv, CronsSafe

LEMMA CronStep == CronInv /\ [CronNext]_cronVars => CronInv'
<1> SUFFICES ASSUME CronInv, [CronNext]_cronVars PROVE CronInv'
    OBVIOUS
<1>1. ASSUME NEW a \in CronActions, Fires(a) PROVE CronInv'
    BY <1>1, StartKeeps DEF Fires
<1>2. ASSUME NEW r \in CronRuns, CronRunStep(r) PROVE CronInv'
    BY <1>2, PassKeeps, EndKeeps DEF CronRunStep
<1>3. CASE CronRestart
    BY <1>3, RestartKeeps
<1>4. CASE UNCHANGED cronVars
    BY <1>4 DEF cronVars, CronInv, CronsSafe, CronTypeOK, RunsAlone, KeyHasRun, RunsWhole, RunHasKey, Underway
<1> QED
    BY <1>1, <1>2, <1>3, <1>4 DEF CronNext

(* Whatever actions there are, however many runs and whichever of them are  *)
(* concurrent, fail or are cut by a restart, an action that was never run   *)
(* as concurrent has one run at a time, and every held key has a run that   *)
(* will drop it.                                                            *)
THEOREM CronsKeptApart == CronSpec => []CronsSafe
<1>1. CronInv => CronsSafe
    BY DEF CronInv
<1> QED
    BY <1>1, CronInitially, CronStep, PTL DEF CronSpec

-----------------------------------------------------------------------------
(* Walks through a list of any length, by pages of any size.                 *)

Ok == {"left", "torn", "failed"} \cap upsets = {}

\* Rows of the start that the reader has not seen, nor is about to.
Unseen == atStart \ seen
Missing == Unseen \ reading.rows

\* While nothing has upset the walk, rows only move towards the end: what was
\* not shown lies behind the pages shown.
BehindThePages == Ok => \A r \in Unseen : r \in listed /\ Rank(r) >= reached * PageRows

PagesInOrder ==
    Ok => /\ reading.page <= reached + 1
          /\ reading.pc = "shown" => reading.page <= reached

BehindThePage ==
    Ok /\ reading.pc \in {"found", "answered"} => \A r \in Missing : Rank(r) >= reading.page * PageRows

CountedThese == Ok /\ reading.pc = "counted" => reading.total = Cardinality(listed)

MissingArePromised ==
    Ok /\ reading.pc = "answered" => \A r \in Missing : reading.total > reading.page * PageRows

UnseenArePromised ==
    Ok /\ reading.pc = "shown" => \A r \in Unseen : promised > reading.page * PageRows

\* While no row comes, rows only move towards the beginning.
InThePages == "came" \notin upsets => \A r \in seen \cap listed : Rank(r) < reached * PageRows

OnThePage ==
    "came" \notin upsets /\ reading.pc \in {"found", "answered"} =>
        \A r \in reading.rows \cap listed : Rank(r) < reading.page * PageRows

NewPageIsNew ==
    "came" \notin upsets /\ reading.pc \in {"found", "answered"} /\ reading.page > reached => reading.rows \cap seen = {}

ListInv ==
    /\ ListTypeOK /\ RepeatsWhenRowsCome
    /\ BehindThePages /\ PagesInOrder /\ BehindThePage /\ CountedThese /\ MissingArePromised /\ UnseenArePromised
    /\ InThePages /\ OnThePage /\ NewPageIsNew

-----------------------------------------------------------------------------
(* Pages of PageRows rows                                                   *)

LEMMA Pages ==
    ASSUME NEW a \in Nat, NEW b \in Nat
    PROVE  /\ a * PageRows \in Nat
           /\ a <= b => a * PageRows <= b * PageRows
           /\ (a - 1) * PageRows + PageRows = a * PageRows
           /\ a > b => b * PageRows <= (a - 1) * PageRows
<1>1. PageRows \in Nat
    BY ListAssumption
<1>2. ASSUME NEW x \in Int, NEW y \in Int, x <= y PROVE x * PageRows <= y * PageRows
    <2> DEFINE d == y - x
    <2>1. d \in Nat /\ y = x + d
        BY <1>2
    <2> HIDE DEF d
    <2>2. d * PageRows \in Nat /\ x * PageRows \in Int
        BY <1>1, <2>1
    <2>3. y * PageRows = x * PageRows + d * PageRows
        BY <1>1, <2>1
    <2> QED
        BY <2>2, <2>3
<1>3. a * PageRows \in Nat
    BY <1>1
<1>4. (a - 1) * PageRows + PageRows = a * PageRows
    BY <1>1
<1> QED
    BY <1>2, <1>3, <1>4

LEMMA ListedIsFinite == ListTypeOK => IsFiniteSet(listed)
BY ListAssumption, FS_Subset DEF ListTypeOK

LEMMA RankIsNat == ASSUME ListTypeOK, NEW r PROVE Rank(r) \in Nat
<1>1. {q \in listed : Before(q, r)} \in SUBSET listed
    OBVIOUS
<1>2. IsFiniteSet({q \in listed : Before(q, r)})
    BY <1>1, ListedIsFinite, FS_Subset
<1> QED
    BY <1>2, FS_CardinalityType DEF Rank

LEMMA NextRankIsNat == ASSUME ListTypeOK', NEW r PROVE Rank(r)' \in Nat
<1>1. IsFiniteSet(listed')
    BY ListAssumption, FS_Subset DEF ListTypeOK
<1>2. {q \in listed' : Before(q, r)'} \in SUBSET listed'
    OBVIOUS
<1>3. IsFiniteSet({q \in listed' : Before(q, r)'})
    BY <1>1, <1>2, FS_Subset
<1> QED
    BY <1>3, FS_CardinalityType DEF Rank

LEMMA CountIsNat == ListTypeOK => Cardinality(listed) \in Nat
BY ListedIsFinite, FS_CardinalityType

\* There are more rows than come before one of them.
LEMMA RankIsBelowCount == ASSUME ListTypeOK, NEW r \in listed PROVE Rank(r) < Cardinality(listed)
<1>1. IsFiniteSet(listed) /\ IsFiniteSet(listed \ {r}) /\ Cardinality(listed \ {r}) = Cardinality(listed) - 1
    BY ListedIsFinite, FS_RemoveElement
<1>2. ~Before(r, r)
    BY ListAssumption DEF Before, ListTypeOK
<1>3. {q \in listed : Before(q, r)} \in SUBSET (listed \ {r})
    BY <1>2
<1>4. Rank(r) <= Cardinality(listed \ {r})
    BY <1>1, <1>3, FS_Subset DEF Rank
<1> QED
    BY <1>1, <1>4, RankIsNat, CountIsNat

LEMMA RankGrows ==
    ASSUME ListTypeOK, ListTypeOK', list' = list, listed \subseteq listed', NEW r
    PROVE  Rank(r) <= Rank(r)'
<1>1. \A q : Before(q, r)' <=> Before(q, r)
    BY DEF Before
<1>2. {q \in listed : Before(q, r)} \in SUBSET {q \in listed' : Before(q, r)'}
    BY <1>1
<1>3. IsFiniteSet({q \in listed' : Before(q, r)'})
    <2>1. IsFiniteSet(listed')
        BY ListAssumption, FS_Subset DEF ListTypeOK
    <2> QED
        BY <2>1, FS_Subset
<1> QED
    BY <1>2, <1>3, FS_Subset DEF Rank

LEMMA RankShrinks ==
    ASSUME ListTypeOK, list' = list, listed' \subseteq listed, NEW r
    PROVE  Rank(r)' <= Rank(r)
<1>1. \A q : Before(q, r)' <=> Before(q, r)
    BY DEF Before
<1>2. {q \in listed' : Before(q, r)'} \in SUBSET {q \in listed : Before(q, r)}
    BY <1>1
<1>3. IsFiniteSet({q \in listed : Before(q, r)})
    BY ListedIsFinite, FS_Subset
<1> QED
    BY <1>2, <1>3, FS_Subset DEF Rank

LEMMA RankStays == ASSUME UNCHANGED <<list, listed>> PROVE \A r : Rank(r)' = Rank(r)
BY DEF Rank, Before

LEMMA PageLies ==
    ASSUME ListTypeOK, NEW r
    PROVE  r \in PageOf(reading.page) <=>
             /\ r \in listed
             /\ (reading.page - 1) * PageRows <= Rank(r) /\ Rank(r) < reading.page * PageRows
<1>1. (reading.page - 1) * PageRows + PageRows = reading.page * PageRows
    BY Pages DEF ListTypeOK
<1> QED
    BY <1>1 DEF PageOf, Skip

-----------------------------------------------------------------------------
LEMMA ListInitially == ListInit => ListInv
<1> SUFFICES ASSUME ListInit PROVE ListInv
    OBVIOUS
<1>1. /\ list \in Lists /\ listed \subseteq ListRows /\ atStart = listed /\ reading = Asking(1)
      /\ promised = 0 /\ reached = 0 /\ seen = {} /\ upsets = {} /\ repeated = FALSE /\ listAsks = 0
    BY DEF ListInit
<1>2. reading.page = 1 /\ reading.pc = "asked" /\ reading.rows = {} /\ reading.total = 0
    BY <1>1 DEF Asking
<1>3. ListTypeOK
    <2>1. Asking(1) \in [page : Nat \ {0}, pc : {"asked", "found", "counted", "answered", "shown"},
                        rows : SUBSET ListRows, total : Nat]
        BY DEF Asking
    <2> QED
        BY <1>1, <2>1 DEF ListTypeOK
<1>4. 0 * PageRows = 0
    BY ListAssumption
<1>5. BehindThePages
    BY <1>1, <1>3, <1>4, RankIsNat DEF BehindThePages, Unseen
<1>6. PagesInOrder
    BY <1>1, <1>2 DEF PagesInOrder
<1>7. BehindThePage /\ CountedThese /\ MissingArePromised /\ UnseenArePromised /\ OnThePage /\ NewPageIsNew
    BY <1>2 DEF BehindThePage, CountedThese, MissingArePromised, UnseenArePromised, OnThePage, NewPageIsNew
<1>8. RepeatsWhenRowsCome /\ InThePages
    BY <1>1 DEF RepeatsWhenRowsCome, InThePages
<1> QED
    BY <1>3, <1>5, <1>6, <1>7, <1>8 DEF ListInv

LEMMA FindManyKeeps == ASSUME ListInv, FindMany PROVE ListInv'
<1> DEFINE page == reading.page
           found == PageOf(page)
           pc == IF reading.pc = "asked" THEN "found" ELSE "answered"
<1>1. ListTypeOK /\ page \in Nat /\ reached \in Nat /\ found \subseteq listed /\ listed \subseteq ListRows
    BY DEF ListInv, ListTypeOK, PageOf
<1>2. /\ reading' = [reading EXCEPT !.rows = found, !.pc = pc] /\ reading.pc \in {"asked", "counted"}
      /\ UNCHANGED <<list, listed, promised, reached, atStart, seen, upsets, repeated, listAsks>>
    BY DEF FindMany
<1>3. pc \in {"found", "answered"} /\ (pc = "answered" => reading.pc = "counted")
    BY <1>2
<1>4. \A r : r \in found <=> r \in listed /\ (page - 1) * PageRows <= Rank(r) /\ Rank(r) < page * PageRows
    BY <1>1, PageLies
<1>5. \A r : Rank(r)' = Rank(r) /\ Rank(r) \in Nat
    BY <1>1, <1>2, RankStays, RankIsNat
<1> HIDE DEF found, pc
<1>6. reading'.rows = found /\ reading'.pc = pc /\ reading'.page = page /\ reading'.total = reading.total
    BY <1>1, <1>2 DEF ListTypeOK
<1>7. ListTypeOK'
    BY <1>1, <1>2, <1>3 DEF ListTypeOK
<1>8. RepeatsWhenRowsCome' /\ BehindThePages' /\ InThePages' /\ CountedThese' /\ UnseenArePromised'
    BY <1>2, <1>3, <1>5, <1>6 DEF ListInv, RepeatsWhenRowsCome, BehindThePages, Unseen, InThePages, CountedThese, UnseenArePromised, Ok
<1>9. PagesInOrder'
    BY <1>2, <1>3, <1>6 DEF ListInv, PagesInOrder, Ok
<1>10. Ok => \A r \in Unseen \ found : r \in listed /\ Rank(r) >= page * PageRows
    <2> SUFFICES ASSUME Ok, NEW r \in Unseen \ found PROVE r \in listed /\ Rank(r) >= page * PageRows
        OBVIOUS
    <2>1. r \in listed /\ Rank(r) >= reached * PageRows /\ page <= reached + 1
        BY DEF ListInv, BehindThePages, PagesInOrder
    <2>2. (page - 1) * PageRows <= reached * PageRows /\ reached * PageRows \in Nat /\ page * PageRows \in Nat
          /\ (page - 1) * PageRows + PageRows = page * PageRows
        <3>1. page - 1 \in Nat /\ page - 1 <= reached
            BY <1>1, <2>1 DEF ListTypeOK
        <3> QED
            BY <1>1, <3>1, Pages
    <2>3. (page - 1) * PageRows <= Rank(r)
        <3>1. (page - 1) * PageRows \in Int
            BY <2>2, <1>1, ListAssumption
        <3> QED
            BY <1>5, <2>1, <2>2, <3>1
    <2> QED
        BY <1>4, <1>5, <2>1, <2>2, <2>3
<1>11. BehindThePage'
    BY <1>2, <1>5, <1>6, <1>10 DEF BehindThePage, Missing, Unseen, Ok
<1>12. MissingArePromised'
    <2> SUFFICES ASSUME Ok, pc = "answered", NEW r \in Unseen \ found PROVE reading.total > page * PageRows
        BY <1>2, <1>6 DEF MissingArePromised, Missing, Unseen, Ok
    <2>1. r \in listed /\ Rank(r) >= page * PageRows
        BY <1>10
    <2>2. reading.total = Cardinality(listed)
        BY <1>3 DEF ListInv, CountedThese
    <2>3. page * PageRows \in Nat /\ Rank(r) < Cardinality(listed) /\ Cardinality(listed) \in Nat
        BY <1>1, <2>1, RankIsBelowCount, CountIsNat, Pages
    <2> QED
        BY <1>5, <2>1, <2>2, <2>3
<1>13. OnThePage'
    BY <1>2, <1>4, <1>5, <1>6 DEF OnThePage
<1>14. NewPageIsNew'
    <2> SUFFICES ASSUME "came" \notin upsets, page > reached, NEW r \in found \cap seen PROVE FALSE
        BY <1>2, <1>6 DEF NewPageIsNew
    <2>1. Rank(r) < reached * PageRows /\ (page - 1) * PageRows <= Rank(r)
        BY <1>4 DEF ListInv, InThePages
    <2>2. reached * PageRows <= (page - 1) * PageRows /\ reached * PageRows \in Nat
        BY <1>1, Pages
    <2>3. (page - 1) * PageRows \in Int
        BY <1>1, ListAssumption
    <2> QED
        BY <1>5, <2>1, <2>2, <2>3
<1> QED
    BY <1>7, <1>8, <1>9, <1>11, <1>12, <1>13, <1>14 DEF ListInv

LEMMA CountKeeps == ASSUME ListInv, Count PROVE ListInv'
<1> DEFINE page == reading.page
           pc == IF reading.pc = "asked" THEN "counted" ELSE "answered"
<1>1. ListTypeOK /\ page \in Nat
    BY DEF ListInv, ListTypeOK
<1>2. /\ reading' = [reading EXCEPT !.total = Cardinality(listed), !.pc = pc] /\ reading.pc \in {"asked", "found"}
      /\ UNCHANGED <<list, listed, promised, reached, atStart, seen, upsets, repeated, listAsks>>
    BY DEF Count
<1>3. pc \in {"counted", "answered"} /\ (pc = "answered" => reading.pc = "found")
    BY <1>2
<1>4. \A r : Rank(r)' = Rank(r) /\ Rank(r) \in Nat
    BY <1>1, <1>2, RankStays, RankIsNat
<1> HIDE DEF pc
<1>5. reading'.rows = reading.rows /\ reading'.pc = pc /\ reading'.page = page /\ reading'.total = Cardinality(listed)
    BY <1>1, <1>2 DEF ListTypeOK
<1>6. ListTypeOK'
    BY <1>1, <1>2, <1>3, CountIsNat DEF ListTypeOK
<1>7. RepeatsWhenRowsCome' /\ BehindThePages' /\ InThePages' /\ UnseenArePromised' /\ BehindThePage'
    BY <1>2, <1>3, <1>4, <1>5 DEF ListInv, RepeatsWhenRowsCome, BehindThePages, Unseen, InThePages, UnseenArePromised,
       BehindThePage, Missing, Ok
<1>8. PagesInOrder' /\ CountedThese'
    BY <1>2, <1>3, <1>5 DEF ListInv, PagesInOrder, CountedThese, Ok
<1>9. MissingArePromised'
    <2> SUFFICES ASSUME Ok, pc = "answered", NEW r \in Missing PROVE Cardinality(listed) > page * PageRows
        BY <1>2, <1>5 DEF MissingArePromised, Missing, Unseen, Ok
    <2>1. r \in listed /\ Rank(r) >= page * PageRows
        BY <1>3 DEF ListInv, BehindThePages, BehindThePage, Missing
    <2>2. page * PageRows \in Nat /\ Rank(r) < Cardinality(listed) /\ Cardinality(listed) \in Nat
        BY <1>1, <2>1, RankIsBelowCount, CountIsNat, Pages
    <2> QED
        BY <1>4, <2>1, <2>2
<1>10. OnThePage' /\ NewPageIsNew'
    BY <1>2, <1>3, <1>4, <1>5 DEF ListInv, OnThePage, NewPageIsNew
<1> QED
    BY <1>6, <1>7, <1>8, <1>9, <1>10 DEF ListInv

LEMMA ShowPageKeeps == ASSUME ListInv, ShowPage PROVE ListInv'
<1> DEFINE page == reading.page
           last == IF page > reached THEN page ELSE reached
<1>1. ListTypeOK /\ page \in Nat /\ reached \in Nat /\ reading.total \in Nat /\ reading.rows \subseteq ListRows
    BY DEF ListInv, ListTypeOK
<1>2. /\ reading.pc = "answered" /\ reading' = [reading EXCEPT !.pc = "shown"] /\ promised' = reading.total
      /\ seen' = seen \cup reading.rows /\ reached' = last
      /\ repeated' = (repeated \/ (page > reached /\ reading.rows \cap seen # {}))
      /\ UNCHANGED <<list, listed, atStart, upsets, listAsks>>
    BY DEF ShowPage
<1>3. \A r : Rank(r)' = Rank(r) /\ Rank(r) \in Nat
    BY <1>1, <1>2, RankStays, RankIsNat
<1>4. last \in Nat /\ page <= last /\ reached <= last /\ (last = page \/ last = reached)
    BY <1>1
<1>5. /\ page * PageRows <= last * PageRows /\ reached * PageRows <= last * PageRows
      /\ last * PageRows \in Nat /\ page * PageRows \in Nat /\ reached * PageRows \in Nat
    BY <1>1, <1>4, Pages
<1> HIDE DEF last
<1>6. reading'.rows = reading.rows /\ reading'.pc = "shown" /\ reading'.page = page
    BY <1>1, <1>2 DEF ListTypeOK
<1>7. ListTypeOK'
    <2>1. repeated' \in BOOLEAN
        BY <1>2 DEF ListInv, ListTypeOK
    <2> QED
        BY <1>1, <1>2, <1>4, <2>1 DEF ListTypeOK
<1>8. RepeatsWhenRowsCome'
    BY <1>2 DEF ListInv, RepeatsWhenRowsCome, NewPageIsNew
<1>9. BehindThePages'
    <2> SUFFICES ASSUME Ok, NEW r \in atStart \ (seen \cup reading.rows) PROVE r \in listed /\ Rank(r) >= last * PageRows
        BY <1>2, <1>3 DEF BehindThePages, Unseen, Ok
    <2>1. r \in listed /\ Rank(r) >= reached * PageRows
        BY DEF ListInv, BehindThePages, Unseen
    <2>2. CASE last = reached
        BY <2>1, <2>2
    <2>3. CASE last = page
        BY <1>2, <2>1, <2>3 DEF ListInv, BehindThePage, Missing, Unseen
    <2> QED
        BY <1>4, <2>2, <2>3
<1>10. PagesInOrder' /\ CountedThese' /\ BehindThePage' /\ MissingArePromised'
    BY <1>1, <1>2, <1>4, <1>6 DEF ListInv, PagesInOrder, CountedThese, BehindThePage, MissingArePromised, Ok
<1>11. UnseenArePromised'
    BY <1>2, <1>6 DEF ListInv, MissingArePromised, UnseenArePromised, Missing, Unseen, Ok
<1>12. InThePages'
    <2> SUFFICES ASSUME "came" \notin upsets, NEW r \in (seen \cup reading.rows) \cap listed PROVE Rank(r) < last * PageRows
        BY <1>2, <1>3 DEF InThePages
    <2>1. Rank(r) < reached * PageRows \/ Rank(r) < page * PageRows
        BY <1>2 DEF ListInv, InThePages, OnThePage
    <2> QED
        BY <1>3, <1>5, <2>1
<1>13. OnThePage' /\ NewPageIsNew'
    BY <1>6 DEF OnThePage, NewPageIsNew
<1> QED
    BY <1>7, <1>8, <1>9, <1>10, <1>11, <1>12, <1>13 DEF ListInv

LEMMA FailPageKeeps == ASSUME ListInv, FailPage PROVE ListInv'
<1>1. /\ reading' = [reading EXCEPT !.pc = "shown"] /\ upsets' = upsets \cup {"failed"}
      /\ UNCHANGED <<list, listed, promised, reached, atStart, seen, repeated, listAsks>>
    BY DEF FailPage
<1>2. ~Ok'
    BY <1>1 DEF Ok
<1>3. reading'.pc = "shown"
    BY <1>1 DEF ListInv, ListTypeOK
<1>4. ListTypeOK'
    BY <1>1 DEF ListInv, ListTypeOK, Upsets
<1>5. BehindThePages' /\ PagesInOrder' /\ BehindThePage' /\ CountedThese' /\ MissingArePromised' /\ UnseenArePromised'
    BY <1>2 DEF BehindThePages, PagesInOrder, BehindThePage, CountedThese, MissingArePromised, UnseenArePromised
<1>6. InThePages' /\ RepeatsWhenRowsCome'
    BY <1>1, RankStays DEF ListInv, InThePages, RepeatsWhenRowsCome
<1>7. OnThePage' /\ NewPageIsNew'
    BY <1>3 DEF OnThePage, NewPageIsNew
<1> QED
    BY <1>4, <1>5, <1>6, <1>7 DEF ListInv

LEMMA TurningKeeps ==
    ASSUME ListInv, NEW page \in Nat \ {0}, reading' = Asking(page), Ok => page <= reached + 1,
           UNCHANGED <<list, listed, promised, reached, atStart, seen, upsets, repeated>>, listAsks' \in Nat
    PROVE  ListInv'
<1>1. reading'.page = page /\ reading'.pc = "asked" /\ reading'.rows = {} /\ reading'.total = 0
    BY DEF Asking
<1>2. ListTypeOK'
    BY DEF ListInv, ListTypeOK, Asking
<1>3. BehindThePages' /\ InThePages' /\ RepeatsWhenRowsCome'
    BY RankStays DEF ListInv, BehindThePages, InThePages, RepeatsWhenRowsCome, Unseen, Ok
<1>4. PagesInOrder'
    BY <1>1 DEF PagesInOrder, Ok
<1>5. BehindThePage' /\ CountedThese' /\ MissingArePromised' /\ UnseenArePromised' /\ OnThePage' /\ NewPageIsNew'
    BY <1>1 DEF BehindThePage, CountedThese, MissingArePromised, UnseenArePromised, OnThePage, NewPageIsNew
<1> QED
    BY <1>2, <1>3, <1>4, <1>5 DEF ListInv

LEMMA NextPageKeeps == ASSUME ListInv, NextPage PROVE ListInv'
<1>1. reading.page \in Nat /\ listAsks \in Nat /\ reached \in Nat /\ listAsks' = listAsks + 1
    BY DEF ListInv, ListTypeOK, NextPage, AskList
<1>2. Ok => reading.page <= reached
    BY DEF ListInv, PagesInOrder, NextPage
<1>3. reading.page + 1 \in Nat \ {0} /\ listAsks' \in Nat /\ (Ok => reading.page + 1 <= reached + 1)
    BY <1>1, <1>2
<1> QED
    BY <1>3, TurningKeeps DEF NextPage

LEMMA PreviousPageKeeps == ASSUME ListInv, PreviousPage PROVE ListInv'
<1>1. reading.page \in Nat \ {0} /\ reading.page # 1 /\ listAsks \in Nat /\ reached \in Nat /\ listAsks' = listAsks + 1
    BY DEF ListInv, ListTypeOK, PreviousPage, AskList
<1>2. Ok => reading.page <= reached
    BY DEF ListInv, PagesInOrder, PreviousPage
<1>3. reading.page - 1 \in Nat \ {0} /\ listAsks' \in Nat /\ (Ok => reading.page - 1 <= reached + 1)
    BY <1>1, <1>2
<1> QED
    BY <1>3, TurningKeeps DEF PreviousPage

LEMMA StartOverKeeps == ASSUME ListInv, StartOver PROVE ListInv'
<1>1. /\ reading' = Asking(1) /\ promised' = 0 /\ reached' = 0 /\ atStart' = listed /\ seen' = {} /\ upsets' = {}
      /\ repeated' = FALSE /\ UNCHANGED <<list, listed>> /\ listAsks' \in Nat
    <2>1. listAsks \in Nat /\ listAsks' = listAsks + 1
        BY DEF ListInv, ListTypeOK, StartOver, AskList
    <2> QED
        BY <2>1 DEF StartOver
<1>2. reading'.page = 1 /\ reading'.pc = "asked" /\ reading'.rows = {} /\ reading'.total = 0
    BY <1>1 DEF Asking
<1>3. ListTypeOK'
    <2>1. Asking(1) \in [page : Nat \ {0}, pc : {"asked", "found", "counted", "answered", "shown"},
                        rows : SUBSET ListRows, total : Nat]
        BY DEF Asking
    <2> QED
        BY <1>1, <2>1 DEF ListInv, ListTypeOK
<1>4. 0 * PageRows = 0
    BY ListAssumption
<1>5. \A r : Rank(r)' \in Nat
    BY <1>1, RankIsNat, RankStays DEF ListInv
<1>6. BehindThePages'
    BY <1>1, <1>4, <1>5 DEF BehindThePages, Unseen
<1>7. PagesInOrder'
    BY <1>1, <1>2 DEF PagesInOrder
<1>8. BehindThePage' /\ CountedThese' /\ MissingArePromised' /\ UnseenArePromised' /\ OnThePage' /\ NewPageIsNew'
    BY <1>2 DEF BehindThePage, CountedThese, MissingArePromised, UnseenArePromised, OnThePage, NewPageIsNew
<1>9. RepeatsWhenRowsCome' /\ InThePages'
    BY <1>1 DEF RepeatsWhenRowsCome, InThePages
<1> QED
    BY <1>3, <1>6, <1>7, <1>8, <1>9 DEF ListInv

-----------------------------------------------------------------------------
LEMMA ComeKeeps == ASSUME ListInv, NEW r \in ListRows, Come(r) PROVE ListInv'
<1>1. /\ listed' = listed \cup {r} /\ r \notin listed
      /\ upsets' = upsets \cup {"came"} \cup (IF reading.pc = "counted" THEN {"torn"} ELSE {})
      /\ UNCHANGED <<list, atStart, reading, promised, reached, seen, repeated>>
    BY DEF Come, walkVars
<1>2. "came" \in upsets' /\ (Ok' => Ok /\ reading.pc # "counted")
    BY <1>1 DEF Ok
<1>3. ListTypeOK'
    <2>1. listAsks \in Nat /\ listAsks' = listAsks + 1
        BY DEF ListInv, ListTypeOK, Come, AskList
    <2> QED
        BY <1>1, <2>1 DEF ListInv, ListTypeOK, Upsets
<1>4. \A q : Rank(q) <= Rank(q)' /\ Rank(q) \in Nat /\ Rank(q)' \in Nat
    <2> TAKE q
    <2>1. ListTypeOK
        BY DEF ListInv
    <2>2. Rank(q) <= Rank(q)'
        BY <1>1, <1>3, <2>1, RankGrows
    <2>3. Rank(q)' \in Nat
        BY <1>3, NextRankIsNat
    <2> QED
        BY <2>1, <2>2, <2>3, RankIsNat
<1>5. reached * PageRows \in Nat /\ reading.page * PageRows \in Nat
    BY Pages DEF ListInv, ListTypeOK
<1>6. BehindThePages'
    BY <1>1, <1>2, <1>4, <1>5 DEF ListInv, BehindThePages, Unseen
<1>7. BehindThePage'
    BY <1>1, <1>2, <1>4, <1>5 DEF ListInv, BehindThePage, Missing, Unseen
<1>8. PagesInOrder' /\ CountedThese' /\ MissingArePromised' /\ UnseenArePromised'
    BY <1>1, <1>2 DEF ListInv, PagesInOrder, CountedThese, MissingArePromised, UnseenArePromised, Missing, Unseen
<1>9. RepeatsWhenRowsCome' /\ InThePages' /\ OnThePage' /\ NewPageIsNew'
    BY <1>2 DEF RepeatsWhenRowsCome, InThePages, OnThePage, NewPageIsNew
<1> QED
    BY <1>3, <1>6, <1>7, <1>8, <1>9 DEF ListInv

LEMMA LeaveKeeps == ASSUME ListInv, NEW r \in ListRows, Leave(r) PROVE ListInv'
<1>1. /\ listed' = listed \ {r} /\ upsets' = upsets \cup {"left"}
      /\ UNCHANGED <<list, atStart, reading, promised, reached, seen, repeated>>
    BY DEF Leave, walkVars
<1>2. ~Ok' /\ ("came" \in upsets' <=> "came" \in upsets)
    BY <1>1 DEF Ok
<1>3. ListTypeOK'
    <2>1. listAsks \in Nat /\ listAsks' = listAsks + 1
        BY DEF ListInv, ListTypeOK, Leave, AskList
    <2> QED
        BY <1>1, <2>1 DEF ListInv, ListTypeOK, Upsets
<1>4. \A q : Rank(q)' <= Rank(q) /\ Rank(q) \in Nat /\ Rank(q)' \in Nat
    <2> TAKE q
    <2>1. ListTypeOK
        BY DEF ListInv
    <2>2. Rank(q)' <= Rank(q)
        BY <1>1, <2>1, RankShrinks
    <2>3. Rank(q)' \in Nat
        BY <1>3, NextRankIsNat
    <2> QED
        BY <2>1, <2>2, <2>3, RankIsNat
<1>5. reached * PageRows \in Nat /\ reading.page * PageRows \in Nat
    BY Pages DEF ListInv, ListTypeOK
<1>6. BehindThePages' /\ PagesInOrder' /\ BehindThePage' /\ CountedThese' /\ MissingArePromised' /\ UnseenArePromised'
    BY <1>2 DEF BehindThePages, PagesInOrder, BehindThePage, CountedThese, MissingArePromised, UnseenArePromised
<1>7. InThePages'
    BY <1>1, <1>2, <1>4, <1>5 DEF ListInv, InThePages
<1>8. OnThePage'
    BY <1>1, <1>2, <1>4, <1>5 DEF ListInv, OnThePage
<1>9. RepeatsWhenRowsCome' /\ NewPageIsNew'
    BY <1>1, <1>2 DEF ListInv, RepeatsWhenRowsCome, NewPageIsNew
<1> QED
    BY <1>3, <1>6, <1>7, <1>8, <1>9 DEF ListInv

LEMMA ListStep == ListInv /\ [ListNext]_listVars => ListInv'
<1> SUFFICES ASSUME ListInv, [ListNext]_listVars PROVE ListInv'
    OBVIOUS
<1>1. CASE UNCHANGED listVars
    <2>1. \A r : Rank(r)' = Rank(r)
        BY <1>1, RankStays DEF listVars
    <2>2. UNCHANGED <<list, listed, reading, promised, reached, atStart, seen, upsets, repeated, listAsks>>
        BY <1>1 DEF listVars, walkVars
    <2> QED
        BY <2>1, <2>2 DEF ListInv, ListTypeOK, RepeatsWhenRowsCome, BehindThePages, PagesInOrder, BehindThePage, CountedThese,
           MissingArePromised, UnseenArePromised, InThePages, OnThePage, NewPageIsNew, Ok, Unseen, Missing
<1>2. CASE FindMany \/ Count \/ ShowPage \/ FailPage
    BY <1>2, FindManyKeeps, CountKeeps, ShowPageKeeps, FailPageKeeps
<1>3. CASE NextPage \/ PreviousPage \/ StartOver
    BY <1>3, NextPageKeeps, PreviousPageKeeps, StartOverKeeps
<1>4. ASSUME NEW r \in ListRows, Come(r) \/ Leave(r) PROVE ListInv'
    BY <1>4, ComeKeeps, LeaveKeeps
<1> QED
    BY <1>1, <1>2, <1>3, <1>4 DEF ListNext

\* However long the list and its pages, and however rows come meanwhile, a
\* reader who reaches the last page has been shown every row there was at the
\* start, unless a row left, a page failed, or a row came between the two
\* queries of a page; and no new page repeats a row unless rows came.
THEOREM ListHolds == ListSpec => []ListingSafe
<1>1. ListInv => ListingSafe
    <2> SUFFICES ASSUME ListInv PROVE WalkSeesAll
        BY DEF ListInv, ListingSafe
    <2> SUFFICES ASSUME reading.pc = "shown", ~OffersNext, Ok, NEW r \in Unseen PROVE FALSE
        BY DEF WalkSeesAll, Ok, Unseen
    <2>1. promised > reading.page * PageRows
        BY DEF ListInv, UnseenArePromised
    <2>2. promised \in Nat /\ reading.page * PageRows \in Nat
        BY Pages DEF ListInv, ListTypeOK
    <2> QED
        BY <2>1, <2>2 DEF OffersNext
<1> QED
    BY <1>1, ListInitially, ListStep, PTL DEF ListSpec

-----------------------------------------------------------------------------
(* The daily check-in for any users, payments, days, requests and sweeps.    *)

\* A row waits for a payment, and no hash is on two rows.
RowsHavePayments == \A key \in Keys : checkin[key].status = "pending" => checkin[key].hash \in Payments

HashesDiffer ==
    \A h \in Payments, key \in Keys, other \in Keys :
        checkin[key].hash = h /\ checkin[other].hash = h => key = other

Succeeded(key, h) == key[1] = SentBy[TxOf[h]] /\ payChain[TxOf[h]] = "succeeded"

\* What an evaluator is about to write was so when it looked, and stays so.
EvaluatorKnows(e) ==
    evaluator[e].pc \in {"confirmed", "failed"} =>
        /\ evaluator[e].key \in Keys /\ evaluator[e].hash \in Payments
        /\ evaluator[e].pc = "confirmed" => Succeeded(evaluator[e].key, evaluator[e].hash)

\* A request has its key; one with a payment has it; neither goes on from a confirmed row.
CallKnows(k) ==
    LET c == checkCall[k]
    IN  /\ c.pc # "idle" => c.key \in Keys
        /\ c.pc \in {"confirm", "duplicate", "save", "evaluate", "settle"} => c.hash \in Payments
        /\ c.pc \in {"upsert", "duplicate", "save"} => c.read.status # "confirmed"
        /\ c.pc \in {"evaluate", "settle"} => c.read = [status |-> "pending", hash |-> c.hash]
        /\ c.pc = "settle" => /\ c.verdict \in {"failed", "confirmed"}
                              /\ c.verdict = "confirmed" => Succeeded(c.key, c.hash)

\* Evidence is of the chain, and until its row is written blindly the row shows it.
EvidenceHolds ==
    \A h \in Payments : \A key \in evidence[h] :
        /\ Succeeded(key, h)
        /\ key \notin staleRows => checkin[key] = [status |-> "confirmed", hash |-> h]

CheckInv ==
    /\ CheckTypeOK /\ RowsHavePayments /\ HashesDiffer /\ EvidenceHolds /\ ConfirmedByItsPayment
    /\ \A e \in Evaluators : EvaluatorKnows(e)
    /\ \A k \in CheckCalls : CallKnows(k)

LEMMA CheckInitially == CheckInit => CheckInv
<1> SUFFICES ASSUME CheckInit PROVE CheckInv
    OBVIOUS
<1>1. 1 \in Days
    BY CheckAssumption DEF Days
<1>2. NoCheckin \in Checkins /\ NoCheckin.status = "absent" /\ NoCheckin.hash \notin Payments
    BY CheckAssumption DEF NoCheckin, Checkins, DayStatuses
<1>3. CheckTypeOK
    BY <1>1, <1>2 DEF CheckInit, CheckTypeOK, AtRest, NoCall
<1>4. RowsHavePayments /\ HashesDiffer /\ EvidenceHolds /\ ConfirmedByItsPayment
    BY <1>2 DEF CheckInit, RowsHavePayments, HashesDiffer, EvidenceHolds, ConfirmedByItsPayment
<1> QED
    BY <1>3, <1>4 DEF CheckInv, CheckInit, EvaluatorKnows, CallKnows, AtRest, NoCall

-----------------------------------------------------------------------------
(* Writing a row.                                                           *)

\* What a writer of a row brings.
GoodWrite(key, row, read, by) ==
    /\ key \in Keys /\ row \in Checkins /\ read \in Checkins
    /\ row.status = "pending" => row.hash \in Payments
    /\ row.hash \in Payments => \A other \in Keys \ {key} : checkin[other].hash # row.hash
    /\ row.status = "confirmed" =>
         \/ by \notin Payments /\ row.hash = "free"
         \/ by \in Payments /\ Succeeded(key, by) /\ (checkin[key] = read => row.hash = by)
    /\ read.status # "confirmed"

LEMMA WriteKeeps ==
    ASSUME CheckInv, UNCHANGED payChain, NEW key, NEW row, NEW read, NEW by,
           GoodWrite(key, row, read, by), Writes(key, row, read, by)
    PROVE  /\ checkin' \in [Keys -> Checkins] /\ evidence' \in [Payments -> SUBSET Keys] /\ staleRows' \in SUBSET Keys
           /\ RowsHavePayments' /\ HashesDiffer' /\ EvidenceHolds' /\ ConfirmedByItsPayment'
<1>0. /\ checkin \in [Keys -> Checkins] /\ evidence \in [Payments -> SUBSET Keys] /\ staleRows \in SUBSET Keys
      /\ key \in Keys /\ row \in Checkins
    BY DEF CheckInv, CheckTypeOK, GoodWrite
<1>1. /\ checkin'[key] = row
      /\ \A other \in Keys \ {key} : checkin'[other] = checkin[other]
      /\ checkin' \in [Keys -> Checkins]
    BY <1>0 DEF Writes
<1>2. /\ staleRows \subseteq staleRows' /\ staleRows' \subseteq staleRows \cup {key}
      /\ key \notin staleRows' => checkin[key] = read
    BY DEF Writes
<1>3. /\ evidence' \in [Payments -> SUBSET Keys]
      /\ \A h \in Payments : evidence[h] \subseteq evidence'[h] /\ evidence'[h] \subseteq evidence[h] \cup {key}
      /\ \A h \in Payments : key \in evidence'[h] => key \in evidence[h] \/ (h = by /\ row.status = "confirmed")
      /\ row.status = "confirmed" /\ by \in Payments => key \in evidence'[by]
    BY <1>0 DEF Writes
<1>4. RowsHavePayments'
    BY <1>1 DEF CheckInv, RowsHavePayments, GoodWrite
<1>5. HashesDiffer'
    BY <1>1 DEF CheckInv, HashesDiffer, GoodWrite
<1>6. EvidenceHolds'
    <2> SUFFICES ASSUME NEW h \in Payments, NEW other \in evidence'[h]
                 PROVE  /\ Succeeded(other, h)'
                        /\ other \notin staleRows' => checkin'[other] = [status |-> "confirmed", hash |-> h]
        BY DEF EvidenceHolds
    <2>1. other \in evidence[h] \/ (other = key /\ h = by /\ row.status = "confirmed")
        BY <1>3
    <2>2. other \in Keys
        BY <1>3
    <2>3. Succeeded(other, h)
        BY <2>1 DEF CheckInv, EvidenceHolds, GoodWrite
    <2>4. CASE other # key
        BY <1>1, <1>2, <2>1, <2>2, <2>3, <2>4 DEF CheckInv, EvidenceHolds, Succeeded
    <2>5. CASE other = key
        <3> SUFFICES ASSUME key \notin staleRows' PROVE row = [status |-> "confirmed", hash |-> h]
            BY <1>1, <2>3, <2>5 DEF Succeeded
        <3>1. checkin[key] = read /\ key \notin staleRows /\ read.status # "confirmed"
            BY <1>2 DEF GoodWrite
        <3>2. key \notin evidence[h]
            <4> SUFFICES ASSUME key \in evidence[h] PROVE FALSE
                OBVIOUS
            <4>1. checkin[key] = [status |-> "confirmed", hash |-> h]
                BY <3>1 DEF CheckInv, EvidenceHolds
            <4> QED
                BY <3>1, <4>1
        <3>3. h = by /\ row.status = "confirmed"
            BY <2>1, <2>5, <3>2
        <3>4. row.hash = h
            BY <3>1, <3>3 DEF GoodWrite
        <3> QED
            BY <1>0, <3>3, <3>4 DEF Checkins
    <2> QED
        BY <2>4, <2>5
<1>7. ConfirmedByItsPayment'
    <2> SUFFICES ASSUME NEW other \in Keys \ staleRows', checkin'[other].status = "confirmed", checkin'[other].hash # "free"
                 PROVE  other \in evidence'[checkin'[other].hash]
        BY DEF ConfirmedByItsPayment
    <2>1. CASE other # key
        <3>1. checkin'[other] = checkin[other] /\ other \notin staleRows
            BY <1>1, <1>2, <2>1
        <3>2. other \in evidence[checkin[other].hash]
            BY <3>1 DEF CheckInv, ConfirmedByItsPayment
        <3>3. CASE checkin[other].hash \in Payments
            BY <1>3, <3>1, <3>2, <3>3
        <3>4. CASE checkin[other].hash \notin Payments
            BY <3>1, <3>2, <3>4 DEF Writes
        <3> QED
            BY <3>3, <3>4
    <2>2. CASE other = key
        <3>1. checkin[key] = read /\ row.status = "confirmed" /\ row.hash # "free"
            BY <1>1, <1>2, <2>2
        <3>2. by \in Payments /\ row.hash = by
            BY <3>1 DEF GoodWrite
        <3> QED
            BY <1>1, <1>3, <2>2, <3>1, <3>2
    <2> QED
        BY <2>1, <2>2
<1> QED
    BY <1>1, <1>2, <1>3, <1>0, <1>4, <1>5, <1>6, <1>7

\* The rest of a step that writes one row.
LEMMA WriteLeaves ==
    ASSUME CheckInv, NEW key, NEW row, NEW read, NEW by, GoodWrite(key, row, read, by), Writes(key, row, read, by),
           UNCHANGED <<today, payChain, checkAsks>>,
           evaluator' \in [Evaluators -> [pc : {"idle", "evaluate", "confirmed", "failed"},
                                          rows : SUBSET [key : Keys, hash : Payments],
                                          key : Keys \cup {<<>>}, hash : Payments \cup {"none"}]],
           checkCall' \in [CheckCalls ->
               [pc : {"idle", "claim", "upsert", "confirm", "duplicate", "save", "evaluate", "settle"},
                key : Keys \cup {<<>>}, hash : Payments \cup {"none"}, read : Checkins,
                verdict : {"pending", "failed", "confirmed"}]],
           \A e \in Evaluators : EvaluatorKnows(e)', \A k \in CheckCalls : CallKnows(k)'
    PROVE  CheckInv'
<1>1. UNCHANGED payChain
    OBVIOUS
<1>2. CheckTypeOK'
    BY <1>1, WriteKeeps DEF CheckInv, CheckTypeOK
<1> QED
    BY <1>1, <1>2, WriteKeeps DEF CheckInv

LEMMA VerdictIsTrue ==
    ASSUME NEW key \in Keys, NEW h \in Payments
    PROVE  /\ Verdict(key[1], h) \in {"pending", "failed", "confirmed"}
           /\ CheckTypeOK /\ Verdict(key[1], h) = "confirmed" => Succeeded(key, h)
BY CheckAssumption DEF Verdict, Succeeded, CheckTypeOK

-----------------------------------------------------------------------------
(* Sweeps and status requests.                                              *)

EvaluatorType ==
    [pc : {"idle", "evaluate", "confirmed", "failed"}, rows : SUBSET [key : Keys, hash : Payments],
     key : Keys \cup {<<>>}, hash : Payments \cup {"none"}]

LEMMA EvaluatorKeeps ==
    ASSUME CheckInv, NEW e \in Evaluators, EvaluatorStep(e)
    PROVE  CheckInv'
<1>0. /\ evaluator \in [Evaluators -> EvaluatorType] /\ evaluator[e] \in EvaluatorType
      /\ AtRest \in EvaluatorType
    BY DEF CheckInv, CheckTypeOK, EvaluatorType, AtRest
<1>1. ASSUME NEW keys \in SUBSET Keys, Begins(e, keys) PROVE CheckInv'
    <2>1. PendingRows(keys) \in SUBSET [key : Keys, hash : Payments]
        BY DEF PendingRows, CheckInv, RowsHavePayments
    <2>2. evaluator' = [evaluator EXCEPT ![e] = [AtRest EXCEPT !.pc = "evaluate", !.rows = PendingRows(keys)]]
        BY <1>1 DEF Begins
    <2>3. /\ [AtRest EXCEPT !.pc = "evaluate", !.rows = PendingRows(keys)] \in EvaluatorType
          /\ [AtRest EXCEPT !.pc = "evaluate", !.rows = PendingRows(keys)].pc = "evaluate"
        BY <2>1 DEF AtRest, EvaluatorType
    <2>4. evaluator' \in [Evaluators -> EvaluatorType] /\ evaluator'[e].pc = "evaluate"
          /\ \A f \in Evaluators \ {e} : evaluator'[f] = evaluator[f]
        BY <1>0, <2>2, <2>3
    <2>5. UNCHANGED <<today, checkin, payChain, checkCall, evidence, staleRows>> /\ checkAsks' \in Nat
        BY <1>1 DEF Begins, CheckInv, CheckTypeOK
    <2>6. CheckTypeOK'
        BY <2>4, <2>5 DEF CheckInv, CheckTypeOK, EvaluatorType
    <2>7. \A f \in Evaluators : EvaluatorKnows(f)'
        BY <2>4, <2>5 DEF CheckInv, EvaluatorKnows, Succeeded
    <2> QED
        BY <2>5, <2>6, <2>7 DEF CheckInv, CallKnows, Succeeded, RowsHavePayments, HashesDiffer, EvidenceHolds,
                                ConfirmedByItsPayment
<1>2. CASE EvaluateRow(e)
    <2>1. PICK r \in evaluator[e].rows, error \in BOOLEAN :
             LET verdict == IF error THEN "pending" ELSE Verdict(r.key[1], r.hash)
             IN  evaluator' = [evaluator EXCEPT ![e] =
                      IF verdict # "pending" THEN [pc |-> verdict, rows |-> evaluator[e].rows \ {r}, key |-> r.key, hash |-> r.hash]
                      ELSE IF evaluator[e].rows = {r} THEN AtRest
                      ELSE [evaluator[e] EXCEPT !.rows = evaluator[e].rows \ {r}]]
        BY <1>2, <1>0 DEF EvaluateRow
    <2>2. r.key \in Keys /\ r.hash \in Payments /\ evaluator[e].rows \ {r} \in SUBSET [key : Keys, hash : Payments]
        BY <1>0 DEF EvaluatorType
    <2>3. /\ evaluator[e].pc = "evaluate"
          /\ UNCHANGED <<today, checkin, payChain, checkCall, evidence, staleRows, checkAsks>>
        BY <1>2 DEF EvaluateRow
    <2>4. /\ \A f \in Evaluators \ {e} : evaluator'[f] = evaluator[f]
          /\ evaluator' \in [Evaluators -> EvaluatorType]
          /\ evaluator'[e].pc \in {"confirmed", "failed"} =>
                evaluator'[e].key = r.key /\ evaluator'[e].hash = r.hash /\ evaluator'[e].pc = Verdict(r.key[1], r.hash)
        <3> DEFINE verdict == IF error THEN "pending" ELSE Verdict(r.key[1], r.hash)
        <3>1. verdict \in {"pending", "failed", "confirmed"}
            BY <2>2, VerdictIsTrue
        <3>2. CASE verdict # "pending"
            <4>1. evaluator' = [evaluator EXCEPT ![e] =
                      [pc |-> verdict, rows |-> evaluator[e].rows \ {r}, key |-> r.key, hash |-> r.hash]]
                BY <2>1, <3>2
            <4>2. [pc |-> verdict, rows |-> evaluator[e].rows \ {r}, key |-> r.key, hash |-> r.hash] \in EvaluatorType
                BY <2>2, <3>1, <3>2 DEF EvaluatorType
            <4>3. verdict = Verdict(r.key[1], r.hash)
                BY <3>2
            <4> HIDE DEF verdict
            <4> QED
                BY <1>0, <4>1, <4>2, <4>3
        <3>3. CASE verdict = "pending" /\ evaluator[e].rows = {r}
            <4>1. evaluator' = [evaluator EXCEPT ![e] = AtRest]
                BY <2>1, <3>3
            <4> QED
                BY <1>0, <4>1 DEF AtRest
        <3>4. CASE verdict = "pending" /\ evaluator[e].rows # {r}
            <4>1. evaluator' = [evaluator EXCEPT ![e] = [evaluator[e] EXCEPT !.rows = evaluator[e].rows \ {r}]]
                BY <2>1, <3>4
            <4>2. /\ [evaluator[e] EXCEPT !.rows = evaluator[e].rows \ {r}] \in EvaluatorType
                  /\ [evaluator[e] EXCEPT !.rows = evaluator[e].rows \ {r}].pc = "evaluate"
                BY <1>0, <2>2, <2>3 DEF EvaluatorType
            <4> QED
                BY <1>0, <4>1, <4>2
        <3> QED
            BY <3>2, <3>3, <3>4
    <2>5. EvaluatorKnows(e)'
        BY <2>2, <2>3, <2>4, VerdictIsTrue DEF CheckInv, EvaluatorKnows, Succeeded
    <2>6. \A f \in Evaluators : EvaluatorKnows(f)'
        BY <2>3, <2>4, <2>5 DEF CheckInv, EvaluatorKnows, Succeeded
    <2>7. CheckTypeOK'
        BY <2>3, <2>4 DEF CheckInv, CheckTypeOK, EvaluatorType
    <2> QED
        BY <2>3, <2>6, <2>7 DEF CheckInv, CallKnows, Succeeded, RowsHavePayments, HashesDiffer, EvidenceHolds,
                                ConfirmedByItsPayment
<1>3. CASE WriteVerdict(e)
    <2> DEFINE v == evaluator[e]
               row == [checkin[v.key] EXCEPT !.status = v.pc]
               read == [status |-> "pending", hash |-> v.hash]
    <2>1. /\ v.pc \in {"confirmed", "failed"} /\ v.key \in Keys /\ v.hash \in Payments
          /\ v.pc = "confirmed" => Succeeded(v.key, v.hash)
          /\ UNCHANGED <<today, payChain, checkCall, checkAsks>>
          /\ checkin[v.key] \in Checkins
        BY <1>3 DEF WriteVerdict, CheckInv, EvaluatorKnows, CheckTypeOK
    <2>2. Writes(v.key, row, read, v.hash)
        BY <1>3 DEF WriteVerdict
    <2>3. row \in Checkins /\ read \in Checkins /\ row.status = v.pc /\ row.hash = checkin[v.key].hash
          /\ read.status = "pending" /\ read.hash = v.hash
        BY <2>1 DEF Checkins, DayStatuses
    <2>4. row.hash \in Payments => \A other \in Keys \ {v.key} : checkin[other].hash # row.hash
        BY <2>1, <2>3 DEF CheckInv, HashesDiffer
    <2>5. GoodWrite(v.key, row, read, v.hash)
        <3> HIDE DEF row, read
        <3> QED
            BY <2>1, <2>3, <2>4 DEF GoodWrite
    <2>6. evaluator' \in [Evaluators -> EvaluatorType] /\ evaluator'[e].pc \in {"idle", "evaluate"}
          /\ \A f \in Evaluators \ {e} : evaluator'[f] = evaluator[f]
        <3>1. /\ [AtRest EXCEPT !.pc = "evaluate", !.rows = v.rows] \in EvaluatorType
              /\ [AtRest EXCEPT !.pc = "evaluate", !.rows = v.rows].pc = "evaluate" /\ AtRest.pc = "idle"
            BY <1>0 DEF AtRest, EvaluatorType
        <3> QED
            BY <1>0, <1>3, <3>1 DEF WriteVerdict
    <2>7. \A f \in Evaluators : EvaluatorKnows(f)'
        BY <2>1, <2>6 DEF CheckInv, EvaluatorKnows, Succeeded
    <2>8. \A k \in CheckCalls : CallKnows(k)'
        BY <2>1 DEF CheckInv, CallKnows, Succeeded
    <2>9. checkCall' \in [CheckCalls ->
               [pc : {"idle", "claim", "upsert", "confirm", "duplicate", "save", "evaluate", "settle"},
                key : Keys \cup {<<>>}, hash : Payments \cup {"none"}, read : Checkins,
                verdict : {"pending", "failed", "confirmed"}]]
        BY <2>1 DEF CheckInv, CheckTypeOK
    <2> HIDE DEF row, read
    <2> QED
        BY <2>1, <2>2, <2>5, <2>6, <2>7, <2>8, <2>9, WriteLeaves DEF EvaluatorType
<1>4. ASSUME NEW u \in CheckUsers, StatusAsked(e, u) PROVE CheckInv'
    <2>1. {<<u, today>>} \in SUBSET Keys
        BY DEF Keys, CheckInv, CheckTypeOK
    <2> QED
        BY <1>1, <1>4, <2>1 DEF StatusAsked
<1>5. CASE SweepPending(e)
    <2>1. {key \in Keys : key[2] + Window >= today} \in SUBSET Keys
        OBVIOUS
    <2> QED
        BY <1>1, <1>5, <2>1 DEF SweepPending
<1> QED
    BY <1>2, <1>3, <1>4, <1>5 DEF EvaluatorStep

-----------------------------------------------------------------------------
(* Requests.                                                                *)

CallType ==
    [pc : {"idle", "claim", "upsert", "confirm", "duplicate", "save", "evaluate", "settle"},
     key : Keys \cup {<<>>}, hash : Payments \cup {"none"}, read : Checkins,
     verdict : {"pending", "failed", "confirmed"}]

LEMMA NoCallTyped == NoCall \in CallType /\ NoCall.pc = "idle"
BY DEF NoCall, CallType, NoCheckin, Checkins, DayStatuses

\* A step of a request that writes no row.
LEMMA OnlyReadsKeeps ==
    ASSUME CheckInv, NEW k \in CheckCalls, NEW c \in CallType,
           checkCall' = [checkCall EXCEPT ![k] = c], CallKnows(k)',
           UNCHANGED <<today, checkin, payChain, evaluator, evidence, staleRows>>, checkAsks' \in Nat
    PROVE  CheckInv'
<1>1. checkCall' \in [CheckCalls -> CallType] /\ \A j \in CheckCalls \ {k} : checkCall'[j] = checkCall[j]
    BY DEF CheckInv, CheckTypeOK, CallType
<1>2. CheckTypeOK'
    BY <1>1 DEF CheckInv, CheckTypeOK, CallType
<1>3. \A j \in CheckCalls : CallKnows(j)'
    BY <1>1 DEF CheckInv, CallKnows, Succeeded
<1> QED
    BY <1>2, <1>3 DEF CheckInv, EvaluatorKnows, Succeeded, RowsHavePayments, HashesDiffer, EvidenceHolds,
                      ConfirmedByItsPayment

\* A step of a request that writes one.
LEMMA WritingKeeps ==
    ASSUME CheckInv, NEW k \in CheckCalls, NEW c \in CallType,
           checkCall' = [checkCall EXCEPT ![k] = c], CallKnows(k)',
           UNCHANGED <<today, payChain, evaluator, checkAsks>>,
           NEW key, NEW row, NEW read, NEW by, GoodWrite(key, row, read, by), Writes(key, row, read, by)
    PROVE  CheckInv'
<1>1. checkCall' \in [CheckCalls -> CallType] /\ \A j \in CheckCalls \ {k} : checkCall'[j] = checkCall[j]
    BY DEF CheckInv, CheckTypeOK, CallType
<1>2. \A j \in CheckCalls : CallKnows(j)'
    BY <1>1 DEF CheckInv, CallKnows, Succeeded
<1>3. \A e \in Evaluators : EvaluatorKnows(e)'
    BY DEF CheckInv, EvaluatorKnows, Succeeded
<1>4. evaluator' \in [Evaluators -> [pc : {"idle", "evaluate", "confirmed", "failed"},
                                     rows : SUBSET [key : Keys, hash : Payments],
                                     key : Keys \cup {<<>>}, hash : Payments \cup {"none"}]]
    BY DEF CheckInv, CheckTypeOK
<1> QED
    BY <1>1, <1>2, <1>3, <1>4, WriteLeaves DEF CallType

LEMMA CallStarts ==
    ASSUME CheckInv, NEW k \in CheckCalls,
           \/ \E u \in CheckUsers : AskCheckIn(k, u, "claim", "none")
           \/ \E u \in CheckUsers, h \in Payments : AskCheckIn(k, u, "confirm", h)
    PROVE  CheckInv'
<1>1. PICK u \in CheckUsers, pc \in {"claim", "confirm"}, h \in Payments \cup {"none"} :
          AskCheckIn(k, u, pc, h) /\ (pc = "confirm" => h \in Payments)
    OBVIOUS
<1> DEFINE c == [NoCall EXCEPT !.pc = pc, !.key = <<u, today>>, !.hash = h]
<1>2. <<u, today>> \in Keys
    BY DEF Keys, CheckInv, CheckTypeOK
<1>3. c \in CallType /\ c.pc = pc /\ c.key = <<u, today>> /\ c.hash = h
    BY <1>2, NoCallTyped DEF CallType
<1>4. /\ checkCall' = [checkCall EXCEPT ![k] = c] /\ checkAsks' \in Nat
      /\ UNCHANGED <<today, checkin, payChain, evaluator, evidence, staleRows>>
    <2>0. checkAsks \in Nat
        BY DEF CheckInv, CheckTypeOK
    <2>1. checkAsks' \in Nat
        <3>1. checkAsks' = checkAsks + 1
            BY <1>1 DEF AskCheckIn
        <3> QED
            BY <2>0, <3>1
    <2>2. checkCall' = [checkCall EXCEPT ![k] = c]
        BY <1>1 DEF AskCheckIn
    <2> QED
        BY <1>1, <2>1, <2>2 DEF AskCheckIn
<1> HIDE DEF c
<1>5. checkCall'[k] = c
    BY <1>4 DEF CheckInv, CheckTypeOK
<1>6. CallKnows(k)'
    BY <1>1, <1>2, <1>3, <1>4, <1>5 DEF CallKnows
<1> QED
    BY <1>3, <1>4, <1>6, OnlyReadsKeeps

LEMMA CallGoesOn ==
    ASSUME CheckInv, NEW k \in CheckCalls,
           ReadToday(k) \/ LookForUse(k) \/ EvaluatePayment(k) \/ CheckInThrows(k)
    PROVE  CheckInv'
<1> DEFINE c == checkCall[k]
           row == checkin[c.key]
<1>0. /\ c \in CallType /\ checkCall \in [CheckCalls -> CallType] /\ CallKnows(k)
      /\ UNCHANGED <<today, checkin, payChain, evaluator, evidence, staleRows>> /\ checkAsks' \in Nat
    BY DEF CheckInv, CheckTypeOK, CallType, ReadToday, LookForUse, EvaluatePayment, CheckInThrows
<1>1. ASSUME checkCall' = [checkCall EXCEPT ![k] = NoCall] PROVE CheckInv'
    <2>1. CallKnows(k)'
        BY <1>0, <1>1, NoCallTyped DEF CallKnows
    <2> QED
        BY <1>0, <1>1, <2>1, NoCallTyped, OnlyReadsKeeps
<1>2. ASSUME NEW new \in CallType, checkCall' = [checkCall EXCEPT ![k] = new], CallKnows(k)' PROVE CheckInv'
    BY <1>0, <1>2, OnlyReadsKeeps
<1>3. CASE ReadToday(k) /\ row.status # "confirmed"
    <2> DEFINE new == [c EXCEPT !.read = row, !.pc = IF c.pc = "claim" THEN "upsert" ELSE "duplicate"]
    <2>1. /\ c.pc \in {"claim", "confirm"} /\ checkCall' = [checkCall EXCEPT ![k] = new]
        BY <1>0, <1>3 DEF ReadToday
    <2>2. c.key \in Keys /\ row \in Checkins
        BY <1>0, <2>1 DEF CallKnows, CheckInv, CheckTypeOK
    <2>3. new \in CallType /\ new.read = row /\ new.key = c.key /\ new.hash = c.hash
          /\ new.pc = IF c.pc = "claim" THEN "upsert" ELSE "duplicate"
        BY <1>0, <2>2 DEF CallType
    <2> HIDE DEF new
    <2>4. checkCall'[k] = new
        BY <1>0, <2>1
    <2>5. CallKnows(k)'
        BY <1>0, <1>3, <2>1, <2>2, <2>3, <2>4 DEF CallKnows
    <2> QED
        BY <1>2, <2>1, <2>3, <2>5
<1>4. CASE LookForUse(k) /\ UsedBy(c.hash) \subseteq {c.key}
    <2> DEFINE new == [c EXCEPT !.pc = "save"]
    <2>1. /\ c.pc = "duplicate" /\ checkCall' = [checkCall EXCEPT ![k] = new]
        BY <1>0, <1>4 DEF LookForUse
    <2>2. new \in CallType /\ new.pc = "save" /\ new.read = c.read /\ new.key = c.key /\ new.hash = c.hash
        BY <1>0 DEF CallType
    <2> HIDE DEF new
    <2>3. CallKnows(k)'
        BY <1>0, <2>1, <2>2 DEF CallKnows
    <2> QED
        BY <1>2, <2>1, <2>2, <2>3
<1>5. CASE EvaluatePayment(k) /\ Verdict(c.key[1], c.hash) # "pending"
    <2> DEFINE verdict == Verdict(c.key[1], c.hash)
               new == [c EXCEPT !.pc = "settle", !.verdict = verdict]
    <2>1. /\ c.pc = "evaluate" /\ checkCall' = [checkCall EXCEPT ![k] = new]
        BY <1>0, <1>5 DEF EvaluatePayment
    <2>2. c.key \in Keys /\ c.hash \in Payments
        BY <1>0, <2>1 DEF CallKnows
    <2>3. /\ verdict \in {"failed", "confirmed"}
          /\ verdict = "confirmed" => Succeeded(c.key, c.hash)
        BY <1>5, <2>2, VerdictIsTrue DEF CheckInv
    <2>4. new \in CallType /\ new.pc = "settle" /\ new.read = c.read /\ new.key = c.key /\ new.hash = c.hash
          /\ new.verdict = verdict
        BY <1>0, <2>3 DEF CallType
    <2> HIDE DEF new, verdict
    <2>5. checkCall'[k] = new
        BY <1>0, <2>1
    <2>6. CallKnows(k)'
        BY <1>0, <2>1, <2>2, <2>3, <2>4, <2>5 DEF CallKnows, Succeeded
    <2> QED
        BY <1>2, <2>1, <2>4, <2>6
<1>6. \/ checkCall' = [checkCall EXCEPT ![k] = NoCall]
      \/ ReadToday(k) /\ row.status # "confirmed"
      \/ LookForUse(k) /\ UsedBy(c.hash) \subseteq {c.key}
      \/ EvaluatePayment(k) /\ Verdict(c.key[1], c.hash) # "pending"
    BY DEF ReadToday, LookForUse, EvaluatePayment, CheckInThrows
<1> QED
    BY <1>1, <1>3, <1>4, <1>5, <1>6

LEMMA ClaimKeeps ==
    ASSUME CheckInv, NEW k \in CheckCalls, ClaimFree(k)
    PROVE  CheckInv'
<1> DEFINE c == checkCall[k]
<1>1. /\ c.pc = "upsert" /\ c.key \in Keys /\ c.read \in Checkins /\ c.read.status # "confirmed"
      /\ checkCall' = [checkCall EXCEPT ![k] = NoCall]
      /\ UNCHANGED <<today, payChain, evaluator, checkAsks>>
      /\ Writes(c.key, FreeDay, c.read, "free")
    BY DEF ClaimFree, CheckInv, CallKnows, CheckTypeOK
<1>2. FreeDay \in Checkins /\ FreeDay.status = "confirmed" /\ FreeDay.hash = "free"
    BY DEF FreeDay, Checkins, DayStatuses
<1>3. GoodWrite(c.key, FreeDay, c.read, "free")
    BY <1>1, <1>2, CheckAssumption DEF GoodWrite
<1>4. CallKnows(k)'
    BY <1>1, NoCallTyped DEF CallKnows, CheckInv, CheckTypeOK
<1> QED
    BY <1>1, <1>3, <1>4, NoCallTyped, WritingKeeps

LEMMA SaveKeeps ==
    ASSUME CheckInv, NEW k \in CheckCalls, SavePending(k)
    PROVE  CheckInv'
<1> DEFINE c == checkCall[k]
           pending == [status |-> "pending", hash |-> c.hash]
           new == [c EXCEPT !.pc = "evaluate", !.read = pending]
<1>1. /\ c.pc = "save" /\ c.key \in Keys /\ c.read \in Checkins /\ c.read.status # "confirmed"
      /\ c.hash \in Payments /\ c \in CallType /\ checkCall \in [CheckCalls -> CallType]
      /\ UNCHANGED <<today, payChain, evaluator, checkAsks>>
    BY DEF SavePending, CheckInv, CallKnows, CheckTypeOK, CallType
<1>2. CASE checkCall' = [checkCall EXCEPT ![k] = NoCall] /\ UNCHANGED <<checkin, staleRows, evidence>>
    <2>1. CallKnows(k)'
        BY <1>1, <1>2, NoCallTyped DEF CallKnows
    <2>2. checkAsks' \in Nat
        BY <1>1 DEF CheckInv, CheckTypeOK
    <2> QED
        BY <1>1, <1>2, <2>1, <2>2, NoCallTyped, OnlyReadsKeeps
<1>3. CASE /\ Writes(c.key, pending, c.read, "none") /\ checkCall' = [checkCall EXCEPT ![k] = new]
           /\ UsedBy(c.hash) \subseteq {c.key}
    <2>1. pending \in Checkins /\ pending.status = "pending" /\ pending.hash = c.hash
        BY <1>1 DEF Checkins, DayStatuses
    <2>2. new \in CallType /\ new.pc = "evaluate" /\ new.read = pending /\ new.key = c.key /\ new.hash = c.hash
        BY <1>1, <2>1 DEF CallType
    <2>3. \A other \in Keys \ {c.key} : checkin[other].hash # c.hash
        BY <1>3 DEF UsedBy
    <2>4. GoodWrite(c.key, pending, c.read, "none")
        BY <1>1, <2>1, <2>3 DEF GoodWrite
    <2>5. CallKnows(k)'
        <3> HIDE DEF new
        <3>1. checkCall'[k] = new
            BY <1>1, <1>3
        <3> QED
            BY <1>1, <2>2, <3>1 DEF CallKnows
    <2> HIDE DEF new, pending
    <2> QED
        BY <1>1, <1>3, <2>2, <2>4, <2>5, WritingKeeps
<1> QED
    BY <1>1, <1>2, <1>3 DEF SavePending

LEMMA SettleKeeps ==
    ASSUME CheckInv, NEW k \in CheckCalls, SettlePayment(k)
    PROVE  CheckInv'
<1> DEFINE c == checkCall[k]
           row == [checkin[c.key] EXCEPT !.status = c.verdict]
<1>1. /\ c.pc = "settle" /\ c.key \in Keys /\ c.read \in Checkins
      /\ c.read = [status |-> "pending", hash |-> c.hash]
      /\ c.hash \in Payments /\ c.verdict \in {"failed", "confirmed"}
      /\ c.verdict = "confirmed" => Succeeded(c.key, c.hash)
      /\ checkCall' = [checkCall EXCEPT ![k] = NoCall]
      /\ UNCHANGED <<today, payChain, evaluator, checkAsks>>
      /\ Writes(c.key, row, c.read, c.hash) /\ checkin[c.key] \in Checkins
    BY DEF SettlePayment, CheckInv, CallKnows, CheckTypeOK
<1>2. row \in Checkins /\ row.status = c.verdict /\ row.hash = checkin[c.key].hash
    BY <1>1 DEF Checkins, DayStatuses
<1>3. row.hash \in Payments => \A other \in Keys \ {c.key} : checkin[other].hash # row.hash
    BY <1>1, <1>2 DEF CheckInv, HashesDiffer
<1> HIDE DEF row
<1>4. GoodWrite(c.key, row, c.read, c.hash)
    BY <1>1, <1>2, <1>3 DEF GoodWrite
<1>5. CallKnows(k)'
    BY <1>1, NoCallTyped DEF CallKnows, CheckInv, CheckTypeOK
<1> QED
    BY <1>1, <1>4, <1>5, NoCallTyped, WritingKeeps

LEMMA CheckInStep == CheckInv /\ [CheckNext]_checkVars => CheckInv'
<1> SUFFICES ASSUME CheckInv, [CheckNext]_checkVars PROVE CheckInv'
    OBVIOUS
<1>1. CASE UNCHANGED checkVars
    BY <1>1 DEF checkVars, CheckInv, CheckTypeOK, EvaluatorKnows, CallKnows, Succeeded, RowsHavePayments, HashesDiffer,
                EvidenceHolds, ConfirmedByItsPayment
<1>2. CASE NextDay
    <2>1. today' \in Days /\ UNCHANGED <<checkin, payChain, evaluator, checkCall, evidence, staleRows, checkAsks>>
        BY <1>2, CheckAssumption DEF NextDay, Days, CheckInv, CheckTypeOK
    <2>2. CheckTypeOK'
        BY <2>1 DEF CheckInv, CheckTypeOK
    <2> QED
        BY <2>1, <2>2 DEF CheckInv, EvaluatorKnows, CallKnows, Succeeded, RowsHavePayments, HashesDiffer,
                          EvidenceHolds, ConfirmedByItsPayment
<1>3. ASSUME NEW t \in ChainTxs, ChainMoves(t) PROVE CheckInv'
    <2>0. /\ UNCHANGED <<today, checkin, evaluator, checkCall, evidence, staleRows, checkAsks>>
          /\ payChain' \in [ChainTxs -> {"unseen", "seen", "succeeded", "reverted"}]
          /\ \A x \in ChainTxs : payChain[x] = "succeeded" => payChain'[x] = "succeeded"
        BY <1>3 DEF ChainMoves, CheckInv, CheckTypeOK
    <2>1. /\ UNCHANGED <<today, checkin, evaluator, checkCall, evidence, staleRows, checkAsks>>
          /\ payChain' \in [ChainTxs -> {"unseen", "seen", "succeeded", "reverted"}]
          /\ \A h \in Payments : payChain[TxOf[h]] = "succeeded" => payChain'[TxOf[h]] = "succeeded"
        BY <2>0, CheckAssumption
    <2>2. CheckTypeOK'
        BY <2>1 DEF CheckInv, CheckTypeOK
    <2>3. \A e \in Evaluators : EvaluatorKnows(e)'
        BY <2>1 DEF CheckInv, EvaluatorKnows, Succeeded
    <2>4. \A k \in CheckCalls : CallKnows(k)'
        BY <2>1 DEF CheckInv, CallKnows, Succeeded
    <2>5. EvidenceHolds'
        BY <2>1 DEF CheckInv, EvidenceHolds, Succeeded
    <2> QED
        BY <2>1, <2>2, <2>3, <2>4, <2>5 DEF CheckInv, RowsHavePayments, HashesDiffer, ConfirmedByItsPayment
<1>4. CASE CheckRestart
    <2>1. /\ UNCHANGED <<today, checkin, payChain, evidence, staleRows, checkAsks>>
          /\ evaluator' = [e \in Evaluators |-> AtRest] /\ checkCall' = [k \in CheckCalls |-> NoCall]
        BY <1>4 DEF CheckRestart
    <2>2. AtRest \in EvaluatorType /\ AtRest.pc = "idle"
        BY DEF AtRest, EvaluatorType
    <2>3. CheckTypeOK'
        BY <2>1, <2>2, NoCallTyped DEF CheckInv, CheckTypeOK, EvaluatorType, CallType
    <2> QED
        BY <2>1, <2>2, <2>3, NoCallTyped DEF CheckInv, EvaluatorKnows, CallKnows, RowsHavePayments, HashesDiffer,
                                             EvidenceHolds, Succeeded, ConfirmedByItsPayment
<1> QED
    BY <1>1, <1>2, <1>3, <1>4, EvaluatorKeeps, CallStarts, CallGoesOn, ClaimKeeps, SaveKeeps, SettleKeeps
       DEF CheckNext, CheckCallStep

(* For any users, hashes, transactions and days, however hashes stand for   *)
(* transactions, however many requests and sweeps overlap and whatever      *)
(* fails: a hash, as it was written, confirms one day at most, of the user  *)
(* who sent its transaction and after it succeeded, and a day confirmed by  *)
(* payment shows that hash, unless its row was written by someone who had   *)
(* read it otherwise (tryFinalizeCheckinRow, confirmCheckin).               *)
THEOREM CheckInsHold == CheckSpec => []CheckInsSafe
<1>1. ASSUME CheckInv PROVE OnePaymentOneDay
    <2> SUFFICES ASSUME NEW h \in Payments PROVE Cardinality(evidence[h] \ staleRows) <= 1
        BY <1>1 DEF OnePaymentOneDay, CheckInv, EvidenceHolds, Succeeded
    <2>1. ASSUME NEW a \in evidence[h] \ staleRows, NEW b \in evidence[h] \ staleRows PROVE a = b
        <3>1. a \in Keys /\ b \in Keys
            BY <1>1, <2>1 DEF CheckInv, CheckTypeOK
        <3>2. \A c \in evidence[h] \ staleRows : checkin[c] = [status |-> "confirmed", hash |-> h]
            BY <1>1 DEF CheckInv, EvidenceHolds
        <3>3. checkin[a].hash = h /\ checkin[b].hash = h
            BY <2>1, <3>2
        <3> QED
            BY <1>1, <3>1, <3>3 DEF CheckInv, HashesDiffer
    <2>2. CASE evidence[h] \ staleRows = {}
        BY <2>2, FS_EmptySet
    <2>3. CASE \E a : a \in evidence[h] \ staleRows
        <3>1. PICK a : evidence[h] \ staleRows = {a}
            BY <2>1, <2>3
        <3>2. Cardinality({a}) = 1
            BY FS_Singleton
        <3> QED
            BY <3>1, <3>2
    <2> QED
        BY <2>2, <2>3
<1>2. CheckInv => CheckInsSafe
    BY <1>1 DEF CheckInv, CheckInsSafe
<1> QED
    BY CheckInitially, CheckInStep, <1>2, PTL DEF CheckSpec

-----------------------------------------------------------------------------
(* Streaks. computeStreak counts backwards; that there is such a function,   *)
(* and what it does with more days, is shown by counting up.                 *)

Counts(f, C) == f = [d \in 0 .. MaxDay |-> IF d \in C THEN 1 + f[d - 1] ELSE 0]
DaysBack(C) == CHOOSE f : Counts(f, C)

LEMMA StreakIs ==
    ASSUME NEW u
    PROVE  Streak(u) = IF today \in Confirmed(u) THEN DaysBack(Confirmed(u))[today] ELSE DaysBack(Confirmed(u))[today - 1]
BY DEF Streak, DaysBack, Counts

LEMMA DaysCounted ==
    ASSUME NEW C, C \subseteq Days
    PROVE  Counts(DaysBack(C), C)
<1>0. MaxDay \in Nat
    BY CheckAssumption
<1> DEFINE Upto(n, f) == f = [d \in 0 .. n |-> IF d \in C THEN 1 + f[d - 1] ELSE 0]
           P == {n \in Nat : \E f : Upto(n, f)}
<1>1. 0 \in P
    <2> DEFINE f == [d \in 0 .. 0 |-> 0]
    <2>1. Upto(0, f)
        <3>1. \A d \in 0 .. 0 : d \notin C
            BY DEF Days
        <3> QED BY <3>1
    <2> QED BY <2>1
<1>2. ASSUME NEW n \in P PROVE n + 1 \in P
    <2>1. PICK f : Upto(n, f)
        OBVIOUS
    <2> DEFINE g == [d \in 0 .. (n + 1) |-> IF d = n + 1 THEN (IF d \in C THEN 1 + f[n] ELSE 0) ELSE f[d]]
    <2>2. n \in Nat /\ n + 1 \in Nat
        OBVIOUS
    <2>3. ASSUME NEW d \in 0 .. (n + 1) PROVE g[d] = IF d \in C THEN 1 + g[d - 1] ELSE 0
        <3>1. CASE d = n + 1
            <4>1. d - 1 = n /\ n \in 0 .. (n + 1) /\ n # n + 1
                BY <2>2, <3>1
            <4> QED BY <3>1, <4>1
        <3>2. CASE d # n + 1
            <4>1. d \in 0 .. n
                BY <2>2, <3>2
            <4>2. g[d] = f[d]
                BY <3>2
            <4>3. f[d] = IF d \in C THEN 1 + f[d - 1] ELSE 0
                BY <2>1, <4>1
            <4>4. CASE d \in C
                <5>1. d # 0
                    BY <4>4 DEF Days
                <5>2. d - 1 \in 0 .. (n + 1) /\ d - 1 # n + 1
                    BY <2>2, <4>1, <5>1
                <5>3. g[d - 1] = f[d - 1]
                    BY <5>2
                <5> QED BY <4>2, <4>3, <5>3
            <4>5. CASE d \notin C
                BY <4>2, <4>3, <4>5
            <4> QED BY <4>4, <4>5
        <3> QED BY <3>1, <3>2
    <2>4. DOMAIN g = 0 .. (n + 1) /\ g = [d \in 0 .. (n + 1) |-> g[d]]
        OBVIOUS
    <2> HIDE DEF g
    <2>5. Upto(n + 1, g)
        BY <2>3, <2>4
    <2> QED BY <2>2, <2>5
<1>3. P \in SUBSET Nat
    OBVIOUS
<1> HIDE DEF P
<1>4. P = Nat
    BY <1>1, <1>2, <1>3, CountUp
<1>5. \E f : Counts(f, C)
    BY <1>0, <1>4 DEF P, Counts
<1> QED BY <1>5 DEF DaysBack

(* More confirmed days make no streak shorter.                               *)
LEMMA StreaksGrow ==
    ASSUME NEW C, NEW D, C \subseteq D, D \subseteq Days, NEW d \in 0 .. MaxDay
    PROVE  /\ DaysBack(C)[d] \in Nat /\ DaysBack(D)[d] \in Nat /\ DaysBack(C)[d] <= DaysBack(D)[d]
           /\ d \in D => DaysBack(D)[d] = 1 + DaysBack(D)[d - 1]
           /\ d \notin D => DaysBack(D)[d] = 0
<1> DEFINE f == DaysBack(C)
           g == DaysBack(D)
           Fine(n) == f[n] \in Nat /\ g[n] \in Nat /\ f[n] <= g[n]
           P == {n \in Nat : n <= MaxDay => Fine(n)}
<1>0. MaxDay \in Nat
    BY CheckAssumption
<1>1. Counts(f, C) /\ Counts(g, D)
    BY DaysCounted
<1>2. \A n \in 0 .. MaxDay : /\ f[n] = IF n \in C THEN 1 + f[n - 1] ELSE 0
                             /\ g[n] = IF n \in D THEN 1 + g[n - 1] ELSE 0
    BY <1>1 DEF Counts
<1> HIDE DEF f, g
<1>3. 0 \in P
    <2>1. 0 \notin C /\ 0 \notin D /\ 0 \in 0 .. MaxDay
        BY <1>0 DEF Days
    <2>2. f[0] = 0 /\ g[0] = 0
        BY <1>2, <2>1
    <2> QED BY <2>2
<1>4. ASSUME NEW n \in P PROVE n + 1 \in P
    <2> SUFFICES ASSUME n + 1 <= MaxDay PROVE Fine(n + 1)
        OBVIOUS
    <2>1. n \in Nat /\ n <= MaxDay /\ n + 1 \in 0 .. MaxDay /\ (n + 1) - 1 = n
        BY <1>0
    <2>2. Fine(n)
        BY <2>1
    <2>3. f[n + 1] = (IF n + 1 \in C THEN 1 + f[n] ELSE 0) /\ g[n + 1] = (IF n + 1 \in D THEN 1 + g[n] ELSE 0)
        BY <1>2, <2>1
    <2> QED BY <2>2, <2>3
<1>5. P \in SUBSET Nat
    OBVIOUS
<1> HIDE DEF P
<1>6. P = Nat
    BY <1>3, <1>4, <1>5, CountUp
<1>7. d \in Nat /\ d <= MaxDay
    BY <1>0
<1>8. Fine(d)
    BY <1>6, <1>7 DEF P
<1> QED BY <1>2, <1>8 DEF f, g

LEMMA DayBounds == ASSUME NEW n \in 1 .. MaxDay PROVE n \in 0 .. MaxDay /\ n - 1 \in 0 .. MaxDay
<1>1. MaxDay \in Nat
    BY CheckAssumption
<1>2. n \in Int /\ 1 <= n /\ n <= MaxDay
    BY <1>1
<1> QED BY <1>1, <1>2

StepKeepsConfirmed ==
    \A key \in Keys : checkin[key].status = "confirmed" =>
        checkin'[key].status = "confirmed" \/ key \in staleRows'

(* No reader of a confirmed row goes on to write it.                         *)
LEMMA ConfirmedInStep ==
    ASSUME CheckInv, [CheckNext]_checkVars
    PROVE  StepKeepsConfirmed
<1>1. ASSUME CheckInv, NEW key, NEW row, NEW read, NEW by, Writes(key, row, read, by), read.status # "confirmed"
      PROVE  StepKeepsConfirmed
    BY <1>1 DEF StepKeepsConfirmed, Writes, CheckInv, CheckTypeOK
<1>2. StepKeepsConfirmed \/ UNCHANGED checkin
    <2>1. ASSUME NEW e \in Evaluators, WriteVerdict(e) PROVE StepKeepsConfirmed
        <3>1. /\ [status |-> "pending", hash |-> evaluator[e].hash].status # "confirmed"
              /\ Writes(evaluator[e].key, [checkin[evaluator[e].key] EXCEPT !.status = evaluator[e].pc],
                        [status |-> "pending", hash |-> evaluator[e].hash], evaluator[e].hash)
            BY <2>1 DEF WriteVerdict
        <3> QED
            BY <1>1, <3>1
    <2>2. ASSUME NEW k \in CheckCalls, ClaimFree(k) \/ SavePending(k) \/ SettlePayment(k)
          PROVE  StepKeepsConfirmed \/ UNCHANGED checkin
        <3>1. /\ CallKnows(k) /\ checkCall[k].pc \in {"upsert", "save", "settle"}
              /\ \/ UNCHANGED checkin
                 \/ \E row, by : Writes(checkCall[k].key, row, checkCall[k].read, by)
            BY <2>2 DEF ClaimFree, SavePending, SettlePayment, CheckInv
        <3>2. checkCall[k].read.status # "confirmed"
            BY <3>1 DEF CallKnows
        <3> QED
            BY <1>1, <3>1, <3>2
    <2> QED
        BY <2>1, <2>2 DEF CheckNext, checkVars, EvaluatorStep, CheckCallStep, StatusAsked, SweepPending, Begins,
           EvaluateRow, AskCheckIn, ReadToday, LookForUse, EvaluatePayment, CheckInThrows, NextDay, CheckRestart,
           ChainMoves
<1> QED BY <1>2 DEF StepKeepsConfirmed

(* The day goes on by one, in a step that writes no row.                     *)
LEMMA DaysGoOn ==
    ASSUME CheckInv, [CheckNext]_checkVars
    PROVE  today' = today \/ (today' = today + 1 /\ today' \in Days /\ checkin' = checkin)
<1>1. CASE NextDay
    BY <1>1, CheckAssumption DEF NextDay, Days, CheckInv, CheckTypeOK
<1>2. CASE ~NextDay
    BY <1>2 DEF CheckNext, checkVars, EvaluatorStep, CheckCallStep, StatusAsked, SweepPending, Begins,
           EvaluateRow, AskCheckIn, ReadToday, LookForUse, EvaluatePayment, CheckInThrows, CheckRestart,
           ChainMoves, WriteVerdict, ClaimFree, SavePending, SettlePayment
<1> QED BY <1>1, <1>2

LEMMA StreakStep ==
    ASSUME CheckInv, CheckInv', [CheckNext]_checkVars, StepKeepsConfirmed, NEW u \in CheckUsers, staleRows' = {},
           today' = today \/ today \in Confirmed(u)
    PROVE  Streak(u)' >= Streak(u)
<1> DEFINE C == Confirmed(u)
           D == Confirmed(u)'
<1>0. today \in 1 .. MaxDay /\ today' \in 1 .. MaxDay /\ MaxDay \in Nat
    BY CheckAssumption DEF CheckInv, CheckTypeOK, Days
<1>1. C \subseteq Days /\ D \subseteq Days
    BY DEF Confirmed
<1>2. C \subseteq D
    BY DEF StepKeepsConfirmed, Confirmed, Keys
<1>3. /\ Streak(u) = IF today \in C THEN DaysBack(C)[today] ELSE DaysBack(C)[today - 1]
      /\ Streak(u)' = IF today' \in D THEN DaysBack(D)[today'] ELSE DaysBack(D)[today' - 1]
    <2>1. Streak(u)' = IF today' \in D THEN DaysBack(D)[today'] ELSE DaysBack(D)[today' - 1]
        BY DEF Streak, DaysBack, Counts, Confirmed
    <2> QED BY <2>1, StreakIs
<1>4. today = today' \/ (today' = today + 1 /\ today \in C)
    BY DaysGoOn
<1> HIDE DEF C, D
<1>5. /\ today \in 0 .. MaxDay /\ today - 1 \in 0 .. MaxDay
      /\ today' \in 0 .. MaxDay /\ today' - 1 \in 0 .. MaxDay
    BY <1>0, DayBounds
<1>6. \A d \in 0 .. MaxDay : /\ DaysBack(C)[d] \in Nat /\ DaysBack(D)[d] \in Nat /\ DaysBack(C)[d] <= DaysBack(D)[d]
                             /\ d \in D => DaysBack(D)[d] = 1 + DaysBack(D)[d - 1]
                             /\ d \notin D => DaysBack(D)[d] = 0
    BY <1>1, <1>2, StreaksGrow
<1>7. CASE today' = today /\ today \in C
    BY <1>2, <1>3, <1>5, <1>6, <1>7
<1>8. CASE today' = today /\ today \notin C
    <2>1. Streak(u) = DaysBack(C)[today - 1]
        BY <1>3, <1>8
    <2>2. CASE today \in D
        <3>1. Streak(u)' = 1 + DaysBack(D)[today - 1]
            BY <1>3, <1>5, <1>6, <1>8, <2>2
        <3>2. DaysBack(C)[today - 1] \in Nat /\ DaysBack(D)[today - 1] \in Nat
              /\ DaysBack(C)[today - 1] <= DaysBack(D)[today - 1]
            BY <1>5, <1>6
        <3> QED BY <2>1, <3>1, <3>2
    <2>3. CASE today \notin D
        BY <1>3, <1>5, <1>6, <1>8, <2>1, <2>3
    <2> QED BY <2>2, <2>3
<1>9. CASE today' = today + 1 /\ today \in C
    <2>1. Streak(u) = DaysBack(C)[today] /\ today' - 1 = today
        BY <1>0, <1>3, <1>9
    <2>2. DaysBack(C)[today] \in Nat /\ DaysBack(D)[today] \in Nat /\ DaysBack(C)[today] <= DaysBack(D)[today]
        BY <1>5, <1>6
    <2>3. CASE today' \in D
        <3>1. DaysBack(D)[today'] = 1 + DaysBack(D)[today' - 1]
            BY <1>5, <1>6, <2>3
        <3>2. Streak(u)' = 1 + DaysBack(D)[today]
            BY <1>3, <2>1, <2>3, <3>1
        <3> QED BY <2>1, <2>2, <3>2
    <2>4. CASE today' \notin D
        <3>1. Streak(u)' = DaysBack(D)[today]
            BY <1>3, <2>1, <2>4
        <3> QED BY <2>1, <2>2, <3>1
    <2> QED BY <2>3, <2>4
<1> QED BY <1>4, <1>7, <1>8, <1>9

LEMMA StreakTyped ==
    ASSUME CheckInv, NEW u \in CheckUsers
    PROVE  Streak(u) \in Nat
<1>0. today \in Days /\ MaxDay \in Nat /\ Days = 1 .. MaxDay
    BY CheckAssumption DEF CheckInv, CheckTypeOK, Days
<1>1. Confirmed(u) \subseteq Days
    BY DEF Confirmed
<1>2. today \in 0 .. MaxDay /\ today - 1 \in 0 .. MaxDay
    BY <1>0
<1>3. DaysBack(Confirmed(u))[today] \in Nat /\ DaysBack(Confirmed(u))[today - 1] \in Nat
    BY <1>1, <1>2, StreaksGrow
<1> QED BY <1>3, StreakIs

LEMMA StreakTypedNext ==
    ASSUME CheckInv', NEW u \in CheckUsers
    PROVE  Streak(u)' \in Nat
<1>0. today' \in 1 .. MaxDay /\ MaxDay \in Nat
    BY CheckAssumption DEF CheckInv, CheckTypeOK, Days
<1>1. Confirmed(u)' \subseteq Days
    BY DEF Confirmed
<1>2. today' \in 0 .. MaxDay /\ today' - 1 \in 0 .. MaxDay
    BY <1>0, DayBounds
<1>3. DaysBack(Confirmed(u)')[today'] \in Nat /\ DaysBack(Confirmed(u)')[today' - 1] \in Nat
    BY <1>1, <1>2, StreaksGrow
<1>4. Streak(u)' = IF today' \in Confirmed(u)' THEN DaysBack(Confirmed(u)')[today'] ELSE DaysBack(Confirmed(u)')[today' - 1]
    BY DEF Streak, DaysBack, Counts, Confirmed
<1> QED BY <1>3, <1>4

(* Under no assumption at all a confirmed day stays confirmed, or was       *)
(* written by someone who had read its row otherwise: no reader of a        *)
(* confirmed row goes on to write it.                                       *)
THEOREM ConfirmedDaysStay == CheckSpec => ConfirmedStays
<1>1. ASSUME CheckInv, [CheckNext]_checkVars PROVE StepKeepsConfirmed
    BY <1>1, ConfirmedInStep
<1>2. StepKeepsConfirmed => [StepKeepsConfirmed]_checkVars
    OBVIOUS
<1> QED
    BY CheckInitially, CheckInStep, <1>1, <1>2, PTL DEF CheckSpec, ConfirmedStays, StepKeepsConfirmed

(* Under no assumption at all a streak is lost only by a day that went by    *)
(* without a confirmation, or when a row has been written by someone who had *)
(* read it otherwise: whatever overlaps or fails, no other step shortens it. *)
THEOREM StreaksStay == CheckSpec => StreakKept
<1> DEFINE Kept == \A u \in CheckUsers : Streak(u)' < Streak(u) =>
                      \/ today' # today /\ today \notin Confirmed(u)
                      \/ staleRows' # {}
<1>1. ASSUME CheckInv, CheckInv', [CheckNext]_checkVars PROVE Kept
    <2> SUFFICES ASSUME NEW u \in CheckUsers, staleRows' = {}, today' = today \/ today \in Confirmed(u)
                 PROVE  ~(Streak(u)' < Streak(u))
        OBVIOUS
    <2>1. StepKeepsConfirmed
        BY <1>1, ConfirmedInStep
    <2>2. Streak(u)' >= Streak(u) /\ Streak(u) \in Nat
        BY <1>1, <2>1, StreakStep, StreakTyped
    <2>3. Streak(u)' \in Nat
        <3>1. \A v \in CheckUsers : Streak(v)' \in Nat
            BY <1>1, StreakTypedNext
        <3> QED BY <3>1
    <2> QED BY <2>2, <2>3
<1>2. Kept => [Kept]_checkVars
    OBVIOUS
<1> QED BY CheckInitially, CheckInStep, <1>1, <1>2, PTL DEF CheckSpec, StreakKept

-----------------------------------------------------------------------------
(* The workshop for any machines, rooms, racks, prices, calls and restarts.  *)

Handler == [op : HandlerOp, pc : HandlerPc, id : RowIds \cup {NoId}, rack : Racks, slot : Nat, rows : SUBSET RowIds]
MountedRow == [id : RowIds, slot : Nat, active : BOOLEAN]
All == inventory \cup MountedIds

-----------------------------------------------------------------------------
(* Operators.                                                               *)

LEMMA RackSlotTyped == ASSUME NEW r \in Racks PROVE RackSlot(r) \in Nat /\ RackSlot(r) >= RackOffset
<1> DEFINE room == r[1] - 1
<1>1. room \in Nat /\ r[2] \in Nat /\ RackOffset \in Nat /\ RacksPerRoom \in Nat
    BY WorkshopAssumption DEF Racks
<1>2. room * RacksPerRoom \in Nat
    BY <1>1
<1> QED
    BY <1>1, <1>2 DEF RackSlot

\* Two racks have two slots.
LEMMA RackSlotsDiffer ==
    ASSUME NEW r \in Racks, NEW s \in Racks, RackSlot(r) = RackSlot(s)
    PROVE  r = s
<1> DEFINE N == RacksPerRoom
<1>1. /\ r[1] \in Nat /\ s[1] \in Nat /\ r[2] \in 0 .. N - 1 /\ s[2] \in 0 .. N - 1
      /\ r = <<r[1], r[2]>> /\ s = <<s[1], s[2]>> /\ N \in Nat \ {0} /\ RackOffset \in Nat
    BY WorkshopAssumption DEF Racks
<1>2. ASSUME NEW a \in Nat, NEW b \in Nat, NEW x \in 0 .. N - 1, NEW y \in 0 .. N - 1,
             RackOffset + (a - 1) * N + x = RackOffset + (b - 1) * N + y, a < b
      PROVE  FALSE
    <2>1. PICK d \in Nat : b = a + 1 + d
        BY <1>2
    <2>2. (b - 1) * N = (a - 1) * N + N + d * N
        BY <1>1, <2>1
    <2>3. d * N \in Nat /\ (a - 1) * N \in Int
        BY <1>1, <2>1
    <2> QED
        BY <1>1, <1>2, <2>2, <2>3
<1>3. RackOffset + (r[1] - 1) * N + r[2] = RackOffset + (s[1] - 1) * N + s[2]
    BY DEF RackSlot
<1>4. ~(r[1] < s[1])
    BY <1>1, <1>2, <1>3
<1>5. ~(s[1] < r[1])
    BY <1>1, <1>2, <1>3
<1>6. r[1] = s[1]
    BY <1>1, <1>4, <1>5
<1>7. PICK x \in Int : x = (r[1] - 1) * N
    BY <1>1
<1>8. r[2] = s[2]
    <2>1. RackOffset + x + r[2] = RackOffset + x + s[2]
        BY <1>3, <1>6, <1>7
    <2>2. \A a \in Int, i \in Int, j \in Int : a + x + i = a + x + j => i = j
        OBVIOUS
    <2>3. r[2] \in Int /\ s[2] \in Int /\ RackOffset \in Int
        BY <1>1
    <2> QED
        BY <2>1, <2>2, <2>3
<1> QED
    BY <1>1, <1>6, <1>8

LEMMA NextRack ==
    ASSUME NEW r \in Racks, Next2(r) \in Racks
    PROVE  RackSlot(Next2(r)) = RackSlot(r) + 1
<1> DEFINE x == (r[1] - 1) * RacksPerRoom
<1>1. r[2] \in Int /\ RackOffset \in Nat /\ x \in Int
    BY WorkshopAssumption DEF Racks
<1>2. Next2(r)[1] = r[1] /\ Next2(r)[2] = r[2] + 1
    BY DEF Next2
<1>3. RackSlot(Next2(r)) = RackOffset + x + (r[2] + 1) /\ RackSlot(r) = RackOffset + x + r[2]
    BY <1>2 DEF RackSlot
<1> HIDE DEF x
<1> QED
    BY <1>1, <1>3

LEMMA SizeTyped == \A id : Size(id) \in {1, 2}
BY DEF Size

LEMMA IdleTyped == IdleHandler \in Handler /\ IdleHandler.pc = "idle" /\ IdleHandler.op = "none"
<1>1. <<1, 0>> \in Racks
    BY WorkshopAssumption DEF Racks
<1> QED
    BY <1>1 DEF IdleHandler, Handler, HandlerOp, HandlerPc

-----------------------------------------------------------------------------
(* Rows.                                                                    *)

\* What a call is about. A machine that is being bought has no row.
CallFits(k) ==
    LET c == call[k]
    IN  /\ c.pc # "idle" => c.op # "none"
        /\ c.op \notin {"none", "room"} => c.id \in RowIds
        /\ c.pc = "targets" => c.op \in {"move", "place"}
        /\ c.pc = "tell" => c.op \in {"room", "buy"}
        /\ c.op \in {"move", "place"} => c.slot < OldSlots /\ FitsAt(c.id, c.slot)
        /\ c.op \in {"move", "place"} /\ c.pc \in {"targets", "commit"} => c.id \notin c.rows
        /\ c.op = "install" => c.slot = RackSlot(c.rack)
        /\ c.op = "room" => c.slot \in 2 .. RoomMax
        /\ c.op = "buy" /\ c.pc = "commit" => c.id[2] = 1 /\ generation[c.id[1]] = 0

Buys(k) == call[k].op = "buy" /\ call[k].pc = "commit"

BuysDiffer ==
    \A k \in WorkshopCalls, j \in WorkshopCalls : Buys(k) /\ Buys(j) /\ call[k].id = call[j].id => k = j

RowsDiffer == \A a \in mounted, b \in mounted : a.id = b.id \/ a.slot = b.slot => a = b

\* Every row is its machine's newest, and every machine that is somebody's has one.
Places ==
    /\ inventory \cap MountedIds = {}
    /\ \A id \in All : id[2] = generation[id[1]] /\ id[1] \notin discarded
    /\ \A m \in Machines : generation[m] = 0 \/ m \in discarded \/ <<m, generation[m]>> \in All
    /\ \A m \in discarded : generation[m] # 0

RacksHoldRows == \A r \in Racks : rack[r].miner # NoId => rack[r].miner \in MountedIds

RowInv ==
    /\ WorkshopTypeOK /\ IsFiniteSet(mounted) /\ RowsDiffer /\ Places /\ RacksHoldRows /\ BuysDiffer
    /\ \A k \in WorkshopCalls : CallFits(k)

\* A transaction replaces the rows gone by new ones: those of back are stored, the others mounted.
Moved(gone, back) ==
    /\ gone \in SUBSET All /\ back \in SUBSET gone /\ generation' = Renewed(gone)
    /\ inventory' = (inventory \ gone) \cup NewIds(back)
    /\ MountedIds' = (MountedIds \ gone) \cup (NewIds(gone) \ NewIds(back))

StandStill == UNCHANGED <<inventory, MountedIds, generation>>

LEMMA IdsAreRows ==
    ASSUME WorkshopTypeOK
    PROVE  /\ MountedIds \subseteq RowIds /\ All \subseteq RowIds
           /\ \A id \in RowIds : id = <<id[1], id[2]>> /\ id[1] \in Machines /\ id[2] \in Nat /\ id[2] # 0
BY DEF WorkshopTypeOK, MountedIds, All, RowIds

LEMMA MachinesDiffer ==
    ASSUME WorkshopTypeOK, Places, NEW a \in All, NEW b \in All, a[1] = b[1]
    PROVE  a = b
BY IdsAreRows DEF Places

\* Rows that are replaced by new ones leave every machine one row.
LEMMA RowsRenewed ==
    ASSUME WorkshopTypeOK, Places, NEW gone \in SUBSET All, NEW stored \in SUBSET NewIds(gone),
           generation' = Renewed(gone), UNCHANGED discarded,
           inventory' = (inventory \ gone) \cup stored,
           MountedIds' = (MountedIds \ gone) \cup (NewIds(gone) \ stored)
    PROVE  /\ Places'
           /\ generation' \in [Machines -> Nat] /\ NewIds(gone) \subseteq RowIds /\ inventory' \subseteq RowIds
           /\ \A m \in Machines : generation[m] = 0 => generation'[m] = 0
           /\ NewIds(gone) \cap All = {}
<1>1. /\ generation \in [Machines -> Nat] /\ generation' \in [Machines -> Nat]
      /\ \A m \in Machines : generation'[m] = IF \E id \in gone : id[1] = m THEN generation[m] + 1 ELSE generation[m]
    BY DEF WorkshopTypeOK, Renewed
<1>2. \A id \in All : id = <<id[1], generation[id[1]]>> /\ id[1] \in Machines /\ generation[id[1]] # 0 /\ id[1] \notin discarded
    BY IdsAreRows DEF Places
<1>3. \A id \in All \ gone : generation'[id[1]] = generation[id[1]]
    <2> SUFFICES ASSUME NEW id \in All \ gone, NEW other \in gone, other[1] = id[1] PROVE FALSE
        BY <1>1, <1>2
    <2> QED
        BY MachinesDiffer
<1>4. \A id \in gone : generation'[id[1]] = generation[id[1]] + 1 /\ NewId(id[1]) = <<id[1], generation[id[1]] + 1>>
    BY <1>1, <1>2 DEF NewId
<1>5. ASSUME NEW id \in NewIds(gone)
      PROVE  /\ id \in RowIds /\ id[2] = generation'[id[1]] /\ id[1] \notin discarded /\ id \notin All
             /\ \E old \in gone : id[1] = old[1]
    <2>1. PICK old \in gone : id = <<old[1], generation[old[1]] + 1>> /\ generation'[old[1]] = generation[old[1]] + 1
        BY <1>4 DEF NewIds
    <2>2. old[1] \in Machines /\ generation[old[1]] \in Nat /\ old[1] \notin discarded
        BY <1>1, <1>2
    <2>3. id[1] = old[1] /\ id[2] = generation[old[1]] + 1
        BY <2>1
    <2>4. id \in RowIds
        BY <2>1, <2>2 DEF RowIds
    <2>5. id \notin All
        BY <1>2, <2>2, <2>3
    <2> QED
        BY <2>1, <2>2, <2>3, <2>4, <2>5
<1>6. All' = (All \ gone) \cup NewIds(gone)
    BY DEF All
<1>7. inventory' \cap MountedIds' = {}
    BY <1>5 DEF Places, All
<1>8. \A id \in All' : id[2] = generation'[id[1]] /\ id[1] \notin discarded'
    BY <1>2, <1>3, <1>5, <1>6 DEF Places
<1>9. ASSUME NEW m \in Machines PROVE generation'[m] = 0 \/ m \in discarded \/ <<m, generation'[m]>> \in All'
    <2>1. CASE \E id \in gone : id[1] = m
        <3>1. PICK id \in gone : id[1] = m
            BY <2>1
        <3>2. <<m, generation'[m]>> = NewId(id[1])
            BY <1>4, <3>1
        <3> QED
            BY <1>6, <3>1, <3>2 DEF NewIds
    <2>2. CASE ~\E id \in gone : id[1] = m
        <3>1. generation'[m] = generation[m]
            BY <1>1, <2>2
        <3>2. CASE <<m, generation[m]>> \in All
            <4>1. <<m, generation[m]>> \notin gone
                BY <2>2
            <4> QED
                BY <1>6, <3>1, <3>2, <4>1
        <3> QED
            BY <3>1, <3>2 DEF Places
    <2> QED
        BY <2>1, <2>2
<1>10. \A m \in discarded : generation'[m] # 0
    BY <1>1 DEF Places, WorkshopTypeOK
<1>11. inventory' \subseteq RowIds
    BY <1>5 DEF WorkshopTypeOK
<1>12. \A m \in Machines : generation[m] = 0 => generation'[m] = 0
    BY <1>1, <1>2
<1>13. Places'
    BY <1>7, <1>8, <1>9, <1>10 DEF Places
<1> QED
    BY <1>1, <1>5, <1>11, <1>12, <1>13

-----------------------------------------------------------------------------
(* Calls.                                                                   *)

Others ==
    /\ rooms \in 1 .. RoomMax /\ wallet \in [column : Int, live : Int] /\ spent \in Nat
    /\ counted \in SUBSET RowIds /\ reloadMissed \in BOOLEAN /\ together \in BOOLEAN /\ bypassed \in SUBSET RowIds
    /\ workshopCalls \in Nat /\ workshopFaults \in Nat

CallsFit == call \in [WorkshopCalls -> Handler] /\ BuysDiffer /\ \A k \in WorkshopCalls : CallFits(k)

LEMMA CallsAndOthers == RowInv => CallsFit /\ Others
BY DEF RowInv, WorkshopTypeOK, CallsFit, Others, Handler

LEMMA CallsStay ==
    ASSUME CallsFit, NEW k \in WorkshopCalls, NEW c \in Handler, call' = [call EXCEPT ![k] = c], CallFits(k)',
           \A j \in WorkshopCalls \ {k} : Buys(j) => generation'[call[j].id[1]] = 0,
           c.op = "buy" /\ c.pc = "commit" => \A j \in WorkshopCalls \ {k} : call[j].id # c.id
    PROVE  CallsFit'
<1>1. /\ call' \in [WorkshopCalls -> Handler] /\ call'[k] = c
      /\ \A j \in WorkshopCalls \ {k} : call'[j] = call[j]
    BY DEF CallsFit
<1>2. \A j \in WorkshopCalls \ {k} : CallFits(j)'
    BY <1>1 DEF CallsFit, CallFits, Buys
<1>3. BuysDiffer'
    BY <1>1 DEF CallsFit, BuysDiffer, Buys
<1> QED
    BY <1>1, <1>2, <1>3 DEF CallsFit

\* Only what concerns the calls and not the rows has changed.
LEMMA RowsStay ==
    ASSUME RowInv, UNCHANGED <<inventory, mounted, generation, rack, discarded>>, CallsFit', Others'
    PROVE  RowInv'
BY DEF RowInv, WorkshopTypeOK, CallsFit, Others, Handler, RowsDiffer, Places, RacksHoldRows, MountedIds, All

LEMMA CallBegins ==
    ASSUME RowInv, NEW k \in WorkshopCalls, NEW c \in Handler, Begin(k, c), OnlyBegins, CallFits(k)',
           c.op = "buy" /\ c.pc = "commit" => \A j \in WorkshopCalls \ {k} : call[j].id # c.id
    PROVE  RowInv'
<1>1. /\ call' = [call EXCEPT ![k] = c] /\ workshopCalls' = workshopCalls + 1 /\ together' \in BOOLEAN
      /\ UNCHANGED <<inventory, mounted, generation, rooms, rack, wallet, spent, discarded, counted,
                     reloadMissed, bypassed, workshopFaults>>
    BY CallsAndOthers DEF Begin, OnlyBegins, Others
<1>2. CallsFit /\ Others
    BY CallsAndOthers
<1>3. \A j \in WorkshopCalls : Buys(j) => generation'[call[j].id[1]] = 0
    BY <1>1, <1>2 DEF CallsFit, CallFits, Buys
<1>4. CallsFit'
    BY <1>1, <1>2, <1>3, CallsStay
<1>5. workshopCalls' \in Nat
    BY <1>1, <1>2 DEF Others
<1>6. Others'
    BY <1>1, <1>2, <1>5 DEF Others
<1> QED
    BY <1>1, <1>4, <1>6, RowsStay

LEMMA CallReads ==
    ASSUME RowInv, NEW k \in WorkshopCalls, NEW c \in Handler, call' = [call EXCEPT ![k] = c], OnlyReads,
           CallFits(k)', c.op = "buy" => c.pc # "commit"
    PROVE  RowInv'
<1>1. /\ UNCHANGED <<inventory, mounted, generation, rooms, rack, wallet, spent, discarded, counted,
                     reloadMissed, bypassed, workshopFaults, together, workshopCalls>>
    BY DEF OnlyBegins, OnlyReads
<1>2. CallsFit /\ Others
    BY CallsAndOthers
<1>3. \A j \in WorkshopCalls : Buys(j) => generation'[call[j].id[1]] = 0
    BY <1>1, <1>2 DEF CallsFit, CallFits, Buys
<1>4. CallsFit'
    BY <1>1, <1>2, <1>3, CallsStay
<1>6. Others'
    BY <1>1, <1>2 DEF Others
<1> QED
    BY <1>1, <1>4, <1>6, RowsStay

\* A call goes on, or ends.
LEMMA GoesOn ==
    ASSUME CallsFit, NEW k \in WorkshopCalls, NEW pc \in HandlerPc, Goes(k, pc)
    PROVE  \E c \in Handler :
             /\ call' = [call EXCEPT ![k] = c] /\ call'[k] = c /\ c.pc = pc
             /\ c.op = call[k].op /\ c.id = call[k].id /\ c.rack = call[k].rack /\ c.slot = call[k].slot
             /\ c.rows = call[k].rows
<1> DEFINE c == [call[k] EXCEPT !.pc = pc]
<1>1. call[k] \in Handler
    BY DEF CallsFit
<1>2. /\ c \in Handler /\ c.pc = pc
      /\ c.op = call[k].op /\ c.id = call[k].id /\ c.rack = call[k].rack /\ c.slot = call[k].slot
      /\ c.rows = call[k].rows
    BY <1>1 DEF Handler
<1>3. call' = [call EXCEPT ![k] = c]
    BY DEF Goes
<1> HIDE DEF c
<1>4. call'[k] = c
    BY <1>3 DEF CallsFit
<1> QED
    BY <1>2, <1>3, <1>4

LEMMA CallEnds ==
    ASSUME CallsFit, NEW k \in WorkshopCalls, Ends(k)
    PROVE  /\ call' = [call EXCEPT ![k] = IdleHandler] /\ call'[k] = IdleHandler /\ CallFits(k)'
           /\ IdleHandler \in Handler /\ IdleHandler.op # "buy"
<1>1. call' = [call EXCEPT ![k] = IdleHandler] /\ call'[k] = IdleHandler
    BY DEF CallsFit, Ends
<1> QED
    BY <1>1, IdleTyped DEF CallFits

\* A call that was about rows and is done with them.
LEMMA AfterRows ==
    ASSUME CallsFit, NEW k \in WorkshopCalls, NEW pc \in {"reload", "assign"}, Goes(k, pc), call[k].pc # "idle"
    PROVE  \E c \in Handler : /\ call' = [call EXCEPT ![k] = c] /\ call'[k] = c /\ c.pc = pc
                              /\ CallFits(k)'
<1>1. pc \in HandlerPc
    BY DEF HandlerPc
<1>2. PICK c \in Handler :
             /\ call' = [call EXCEPT ![k] = c] /\ call'[k] = c /\ c.pc = pc
             /\ c.op = call[k].op /\ c.id = call[k].id /\ c.rack = call[k].rack /\ c.slot = call[k].slot
             /\ c.rows = call[k].rows
    BY <1>1, GoesOn
<1>3. CallFits(k)
    BY DEF CallsFit
<1>4. CallFits(k)'
    BY <1>2, <1>3 DEF CallFits
<1> QED
    BY <1>2, <1>4

-----------------------------------------------------------------------------
(* Each handler keeps the rows.                                             *)

LEMMA RoomReadsKeep ==
    ASSUME RowInv, NEW k \in WorkshopCalls,
           \/ \E r \in Racks, id \in inventory : InstallReadsRack(k, r, id)
           \/ \E r \in Racks : UninstallReads(k, r)
           \/ \E id \in MountedIds : RemoveReads(k, id) \/ ToggleReads(k, id)
           \/ BuyRoomReads(k)
    PROVE  RowInv'
<1>1. ASSUME NEW op \in {"install", "uninstall", "remove", "toggle"}, NEW pc \in {"item", "commit"}, NEW id \in RowIds,
             NEW r \in Racks, NEW slot \in Nat, op = "install" => slot = RackSlot(r),
             Begin(k, [op |-> op, pc |-> pc, id |-> id, rack |-> r, slot |-> slot, rows |-> {}]), OnlyBegins
      PROVE  RowInv'
    <2> DEFINE c == [op |-> op, pc |-> pc, id |-> id, rack |-> r, slot |-> slot, rows |-> {}]
    <2>1. c \in Handler /\ c.op = op /\ c.pc = pc /\ c.id = id /\ c.rack = r /\ c.slot = slot
        BY DEF Handler, HandlerOp, HandlerPc
    <2>2. call' = [call EXCEPT ![k] = c]
        BY <1>1 DEF Begin
    <2> HIDE DEF c
    <2>3. call'[k] = c
        BY <2>2, CallsAndOthers DEF CallsFit
    <2>4. CallFits(k)'
        BY <1>1, <2>1, <2>3 DEF CallFits
    <2> QED
        BY <1>1, <2>1, <2>4, CallBegins DEF c
<1>2. <<1, 0>> \in Racks /\ 0 \in Nat
    BY WorkshopAssumption DEF Racks
<1>3. ASSUME NEW r \in Racks, NEW id \in inventory, InstallReadsRack(k, r, id) PROVE RowInv'
    <2>1. id \in RowIds
        BY DEF RowInv, WorkshopTypeOK
    <2> QED
        BY <1>1, <1>3, <2>1, RackSlotTyped DEF InstallReadsRack
<1>4. ASSUME NEW r \in Racks, UninstallReads(k, r) PROVE RowInv'
    <2>1. rack[r].miner \in RowIds
        BY <1>4 DEF RowInv, WorkshopTypeOK, UninstallReads
    <2> QED
        BY <1>1, <1>2, <1>4, <2>1 DEF UninstallReads
<1>5. ASSUME NEW id \in MountedIds, RemoveReads(k, id) \/ ToggleReads(k, id) PROVE RowInv'
    <2>1. id \in RowIds
        BY IdsAreRows DEF RowInv
    <2> QED
        BY <1>1, <1>2, <1>5, <2>1 DEF RemoveReads, ToggleReads
<1>6. CASE BuyRoomReads(k)
    <2> DEFINE c == [op |-> "room", pc |-> "funds", id |-> NoId, rack |-> <<1, 0>>, slot |-> rooms + 1, rows |-> {}]
    <2>1. rooms \in 1 .. RoomMax /\ rooms < RoomMax /\ RoomMax \in Nat
        BY <1>6, WorkshopAssumption DEF RowInv, WorkshopTypeOK, BuyRoomReads
    <2>2. rooms + 1 \in 2 .. RoomMax /\ rooms + 1 \in Nat
        BY <2>1
    <2>3. c \in Handler /\ c.op = "room" /\ c.pc = "funds" /\ c.slot = rooms + 1
        BY <1>2, <2>2 DEF Handler, HandlerOp, HandlerPc
    <2>4. Begin(k, c) /\ OnlyBegins
        BY <1>6 DEF BuyRoomReads
    <2> HIDE DEF c
    <2>5. call'[k] = c
        BY <2>4, CallsAndOthers DEF Begin, CallsFit
    <2>6. CallFits(k)'
        BY <2>2, <2>3, <2>5 DEF CallFits
    <2> QED
        BY <2>3, <2>4, <2>6, CallBegins
<1> QED
    BY <1>3, <1>4, <1>5, <1>6

LEMMA TargetReadsKeep ==
    ASSUME RowInv, NEW k \in WorkshopCalls,
           \/ \E id \in MountedIds, slot \in 0 .. OldSlots - 1 : MoveReads(k, id, slot)
           \/ \E id \in inventory, slot \in 0 .. OldSlots - 1 : PlaceReads(k, id, slot)
    PROVE  RowInv'
<1>1. PICK op \in {"move", "place"}, id \in All, slot \in 0 .. OldSlots - 1 :
          /\ Begin(k, [op |-> op, pc |-> "targets", id |-> id, rack |-> <<1, 0>>, slot |-> slot, rows |-> {}])
          /\ FitsAt(id, slot) /\ OnlyBegins
    BY DEF MoveReads, PlaceReads, All
<1> DEFINE c == [op |-> op, pc |-> "targets", id |-> id, rack |-> <<1, 0>>, slot |-> slot, rows |-> {}]
<1>2. <<1, 0>> \in Racks /\ OldSlots \in Nat /\ slot \in Nat /\ slot < OldSlots
    BY WorkshopAssumption DEF Racks
<1>3. id \in RowIds
    BY IdsAreRows DEF RowInv
<1>4. c \in Handler /\ c.op = op /\ c.pc = "targets" /\ c.id = id /\ c.slot = slot /\ c.rows = {}
    BY <1>2, <1>3 DEF Handler, HandlerOp, HandlerPc
<1>5. Begin(k, c)
    BY <1>1
<1> HIDE DEF c
<1>6. call'[k] = c
    BY <1>5, CallsAndOthers DEF Begin, CallsFit
<1>7. CallFits(k)'
    BY <1>1, <1>2, <1>3, <1>4, <1>6 DEF CallFits
<1> QED
    BY <1>1, <1>4, <1>5, <1>7, CallBegins

LEMMA PurchaseReadsKeep ==
    ASSUME RowInv, NEW k \in WorkshopCalls, NEW m \in Machines, PurchaseReads(k, m)
    PROVE  RowInv'
<1> DEFINE c == [op |-> "buy", pc |-> "commit", id |-> <<m, 1>>, rack |-> <<1, 0>>, slot |-> 0, rows |-> {}]
<1>1. /\ Begin(k, c) /\ OnlyBegins /\ generation[m] = 0 /\ generation' = generation
      /\ \A other \in WorkshopCalls : call[other].id # <<m, 1>>
    BY DEF PurchaseReads, OnlyBegins
<1>2. <<1, 0>> \in Racks /\ <<m, 1>> \in RowIds
    BY WorkshopAssumption DEF Racks, RowIds
<1>3. c \in Handler /\ c.op = "buy" /\ c.pc = "commit" /\ c.id = <<m, 1>>
    BY <1>2 DEF Handler, HandlerOp, HandlerPc
<1> HIDE DEF c
<1>4. call'[k] = c
    BY <1>1, CallsAndOthers DEF Begin, CallsFit
<1>5. CallFits(k)'
    BY <1>1, <1>2, <1>3, <1>4 DEF CallFits
<1> QED
    BY <1>1, <1>3, <1>5, CallBegins

LEMMA LaterReadsKeep ==
    ASSUME RowInv, NEW k \in WorkshopCalls,
           InstallReadsItem(k) \/ InstallReadsAdjacent(k) \/ BuyRoomChecks(k) \/ ReadsTargets(k) \/ ReloadReads(k)
    PROVE  RowInv'
<1>0. CallsFit /\ CallFits(k) /\ OnlyReads /\ call[k] \in Handler /\ call \in [WorkshopCalls -> Handler]
      /\ generation' = generation
    BY CallsAndOthers DEF CallsFit, InstallReadsItem, InstallReadsAdjacent, BuyRoomChecks, ReadsTargets, ReloadReads,
                          OnlyReads, OnlyBegins
<1>1. CASE Ends(k)
    BY <1>0, <1>1, CallEnds, CallReads
<1>2. ASSUME NEW pc \in {"adjacent", "commit"}, call[k].op \in {"install", "room"}, Goes(k, pc), call[k].pc # "idle"
      PROVE  RowInv'
    <2>1. pc \in HandlerPc
        BY DEF HandlerPc
    <2>2. PICK c \in Handler :
             /\ call' = [call EXCEPT ![k] = c] /\ call'[k] = c /\ c.pc = pc
             /\ c.op = call[k].op /\ c.id = call[k].id /\ c.rack = call[k].rack /\ c.slot = call[k].slot
             /\ c.rows = call[k].rows
        BY <1>0, <1>2, <2>1, GoesOn
    <2>3. CallFits(k)'
        BY <1>0, <1>2, <2>2 DEF CallFits
    <2> QED
        BY <1>0, <1>2, <2>2, <2>3, CallReads
<1>3. CASE InstallReadsItem(k) \/ InstallReadsAdjacent(k) \/ BuyRoomChecks(k)
    BY <1>1, <1>2, <1>3 DEF InstallReadsItem, InstallReadsAdjacent, BuyRoomChecks, At
<1>4. CASE ReadsTargets(k)
    <2> DEFINE found == {row.id : row \in {r \in mounted : r.slot \in Covers(call[k].id, call[k].slot)
                                                           /\ r.id # call[k].id}}
               c == [call[k] EXCEPT !.pc = "commit", !.rows = found]
    <2>1. found \in SUBSET RowIds /\ call[k].id \notin found
        BY DEF RowInv, WorkshopTypeOK
    <2>2. call[k].pc = "targets" /\ call' = [call EXCEPT ![k] = c]
        BY <1>4 DEF ReadsTargets
    <2> HIDE DEF found
    <2>3. /\ c \in Handler /\ c.pc = "commit" /\ c.rows = found /\ c.op = call[k].op
          /\ c.id = call[k].id /\ c.slot = call[k].slot /\ c.rack = call[k].rack
        BY <1>0, <2>1 DEF Handler, HandlerPc
    <2> HIDE DEF c
    <2>4. call'[k] = c
        BY <1>0, <2>2
    <2>5. call[k].op \in {"move", "place"}
        BY <1>0, <2>2 DEF CallFits
    <2>6. CallFits(k)'
        BY <1>0, <2>1, <2>2, <2>3, <2>4, <2>5 DEF CallFits
    <2> QED
        BY <1>0, <2>2, <2>3, <2>5, <2>6, CallReads
<1>5. CASE ReloadReads(k)
    <2> DEFINE c == [call[k] EXCEPT !.pc = "assign", !.rows = Active]
    <2>1. Active \in SUBSET RowIds
        BY DEF Active, RowInv, WorkshopTypeOK
    <2>2. call[k].pc = "reload" /\ call' = [call EXCEPT ![k] = c]
        BY <1>5 DEF ReloadReads
    <2>3. /\ c \in Handler /\ c.pc = "assign" /\ c.rows = Active /\ c.op = call[k].op
          /\ c.id = call[k].id /\ c.slot = call[k].slot /\ c.rack = call[k].rack
        BY <1>0, <2>1 DEF Handler, HandlerPc
    <2> HIDE DEF c
    <2>4. call'[k] = c
        BY <1>0, <2>2
    <2>6. CallFits(k)'
        BY <1>0, <2>2, <2>3, <2>4 DEF CallFits
    <2> QED
        BY <1>0, <2>2, <2>3, <2>6, CallReads
<1> QED
    BY <1>3, <1>4, <1>5

\* Rooms are bought, payments told, rates assigned; a restart forgets the calls.
LEMMA MoneyStepsKeep ==
    ASSUME RowInv,
           \/ \E k \in WorkshopCalls : BuyRoomCommits(k) \/ TellsPurchase(k) \/ ReloadAssigns(k) \/ HandlerThrows(k)
           \/ WorkshopRestart
    PROVE  RowInv'
<1>0. /\ UNCHANGED <<inventory, mounted, generation, rack, discarded>> /\ CallsFit /\ Others
      /\ \A j \in WorkshopCalls : Buys(j) => generation'[call[j].id[1]] = 0
    BY CallsAndOthers DEF BuyRoomCommits, TellsPurchase, ReloadAssigns, HandlerThrows, WorkshopRestart, Pays, CallsFit, CallFits, Buys
<1>1. CallsFit'
    <2>1. ASSUME NEW k \in WorkshopCalls, Ends(k) PROVE CallsFit'
        BY <1>0, <2>1, CallEnds, CallsStay
    <2>2. ASSUME NEW k \in WorkshopCalls, At(k, "room", "commit"), Goes(k, "tell") PROVE CallsFit'
        <3>1. "tell" \in HandlerPc
            BY DEF HandlerPc
        <3>2. PICK c \in Handler :
             /\ call' = [call EXCEPT ![k] = c] /\ call'[k] = c /\ c.pc = "tell"
             /\ c.op = call[k].op /\ c.id = call[k].id /\ c.rack = call[k].rack /\ c.slot = call[k].slot
             /\ c.rows = call[k].rows
            BY <1>0, <2>2, <3>1, GoesOn
        <3>3. CallFits(k)'
            BY <1>0, <2>2, <3>2 DEF CallFits, CallsFit, At
        <3> QED
            BY <1>0, <3>2, <3>3, CallsStay
    <2>3. CASE WorkshopRestart
        BY <2>3, IdleTyped DEF WorkshopRestart, CallsFit, BuysDiffer, Buys, CallFits
    <2> QED
        BY <2>1, <2>2, <2>3 DEF BuyRoomCommits, TellsPurchase, ReloadAssigns, HandlerThrows
<1>2. Others'
    <2>1. ASSUME NEW k \in WorkshopCalls, call[k].op = "room", call[k].pc # "idle"
          PROVE  call[k].slot \in 1 .. RoomMax /\ Price(call[k].slot) \in Nat
        BY <1>0, <2>1, WorkshopAssumption DEF CallsFit, CallFits, Price
    <2>2. ASSUME NEW k \in WorkshopCalls, BuyRoomCommits(k) PROVE Others'
        <3>1. At(k, "room", "commit") /\ UNCHANGED <<counted, reloadMissed, together, bypassed, workshopCalls, workshopFaults>>
            BY <2>2 DEF BuyRoomCommits
        <3>2. CASE UNCHANGED <<rooms, wallet, spent>>
            BY <1>0, <3>1, <3>2 DEF Others
        <3>3. CASE rooms' = call[k].slot /\ Pays(Price(call[k].slot))
            <4>1. call[k].slot \in 1 .. RoomMax /\ Price(call[k].slot) \in Nat
                BY <2>1, <3>1 DEF At
            <4>2. wallet' \in [column : Int, live : Int] /\ spent' \in Nat
                BY <1>0, <3>3, <4>1 DEF Others, Pays
            <4> QED
                BY <1>0, <3>1, <3>3, <4>1, <4>2 DEF Others
        <3> QED
            BY <2>2, <3>2, <3>3 DEF BuyRoomCommits
    <2>3. ASSUME NEW k \in WorkshopCalls, TellsPurchase(k) PROVE Others'
        <3> DEFINE cost == IF call[k].op = "room" THEN Price(call[k].slot) ELSE MinerPrice
        <3>1. cost \in Nat
            BY <2>1, <2>3, WorkshopAssumption DEF TellsPurchase
        <3>2. wallet' = [wallet EXCEPT !.live = wallet.live - cost]
            BY <2>3 DEF TellsPurchase
        <3> HIDE DEF cost
        <3>3. wallet' \in [column : Int, live : Int]
            BY <1>0, <3>1, <3>2 DEF Others
        <3> QED
            BY <1>0, <2>3, <3>3 DEF Others, TellsPurchase
    <2>4. ASSUME NEW k \in WorkshopCalls, ReloadAssigns(k) PROVE Others'
        BY <1>0, <2>4 DEF Others, ReloadAssigns, CallsFit, Handler
    <2>6. ASSUME NEW k \in WorkshopCalls, HandlerThrows(k) PROVE Others'
        BY <1>0, <2>6 DEF Others, HandlerThrows
    <2>5. CASE WorkshopRestart
        <3>1. Active \in SUBSET RowIds
            BY DEF Active, RowInv, WorkshopTypeOK
        <3>2. wallet' \in [column : Int, live : Int]
            BY <1>0, <2>5 DEF Others, WorkshopRestart
        <3>3. reloadMissed' \in BOOLEAN
            BY <2>5 DEF WorkshopRestart
        <3>4. workshopFaults' \in Nat /\ counted' \in SUBSET RowIds
              /\ UNCHANGED <<rooms, spent, together, bypassed, workshopCalls>>
            BY <1>0, <2>5, <3>1 DEF Others, WorkshopRestart
        <3> QED
            BY <1>0, <3>2, <3>3, <3>4 DEF Others
    <2> QED
        BY <2>2, <2>3, <2>4, <2>5, <2>6
<1> QED
    BY <1>0, <1>1, <1>2, RowsStay

-----------------------------------------------------------------------------
(* Handlers that move rows.                                                 *)

LEMMA ImageIsFinite ==
    ASSUME NEW S, IsFiniteSet(S), NEW f, f = [x \in S |-> f[x]]
    PROVE  IsFiniteSet({f[x] : x \in S})
<1> DEFINE T == {f[x] : x \in S}
<1>1. f \in [S -> T]
    OBVIOUS
<1>2. \A t \in T : \E x \in S : f[x] = t
    OBVIOUS
<1>3. f \in Surjection(S, T)
    BY <1>1, <1>2 DEF Surjection
<1> HIDE DEF T
<1>4. IsFiniteSet(T)
    BY <1>3, FS_Surjection
<1> QED
    BY <1>4 DEF T

\* The rows a transaction replaces, the calls and the racks after it.
LEMMA RowsMoveKeep ==
    ASSUME RowInv, NEW k \in WorkshopCalls, call[k].pc # "idle", Ends(k) \/ Goes(k, "reload"), RowsMove,
           NEW gone \in SUBSET All, NEW stored \in SUBSET NewIds(gone), generation' = Renewed(gone),
           inventory' = (inventory \ gone) \cup stored,
           MountedIds' = (MountedIds \ gone) \cup (NewIds(gone) \ stored),
           mounted' \in SUBSET MountedRow, IsFiniteSet(mounted'), RowsDiffer',
           rack' \in [Racks -> [miner : RowIds \cup {NoId}, blockedBy : RowIds \cup {NoId}]], RacksHoldRows',
           bypassed' \in SUBSET RowIds
    PROVE  RowInv'
<1>0. CallsFit /\ Others /\ WorkshopTypeOK /\ Places /\ UNCHANGED discarded
    BY CallsAndOthers DEF RowInv, RowsMove
<1>1. /\ Places' /\ generation' \in [Machines -> Nat] /\ inventory' \subseteq RowIds
      /\ \A m \in Machines : generation[m] = 0 => generation'[m] = 0
    BY <1>0, RowsRenewed
<1>2. \A j \in WorkshopCalls : Buys(j) => generation'[call[j].id[1]] = 0
    <2> SUFFICES ASSUME NEW j \in WorkshopCalls, Buys(j) PROVE generation'[call[j].id[1]] = 0
        OBVIOUS
    <2>1. call[j].id \in RowIds /\ generation[call[j].id[1]] = 0
        BY <1>0 DEF CallsFit, CallFits, Buys
    <2> QED
        BY <1>0, <1>1, <2>1, IdsAreRows
<1>3. CallsFit'
    <2>1. CASE Ends(k)
        BY <1>0, <1>2, <2>1, CallEnds, CallsStay
    <2>2. CASE Goes(k, "reload")
        <3>1. PICK c \in Handler : call' = [call EXCEPT ![k] = c] /\ c.pc = "reload" /\ CallFits(k)'
            BY <1>0, <2>2, AfterRows
        <3> QED
            BY <1>0, <1>2, <3>1, CallsStay
    <2> QED
        BY <2>1, <2>2
<1>4. Others'
    BY <1>0 DEF Others, RowsMove
<1>5. WorkshopTypeOK'
    BY <1>0, <1>1, <1>3, <1>4 DEF WorkshopTypeOK, Others, CallsFit, Handler, MountedRow
<1> QED
    BY <1>1, <1>3, <1>5 DEF RowInv, CallsFit

LEMMA InstallKeeps ==
    ASSUME RowInv, NEW k \in WorkshopCalls, InstallCommits(k)
    PROVE  RowInv' /\ (StandStill \/ \E id \in inventory : Moved({id}, {}))
<1> DEFINE c == call[k]
           new == NewId(c.id[1])
           row == [id |-> new, slot |-> c.slot, active |-> TRUE]
<1>0. /\ CallsFit /\ WorkshopTypeOK /\ Places /\ CallFits(k) /\ c \in Handler
      /\ c.op = "install" /\ c.pc = "commit" /\ RowsMove /\ UNCHANGED bypassed
    BY CallsAndOthers DEF RowInv, CallsFit, InstallCommits, At
<1>1. CASE Ends(k) /\ UNCHANGED <<inventory, mounted, generation, rack>>
    <2>1. CallsFit'
        <3>1. \A j \in WorkshopCalls : Buys(j) => generation'[call[j].id[1]] = 0
            BY <1>0, <1>1 DEF CallsFit, CallFits, Buys
        <3> QED
            BY <1>0, <1>1, <3>1, CallEnds, CallsStay
    <2>2. Others' /\ UNCHANGED discarded
        BY <1>0, CallsAndOthers DEF Others, RowsMove
    <2> QED
        BY <1>1, <2>1, <2>2, RowsStay DEF StandStill, MountedIds
<1>2. CASE /\ c.id \in inventory /\ ~SlotTaken(c.slot, {})
           /\ mounted' = mounted \cup {row} /\ inventory' = inventory \ {c.id} /\ generation' = Renewed({c.id})
           /\ rack' = IF Size(c.id) = 2
                        THEN [rack EXCEPT ![c.rack].miner = new, ![Next2(c.rack)].blockedBy = new]
                        ELSE [rack EXCEPT ![c.rack].miner = new]
           /\ Goes(k, "reload")
    <2>1. {c.id} \in SUBSET All /\ NewIds({c.id}) = {new} /\ c.id \notin MountedIds
        BY <1>0, <1>2 DEF All, NewIds, Places
    <2>2. {} \in SUBSET NewIds({c.id})
        OBVIOUS
    <2>3. MountedIds' = MountedIds \cup {new}
        <3>1. row.id = new /\ mounted' = mounted \cup {row}
            BY <1>2
        <3> HIDE DEF row, new
        <3> QED
            BY <3>1 DEF MountedIds
    <2>4. MountedIds' = (MountedIds \ {c.id}) \cup (NewIds({c.id}) \ {}) /\ inventory' = (inventory \ {c.id}) \cup {}
        BY <1>2, <2>1, <2>3
    <2>5. new \in RowIds /\ new \notin MountedIds
        BY <1>0, <1>2, <2>1, <2>2, <2>4, RowsRenewed DEF RowsMove, All
    <2>6. row \in MountedRow
        BY <1>0, <2>5 DEF Handler, MountedRow
    <2>7. mounted \in SUBSET MountedRow /\ IsFiniteSet(mounted) /\ RowsDiffer
        BY DEF RowInv, WorkshopTypeOK, MountedRow
    <2>8. IsFiniteSet(mounted')
        BY <1>2, <2>7, FS_AddElement
    <2>9. RowsDiffer'
        <3>1. \A a \in mounted : a.id # new /\ a.slot # c.slot
            BY <1>2, <2>5 DEF MountedIds, SlotTaken
        <3>2. row.id = new /\ row.slot = c.slot
            OBVIOUS
        <3> HIDE DEF row
        <3> QED
            BY <1>2, <2>7, <3>1, <3>2 DEF RowsDiffer
    <2>10. rack \in [Racks -> [miner : RowIds \cup {NoId}, blockedBy : RowIds \cup {NoId}]]
        BY <1>0 DEF WorkshopTypeOK
    <2>11. /\ rack' \in [Racks -> [miner : RowIds \cup {NoId}, blockedBy : RowIds \cup {NoId}]]
           /\ \A r \in Racks : rack'[r].miner \in {rack[r].miner, new}
        <3> HIDE DEF new
        <3>1. CASE Size(c.id) = 2
            BY <1>2, <2>5, <2>10, <3>1
        <3>2. CASE Size(c.id) # 2
            BY <1>2, <2>5, <2>10, <3>2
        <3> QED
            BY <3>1, <3>2
    <2>12. RacksHoldRows'
        BY <2>3, <2>11 DEF RowInv, RacksHoldRows
    <2>13. bypassed' \in SUBSET RowIds
        BY <1>0 DEF WorkshopTypeOK
    <2> HIDE DEF row, new
    <2>14. mounted' \in SUBSET MountedRow
        BY <1>2, <2>6, <2>7
    <2>15. RowInv'
        BY <1>0, <1>2, <2>1, <2>2, <2>4, <2>8, <2>9, <2>11, <2>12, <2>13, <2>14, RowsMoveKeep
    <2>16. NewIds({}) = {}
        BY DEF NewIds
    <2>17. Moved({c.id}, {})
        BY <1>2, <2>1, <2>4, <2>16 DEF Moved
    <2> QED
        BY <1>2, <2>15, <2>17
<1> QED
    BY <1>0, <1>1, <1>2 DEF InstallCommits

\* Mounted rows that go to the inventory.
LEMMA RowsStored ==
    ASSUME RowInv, NEW ids \in SUBSET MountedIds
    PROVE  /\ ids \in SUBSET All /\ NewIds(ids) \in SUBSET NewIds(ids) /\ ids \in SUBSET RowIds
           /\ inventory \ ids = inventory
           /\ NewIds(ids) \ NewIds(ids) = {} /\ InRacks(ids) \in SUBSET RowIds
           /\ WithoutRows(ids) \in [Racks -> [miner : RowIds \cup {NoId}, blockedBy : RowIds \cup {NoId}]]
           /\ \A r \in Racks : WithoutRows(ids)[r].miner # NoId => WithoutRows(ids)[r].miner \in MountedIds \ ids
<1>1. ids \in SUBSET RowIds
    BY IdsAreRows DEF RowInv
<1>2. rack \in [Racks -> [miner : RowIds \cup {NoId}, blockedBy : RowIds \cup {NoId}]]
    BY DEF RowInv, WorkshopTypeOK
<1>3. ASSUME NEW r \in Racks
      PROVE  /\ WithoutRows(ids)[r] \in [miner : RowIds \cup {NoId}, blockedBy : RowIds \cup {NoId}]
             /\ WithoutRows(ids)[r].miner # NoId => WithoutRows(ids)[r].miner \in MountedIds \ ids
    BY <1>2 DEF WithoutRows, RowInv, RacksHoldRows
<1>4. WithoutRows(ids) \in [Racks -> [miner : RowIds \cup {NoId}, blockedBy : RowIds \cup {NoId}]]
    BY <1>3 DEF WithoutRows
<1> QED
    BY <1>1, <1>3, <1>4 DEF All, RowInv, Places, InRacks

LEMMA StoringKeeps ==
    ASSUME RowInv, NEW k \in WorkshopCalls, NEW id \in MountedIds, call[k].pc # "idle", Goes(k, "reload"), RowsMove,
           ToInventory({id}), rack' \in [Racks -> [miner : RowIds \cup {NoId}, blockedBy : RowIds \cup {NoId}]],
           \A r \in Racks : rack'[r].miner # NoId => rack'[r].miner \in MountedIds \ {id},
           bypassed' \in SUBSET RowIds
    PROVE  RowInv' /\ Moved({id}, {id})
<1>1. /\ mounted' = {row \in mounted : row.id # id}
      /\ inventory' = inventory \cup NewIds({id}) /\ generation' = Renewed({id})
    BY DEF ToInventory
<1>2. {id} \in SUBSET MountedIds
    OBVIOUS
<1>3. /\ {id} \in SUBSET All /\ NewIds({id}) \in SUBSET NewIds({id}) /\ inventory \ {id} = inventory
      /\ NewIds({id}) \ NewIds({id}) = {}
    BY <1>2, RowsStored
<1>4. MountedIds' = MountedIds \ {id}
    BY <1>1 DEF MountedIds
<1>5. /\ MountedIds' = (MountedIds \ {id}) \cup (NewIds({id}) \ NewIds({id}))
      /\ inventory' = (inventory \ {id}) \cup NewIds({id})
    BY <1>1, <1>3, <1>4
<1>6. mounted \in SUBSET MountedRow /\ IsFiniteSet(mounted) /\ RowsDiffer
    BY DEF RowInv, WorkshopTypeOK, MountedRow
<1>7. mounted' \in SUBSET MountedRow /\ RowsDiffer' /\ mounted' \in SUBSET mounted
    BY <1>1, <1>6 DEF RowsDiffer
<1>8. IsFiniteSet(mounted')
    BY <1>6, <1>7, FS_Subset
<1>9. RacksHoldRows'
    BY <1>4 DEF RacksHoldRows
<1>10. RowInv'
    BY <1>1, <1>3, <1>5, <1>7, <1>8, <1>9, RowsMoveKeep
<1>11. Moved({id}, {id})
    BY <1>1, <1>3, <1>5 DEF Moved
<1> QED
    BY <1>10, <1>11

\* A call that ends without moving anything.
LEMMA NothingMoved ==
    ASSUME RowInv, NEW k \in WorkshopCalls, Ends(k), UNCHANGED <<inventory, mounted, generation, rack, bypassed>>, RowsMove
    PROVE  RowInv' /\ StandStill
<1>0. CallsFit /\ Others
    BY CallsAndOthers
<1>1. \A j \in WorkshopCalls : Buys(j) => generation'[call[j].id[1]] = 0
    BY <1>0 DEF CallsFit, CallFits, Buys
<1>2. CallsFit'
    BY <1>0, <1>1, CallEnds, CallsStay
<1>3. Others' /\ UNCHANGED discarded
    BY <1>0 DEF Others, RowsMove
<1> QED
    BY <1>2, <1>3, RowsStay DEF StandStill, MountedIds

LEMMA UninstallKeeps ==
    ASSUME RowInv, NEW k \in WorkshopCalls, UninstallCommits(k) \/ RemoveCommits(k)
    PROVE  RowInv' /\ (StandStill \/ \E id \in MountedIds : Moved({id}, {id}))
<1> DEFINE c == call[k]
<1>0. c.pc = "commit" /\ RowsMove
    BY DEF UninstallCommits, RemoveCommits, At
<1>1. CASE Ends(k) /\ UNCHANGED <<inventory, mounted, generation, rack, bypassed>>
    BY <1>0, <1>1, NothingMoved
<1>2. CASE UninstallCommits(k) /\ c.id \in MountedIds
    <2>1. /\ ToInventory({c.id}) /\ Goes(k, "reload") /\ UNCHANGED bypassed
          /\ rack' = [r \in Racks |->
                        [miner |-> IF r = c.rack \/ rack[r].miner = c.id THEN NoId ELSE rack[r].miner,
                         blockedBy |-> IF r[1] = c.rack[1] /\ rack[r].blockedBy = c.id
                                         THEN NoId ELSE rack[r].blockedBy]]
        BY <1>2 DEF UninstallCommits
    <2>2. rack \in [Racks -> [miner : RowIds \cup {NoId}, blockedBy : RowIds \cup {NoId}]]
        BY DEF RowInv, WorkshopTypeOK
    <2>3. /\ rack' \in [Racks -> [miner : RowIds \cup {NoId}, blockedBy : RowIds \cup {NoId}]]
          /\ \A r \in Racks : rack'[r].miner # NoId => rack'[r].miner \in MountedIds \ {c.id}
        BY <2>1, <2>2 DEF RowInv, RacksHoldRows
    <2>4. bypassed' \in SUBSET RowIds
        BY <2>1 DEF RowInv, WorkshopTypeOK
    <2> QED
        BY <1>0, <1>2, <2>1, <2>3, <2>4, StoringKeeps
<1>3. CASE RemoveCommits(k) /\ c.id \in MountedIds
    <2>1. /\ ToInventory({c.id}) /\ Goes(k, "reload") /\ rack' = WithoutRows({c.id})
          /\ bypassed' = bypassed \cup InRacks({c.id})
        BY <1>3 DEF RemoveCommits
    <2>2. {c.id} \in SUBSET MountedIds
        BY <1>3
    <2>3. bypassed' \in SUBSET RowIds
        BY <2>1, <2>2, RowsStored DEF RowInv, WorkshopTypeOK
    <2>4. /\ rack' \in [Racks -> [miner : RowIds \cup {NoId}, blockedBy : RowIds \cup {NoId}]]
          /\ \A r \in Racks : rack'[r].miner # NoId => rack'[r].miner \in MountedIds \ {c.id}
        BY <2>1, <2>2, RowsStored
    <2> QED
        BY <1>0, <1>3, <2>1, <2>3, <2>4, StoringKeeps
<1> QED
    BY <1>1, <1>2, <1>3 DEF UninstallCommits, RemoveCommits

\* Mounted rows that are written anew and keep their ids.
LEMMA RowsRewritten ==
    ASSUME RowInv, NEW S \in SUBSET mounted, NEW f \in [S -> MountedRow], mounted' = {f[row] : row \in S},
           \A row \in S : f[row].id = row.id, \A a, b \in S : f[a].slot = f[b].slot => a = b
    PROVE  mounted' \in SUBSET MountedRow /\ IsFiniteSet(mounted') /\ RowsDiffer' /\ MountedIds' = {row.id : row \in S}
<1>1. mounted \in SUBSET MountedRow /\ IsFiniteSet(mounted) /\ RowsDiffer
    BY DEF RowInv, WorkshopTypeOK, MountedRow
<1>2. IsFiniteSet(S)
    BY <1>1, FS_Subset
<1>3. f = [row \in S |-> f[row]]
    OBVIOUS
<1>4. IsFiniteSet(mounted')
    BY <1>2, <1>3, ImageIsFinite
<1>5. RowsDiffer'
    <2> SUFFICES ASSUME NEW a \in S, NEW b \in S, f[a].id = f[b].id \/ f[a].slot = f[b].slot PROVE f[a] = f[b]
        BY DEF RowsDiffer
    <2>1. a.id = b.id => a = b
        BY <1>1 DEF RowsDiffer
    <2> QED
        BY <2>1
<1>6. MountedIds' = {f[row].id : row \in S}
    BY DEF MountedIds
<1> QED
    BY <1>4, <1>5, <1>6

LEMMA ToggleKeeps ==
    ASSUME RowInv, NEW k \in WorkshopCalls, ToggleCommits(k)
    PROVE  RowInv' /\ StandStill
<1> DEFINE c == call[k]
           Flip(row) == IF row.id = c.id THEN [row EXCEPT !.active = ~@] ELSE row
           f == [row \in mounted |-> Flip(row)]
<1>1. /\ c.pc = "commit" /\ RowsMove /\ UNCHANGED <<inventory, generation, rack, bypassed>>
      /\ Ends(k) \/ Goes(k, "reload")
      /\ mounted' = {Flip(row) : row \in mounted}
    BY DEF ToggleCommits, At
<1>2. mounted \in SUBSET MountedRow /\ IsFiniteSet(mounted) /\ RowsDiffer /\ mounted \in SUBSET mounted
    BY DEF RowInv, WorkshopTypeOK, MountedRow
<1>3. \A row \in mounted : Flip(row) \in MountedRow /\ Flip(row).id = row.id /\ Flip(row).slot = row.slot
    BY <1>2 DEF MountedRow
<1> HIDE DEF Flip
<1>4. f \in [mounted -> MountedRow] /\ \A row \in mounted : f[row].id = row.id /\ f[row].slot = row.slot
    BY <1>3
<1>5. mounted' = {f[row] : row \in mounted}
    BY <1>1
<1>6. \A a, b \in mounted : f[a].slot = f[b].slot => a = b
    BY <1>2, <1>4 DEF RowsDiffer
<1> HIDE DEF f
<1>7. mounted' \in SUBSET MountedRow /\ IsFiniteSet(mounted') /\ RowsDiffer' /\ MountedIds' = MountedIds
    BY <1>2, <1>4, <1>5, <1>6, RowsRewritten DEF MountedIds
<1>8. /\ {} \in SUBSET All /\ {} \in SUBSET NewIds({}) /\ NewIds({}) = {}
      /\ inventory' = (inventory \ {}) \cup {} /\ MountedIds' = (MountedIds \ {}) \cup (NewIds({}) \ {})
    BY <1>1, <1>7 DEF NewIds
<1>9. generation' = Renewed({})
    BY <1>1 DEF Renewed, RowInv, WorkshopTypeOK
<1>10. /\ rack' \in [Racks -> [miner : RowIds \cup {NoId}, blockedBy : RowIds \cup {NoId}]]
       /\ RacksHoldRows' /\ bypassed' \in SUBSET RowIds
    BY <1>1, <1>7 DEF RowInv, WorkshopTypeOK, RacksHoldRows
<1>11. c.pc # "idle"
    BY <1>1
<1>12. RowInv'
    BY <1>1, <1>7, <1>8, <1>9, <1>10, <1>11, RowsMoveKeep
<1> QED
    BY <1>1, <1>7, <1>12 DEF StandStill

\* What a move or a placement takes out of its way stands somewhere, and is not the machine itself.
LEMMA OutStands ==
    ASSUME RowInv, NEW k \in WorkshopCalls, call[k].op \in {"move", "place"}, call[k].pc = "commit",
           call[k].rows \subseteq MountedIds
    PROVE  /\ call[k].rows \cup FromBefore(call[k]) \in SUBSET MountedIds
           /\ call[k].id \notin call[k].rows \cup FromBefore(call[k])
           /\ call[k] \in Handler /\ call[k].id \in RowIds /\ call[k].slot < OldSlots
<1>1. CallFits(k) /\ call[k] \in Handler
    BY CallsAndOthers DEF CallsFit
<1>2. FromBefore(call[k]) \in SUBSET MountedIds /\ call[k].id \notin FromBefore(call[k])
    BY DEF FromBefore, MountedIds
<1> QED
    BY <1>1, <1>2 DEF CallFits

LEMMA MoveKeeps ==
    ASSUME RowInv, NEW k \in WorkshopCalls, MoveCommits(k)
    PROVE  RowInv' /\ (StandStill \/ \E id \in MountedIds : \E out \in SUBSET (MountedIds \ {id}) : Moved(out, out))
<1> DEFINE c == call[k]
           out == c.rows \cup FromBefore(c)
           Shift(row) == IF row.id = c.id THEN [row EXCEPT !.slot = c.slot] ELSE row
           S == {r \in mounted : r.id \notin out}
           f == [row \in S |-> Shift(row)]
<1>0. c.op = "move" /\ c.pc = "commit" /\ c.pc # "idle" /\ RowsMove
    BY DEF MoveCommits, At
<1>1. CASE Ends(k) /\ UNCHANGED <<inventory, mounted, generation, rack, bypassed>>
    BY <1>0, <1>1, NothingMoved
<1>2. CASE /\ c.rows \cup {c.id} \subseteq MountedIds /\ ~SlotTaken(c.slot, out \cup {c.id})
           /\ mounted' = {Shift(row) : row \in S}
           /\ inventory' = inventory \cup NewIds(out) /\ generation' = Renewed(out)
           /\ rack' = WithoutRows(out) /\ bypassed' = bypassed \cup InRacks(out \cup {c.id}) /\ Goes(k, "reload")
    <2>1. out \in SUBSET MountedIds /\ c.id \notin out /\ c \in Handler /\ c.id \in MountedIds
        BY <1>0, <1>2, OutStands
    <2>2. mounted \in SUBSET MountedRow /\ IsFiniteSet(mounted) /\ RowsDiffer /\ S \in SUBSET mounted
        BY DEF RowInv, WorkshopTypeOK, MountedRow
    <2>3. \A row \in S : /\ Shift(row) \in MountedRow /\ Shift(row).id = row.id
                         /\ Shift(row).slot = IF row.id = c.id THEN c.slot ELSE row.slot
        BY <2>1, <2>2 DEF MountedRow, Handler
    <2>4. \A row \in S : row.id # c.id => row.slot # c.slot
        BY <1>2 DEF SlotTaken
    <2>5. \A a, b \in S : Shift(a).slot = Shift(b).slot => a = b
        <3> HIDE DEF Shift
        <3> SUFFICES ASSUME NEW a \in S, NEW b \in S, Shift(a).slot = Shift(b).slot PROVE a = b
            OBVIOUS
        <3>1. a.slot = b.slot \/ a.id = b.id => a = b
            BY <2>2 DEF RowsDiffer
        <3> HIDE DEF S, out, c
        <3> QED
            BY <2>3, <2>4, <3>1
    <2> HIDE DEF Shift
    <2>6. f \in [S -> MountedRow] /\ \A row \in S : f[row].id = row.id
        BY <2>3
    <2>7. mounted' = {f[row] : row \in S} /\ \A a, b \in S : f[a].slot = f[b].slot => a = b
        BY <1>2, <2>5
    <2>8. MountedIds \ out = {row.id : row \in S}
        BY DEF MountedIds
    <2> HIDE DEF f, S
    <2>9. mounted' \in SUBSET MountedRow /\ IsFiniteSet(mounted') /\ RowsDiffer' /\ MountedIds' = MountedIds \ out
        BY <2>2, <2>6, <2>7, <2>8, RowsRewritten
    <2> HIDE DEF out
    <2>10. /\ out \in SUBSET All /\ NewIds(out) \in SUBSET NewIds(out) /\ inventory \ out = inventory
           /\ NewIds(out) \ NewIds(out) = {}
           /\ WithoutRows(out) \in [Racks -> [miner : RowIds \cup {NoId}, blockedBy : RowIds \cup {NoId}]]
           /\ \A r \in Racks : WithoutRows(out)[r].miner # NoId => WithoutRows(out)[r].miner \in MountedIds \ out
        BY <2>1, RowsStored
    <2>11. RacksHoldRows'
        BY <1>2, <2>9, <2>10 DEF RacksHoldRows
    <2>12. bypassed' \in SUBSET RowIds
        <3>1. out \cup {c.id} \in SUBSET MountedIds
            BY <2>1
        <3> QED
            BY <1>2, <3>1, RowsStored DEF RowInv, WorkshopTypeOK
    <2>13. /\ inventory' = (inventory \ out) \cup NewIds(out)
           /\ MountedIds' = (MountedIds \ out) \cup (NewIds(out) \ NewIds(out))
        BY <1>2, <2>9, <2>10
    <2>14. RowInv'
        BY <1>0, <1>2, <2>9, <2>10, <2>11, <2>12, <2>13, RowsMoveKeep
    <2>15. Moved(out, out)
        BY <1>2, <2>10, <2>13 DEF Moved
    <2>16. out \in SUBSET (MountedIds \ {c.id})
        BY <2>1
    <2> QED
        BY <2>1, <2>14, <2>15, <2>16
<1> QED
    BY <1>0, <1>1, <1>2 DEF MoveCommits

LEMMA PlaceKeeps ==
    ASSUME RowInv, NEW k \in WorkshopCalls, PlaceCommits(k)
    PROVE  RowInv' /\ (StandStill \/ \E id \in inventory : \E out \in SUBSET MountedIds : Moved(out \cup {id}, out))
<1> DEFINE c == call[k]
           out == c.rows \cup FromBefore(c)
           new == NewId(c.id[1])
           row == [id |-> new, slot |-> c.slot, active |-> TRUE]
           gone == out \cup {c.id}
           S == {r \in mounted : r.id \notin out}
<1>0. c.op = "place" /\ c.pc = "commit" /\ c.pc # "idle" /\ RowsMove
    BY DEF PlaceCommits, At
<1>1. CASE Ends(k) /\ UNCHANGED <<inventory, mounted, generation, rack, bypassed>>
    BY <1>0, <1>1, NothingMoved
<1>2. CASE /\ c.id \in inventory /\ c.rows \subseteq MountedIds /\ ~SlotTaken(c.slot, out)
           /\ mounted' = S \cup {row}
           /\ inventory' = (inventory \ {c.id}) \cup NewIds(out) /\ generation' = Renewed(gone)
           /\ rack' = WithoutRows(out) /\ bypassed' = bypassed \cup InRacks(out) /\ Goes(k, "reload")
    <2>0. WorkshopTypeOK /\ Places
        BY DEF RowInv
    <2>1. out \in SUBSET MountedIds /\ c.id \notin out /\ c \in Handler
        BY <1>0, <1>2, OutStands
    <2>2. mounted \in SUBSET MountedRow /\ IsFiniteSet(mounted) /\ RowsDiffer /\ S \in SUBSET mounted
        BY DEF RowInv, WorkshopTypeOK, MountedRow
    <2>3. /\ out \in SUBSET All /\ inventory \ out = inventory
          /\ WithoutRows(out) \in [Racks -> [miner : RowIds \cup {NoId}, blockedBy : RowIds \cup {NoId}]]
          /\ \A r \in Racks : WithoutRows(out)[r].miner # NoId => WithoutRows(out)[r].miner \in MountedIds \ out
          /\ InRacks(out) \in SUBSET RowIds
        BY <2>1, RowsStored
    <2>4. gone \in SUBSET All /\ NewIds(out) \in SUBSET NewIds(gone) /\ inventory \ gone = inventory \ {c.id}
        BY <1>2, <2>3 DEF All, NewIds
    <2>5. \A id \in out : id[1] # c.id[1]
        BY <1>2, <2>0, <2>1, <2>3, MachinesDiffer DEF All
    <2>6. new \in NewIds(gone) /\ new \notin NewIds(out) /\ \A id \in NewIds(gone) : id = new \/ id \in NewIds(out)
        BY <2>5 DEF NewIds, NewId
    <2>7. NewIds(gone) \ NewIds(out) = {new}
        BY <2>6
    <2>8. MountedIds \ gone = MountedIds \ out
        BY <1>2, <2>0 DEF Places
    <2>9. MountedIds' = (MountedIds \ out) \cup {new}
        <3>1. row.id = new
            OBVIOUS
        <3>2. MountedIds \ out = {r.id : r \in S}
            BY DEF MountedIds
        <3> HIDE DEF row, new, S
        <3> QED
            BY <1>2, <3>1, <3>2 DEF MountedIds
    <2>10. /\ MountedIds' = (MountedIds \ gone) \cup (NewIds(gone) \ NewIds(out))
           /\ inventory' = (inventory \ gone) \cup NewIds(out)
        BY <1>2, <2>4, <2>7, <2>8, <2>9
    <2>11. new \in RowIds /\ new \notin All
        BY <1>0, <1>2, <2>0, <2>4, <2>6, <2>10, RowsRenewed DEF RowsMove
    <2>12. row \in MountedRow
        BY <2>1, <2>11 DEF Handler, MountedRow
    <2>13. IsFiniteSet(mounted')
        <3>1. IsFiniteSet(S)
            BY <2>2, FS_Subset
        <3> QED
            BY <1>2, <3>1, FS_AddElement
    <2>14. RowsDiffer'
        <3>1. \A a \in S : a \in mounted /\ a.id # new /\ a.slot # c.slot
            BY <1>2, <2>11 DEF MountedIds, SlotTaken, All
        <3>2. row.id = new /\ row.slot = c.slot
            OBVIOUS
        <3> HIDE DEF row, S
        <3> QED
            BY <1>2, <2>2, <3>1, <3>2 DEF RowsDiffer
    <2>15. RacksHoldRows'
        BY <1>2, <2>3, <2>9 DEF RacksHoldRows
    <2>16. bypassed' \in SUBSET RowIds
        BY <1>2, <2>0, <2>3 DEF WorkshopTypeOK
    <2>17. mounted' \in SUBSET MountedRow
        BY <1>2, <2>2, <2>12
    <2>18. rack' \in [Racks -> [miner : RowIds \cup {NoId}, blockedBy : RowIds \cup {NoId}]]
        BY <1>2, <2>3
    <2>19. Moved(out \cup {c.id}, out)
        BY <1>2, <2>4, <2>10 DEF Moved
    <2> HIDE DEF gone, out, row, S, new
    <2>20. RowInv'
        BY <1>0, <1>2, <2>4, <2>10, <2>13, <2>14, <2>15, <2>16, <2>17, <2>18, RowsMoveKeep
    <2> QED
        BY <1>2, <2>1, <2>19, <2>20
<1> QED
    BY <1>0, <1>1, <1>2 DEF PlaceCommits

-----------------------------------------------------------------------------
(* Machines that come and go.                                               *)

LEMMA AcquiringKeeps ==
    ASSUME RowInv, NEW m \in Machines, generation[m] = 0, inventory' = inventory \cup {<<m, 1>>},
           generation' = [generation EXCEPT ![m] = 1], UNCHANGED <<mounted, rack, discarded>>, CallsFit', Others'
    PROVE  RowInv'
<1>0. WorkshopTypeOK /\ Places
    BY DEF RowInv
<1>1. /\ generation \in [Machines -> Nat] /\ generation' \in [Machines -> Nat] /\ generation'[m] = 1
      /\ \A x \in Machines \ {m} : generation'[x] = generation[x]
    BY <1>0 DEF WorkshopTypeOK
<1>2. <<m, 1>> \in RowIds /\ m \notin discarded /\ \A id \in All : id[1] \in Machines \ {m}
    BY <1>0, IdsAreRows DEF Places, RowIds
<1>3. MountedIds' = MountedIds /\ All' = All \cup {<<m, 1>>}
    BY DEF MountedIds, All
<1>4. Places'
    <2>1. inventory' \cap MountedIds' = {}
        BY <1>0, <1>2, <1>3 DEF Places, All
    <2>2. \A id \in All' : id[2] = generation'[id[1]] /\ id[1] \notin discarded'
        BY <1>0, <1>1, <1>2, <1>3 DEF Places
    <2>3. \A x \in Machines : generation'[x] = 0 \/ x \in discarded' \/ <<x, generation'[x]>> \in All'
        BY <1>0, <1>1, <1>3 DEF Places
    <2>4. \A x \in discarded' : generation'[x] # 0
        BY <1>0, <1>1 DEF Places, WorkshopTypeOK
    <2> QED
        BY <2>1, <2>2, <2>3, <2>4 DEF Places
<1>5. WorkshopTypeOK'
    BY <1>0, <1>1, <1>2 DEF WorkshopTypeOK, Others, CallsFit, Handler
<1> QED
    BY <1>3, <1>4, <1>5 DEF RowInv, RowsDiffer, RacksHoldRows, CallsFit

LEMMA PurchaseKeeps ==
    ASSUME RowInv, NEW k \in WorkshopCalls, PurchaseCommits(k)
    PROVE  RowInv'
<1> DEFINE m == call[k].id[1]
<1>0. /\ CallsFit /\ Others /\ call[k].op = "buy" /\ call[k].pc = "commit" /\ Pays(MinerPrice) /\ Goes(k, "tell")
      /\ UNCHANGED <<mounted, rooms, rack, discarded, counted, reloadMissed, together, bypassed, workshopCalls, workshopFaults>>
      /\ inventory' = inventory \cup {call[k].id} /\ generation' = [generation EXCEPT ![m] = 1]
    BY CallsAndOthers DEF PurchaseCommits, At
<1>1. CallFits(k) /\ call[k].id \in RowIds /\ call[k].id[2] = 1 /\ generation[m] = 0
    BY <1>0 DEF CallsFit, CallFits
<1>2. m \in Machines /\ call[k].id = <<m, 1>>
    BY <1>1 DEF RowIds
<1>3. ASSUME NEW j \in WorkshopCalls \ {k}, Buys(j) PROVE generation'[call[j].id[1]] = 0
    <2>1. CallFits(j) /\ call[j].op = "buy" /\ call[j].pc = "commit"
        BY <1>0, <1>3 DEF CallsFit, Buys
    <2>2. call[j].id \in RowIds /\ call[j].id[2] = 1 /\ generation[call[j].id[1]] = 0
        BY <2>1 DEF CallFits
    <2>3. call[j].id # call[k].id
        BY <1>0, <1>3 DEF CallsFit, BuysDiffer, Buys
    <2>4. call[j].id[1] # m
        BY <1>2, <2>2, <2>3 DEF RowIds
    <2> QED
        BY <1>0, <2>2, <2>4 DEF RowInv, WorkshopTypeOK
<1>4. CallsFit'
    <2>1. "tell" \in HandlerPc
        BY DEF HandlerPc
    <2>2. PICK c \in Handler :
             /\ call' = [call EXCEPT ![k] = c] /\ call'[k] = c /\ c.pc = "tell"
             /\ c.op = call[k].op /\ c.id = call[k].id /\ c.rack = call[k].rack /\ c.slot = call[k].slot
             /\ c.rows = call[k].rows
        BY <1>0, <2>1, GoesOn
    <2>3. CallFits(k)'
        BY <1>0, <1>1, <2>2 DEF CallFits
    <2> QED
        BY <1>0, <1>3, <2>2, <2>3, CallsStay
<1>5. Others'
    <2>1. wallet' \in [column : Int, live : Int] /\ spent' \in Nat
        BY <1>0, WorkshopAssumption DEF Pays, Others
    <2> QED
        BY <1>0, <2>1 DEF Others
<1> QED
    BY <1>0, <1>1, <1>2, <1>4, <1>5, AcquiringKeeps

LEMMA SendKeeps ==
    ASSUME RowInv, NEW m \in Machines, SendMiner(m)
    PROVE  RowInv'
<1>0. CallsFit /\ Others /\ WorkshopTypeOK
    BY CallsAndOthers DEF RowInv
<1>1. \A j \in WorkshopCalls : CallFits(j)'
    <2> SUFFICES ASSUME NEW j \in WorkshopCalls PROVE CallFits(j)'
        OBVIOUS
    <2>1. CallFits(j) /\ call'[j] = call[j] /\ call[j].id # <<m, 1>> /\ generation' = [generation EXCEPT ![m] = 1]
        BY <1>0 DEF CallsFit, SendMiner
    <2>2. CASE Buys(j)
        <3>1. call[j].id \in RowIds /\ call[j].id[2] = 1 /\ generation[call[j].id[1]] = 0
            BY <2>1, <2>2 DEF CallFits, Buys
        <3>2. call[j].id[1] # m
            BY <2>1, <3>1 DEF RowIds
        <3>3. generation'[call[j].id[1]] = 0
            BY <1>0, <2>1, <3>1, <3>2 DEF WorkshopTypeOK
        <3> QED
            BY <2>1, <3>3 DEF CallFits
    <2>3. CASE ~Buys(j)
        BY <2>1, <2>3 DEF CallFits, Buys
    <2> QED
        BY <2>2, <2>3
<1>2. CallsFit'
    BY <1>0, <1>1 DEF CallsFit, BuysDiffer, Buys, SendMiner
<1>3. Others'
    BY <1>0 DEF Others, SendMiner
<1> QED
    BY <1>2, <1>3, AcquiringKeeps DEF SendMiner

LEMMA DiscardKeeps ==
    ASSUME RowInv, NEW id \in inventory, DiscardItem(id)
    PROVE  RowInv'
<1>0. /\ CallsFit /\ Others /\ WorkshopTypeOK /\ Places
      /\ inventory' = inventory \ {id} /\ discarded' = discarded \cup {id[1]} /\ workshopCalls' = workshopCalls + 1
      /\ UNCHANGED <<mounted, generation, rooms, rack, wallet, spent, counted, reloadMissed, call, together,
                     bypassed, workshopFaults>>
    BY CallsAndOthers DEF RowInv, DiscardItem
<1>1. id \in All /\ id \in RowIds /\ id[1] \in Machines /\ id[2] # 0 /\ id = <<id[1], generation[id[1]]>>
    BY <1>0, IdsAreRows DEF All, Places
<1>2. MountedIds' = MountedIds /\ All' = All \ {id}
    BY <1>0 DEF MountedIds, All, Places
<1>3. Places'
    <2>1. \A other \in All' : other[2] = generation'[other[1]] /\ other[1] \notin discarded'
        BY <1>0, <1>1, <1>2, MachinesDiffer DEF Places
    <2>2. \A m \in Machines : generation'[m] = 0 \/ m \in discarded' \/ <<m, generation'[m]>> \in All'
        BY <1>0, <1>1, <1>2 DEF Places
    <2>3. \A m \in discarded' : generation'[m] # 0
        BY <1>0, <1>1 DEF Places
    <2>4. inventory' \cap MountedIds' = {}
        BY <1>0, <1>2 DEF Places
    <2> QED
        BY <2>1, <2>2, <2>3, <2>4 DEF Places
<1>4. CallsFit'
    BY <1>0 DEF CallsFit, BuysDiffer, Buys, CallFits
<1>5. WorkshopTypeOK'
    BY <1>0, <1>1 DEF WorkshopTypeOK
<1> QED
    BY <1>0, <1>2, <1>3, <1>4, <1>5 DEF RowInv, RowsDiffer, RacksHoldRows, CallsFit

LEMMA RowInit == WorkshopInit => RowInv
<1> SUFFICES ASSUME WorkshopInit PROVE RowInv
    OBVIOUS
<1>1. /\ inventory = {<<m, 1>> : m \in Owned} /\ mounted = {} /\ discarded = {}
      /\ generation = [m \in Machines |-> IF m \in Owned THEN 1 ELSE 0] /\ Owned \subseteq Machines
      /\ rack = [r \in Racks |-> Free] /\ call = [k \in WorkshopCalls |-> IdleHandler]
      /\ wallet = [column |-> WorkshopFunds, live |-> WorkshopFunds] /\ WorkshopFunds \in Nat
      /\ RoomMax \in Nat \ {0}
    BY WorkshopAssumption DEF WorkshopInit
<1>2. MountedIds = {} /\ All = inventory
    BY <1>1 DEF MountedIds, All
<1>3. inventory \in SUBSET RowIds
    BY <1>1 DEF RowIds
<1>4. Places
    BY <1>1, <1>2 DEF Places
<1>5. CallsFit
    BY <1>1, IdleTyped DEF CallsFit, BuysDiffer, Buys, CallFits
<1>6. WorkshopTypeOK
    <2>1. rack \in [Racks -> [miner : RowIds \cup {NoId}, blockedBy : RowIds \cup {NoId}]]
        <3>1. Free \in [miner : RowIds \cup {NoId}, blockedBy : RowIds \cup {NoId}]
            BY DEF Free
        <3> QED
            BY <1>1, <3>1
    <2>2. generation \in [Machines -> Nat] /\ wallet \in [column : Int, live : Int]
        BY <1>1
    <2>3. rooms = 1 /\ spent = 0 /\ counted = {} /\ bypassed = {} /\ workshopCalls = 0 /\ workshopFaults = 0
        BY DEF WorkshopInit
    <2>4. rooms \in 1 .. RoomMax
        BY <1>1, <2>3
    <2>5. together = FALSE /\ reloadMissed = FALSE
        BY DEF WorkshopInit
    <2> QED
        BY <1>1, <1>3, <1>5, <2>1, <2>2, <2>3, <2>4, <2>5 DEF WorkshopTypeOK, CallsFit, Handler
<1>7. IsFiniteSet(mounted)
    BY <1>1, FS_EmptySet
<1> QED
    BY <1>1, <1>4, <1>5, <1>6, <1>7 DEF RowInv, RowsDiffer, RacksHoldRows, CallsFit, Free

LEMMA RowNext == RowInv /\ [WorkshopNext]_workshopVars => RowInv'
<1> SUFFICES ASSUME RowInv, [WorkshopNext]_workshopVars PROVE RowInv'
    OBVIOUS
<1>1. ASSUME NEW k \in WorkshopCalls, RoomStep(k) PROVE RowInv'
    BY <1>1, RoomReadsKeep, LaterReadsKeep, InstallKeeps, UninstallKeeps, MoneyStepsKeep DEF RoomStep
<1>2. ASSUME NEW k \in WorkshopCalls, OldStep(k) PROVE RowInv'
    BY <1>2, RoomReadsKeep, TargetReadsKeep, LaterReadsKeep, UninstallKeeps, ToggleKeeps, MoveKeeps, PlaceKeeps DEF OldStep
<1>3. ASSUME NEW k \in WorkshopCalls, ShopStep(k) PROVE RowInv'
    BY <1>3, PurchaseReadsKeep, PurchaseKeeps, LaterReadsKeep, MoneyStepsKeep DEF ShopStep
<1>4. CASE UNCHANGED workshopVars
    BY <1>4 DEF workshopVars, RowInv, WorkshopTypeOK, RowsDiffer, Places, All, MountedIds, RacksHoldRows, BuysDiffer, Buys, CallFits
<1> QED
    BY <1>1, <1>2, <1>3, <1>4, SendKeeps, DiscardKeeps, MoneyStepsKeep DEF WorkshopNext

-----------------------------------------------------------------------------
(* When calls come one after another, what each has read stays so, and the  *)
(* racks agree with the rows.                                               *)

InTheWay(c) == {row.id : row \in {r \in mounted : r.slot \in Covers(c.id, c.slot) /\ r.id # c.id}}

Knows(k) ==
    LET c == call[k]
    IN  /\ c.op = "install" /\ c.pc \in {"item", "adjacent", "commit"} => IsFree(c.rack)
        /\ c.op = "install" /\ c.pc = "commit" /\ Size(c.id) = 2 => Next2(c.rack) \in Racks /\ IsFree(Next2(c.rack))
        /\ c.op = "uninstall" /\ c.pc = "commit" => rack[c.rack].miner = c.id
        /\ c.op \in {"move", "place"} /\ c.pc = "commit" => c.rows = InTheWay(c)
        /\ c.pc = "assign" => c.rows = Active

\* What the engine counts, unless its last reload failed.
CountsActive == reloadMissed \/ counted = Active

CallsKnow ==
    /\ \A j, k \in WorkshopCalls : call[j].pc # "idle" /\ call[k].pc # "idle" => j = k
    /\ \A k \in WorkshopCalls : Knows(k)
    /\ (\A k \in WorkshopCalls : call[k].pc \notin {"reload", "assign"}) => CountsActive

\* Rows on old slots stand where they fit and do not reach each other's slots.
OldSlotsFit ==
    /\ \A a \in mounted : a.slot < RackOffset => a.slot < OldSlots /\ FitsAt(a.id, a.slot)
    /\ \A a, b \in mounted :
         a.slot < RackOffset /\ b.slot < RackOffset /\ Size(a.id) = 2 => b.slot # a.slot + 1

\* A rack names the row on its slot, and the rack after it is blocked by a row of two slots.
RowsAreNamed ==
    \A a \in mounted : a.slot >= RackOffset =>
        \E r \in Racks : /\ RackSlot(r) = a.slot /\ rack[r].miner = a.id
                         /\ Size(a.id) = 2 => Next2(r) \in Racks /\ rack[Next2(r)].blockedBy = a.id

BlockedIsEmpty == \A r \in Racks : rack[r].blockedBy # NoId => rack[r].miner = NoId

\* What a rack names is there, unless an old handler moved it.
NamedAreRows ==
    bypassed = {} =>
        /\ \A r \in Racks : rack[r].miner # NoId => \E a \in mounted : a.id = rack[r].miner /\ a.slot = RackSlot(r)
        /\ \A n \in Racks : rack[n].blockedBy # NoId =>
             \E r \in Racks : Next2(r) = n /\ rack[r].miner = rack[n].blockedBy /\ Size(rack[n].blockedBy) = 2

RacksAgree == OldSlotsFit /\ RowsAreNamed /\ BlockedIsEmpty /\ NamedAreRows

AloneInv == together \/ (CallsKnow /\ RacksAgree)

\* No row has the id of an empty rack.
LEMMA RowIdIsNotNone == \A id \in RowIds : id # NoId
<1>1. RowIds \subseteq Machines \X Nat
    BY DEF RowIds
<1> QED
    BY <1>1, WorkshopAssumption

LEMMA Typed ==
    ASSUME RowInv
    PROVE  /\ mounted \in SUBSET MountedRow /\ RowsDiffer /\ RackOffset \in Nat /\ OldSlots \in Nat /\ OldSlots < RackOffset
           /\ \A a \in mounted : a.id \in RowIds /\ a.id # NoId /\ a.slot \in Nat /\ a.id \in MountedIds
           /\ rack \in [Racks -> [miner : RowIds \cup {NoId}, blockedBy : RowIds \cup {NoId}]]
           /\ call \in [WorkshopCalls -> Handler]
BY RowIdIsNotNone, WorkshopAssumption DEF RowInv, WorkshopTypeOK, MountedRow, MountedIds, Handler

\* Two rows share no slot.
LEMMA RowsApart ==
    ASSUME RowInv, RacksAgree, NEW a \in mounted, NEW b \in mounted, a # b
    PROVE  Covers(a.id, a.slot) \cap Covers(b.id, b.slot) = {}
<1>1. a.slot # b.slot /\ a.slot \in Nat /\ b.slot \in Nat
    BY Typed DEF RowsDiffer
<1>2. ASSUME NEW x \in mounted, NEW y \in mounted, Size(x.id) = 2, y.slot = x.slot + 1 PROVE FALSE
    <2>1. x.slot \in Nat /\ y.slot \in Nat /\ x.id # NoId /\ y.id # NoId /\ OldSlots \in Nat /\ RackOffset \in Nat
          /\ OldSlots < RackOffset
        BY Typed
    <2>2. CASE x.slot < RackOffset
        <3>1. y.slot < RackOffset
            BY <1>2, <2>1, <2>2 DEF RacksAgree, OldSlotsFit
        <3> QED
            BY <1>2, <2>2, <3>1 DEF RacksAgree, OldSlotsFit
    <2>3. CASE ~(x.slot < RackOffset)
        <3>1. x.slot >= RackOffset /\ y.slot >= RackOffset
            BY <1>2, <2>1, <2>3
        <3>2. PICK r \in Racks : RackSlot(r) = x.slot /\ Next2(r) \in Racks /\ rack[Next2(r)].blockedBy = x.id
            BY <1>2, <3>1 DEF RacksAgree, RowsAreNamed
        <3>3. PICK q \in Racks : RackSlot(q) = y.slot /\ rack[q].miner = y.id
            BY <3>1 DEF RacksAgree, RowsAreNamed
        <3>4. q = Next2(r)
            BY <1>2, <3>2, <3>3, NextRack, RackSlotsDiffer
        <3> QED
            BY <2>1, <3>2, <3>3, <3>4 DEF RacksAgree, BlockedIsEmpty
    <2> QED
        BY <2>2, <2>3
<1>3. (Size(a.id) = 2 => b.slot # a.slot + 1) /\ (Size(b.id) = 2 => a.slot # b.slot + 1)
    BY <1>2
<1>4. Size(a.id) \in {1, 2} /\ Size(b.id) \in {1, 2}
    BY SizeTyped
<1> QED
    BY <1>1, <1>3, <1>4 DEF Covers

-----------------------------------------------------------------------------
(* Calls.                                                                   *)

LEMMA OthersIdle ==
    ASSUME CallsKnow, NEW k \in WorkshopCalls, call[k].pc # "idle"
    PROVE  /\ \A j \in WorkshopCalls \ {k} : call[j].pc = "idle"
           /\ Knows(k)
           /\ call[k].pc \notin {"reload", "assign"} => CountsActive
BY DEF CallsKnow

LEMMA KnowledgeAfter ==
    ASSUME RowInv, NEW k \in WorkshopCalls, NEW c \in Handler, call' = [call EXCEPT ![k] = c],
           \A j \in WorkshopCalls \ {k} : call[j].pc = "idle", Knows(k)',
           c.pc \notin {"reload", "assign"} => CountsActive'
    PROVE  CallsKnow'
<1>1. call'[k] = c /\ \A j \in WorkshopCalls \ {k} : call'[j] = call[j]
    BY Typed
<1>2. \A j \in WorkshopCalls \ {k} : Knows(j)'
    BY <1>1 DEF Knows
<1> QED
    BY <1>1, <1>2 DEF CallsKnow

\* A call that ends, or goes on to what it has no knowledge for.
LEMMA KnowledgeEnds ==
    ASSUME RowInv, CallsKnow, NEW k \in WorkshopCalls, call[k].pc # "idle", Ends(k), CountsActive'
    PROVE  CallsKnow'
<1>1. call' = [call EXCEPT ![k] = IdleHandler] /\ call'[k] = IdleHandler /\ IdleHandler \in Handler
    BY CallsAndOthers, CallEnds
<1>2. Knows(k)'
    BY <1>1, IdleTyped DEF Knows
<1> QED
    BY <1>1, <1>2, OthersIdle, KnowledgeAfter

LEMMA KnowledgeGoes ==
    ASSUME RowInv, CallsKnow, NEW k \in WorkshopCalls, call[k].pc # "idle",
           NEW pc \in {"tell", "reload", "adjacent", "commit"}, Goes(k, pc),
           pc = "commit" => call[k].op \in {"install", "room"},
           pc \in {"adjacent", "commit"} /\ call[k].op = "install" => rack'[call[k].rack] = Free,
           pc = "commit" /\ call[k].op = "install" /\ Size(call[k].id) = 2 =>
               Next2(call[k].rack) \in Racks /\ rack'[Next2(call[k].rack)] = Free,
           pc # "reload" => CountsActive'
    PROVE  CallsKnow'
<1>1. pc \in HandlerPc
    BY DEF HandlerPc
<1>2. PICK c \in Handler :
             /\ call' = [call EXCEPT ![k] = c] /\ call'[k] = c /\ c.pc = pc
             /\ c.op = call[k].op /\ c.id = call[k].id /\ c.rack = call[k].rack /\ c.slot = call[k].slot
             /\ c.rows = call[k].rows
    BY <1>1, CallsAndOthers, GoesOn
<1>3. Knows(k)'
    BY <1>2 DEF Knows, IsFree
<1> QED
    BY <1>2, <1>3, OthersIdle, KnowledgeAfter

LEMMA ReadsKeepKnowledge ==
    ASSUME RowInv, CallsKnow, ~together', NEW k \in WorkshopCalls,
           \/ \E r \in Racks, id \in inventory : InstallReadsRack(k, r, id)
           \/ \E r \in Racks : UninstallReads(k, r)
           \/ \E id \in MountedIds : RemoveReads(k, id) \/ ToggleReads(k, id)
           \/ \E id \in MountedIds, slot \in 0 .. OldSlots - 1 : MoveReads(k, id, slot)
           \/ \E id \in inventory, slot \in 0 .. OldSlots - 1 : PlaceReads(k, id, slot)
           \/ BuyRoomReads(k)
           \/ \E m \in Machines : PurchaseReads(k, m)
    PROVE  CallsKnow'
<1>0. PICK op \in HandlerOp, pc \in {"item", "commit", "targets", "funds"} : \E id, r, slot :
          /\ Begin(k, [op |-> op, pc |-> pc, id |-> id, rack |-> r, slot |-> slot, rows |-> {}])
          /\ op = "install" => IsFree(r) /\ pc = "item"
          /\ op = "uninstall" => rack[r].miner = id
          /\ op \in {"move", "place"} => pc = "targets"
          /\ OnlyBegins
    BY DEF InstallReadsRack, UninstallReads, RemoveReads, ToggleReads, MoveReads, PlaceReads, BuyRoomReads, PurchaseReads,
           HandlerOp
<1>1. PICK id, r, slot :
          /\ Begin(k, [op |-> op, pc |-> pc, id |-> id, rack |-> r, slot |-> slot, rows |-> {}])
          /\ op = "install" => IsFree(r) /\ pc = "item"
          /\ op = "uninstall" => rack[r].miner = id
          /\ op \in {"move", "place"} => pc = "targets"
          /\ OnlyBegins
    BY <1>0
<1> DEFINE c == [op |-> op, pc |-> pc, id |-> id, rack |-> r, slot |-> slot, rows |-> {}]
<1>2. call' = [call EXCEPT ![k] = c] /\ Begin(k, c)
    BY <1>1 DEF Begin
<1>3. c.op = op /\ c.pc = pc /\ c.id = id /\ c.rack = r
    OBVIOUS
<1> HIDE DEF c
<1>4. call'[k] = c /\ UNCHANGED <<rack, mounted, counted, reloadMissed>>
    BY <1>1, <1>2, Typed DEF OnlyBegins
<1>5. Knows(k)'
    BY <1>1, <1>3, <1>4 DEF Knows, IsFree
<1>6. \A j \in WorkshopCalls \ {k} : call[j].pc = "idle"
    BY <1>2 DEF Begin
<1>7. CountsActive'
    <2>1. call[k].pc = "idle"
        BY <1>2 DEF Begin
    <2>2. CountsActive
        BY <1>6, <2>1 DEF CallsKnow
    <2> QED
        BY <1>4, <2>2 DEF CountsActive, Active
<1>8. \A j \in WorkshopCalls \ {k} : Knows(j)'
    BY <1>2, <1>6, Typed DEF Knows
<1>9. \A j, i \in WorkshopCalls : call'[j].pc # "idle" /\ call'[i].pc # "idle" => j = i
    BY <1>2, <1>6, Typed
<1> QED
    BY <1>5, <1>7, <1>8, <1>9 DEF CallsKnow

LEMMA KnowledgeStays ==
    ASSUME RowInv, CallsKnow, ~together', [WorkshopNext]_workshopVars
    PROVE  CallsKnow'
<1>1. ASSUME NEW k \in WorkshopCalls, call[k].pc \notin {"idle", "reload", "assign"}, UNCHANGED <<mounted, counted, reloadMissed>>
      PROVE  CountsActive'
    <2>1. CountsActive
        BY <1>1, OthersIdle
    <2> QED
        BY <1>1, <2>1 DEF CountsActive, Active
<1>2. ASSUME NEW k \in WorkshopCalls, InstallReadsItem(k) PROVE CallsKnow'
    <2>1. call[k].op = "install" /\ call[k].pc = "item" /\ UNCHANGED <<mounted, rack, counted, reloadMissed>>
        BY <1>2 DEF InstallReadsItem, At, OnlyReads, OnlyBegins
    <2>2. CountsActive' /\ Knows(k)
        BY <1>1, <2>1, OthersIdle
    <2>3. rack'[call[k].rack] = Free
        BY <2>1, <2>2 DEF Knows, IsFree
    <2>4. CASE Ends(k)
        BY <2>1, <2>2, <2>4, KnowledgeEnds
    <2>5. CASE Goes(k, IF Size(call[k].id) = 2 THEN "adjacent" ELSE "commit")
        BY <2>1, <2>2, <2>3, <2>5, KnowledgeGoes
    <2> QED
        BY <1>2, <2>4, <2>5 DEF InstallReadsItem
<1>3. ASSUME NEW k \in WorkshopCalls, InstallReadsAdjacent(k) PROVE CallsKnow'
    <2>1. call[k].op = "install" /\ call[k].pc = "adjacent" /\ UNCHANGED <<mounted, rack, counted, reloadMissed>>
        BY <1>3 DEF InstallReadsAdjacent, At, OnlyReads, OnlyBegins
    <2>2. CountsActive' /\ Knows(k)
        BY <1>1, <2>1, OthersIdle
    <2>3. rack'[call[k].rack] = Free
        BY <2>1, <2>2 DEF Knows, IsFree
    <2>4. CASE Ends(k)
        BY <2>1, <2>2, <2>4, KnowledgeEnds
    <2>5. CASE Goes(k, "commit") /\ Next2(call[k].rack) \in Racks /\ IsFree(Next2(call[k].rack))
        <3>1. rack'[Next2(call[k].rack)] = Free
            BY <2>1, <2>5 DEF IsFree
        <3> QED
            BY <2>1, <2>2, <2>3, <2>5, <3>1, KnowledgeGoes
    <2> QED
        BY <1>3, <2>4, <2>5 DEF InstallReadsAdjacent
<1>4. ASSUME NEW k \in WorkshopCalls, ReadsTargets(k) PROVE CallsKnow'
    <2> DEFINE c == [call[k] EXCEPT !.pc = "commit", !.rows = InTheWay(call[k])]
    <2>1. call[k].pc = "targets" /\ call' = [call EXCEPT ![k] = c] /\ UNCHANGED <<mounted, counted, reloadMissed>>
        BY <1>4 DEF ReadsTargets, OnlyReads, OnlyBegins, InTheWay
    <2>2. CallFits(k) /\ call[k] \in Handler
        BY Typed DEF RowInv
    <2>3. call[k].op \in {"move", "place"}
        BY <2>1, <2>2 DEF CallFits
    <2>4. InTheWay(call[k]) \in SUBSET RowIds
        BY Typed DEF InTheWay
    <2>6. c \in Handler /\ c.pc = "commit" /\ c.op = call[k].op /\ c.id = call[k].id /\ c.slot = call[k].slot /\ c.rows = InTheWay(call[k])
        BY <2>2, <2>4 DEF Handler, HandlerPc
    <2> HIDE DEF c
    <2>7. call'[k] = c
        BY <2>1, Typed
    <2>8. c.rows = InTheWay(call[k])'
        BY <2>1, <2>6, <2>7 DEF InTheWay
    <2>9. Knows(k)'
        BY <2>3, <2>6, <2>7, <2>8 DEF Knows
    <2>10. CountsActive'
        BY <1>1, <2>1
    <2> QED
        BY <2>1, <2>6, <2>9, <2>10, OthersIdle, KnowledgeAfter
<1>5. ASSUME NEW k \in WorkshopCalls,
             InstallCommits(k) \/ UninstallCommits(k) \/ RemoveCommits(k) \/ ToggleCommits(k) \/ MoveCommits(k) \/ PlaceCommits(k)
      PROVE  CallsKnow'
    <2>1. call[k].pc = "commit" /\ (Goes(k, "reload") \/ (Ends(k) /\ UNCHANGED mounted)) /\ UNCHANGED <<counted, reloadMissed>>
        <3>1. ASSUME ToggleCommits(k), call[k].id \notin MountedIds PROVE UNCHANGED mounted
            <4>1. \A row \in mounted : row.id # call[k].id
                BY <3>1 DEF MountedIds
            <4> QED
                BY <3>1, <4>1 DEF ToggleCommits
        <3> QED
            BY <1>5, <3>1 DEF InstallCommits, UninstallCommits, RemoveCommits, ToggleCommits, MoveCommits, PlaceCommits, At, RowsMove
    <2>2. CASE Goes(k, "reload")
        BY <2>1, <2>2, KnowledgeGoes
    <2>3. CASE Ends(k) /\ UNCHANGED mounted
        BY <1>1, <2>1, <2>3, KnowledgeEnds
    <2> QED
        BY <2>1, <2>2, <2>3
<1>6. ASSUME NEW k \in WorkshopCalls, BuyRoomChecks(k) \/ BuyRoomCommits(k) \/ PurchaseCommits(k) \/ TellsPurchase(k)
      PROVE  CallsKnow'
    <2>1. /\ call[k].pc \in {"funds", "commit", "tell"} /\ UNCHANGED <<mounted, counted, reloadMissed>>
          /\ \/ Ends(k) \/ Goes(k, "tell")
             \/ Goes(k, "commit") /\ call[k].op = "room"
        BY <1>6 DEF BuyRoomChecks, BuyRoomCommits, PurchaseCommits, TellsPurchase, At, OnlyReads, OnlyBegins
    <2>2. CountsActive'
        BY <1>1, <2>1
    <2>3. CASE Ends(k)
        BY <2>1, <2>2, <2>3, KnowledgeEnds
    <2>4. CASE Goes(k, "tell")
        BY <2>1, <2>2, <2>4, KnowledgeGoes
    <2>5. CASE Goes(k, "commit") /\ call[k].op = "room"
        BY <2>1, <2>2, <2>5, KnowledgeGoes
    <2> QED
        BY <2>1, <2>3, <2>4, <2>5
<1>7. ASSUME NEW k \in WorkshopCalls, ReloadReads(k) PROVE CallsKnow'
    <2> DEFINE c == [call[k] EXCEPT !.pc = "assign", !.rows = Active]
    <2>1. call[k].pc = "reload" /\ call' = [call EXCEPT ![k] = c] /\ UNCHANGED mounted
        BY <1>7 DEF ReloadReads, OnlyReads, OnlyBegins
    <2>2. call[k] \in Handler /\ Active \in SUBSET RowIds
        BY Typed DEF Active
    <2>3. c \in Handler /\ c.pc = "assign" /\ c.rows = Active
        BY <2>2 DEF Handler, HandlerPc
    <2> HIDE DEF c
    <2>4. call'[k] = c /\ Active' = Active
        BY <2>1, Typed DEF Active
    <2>5. Knows(k)'
        BY <2>3, <2>4 DEF Knows
    <2> QED
        BY <2>1, <2>3, <2>5, OthersIdle, KnowledgeAfter
<1>8. ASSUME NEW k \in WorkshopCalls, ReloadAssigns(k) PROVE CallsKnow'
    <2>1. call[k].pc = "assign" /\ counted' = call[k].rows /\ Ends(k) /\ UNCHANGED mounted
        BY <1>8 DEF ReloadAssigns
    <2>2. CountsActive'
        BY <2>1, OthersIdle DEF Knows, CountsActive, Active
    <2> QED
        BY <2>1, <2>2, KnowledgeEnds
<1>15. ASSUME NEW k \in WorkshopCalls, HandlerThrows(k) PROVE CallsKnow'
    <2>1. /\ call[k].pc # "idle" /\ Ends(k) /\ UNCHANGED <<mounted, counted>>
          /\ IF call[k].pc \in {"reload", "assign"} THEN reloadMissed' ELSE UNCHANGED reloadMissed
        BY <1>15, CallsAndOthers DEF HandlerThrows, Others
    <2>2. CountsActive'
        BY <1>1, <2>1 DEF CountsActive
    <2> QED
        BY <2>1, <2>2, KnowledgeEnds
<1>9. CASE WorkshopRestart
    <2>1. call' = [k \in WorkshopCalls |-> IdleHandler] /\ counted' = Active /\ UNCHANGED mounted
        BY <1>9 DEF WorkshopRestart
    <2>2. \A k \in WorkshopCalls : Knows(k)' /\ call'[k].pc = "idle"
        BY <2>1, IdleTyped DEF Knows
    <2> QED
        BY <2>1, <2>2 DEF CallsKnow, CountsActive, Active
<1>10. ASSUME UNCHANGED <<call, mounted, rack, counted, reloadMissed>> PROVE CallsKnow'
    BY <1>10 DEF CallsKnow, Knows, CountsActive, Active, InTheWay, IsFree
<1>11. ASSUME NEW k \in WorkshopCalls, RoomStep(k) \/ OldStep(k) \/ ShopStep(k) PROVE CallsKnow'
    BY <1>2, <1>3, <1>4, <1>5, <1>6, <1>7, <1>8, <1>11, <1>15, ReadsKeepKnowledge DEF RoomStep, OldStep, ShopStep
<1>12. ASSUME NEW id \in inventory, DiscardItem(id) PROVE CallsKnow'
    BY <1>10, <1>12 DEF DiscardItem
<1>13. ASSUME NEW m \in Machines, SendMiner(m) PROVE CallsKnow'
    BY <1>10, <1>13 DEF SendMiner
<1>14. CASE UNCHANGED workshopVars
    BY <1>10, <1>14 DEF workshopVars
<1> QED
    BY <1>9, <1>11, <1>12, <1>13, <1>14 DEF WorkshopNext

-----------------------------------------------------------------------------
(* Racks and rows.                                                          *)

LEMMA InstallAgrees ==
    ASSUME RowInv, RowInv', CallsKnow, RacksAgree, NEW k \in WorkshopCalls, InstallCommits(k)
    PROVE  RacksAgree'
<1> DEFINE c == call[k]
           new == NewId(c.id[1])
           row == [id |-> new, slot |-> c.slot, active |-> TRUE]
           wide == Size(c.id) = 2
           next == Next2(c.rack)
<1>0. /\ CallFits(k) /\ Knows(k) /\ c \in Handler /\ c.op = "install" /\ c.pc = "commit" /\ UNCHANGED bypassed
      /\ c.slot = RackSlot(c.rack) /\ c.rack \in Racks /\ c.slot \in Nat /\ c.slot >= RackOffset
    <2>1. c \in Handler /\ CallFits(k) /\ c.op = "install"
        BY Typed DEF RowInv, InstallCommits, At
    <2> QED
        BY <2>1, RackSlotTyped DEF InstallCommits, At, CallsKnow, CallFits, Handler
<1>1. CASE UNCHANGED <<mounted, rack>>
    BY <1>0, <1>1 DEF RacksAgree, OldSlotsFit, RowsAreNamed, BlockedIsEmpty, NamedAreRows
<1>2. CASE /\ c.id \in inventory /\ ~SlotTaken(c.slot, {})
           /\ mounted' = mounted \cup {row}
           /\ rack' = IF wide
                        THEN [rack EXCEPT ![c.rack].miner = new, ![next].blockedBy = new]
                        ELSE [rack EXCEPT ![c.rack].miner = new]
    <2>1. /\ rack[c.rack].miner = NoId /\ rack[c.rack].blockedBy = NoId
          /\ wide => next \in Racks /\ rack[next].miner = NoId /\ rack[next].blockedBy = NoId
        BY <1>0 DEF Knows, IsFree, Free
    <2>2. next # c.rack
        <3>1. c.rack[2] \in Int /\ next[2] = c.rack[2] + 1
            BY <1>0 DEF Next2, Racks
        <3>2. \A i \in Int : i + 1 # i
            OBVIOUS
        <3> QED
            BY <3>1, <3>2
    <2>3. row.id = new /\ row.slot = c.slot /\ Size(new) = Size(c.id)
        BY DEF NewId, Size
    <2>4. row \in mounted'
        BY <1>2
    <2>5. new # NoId
        BY <2>3, <2>4, RowIdIsNotNone DEF RowInv, WorkshopTypeOK
    <2> HIDE DEF row, new, wide, next
    <2>6. \A r \in Racks : /\ rack'[r].miner = IF r = c.rack THEN new ELSE rack[r].miner
                           /\ rack'[r].blockedBy = IF wide /\ r = next THEN new ELSE rack[r].blockedBy
        <3>1. CASE wide
            BY <1>0, <1>2, <2>1, <2>2, <3>1, Typed
        <3>2. CASE ~wide
            BY <1>0, <1>2, <3>2, Typed
        <3> QED
            BY <3>1, <3>2
    <2>7. OldSlotsFit'
        <3>1. \A a \in mounted' : a.slot < RackOffset => a \in mounted
            BY <1>0, <1>2, <2>3, Typed
        <3> QED
            BY <3>1 DEF RacksAgree, OldSlotsFit
    <2>8. RowsAreNamed'
        <3> SUFFICES ASSUME NEW a \in mounted', a.slot >= RackOffset
                     PROVE  \E r \in Racks : /\ RackSlot(r) = a.slot /\ rack'[r].miner = a.id
                                             /\ Size(a.id) = 2 => Next2(r) \in Racks /\ rack'[Next2(r)].blockedBy = a.id
            BY DEF RowsAreNamed
        <3>1. CASE a \in mounted
            <4>1. PICK r \in Racks : /\ RackSlot(r) = a.slot /\ rack[r].miner = a.id
                                     /\ Size(a.id) = 2 => Next2(r) \in Racks /\ rack[Next2(r)].blockedBy = a.id
                BY <3>1 DEF RacksAgree, RowsAreNamed
            <4>2. a.id # NoId
                BY <3>1, Typed
            <4> QED
                BY <2>1, <2>6, <4>1, <4>2
        <3>2. CASE a = row
            BY <1>0, <2>1, <2>3, <2>6, <3>2 DEF wide, next
        <3> QED
            BY <1>2, <3>1, <3>2
    <2>9. BlockedIsEmpty'
        BY <2>1, <2>2, <2>6 DEF RacksAgree, BlockedIsEmpty
    <2>10. NamedAreRows'
        <3> SUFFICES ASSUME bypassed = {}
                     PROVE  /\ \A r \in Racks : rack'[r].miner # NoId =>
                                 \E a \in mounted' : a.id = rack'[r].miner /\ a.slot = RackSlot(r)
                            /\ \A n \in Racks : rack'[n].blockedBy # NoId =>
                                 \E r \in Racks : Next2(r) = n /\ rack'[r].miner = rack'[n].blockedBy /\ Size(rack'[n].blockedBy) = 2
            BY <1>0 DEF NamedAreRows
        <3>1. ASSUME NEW r \in Racks, rack'[r].miner # NoId
              PROVE  \E a \in mounted' : a.id = rack'[r].miner /\ a.slot = RackSlot(r)
            <4>1. CASE r = c.rack
                BY <1>0, <2>3, <2>4, <2>6, <4>1
            <4>2. CASE r # c.rack
                <5>1. rack'[r].miner = rack[r].miner
                    BY <2>6, <4>2
                <5>2. PICK a \in mounted : a.id = rack[r].miner /\ a.slot = RackSlot(r)
                    BY <3>1, <5>1 DEF RacksAgree, NamedAreRows
                <5> QED
                    BY <1>2, <5>1, <5>2
            <4> QED
                BY <4>1, <4>2
        <3>2. ASSUME NEW n \in Racks, rack'[n].blockedBy # NoId
              PROVE  \E r \in Racks : Next2(r) = n /\ rack'[r].miner = rack'[n].blockedBy /\ Size(rack'[n].blockedBy) = 2
            <4>1. CASE wide /\ n = next
                BY <1>0, <2>3, <2>6, <4>1 DEF wide, next
            <4>2. CASE ~(wide /\ n = next)
                <5>1. rack'[n].blockedBy = rack[n].blockedBy
                    BY <2>6, <4>2
                <5>2. PICK r \in Racks : Next2(r) = n /\ rack[r].miner = rack[n].blockedBy /\ Size(rack[n].blockedBy) = 2
                    BY <3>2, <5>1 DEF RacksAgree, NamedAreRows
                <5>3. r # c.rack
                    BY <2>1, <3>2, <5>1, <5>2
                <5> QED
                    BY <2>6, <5>1, <5>2, <5>3
            <4> QED
                BY <4>1, <4>2
        <3> QED
            BY <3>1, <3>2
    <2> QED
        BY <2>7, <2>8, <2>9, <2>10 DEF RacksAgree
<1> QED
    BY <1>1, <1>2 DEF InstallCommits

LEMMA UninstallAgrees ==
    ASSUME RowInv, CallsKnow, RacksAgree, NEW k \in WorkshopCalls, UninstallCommits(k)
    PROVE  RacksAgree'
<1> DEFINE c == call[k]
<1>0. /\ Knows(k) /\ c.rack \in Racks /\ c.id \in RowIds /\ c.id # NoId /\ rack[c.rack].miner = c.id /\ UNCHANGED bypassed
    <2>1. c \in Handler /\ CallFits(k) /\ Knows(k) /\ c.op = "uninstall" /\ c.pc = "commit"
        BY Typed DEF RowInv, UninstallCommits, At, CallsKnow
    <2> QED
        BY <2>1, RowIdIsNotNone DEF CallFits, Handler, Knows, UninstallCommits
<1>1. CASE UNCHANGED <<mounted, rack>>
    BY <1>0, <1>1 DEF RacksAgree, OldSlotsFit, RowsAreNamed, BlockedIsEmpty, NamedAreRows
<1>2. CASE /\ mounted' = {row \in mounted : row.id # c.id}
           /\ rack' = [r \in Racks |->
                         [miner |-> IF r = c.rack \/ rack[r].miner = c.id THEN NoId ELSE rack[r].miner,
                          blockedBy |-> IF r[1] = c.rack[1] /\ rack[r].blockedBy = c.id
                                          THEN NoId ELSE rack[r].blockedBy]]
    <2>1. \A r \in Racks :
             /\ rack'[r].miner = IF r = c.rack \/ rack[r].miner = c.id THEN NoId ELSE rack[r].miner
             /\ rack'[r].blockedBy = IF r[1] = c.rack[1] /\ rack[r].blockedBy = c.id THEN NoId ELSE rack[r].blockedBy
        BY <1>2
    <2>2. \A a \in mounted' : a \in mounted /\ a.id # c.id
        BY <1>2
    <2>3. \A a \in mounted : a.id # c.id => a \in mounted'
        BY <1>2
    <2> HIDE DEF c
    <2>4. OldSlotsFit'
        BY <2>2 DEF RacksAgree, OldSlotsFit
    <2>5. RowsAreNamed'
        <3> SUFFICES ASSUME NEW a \in mounted', a.slot >= RackOffset
                     PROVE  \E r \in Racks : /\ RackSlot(r) = a.slot /\ rack'[r].miner = a.id
                                             /\ Size(a.id) = 2 => Next2(r) \in Racks /\ rack'[Next2(r)].blockedBy = a.id
            BY DEF RowsAreNamed
        <3>1. PICK r \in Racks : /\ RackSlot(r) = a.slot /\ rack[r].miner = a.id
                                 /\ Size(a.id) = 2 => Next2(r) \in Racks /\ rack[Next2(r)].blockedBy = a.id
            BY <2>2 DEF RacksAgree, RowsAreNamed
        <3>2. rack'[r].miner = a.id /\ (Size(a.id) = 2 => rack'[Next2(r)].blockedBy = a.id)
            BY <1>0, <2>1, <2>2, <3>1
        <3> QED
            BY <3>1, <3>2
    <2>6. BlockedIsEmpty'
        BY <2>1 DEF RacksAgree, BlockedIsEmpty
    <2>7. NamedAreRows'
        <3> SUFFICES ASSUME bypassed = {}
                     PROVE  /\ \A r \in Racks : rack'[r].miner # NoId =>
                                 \E a \in mounted' : a.id = rack'[r].miner /\ a.slot = RackSlot(r)
                            /\ \A n \in Racks : rack'[n].blockedBy # NoId =>
                                 \E r \in Racks : Next2(r) = n /\ rack'[r].miner = rack'[n].blockedBy /\ Size(rack'[n].blockedBy) = 2
            BY <1>0 DEF NamedAreRows
        <3>1. ASSUME NEW r \in Racks, rack'[r].miner # NoId
              PROVE  \E a \in mounted' : a.id = rack'[r].miner /\ a.slot = RackSlot(r)
            <4>1. rack[r].miner # c.id /\ rack'[r].miner = rack[r].miner
                BY <2>1, <3>1
            <4>2. PICK a \in mounted : a.id = rack[r].miner /\ a.slot = RackSlot(r)
                BY <3>1, <4>1 DEF RacksAgree, NamedAreRows
            <4> QED
                BY <2>3, <4>1, <4>2
        <3>2. ASSUME NEW n \in Racks, rack'[n].blockedBy # NoId
              PROVE  \E r \in Racks : Next2(r) = n /\ rack'[r].miner = rack'[n].blockedBy /\ Size(rack'[n].blockedBy) = 2
            <4>1. rack'[n].blockedBy = rack[n].blockedBy /\ ~(n[1] = c.rack[1] /\ rack[n].blockedBy = c.id)
                BY <2>1, <3>2
            <4>2. PICK r \in Racks : Next2(r) = n /\ rack[r].miner = rack[n].blockedBy /\ Size(rack[n].blockedBy) = 2
                BY <3>2, <4>1 DEF RacksAgree, NamedAreRows
            <4>3. r # c.rack
                BY <1>0, <4>1, <4>2 DEF Next2
            <4>4. rack[r].miner # c.id
                <5> SUFFICES ASSUME rack[r].miner = c.id PROVE r = c.rack
                    BY <4>3
                <5>1. PICK a \in mounted : a.id = c.id /\ a.slot = RackSlot(r)
                    BY <1>0 DEF RacksAgree, NamedAreRows
                <5>2. PICK b \in mounted : b.id = c.id /\ b.slot = RackSlot(c.rack)
                    BY <1>0 DEF RacksAgree, NamedAreRows
                <5>3. a = b
                    BY <5>1, <5>2, Typed DEF RowsDiffer
                <5> QED
                    BY <1>0, <5>1, <5>2, <5>3, RackSlotsDiffer
            <4> QED
                BY <2>1, <4>1, <4>2, <4>3, <4>4
        <3> QED
            BY <3>1, <3>2
    <2> QED
        BY <2>4, <2>5, <2>6, <2>7 DEF RacksAgree
<1> QED
    BY <1>1, <1>2 DEF UninstallCommits, ToInventory

\* What the old handlers take out of racks is remembered as bypassed.
LEMMA BypassAgrees ==
    ASSUME RowInv, RacksAgree, NEW out \in SUBSET MountedIds, NEW touched, out \subseteq touched, rack' = WithoutRows(out),
           bypassed' = bypassed \cup InRacks(touched), OldSlotsFit',
           \A a \in mounted' : a.slot >= RackOffset => a \in mounted /\ a.id \notin out,
           \A a \in mounted : a.id \notin touched => a \in mounted'
    PROVE  RacksAgree'
<1>1. \A r \in Racks : /\ rack'[r].miner = IF rack[r].miner \in out THEN NoId ELSE rack[r].miner
                       /\ rack'[r].blockedBy = rack[r].blockedBy
    BY Typed DEF WithoutRows
<1>2. RowsAreNamed'
    <2> SUFFICES ASSUME NEW a \in mounted', a.slot >= RackOffset
                 PROVE  \E r \in Racks : /\ RackSlot(r) = a.slot /\ rack'[r].miner = a.id
                                         /\ Size(a.id) = 2 => Next2(r) \in Racks /\ rack'[Next2(r)].blockedBy = a.id
        BY DEF RowsAreNamed
    <2>1. PICK r \in Racks : /\ RackSlot(r) = a.slot /\ rack[r].miner = a.id
                             /\ Size(a.id) = 2 => Next2(r) \in Racks /\ rack[Next2(r)].blockedBy = a.id
        BY DEF RacksAgree, RowsAreNamed
    <2> QED
        BY <1>1, <2>1
<1>3. BlockedIsEmpty'
    BY <1>1 DEF RacksAgree, BlockedIsEmpty
<1>4. NamedAreRows'
    <2> SUFFICES ASSUME bypassed' = {}
                 PROVE  /\ \A r \in Racks : rack'[r].miner # NoId =>
                             \E a \in mounted' : a.id = rack'[r].miner /\ a.slot = RackSlot(r)
                        /\ \A n \in Racks : rack'[n].blockedBy # NoId =>
                             \E r \in Racks : Next2(r) = n /\ rack'[r].miner = rack'[n].blockedBy /\ Size(rack'[n].blockedBy) = 2
        BY DEF NamedAreRows
    <2>1. bypassed = {} /\ \A r \in Racks : rack[r].miner \notin touched
        BY DEF InRacks
    <2>2. \A r \in Racks : rack'[r].miner = rack[r].miner /\ rack'[r].blockedBy = rack[r].blockedBy
        BY <1>1, <2>1
    <2>3. ASSUME NEW r \in Racks, rack[r].miner # NoId PROVE \E a \in mounted' : a.id = rack[r].miner /\ a.slot = RackSlot(r)
        <3>1. PICK a \in mounted : a.id = rack[r].miner /\ a.slot = RackSlot(r)
            BY <2>1, <2>3 DEF RacksAgree, NamedAreRows
        <3> QED
            BY <2>1, <3>1
    <2>4. \A n \in Racks : rack[n].blockedBy # NoId =>
             \E r \in Racks : Next2(r) = n /\ rack[r].miner = rack[n].blockedBy /\ Size(rack[n].blockedBy) = 2
        BY <2>1 DEF RacksAgree, NamedAreRows
    <2> QED
        BY <2>2, <2>3, <2>4
<1> QED
    BY <1>2, <1>3, <1>4 DEF RacksAgree

\* Everything in the way of a machine has gone from an old slot before it stands there.
LEMMA OldSlotsStillFit ==
    ASSUME RowInv, RacksAgree, NEW c \in Handler, c.slot < OldSlots, FitsAt(c.id, c.slot), c.rows = InTheWay(c),
           \A a \in mounted' : \/ a \in mounted /\ a.id # c.id /\ a.id \notin c.rows \cup FromBefore(c)
                               \/ a.slot = c.slot /\ Size(a.id) = Size(c.id)
    PROVE  OldSlotsFit'
<1>0. c.slot \in Nat /\ RackOffset \in Nat /\ OldSlots \in Nat /\ OldSlots < RackOffset
    BY Typed DEF Handler
<1>1. \A i \in Nat, j \in Nat : i % 2 = 0 /\ j = i + 1 => j % 2 = 1 /\ i = j - 1
    OBVIOUS
<1>2. ASSUME NEW a \in mounted', a.slot < RackOffset PROVE a.slot < OldSlots /\ FitsAt(a.id, a.slot)
    BY <1>2 DEF RacksAgree, OldSlotsFit, FitsAt
<1>3. ASSUME NEW a \in mounted', NEW b \in mounted', a.slot < RackOffset, b.slot < RackOffset, Size(a.id) = 2,
             b.slot = a.slot + 1
      PROVE  FALSE
    <2>1. CASE a \in mounted /\ b \in mounted
        BY <1>3, <2>1 DEF RacksAgree, OldSlotsFit
    <2>2. CASE a \in mounted /\ a.id # c.id /\ a.id \notin c.rows \cup FromBefore(c) /\ b.slot = c.slot
        <3>1. a.slot \in Nat /\ a.slot % 2 = 0
            BY <1>2, <1>3, <2>2, Typed DEF FitsAt
        <3>2. c.slot % 2 = 1 /\ a.slot = c.slot - 1
            BY <1>0, <1>1, <1>3, <2>2, <3>1
        <3>3. a.id \in FromBefore(c)
            BY <1>3, <2>2, <3>2 DEF FromBefore
        <3> QED
            BY <2>2, <3>3
    <2>3. CASE a.slot = c.slot /\ Size(a.id) = Size(c.id) /\ b \in mounted /\ b.id # c.id /\ b.id \notin c.rows
        <3>1. b.slot = c.slot + 1 /\ Size(c.id) = 2
            BY <1>3, <2>3
        <3>2. b.slot \in Covers(c.id, c.slot)
            BY <3>1 DEF Covers
        <3>3. b.id \in InTheWay(c)
            BY <2>3, <3>2 DEF InTheWay
        <3> QED
            BY <2>3, <3>3
    <2>4. CASE a.slot = c.slot /\ b.slot = c.slot
        BY <1>0, <1>3, <2>4
    <2> QED
        BY <2>1, <2>2, <2>3, <2>4
<1> QED
    BY <1>2, <1>3 DEF OldSlotsFit

LEMMA OldHandlersAgree ==
    ASSUME RowInv, CallsKnow, RacksAgree, NEW k \in WorkshopCalls,
           RemoveCommits(k) \/ ToggleCommits(k) \/ MoveCommits(k) \/ PlaceCommits(k)
    PROVE  RacksAgree'
<1> DEFINE c == call[k]
           out == c.rows \cup FromBefore(c)
<1>0. c.pc = "commit" /\ CallFits(k) /\ Knows(k) /\ c \in Handler
    BY Typed DEF RowInv, CallsKnow, RemoveCommits, ToggleCommits, MoveCommits, PlaceCommits, At
<1>1. ASSUME UNCHANGED <<mounted, rack, bypassed>> PROVE RacksAgree'
    BY <1>1 DEF RacksAgree, OldSlotsFit, RowsAreNamed, BlockedIsEmpty, NamedAreRows
<1>2. CASE RemoveCommits(k) /\ c.id \in MountedIds
    <2>1. /\ mounted' = {row \in mounted : row.id # c.id} /\ rack' = WithoutRows({c.id})
          /\ bypassed' = bypassed \cup InRacks({c.id})
        BY <1>2 DEF RemoveCommits, ToInventory
    <2>2. OldSlotsFit'
        BY <2>1 DEF RacksAgree, OldSlotsFit
    <2>3. {c.id} \in SUBSET MountedIds /\ {c.id} \subseteq {c.id}
        BY <1>2
    <2> QED
        BY <2>1, <2>2, <2>3, BypassAgrees
<1>3. CASE ToggleCommits(k)
    <2> DEFINE Flip(row) == IF row.id = c.id THEN [row EXCEPT !.active = ~@] ELSE row
    <2>1. mounted' = {Flip(row) : row \in mounted} /\ UNCHANGED <<rack, bypassed>>
        BY <1>3 DEF ToggleCommits
    <2>2. \A row \in mounted : Flip(row).id = row.id /\ Flip(row).slot = row.slot
        BY Typed DEF MountedRow
    <2> HIDE DEF Flip
    <2>3. \A a \in mounted' : \E b \in mounted : a.id = b.id /\ a.slot = b.slot
        BY <2>1, <2>2
    <2>4. \A b \in mounted : \E a \in mounted' : a.id = b.id /\ a.slot = b.slot
        BY <2>1, <2>2
    <2>5. OldSlotsFit'
        <3> SUFFICES ASSUME NEW a \in mounted', NEW b \in mounted'
                     PROVE  /\ a.slot < RackOffset => a.slot < OldSlots /\ FitsAt(a.id, a.slot)
                            /\ a.slot < RackOffset /\ b.slot < RackOffset /\ Size(a.id) = 2 => b.slot # a.slot + 1
            BY DEF OldSlotsFit
        <3>1. PICK x \in mounted, y \in mounted : a.id = x.id /\ a.slot = x.slot /\ b.id = y.id /\ b.slot = y.slot
            BY <2>3
        <3> QED
            BY <3>1 DEF RacksAgree, OldSlotsFit
    <2>6. RowsAreNamed'
        <3> SUFFICES ASSUME NEW a \in mounted', a.slot >= RackOffset
                     PROVE  \E r \in Racks : /\ RackSlot(r) = a.slot /\ rack[r].miner = a.id
                                             /\ Size(a.id) = 2 => Next2(r) \in Racks /\ rack[Next2(r)].blockedBy = a.id
            BY <2>1 DEF RowsAreNamed
        <3>1. PICK x \in mounted : a.id = x.id /\ a.slot = x.slot
            BY <2>3
        <3> QED
            BY <3>1 DEF RacksAgree, RowsAreNamed
    <2>7. BlockedIsEmpty'
        BY <2>1 DEF RacksAgree, BlockedIsEmpty
    <2>8. NamedAreRows'
        <3> SUFFICES ASSUME bypassed = {}
                     PROVE  /\ \A r \in Racks : rack[r].miner # NoId =>
                                 \E a \in mounted' : a.id = rack[r].miner /\ a.slot = RackSlot(r)
                            /\ \A n \in Racks : rack[n].blockedBy # NoId =>
                                 \E r \in Racks : Next2(r) = n /\ rack[r].miner = rack[n].blockedBy /\ Size(rack[n].blockedBy) = 2
            BY <2>1 DEF NamedAreRows
        <3>1. ASSUME NEW r \in Racks, rack[r].miner # NoId PROVE \E a \in mounted' : a.id = rack[r].miner /\ a.slot = RackSlot(r)
            <4>1. PICK b \in mounted : b.id = rack[r].miner /\ b.slot = RackSlot(r)
                BY <3>1 DEF RacksAgree, NamedAreRows
            <4> QED
                BY <2>4, <4>1
        <3> QED
            BY <3>1 DEF RacksAgree, NamedAreRows
    <2> QED
        BY <2>5, <2>6, <2>7, <2>8 DEF RacksAgree
<1>4. ASSUME c.op \in {"move", "place"}, c.rows \subseteq MountedIds
      PROVE  /\ out \in SUBSET MountedIds /\ c.id \notin out /\ c.slot < OldSlots /\ FitsAt(c.id, c.slot)
             /\ c.rows = InTheWay(c) /\ c.slot \in Nat /\ RackOffset \in Nat /\ OldSlots \in Nat /\ OldSlots < RackOffset
    BY <1>0, <1>4, OutStands, Typed DEF CallFits, Knows, Handler
<1>5. CASE MoveCommits(k) /\ ~UNCHANGED <<mounted, rack, bypassed>>
    <2> DEFINE Shift(row) == IF row.id = c.id THEN [row EXCEPT !.slot = c.slot] ELSE row
               S == {r \in mounted : r.id \notin out}
    <2>1. /\ mounted' = {Shift(row) : row \in S} /\ rack' = WithoutRows(out)
          /\ bypassed' = bypassed \cup InRacks(out \cup {c.id}) /\ c.op = "move" /\ c.rows \subseteq MountedIds
        BY <1>5 DEF MoveCommits, At
    <2>2. /\ out \in SUBSET MountedIds /\ c.slot < OldSlots /\ FitsAt(c.id, c.slot) /\ c.rows = InTheWay(c)
          /\ c.slot \in Nat /\ RackOffset \in Nat /\ OldSlots \in Nat /\ OldSlots < RackOffset
        BY <1>4, <2>1
    <2>3. \A row \in S : IF row.id = c.id THEN Shift(row).id = c.id /\ Shift(row).slot = c.slot ELSE Shift(row) = row
        BY Typed DEF MountedRow
    <2>4. \A row \in S : row \in mounted /\ row.id \notin out
        OBVIOUS
    <2>5. \A row \in mounted : row.id \notin out => row \in S
        OBVIOUS
    <2> HIDE DEF S, Shift, out
    <2>6. \A a \in mounted' : \/ a \in mounted /\ a.id # c.id /\ a.id \notin out
                              \/ a.slot = c.slot /\ Size(a.id) = Size(c.id)
        BY <2>1, <2>3, <2>4
    <2>7. OldSlotsFit'
        BY <1>0, <2>2, <2>6, OldSlotsStillFit DEF out
    <2>8. \A a \in mounted' : a.slot >= RackOffset => a \in mounted /\ a.id \notin out
        BY <2>2, <2>6
    <2>9. \A a \in mounted : a.id \notin out \cup {c.id} => a \in mounted'
        BY <2>1, <2>3, <2>5
    <2> QED
        BY <2>1, <2>2, <2>7, <2>8, <2>9, BypassAgrees
<1>6. CASE PlaceCommits(k) /\ ~UNCHANGED <<mounted, rack, bypassed>>
    <2> DEFINE new == NewId(c.id[1])
               row == [id |-> new, slot |-> c.slot, active |-> TRUE]
    <2>1. /\ mounted' = {r \in mounted : r.id \notin out} \cup {row} /\ rack' = WithoutRows(out)
          /\ bypassed' = bypassed \cup InRacks(out) /\ c.op = "place" /\ c.rows \subseteq MountedIds /\ c.id \in inventory
        BY <1>6 DEF PlaceCommits, At
    <2>2. /\ out \in SUBSET MountedIds /\ c.slot < OldSlots /\ FitsAt(c.id, c.slot) /\ c.rows = InTheWay(c)
          /\ c.slot \in Nat /\ RackOffset \in Nat /\ OldSlots \in Nat /\ OldSlots < RackOffset
        BY <1>4, <2>1
    <2>3. row.slot = c.slot /\ Size(row.id) = Size(c.id)
        BY DEF NewId, Size
    <2>4. \A a \in mounted : a.id # c.id
        BY <2>1, Typed DEF RowInv, Places
    <2> HIDE DEF row, out
    <2>5. \A a \in mounted' : \/ a \in mounted /\ a.id # c.id /\ a.id \notin out
                              \/ a.slot = c.slot /\ Size(a.id) = Size(c.id)
        BY <2>1, <2>3, <2>4
    <2>6. OldSlotsFit'
        BY <1>0, <2>2, <2>5, OldSlotsStillFit DEF out
    <2>7. \A a \in mounted' : a.slot >= RackOffset => a \in mounted /\ a.id \notin out
        BY <2>2, <2>5
    <2>8. \A a \in mounted : a.id \notin out => a \in mounted'
        BY <2>1
    <2> QED
        BY <2>1, <2>2, <2>6, <2>7, <2>8, BypassAgrees
<1> QED
    BY <1>1, <1>2, <1>3, <1>5, <1>6 DEF RemoveCommits

LEMMA RacksStayAgreed ==
    ASSUME RowInv, RowInv', CallsKnow, RacksAgree, [WorkshopNext]_workshopVars
    PROVE  RacksAgree'
<1>1. ASSUME UNCHANGED <<mounted, rack, bypassed>> PROVE RacksAgree'
    BY <1>1 DEF RacksAgree, OldSlotsFit, RowsAreNamed, BlockedIsEmpty, NamedAreRows
<1>2. ASSUME NEW k \in WorkshopCalls, RoomStep(k) \/ OldStep(k) \/ ShopStep(k) PROVE RacksAgree'
    <2>1. CASE UNCHANGED <<mounted, rack, bypassed>>
        BY <1>1, <2>1
    <2>2. CASE /\ ~InstallCommits(k) /\ ~UninstallCommits(k) /\ ~RemoveCommits(k) /\ ~ToggleCommits(k)
               /\ ~MoveCommits(k) /\ ~PlaceCommits(k)
        <3>1. UNCHANGED <<mounted, rack, bypassed>>
            BY <1>2, <2>2 DEF RoomStep, OldStep, ShopStep, InstallReadsRack, InstallReadsItem, InstallReadsAdjacent,
                  UninstallReads, BuyRoomReads, BuyRoomChecks, BuyRoomCommits, RemoveReads, ToggleReads, MoveReads,
                  PlaceReads, ReadsTargets, PurchaseReads, PurchaseCommits, TellsPurchase, ReloadReads, ReloadAssigns,
                  HandlerThrows, OnlyReads, OnlyBegins
        <3> QED
            BY <1>1, <3>1
    <2> QED
        BY <2>2, InstallAgrees, UninstallAgrees, OldHandlersAgree
<1> QED
    BY <1>1, <1>2 DEF WorkshopNext, DiscardItem, SendMiner, WorkshopRestart, workshopVars

LEMMA TogetherStays == [WorkshopNext]_workshopVars /\ together => together'
<1> SUFFICES ASSUME [WorkshopNext]_workshopVars, together PROVE together'
    OBVIOUS
<1>1. ASSUME NEW k \in WorkshopCalls, NEW c, Begin(k, c) PROVE together'
    BY <1>1 DEF Begin
<1>2. ASSUME NEW k \in WorkshopCalls, RoomStep(k) PROVE together'
    <2>1. ASSUME NEW r \in Racks, NEW id \in inventory, InstallReadsRack(k, r, id) PROVE together'
        BY <1>1, <2>1 DEF InstallReadsRack
    <2>2. ASSUME NEW r \in Racks, UninstallReads(k, r) PROVE together'
        BY <1>1, <2>2 DEF UninstallReads
    <2>3. CASE BuyRoomReads(k)
        BY <1>1, <2>3 DEF BuyRoomReads
    <2>4. CASE \/ InstallReadsItem(k) \/ InstallReadsAdjacent(k) \/ InstallCommits(k) \/ UninstallCommits(k)
               \/ BuyRoomChecks(k) \/ BuyRoomCommits(k)
        BY <2>4 DEF InstallReadsItem, InstallReadsAdjacent, InstallCommits, UninstallCommits, BuyRoomChecks, BuyRoomCommits,
                    OnlyReads, RowsMove
    <2> QED
        BY <1>2, <2>1, <2>2, <2>3, <2>4 DEF RoomStep
<1>3. ASSUME NEW k \in WorkshopCalls, OldStep(k) PROVE together'
    <2>1. ASSUME NEW id, RemoveReads(k, id) \/ ToggleReads(k, id) PROVE together'
        BY <1>1, <2>1 DEF RemoveReads, ToggleReads
    <2>2. ASSUME NEW id, NEW slot, MoveReads(k, id, slot) \/ PlaceReads(k, id, slot) PROVE together'
        BY <1>1, <2>2 DEF MoveReads, PlaceReads
    <2>3. CASE RemoveCommits(k) \/ ToggleCommits(k) \/ ReadsTargets(k) \/ MoveCommits(k) \/ PlaceCommits(k)
        BY <2>3 DEF RemoveCommits, ToggleCommits, ReadsTargets, MoveCommits, PlaceCommits, OnlyReads, RowsMove
    <2> QED
        BY <1>3, <2>1, <2>2, <2>3 DEF OldStep
<1>4. ASSUME NEW k \in WorkshopCalls, ShopStep(k) PROVE together'
    <2>1. ASSUME NEW m, PurchaseReads(k, m) PROVE together'
        BY <1>1, <2>1 DEF PurchaseReads
    <2>2. CASE PurchaseCommits(k) \/ TellsPurchase(k) \/ ReloadReads(k) \/ ReloadAssigns(k) \/ HandlerThrows(k)
        BY <2>2 DEF PurchaseCommits, TellsPurchase, ReloadReads, ReloadAssigns, HandlerThrows, OnlyReads
    <2> QED
        BY <1>4, <2>1, <2>2 DEF ShopStep
<1> QED
    BY <1>2, <1>3, <1>4 DEF WorkshopNext, DiscardItem, SendMiner, WorkshopRestart, workshopVars

LEMMA AloneInit == WorkshopInit => AloneInv
<1> SUFFICES ASSUME WorkshopInit PROVE CallsKnow /\ RacksAgree
    BY DEF AloneInv
<1>1. /\ mounted = {} /\ counted = {} /\ rack = [r \in Racks |-> Free] /\ call = [k \in WorkshopCalls |-> IdleHandler]
    BY DEF WorkshopInit
<1>2. CallsKnow
    BY <1>1, IdleTyped DEF CallsKnow, Knows, CountsActive, Active
<1>3. RacksAgree
    BY <1>1 DEF RacksAgree, OldSlotsFit, RowsAreNamed, BlockedIsEmpty, NamedAreRows, Free
<1> QED
    BY <1>2, <1>3

LEMMA AloneNext == RowInv /\ RowInv' /\ AloneInv /\ [WorkshopNext]_workshopVars => AloneInv'
BY KnowledgeStays, RacksStayAgreed, TogetherStays DEF AloneInv

-----------------------------------------------------------------------------
(* Payments.                                                                *)

Cost(k) == IF call[k].op = "room" THEN Price(call[k].slot) ELSE MinerPrice

\* What has been paid for and not told to the engine, in units of the currency.
Untold == {x \in WorkshopCalls \X Nat : call[x[1]].pc = "tell" /\ 1 <= x[2] /\ x[2] <= Cost(x[1])}

PayInv ==
    /\ wallet.column + spent = WorkshopFunds
    /\ IsFiniteSet(Untold) /\ wallet.live = wallet.column + Cardinality(Untold)

LEMMA CostsAreNat == /\ \A k \in WorkshopCalls : Cost(k) \in Nat
                     /\ \A k \in WorkshopCalls : Cost(k)' \in Nat
                     /\ \A slot : Price(slot) \in Nat
BY WorkshopAssumption DEF Cost, Price

LEMMA UnitsOfOne ==
    ASSUME NEW k, NEW n \in Nat
    PROVE  IsFiniteSet({k} \X (1 .. n)) /\ Cardinality({k} \X (1 .. n)) = n
<1>1. IsFiniteSet({k}) /\ Cardinality({k}) = 1
    BY FS_Singleton
<1>2. IsFiniteSet(1 .. n) /\ Cardinality(1 .. n) = n
    <2>1. 1 \in Int /\ IsFiniteSet(1 .. n) /\ Cardinality(1 .. n) = IF 1 > n THEN 0 ELSE n - 1 + 1
        BY FS_Interval
    <2> QED
        BY <2>1
<1> DEFINE one == {k}
           span == 1 .. n
<1> HIDE DEF one, span
<1>3. IsFiniteSet(one \X span) /\ Cardinality(one \X span) = Cardinality(one) * Cardinality(span)
    BY <1>1, <1>2, FS_Product DEF one, span
<1> QED
    BY <1>1, <1>2, <1>3 DEF one, span

LEMMA UnitsAdd ==
    ASSUME NEW S, NEW k, NEW n \in Nat, IsFiniteSet(S), S \cap ({k} \X (1 .. n)) = {}
    PROVE  /\ IsFiniteSet(S \cup ({k} \X (1 .. n)))
           /\ Cardinality(S) \in Nat /\ Cardinality(S \cup ({k} \X (1 .. n))) = Cardinality(S) + n
<1> DEFINE own == {k} \X (1 .. n)
<1>1. IsFiniteSet(own) /\ Cardinality(own) = n
    BY UnitsOfOne
<1>2. S \cap own = {}
    OBVIOUS
<1> HIDE DEF own
<1>3. Cardinality(S) \in Nat /\ Cardinality(S \cap own) = 0
    BY <1>2, FS_CardinalityType, FS_EmptySet
<1>4. IsFiniteSet(S \cup own) /\ Cardinality(S \cup own) = Cardinality(S) + Cardinality(own) - Cardinality(S \cap own)
    BY <1>1, FS_Union
<1>5. Cardinality(S \cup own) = Cardinality(S) + n
    BY <1>1, <1>3, <1>4
<1> QED
    BY <1>3, <1>4, <1>5 DEF own

\* A purchase has committed, and its call is about to tell the engine.
LEMMA PaymentKept ==
    ASSUME RowInv, PayInv, NEW k \in WorkshopCalls, call[k].pc = "commit", Pays(Cost(k)), Goes(k, "tell")
    PROVE  PayInv'
<1>0. /\ wallet \in [column : Int, live : Int] /\ spent \in Nat /\ WorkshopFunds \in Nat /\ Cost(k) \in Nat
      /\ wallet' = [wallet EXCEPT !.column = @ - Cost(k)] /\ spent' = spent + Cost(k)
    BY CostsAreNat, WorkshopAssumption DEF RowInv, WorkshopTypeOK, Pays
<1>1. /\ call'[k].pc = "tell" /\ call'[k].op = call[k].op /\ call'[k].slot = call[k].slot
      /\ \A j \in WorkshopCalls \ {k} : call'[j] = call[j]
    BY Typed DEF Goes, Handler
<1>2. Cost(k)' = Cost(k) /\ \A j \in WorkshopCalls \ {k} : Cost(j)' = Cost(j)
    BY <1>1 DEF Cost
<1>3. Untold' = Untold \cup ({k} \X (1 .. Cost(k)))
    <2>1. ASSUME NEW x \in WorkshopCalls \X Nat PROVE x \in Untold' <=> x \in Untold \/ x \in {k} \X (1 .. Cost(k))
        <3>1. x = <<x[1], x[2]>> /\ x[1] \in WorkshopCalls /\ x[2] \in Nat
            OBVIOUS
        <3>2. CASE x[1] = k
            BY <1>0, <1>1, <1>2, <3>1, <3>2 DEF Untold
        <3>3. CASE x[1] # k
            BY <1>1, <1>2, <3>1, <3>3 DEF Untold
        <3> QED
            BY <3>2, <3>3
    <2>2. {k} \X (1 .. Cost(k)) \subseteq WorkshopCalls \X Nat
        BY <1>0
    <2>3. Untold \subseteq WorkshopCalls \X Nat /\ Untold' \subseteq WorkshopCalls \X Nat
        BY DEF Untold
    <2> QED
        BY <2>1, <2>2, <2>3
<1>4. Untold \cap ({k} \X (1 .. Cost(k))) = {}
    BY DEF Untold
<1>5. /\ IsFiniteSet(Untold') /\ Cardinality(Untold) \in Nat /\ Cardinality(Untold') = Cardinality(Untold) + Cost(k)
    BY <1>0, <1>3, <1>4, UnitsAdd DEF PayInv
<1>6. wallet'.column = wallet.column - Cost(k) /\ wallet'.live = wallet.live /\ wallet.column \in Int /\ wallet.live \in Int
    BY <1>0
<1>7. wallet'.column + spent' = WorkshopFunds
    BY <1>0, <1>6 DEF PayInv
<1>8. wallet'.live = wallet'.column + Cardinality(Untold')
    BY <1>0, <1>5, <1>6 DEF PayInv
<1> QED
    BY <1>5, <1>7, <1>8 DEF PayInv

LEMMA TellingKept ==
    ASSUME RowInv, PayInv, NEW k \in WorkshopCalls, TellsPurchase(k)
    PROVE  PayInv'
<1>0. /\ wallet \in [column : Int, live : Int] /\ spent' = spent /\ Cost(k) \in Nat
      /\ wallet' = [wallet EXCEPT !.live = @ - Cost(k)] /\ call[k].pc = "tell"
    BY CostsAreNat DEF RowInv, WorkshopTypeOK, TellsPurchase, Cost
<1>1. call'[k].pc = "idle" /\ \A j \in WorkshopCalls \ {k} : call'[j] = call[j]
    BY IdleTyped, Typed DEF TellsPurchase, Ends
<1>2. \A j \in WorkshopCalls \ {k} : Cost(j)' = Cost(j)
    BY <1>1 DEF Cost
<1>3. Untold = Untold' \cup ({k} \X (1 .. Cost(k))) /\ Untold' \subseteq Untold
    <2>1. ASSUME NEW x \in WorkshopCalls \X Nat
          PROVE  (x \in Untold <=> x \in Untold' \/ x \in {k} \X (1 .. Cost(k))) /\ (x \in Untold' => x \in Untold)
        <3>1. x = <<x[1], x[2]>> /\ x[1] \in WorkshopCalls /\ x[2] \in Nat
            OBVIOUS
        <3>2. CASE x[1] = k
            BY <1>0, <1>1, <3>1, <3>2 DEF Untold
        <3>3. CASE x[1] # k
            BY <1>1, <1>2, <3>1, <3>3 DEF Untold
        <3> QED
            BY <3>2, <3>3
    <2>2. {k} \X (1 .. Cost(k)) \subseteq WorkshopCalls \X Nat
        BY <1>0
    <2>3. Untold \subseteq WorkshopCalls \X Nat /\ Untold' \subseteq WorkshopCalls \X Nat
        BY DEF Untold
    <2> QED
        BY <2>1, <2>2, <2>3
<1>4. Untold' \cap ({k} \X (1 .. Cost(k))) = {}
    BY <1>1 DEF Untold
<1>5. IsFiniteSet(Untold')
    BY <1>3, FS_Subset DEF PayInv
<1>6. Cardinality(Untold') \in Nat /\ Cardinality(Untold) = Cardinality(Untold') + Cost(k)
    BY <1>0, <1>3, <1>4, <1>5, UnitsAdd
<1>7. wallet'.column = wallet.column /\ wallet'.live = wallet.live - Cost(k) /\ wallet.column \in Int /\ wallet.live \in Int
    BY <1>0
<1>8. wallet'.live = wallet'.column + Cardinality(Untold')
    BY <1>0, <1>6, <1>7 DEF PayInv
<1>9. wallet'.column + spent' = WorkshopFunds
    BY <1>0, <1>7 DEF PayInv
<1> QED
    BY <1>5, <1>8, <1>9 DEF PayInv

\* A step of a call that pays for nothing and tells nothing.
LEMMA NothingPaid ==
    ASSUME RowInv, PayInv, UNCHANGED <<wallet, spent>>,
           \A j \in WorkshopCalls : \/ call'[j] = call[j]
                                    \/ call[j].pc # "tell" /\ call'[j].pc # "tell"
    PROVE  PayInv'
<1>1. Untold' = Untold
    <2>1. ASSUME NEW x \in WorkshopCalls \X Nat PROVE x \in Untold' <=> x \in Untold
        <3>1. x[1] \in WorkshopCalls
            OBVIOUS
        <3>2. CASE call'[x[1]] = call[x[1]]
            BY <3>2 DEF Untold, Cost
        <3>3. CASE call[x[1]].pc # "tell" /\ call'[x[1]].pc # "tell"
            BY <3>3 DEF Untold
        <3> QED
            BY <3>1, <3>2, <3>3
    <2> QED
        BY <2>1 DEF Untold
<1> QED
    BY <1>1 DEF PayInv

LEMMA PayInit == WorkshopInit => PayInv
<1> SUFFICES ASSUME WorkshopInit PROVE PayInv
    OBVIOUS
<1>1. /\ wallet = [column |-> WorkshopFunds, live |-> WorkshopFunds] /\ spent = 0
      /\ call = [k \in WorkshopCalls |-> IdleHandler] /\ WorkshopFunds \in Nat
    BY WorkshopAssumption DEF WorkshopInit
<1>2. Untold = {}
    BY <1>1, IdleTyped DEF Untold
<1>3. IsFiniteSet(Untold) /\ Cardinality(Untold) = 0
    BY <1>2, FS_EmptySet
<1> QED
    BY <1>1, <1>3 DEF PayInv

LEMMA PayNext == RowInv /\ PayInv /\ [WorkshopNext]_workshopVars => PayInv'
<1> SUFFICES ASSUME RowInv, PayInv, [WorkshopNext]_workshopVars PROVE PayInv'
    OBVIOUS
<1>1. ASSUME NEW k \in WorkshopCalls, NEW c, call' = [call EXCEPT ![k] = c], call[k].pc # "tell", c.pc # "tell",
             UNCHANGED <<wallet, spent>>
      PROVE  PayInv'
    <2>1. call'[k] = c /\ \A j \in WorkshopCalls \ {k} : call'[j] = call[j]
        BY <1>1, Typed
    <2> QED
        BY <1>1, <2>1, NothingPaid
<1>2. ASSUME NEW k \in WorkshopCalls, call[k].pc # "tell", Ends(k), UNCHANGED <<wallet, spent>> PROVE PayInv'
    BY <1>1, <1>2, IdleTyped DEF Ends
<1>3. ASSUME NEW k \in WorkshopCalls, call[k].pc # "tell", NEW pc \in HandlerPc, pc # "tell", Goes(k, pc),
             UNCHANGED <<wallet, spent>>
      PROVE  PayInv'
    <2>1. PICK c \in Handler : call' = [call EXCEPT ![k] = c] /\ c.pc = pc
        BY <1>3, CallsAndOthers, GoesOn
    <2> QED
        BY <1>1, <1>3, <2>1
<1>4. ASSUME NEW k \in WorkshopCalls, NEW c, Begin(k, c), OnlyBegins, c.pc # "tell" PROVE PayInv'
    BY <1>1, <1>4 DEF Begin, OnlyBegins
<1>5. {"adjacent", "commit", "reload"} \subseteq HandlerPc \ {"tell"}
    BY DEF HandlerPc
<1>6. ASSUME NEW k \in WorkshopCalls, RoomStep(k) PROVE PayInv'
    <2>1. ASSUME NEW r \in Racks, NEW id \in inventory, InstallReadsRack(k, r, id) PROVE PayInv'
        <3> DEFINE c == [op |-> "install", pc |-> "item", id |-> id, rack |-> r, slot |-> RackSlot(r), rows |-> {}]
        <3>1. Begin(k, c) /\ OnlyBegins /\ c.pc # "tell"
            BY <2>1 DEF InstallReadsRack
        <3> QED
            BY <1>4, <3>1
    <2>2. ASSUME NEW r \in Racks, UninstallReads(k, r) PROVE PayInv'
        <3> DEFINE c == [op |-> "uninstall", pc |-> "commit", id |-> rack[r].miner, rack |-> r, slot |-> 0, rows |-> {}]
        <3>1. Begin(k, c) /\ OnlyBegins /\ c.pc # "tell"
            BY <2>2 DEF UninstallReads
        <3> QED
            BY <1>4, <3>1
    <2>3. CASE BuyRoomReads(k)
        <3> DEFINE c == [op |-> "room", pc |-> "funds", id |-> NoId, rack |-> <<1, 0>>, slot |-> rooms + 1, rows |-> {}]
        <3>1. Begin(k, c) /\ OnlyBegins /\ c.pc # "tell"
            BY <2>3 DEF BuyRoomReads
        <3> QED
            BY <1>4, <3>1
    <2>4. CASE InstallReadsItem(k) \/ InstallReadsAdjacent(k) \/ InstallCommits(k) \/ UninstallCommits(k) \/ BuyRoomChecks(k)
        <3>1. /\ call[k].pc # "tell" /\ UNCHANGED <<wallet, spent>>
              /\ Ends(k) \/ \E pc \in {"adjacent", "commit", "reload"} : Goes(k, pc)
            BY <2>4 DEF InstallReadsItem, InstallReadsAdjacent, InstallCommits, UninstallCommits, BuyRoomChecks, At,
                        OnlyReads, OnlyBegins, RowsMove
        <3> QED
            BY <1>2, <1>3, <1>5, <3>1
    <2>5. CASE BuyRoomCommits(k)
        <3>1. call[k].op = "room" /\ call[k].pc = "commit"
            BY <2>5 DEF BuyRoomCommits, At
        <3>2. CASE Pays(Price(call[k].slot)) /\ Goes(k, "tell")
            BY <3>1, <3>2, PaymentKept DEF Cost
        <3>3. CASE Ends(k) /\ UNCHANGED <<rooms, wallet, spent>>
            BY <1>2, <3>1, <3>3
        <3> QED
            BY <2>5, <3>2, <3>3 DEF BuyRoomCommits
    <2> QED
        BY <1>6, <2>1, <2>2, <2>3, <2>4, <2>5 DEF RoomStep
<1>7. ASSUME NEW k \in WorkshopCalls, OldStep(k) PROVE PayInv'
    <2>1. ASSUME NEW id, NEW op, NEW pc \in {"commit", "targets"}, NEW slot, OnlyBegins,
                 Begin(k, [op |-> op, pc |-> pc, id |-> id, rack |-> <<1, 0>>, slot |-> slot, rows |-> {}])
          PROVE  PayInv'
        <3> DEFINE c == [op |-> op, pc |-> pc, id |-> id, rack |-> <<1, 0>>, slot |-> slot, rows |-> {}]
        <3>1. Begin(k, c) /\ OnlyBegins /\ c.pc # "tell"
            BY <2>1
        <3> QED
            BY <1>4, <3>1
    <2>2. ASSUME NEW id, RemoveReads(k, id) \/ ToggleReads(k, id) PROVE PayInv'
        BY <2>1, <2>2 DEF RemoveReads, ToggleReads
    <2>3. ASSUME NEW id, NEW slot, MoveReads(k, id, slot) \/ PlaceReads(k, id, slot) PROVE PayInv'
        BY <2>1, <2>3 DEF MoveReads, PlaceReads
    <2>4. CASE ReadsTargets(k)
        <3>1. call[k] \in Handler /\ UNCHANGED <<wallet, spent>> /\ call[k].pc = "targets"
            BY <2>4, Typed DEF ReadsTargets, OnlyReads, OnlyBegins
        <3> DEFINE c == [call[k] EXCEPT !.pc = "commit", !.rows = InTheWay(call[k])]
        <3>2. call' = [call EXCEPT ![k] = c]
            BY <2>4 DEF ReadsTargets, InTheWay
        <3>3. c.pc = "commit"
            BY <3>1 DEF Handler
        <3> HIDE DEF c
        <3> QED
            BY <1>1, <3>1, <3>2, <3>3
    <2>5. CASE RemoveCommits(k) \/ ToggleCommits(k) \/ MoveCommits(k) \/ PlaceCommits(k)
        <3>1. call[k].pc # "tell" /\ UNCHANGED <<wallet, spent>> /\ (Ends(k) \/ Goes(k, "reload"))
            BY <2>5 DEF RemoveCommits, ToggleCommits, MoveCommits, PlaceCommits, At, RowsMove
        <3> QED
            BY <1>2, <1>3, <1>5, <3>1
    <2> QED
        BY <1>7, <2>2, <2>3, <2>4, <2>5 DEF OldStep
<1>8. ASSUME NEW k \in WorkshopCalls, ShopStep(k) PROVE PayInv'
    <2>1. ASSUME NEW m \in Machines, PurchaseReads(k, m) PROVE PayInv'
        <3> DEFINE c == [op |-> "buy", pc |-> "commit", id |-> <<m, 1>>, rack |-> <<1, 0>>, slot |-> 0, rows |-> {}]
        <3>1. Begin(k, c) /\ OnlyBegins /\ c.pc # "tell"
            BY <2>1 DEF PurchaseReads
        <3> QED
            BY <1>4, <3>1
    <2>2. CASE PurchaseCommits(k)
        BY <2>2, PaymentKept DEF PurchaseCommits, At, Cost
    <2>3. CASE ReloadReads(k)
        <3>1. call[k] \in Handler /\ UNCHANGED <<wallet, spent>> /\ call[k].pc = "reload"
            BY <2>3, Typed DEF ReloadReads, OnlyReads, OnlyBegins
        <3> DEFINE c == [call[k] EXCEPT !.pc = "assign", !.rows = Active]
        <3>2. call' = [call EXCEPT ![k] = c]
            BY <2>3 DEF ReloadReads
        <3>3. c.pc = "assign"
            BY <3>1 DEF Handler
        <3> HIDE DEF c
        <3> QED
            BY <1>1, <3>1, <3>2, <3>3
    <2>4. CASE ReloadAssigns(k)
        BY <1>2, <2>4 DEF ReloadAssigns
    <2>5. CASE HandlerThrows(k)
        BY <1>2, <2>5 DEF HandlerThrows
    <2> QED
        BY <1>8, <2>1, <2>2, <2>3, <2>4, <2>5, TellingKept DEF ShopStep
<1>9. CASE WorkshopRestart
    <2>1. /\ call' = [k \in WorkshopCalls |-> IdleHandler] /\ wallet' = [wallet EXCEPT !.live = wallet.column]
          /\ spent' = spent /\ wallet \in [column : Int, live : Int]
        BY <1>9 DEF WorkshopRestart, RowInv, WorkshopTypeOK
    <2>2. Untold' = {}
        BY <2>1, IdleTyped DEF Untold
    <2>3. IsFiniteSet(Untold') /\ Cardinality(Untold') = 0
        BY <2>2, FS_EmptySet
    <2>4. wallet'.column = wallet.column /\ wallet'.live = wallet.column /\ wallet.column \in Int
        BY <2>1
    <2> QED
        BY <2>1, <2>3, <2>4 DEF PayInv
<1>10. ASSUME UNCHANGED <<call, wallet, spent>> PROVE PayInv'
    BY <1>10, NothingPaid
<1> QED
    BY <1>6, <1>7, <1>8, <1>9, <1>10 DEF WorkshopNext, DiscardItem, SendMiner, workshopVars

-----------------------------------------------------------------------------
(* Where the machines are.                                                  *)

Stored(m) == \E id \in inventory : id[1] = m
Standing(m) == \E id \in MountedIds : id[1] = m

LEMMA PlaceIs ==
    /\ Place = [m \in Machines |->
                   IF Stored(m) /\ Standing(m) THEN "both" ELSE IF Stored(m) THEN "inventory"
                   ELSE IF Standing(m) THEN "mounted" ELSE IF generation[m] = 0 THEN "nowhere" ELSE "deleted"]
    /\ Place' = [m \in Machines |->
                   IF Stored(m)' /\ Standing(m)' THEN "both" ELSE IF Stored(m)' THEN "inventory"
                   ELSE IF Standing(m)' THEN "mounted" ELSE IF generation'[m] = 0 THEN "nowhere" ELSE "deleted"]
BY DEF Place, Stored, Standing

LEMMA NeverBoth == RowInv => \A m \in Machines : ~(Stored(m) /\ Standing(m))
<1> SUFFICES ASSUME RowInv, NEW id \in inventory, NEW other \in MountedIds, id[1] = other[1] PROVE FALSE
    BY DEF Stored, Standing
<1>1. id \in All /\ other \in All /\ id # other
    BY DEF RowInv, Places, All
<1> QED
    BY <1>1, MachinesDiffer DEF RowInv

LEMMA PlacesMoved ==
    ASSUME RowInv, RowInv', NEW gone, NEW back, Moved(gone, back), NEW m \in Machines
    PROVE  Place'[m] = IF \E id \in back : id[1] = m THEN "inventory"
                       ELSE IF \E id \in gone : id[1] = m THEN "mounted" ELSE Place[m]
<1>0. /\ gone \in SUBSET All /\ back \in SUBSET gone /\ generation' = Renewed(gone)
      /\ inventory' = (inventory \ gone) \cup NewIds(back)
      /\ MountedIds' = (MountedIds \ gone) \cup (NewIds(gone) \ NewIds(back))
      /\ WorkshopTypeOK /\ Places
    BY DEF Moved, RowInv
<1>1. ASSUME NEW ids PROVE (\E id \in NewIds(ids) : id[1] = m) <=> \E id \in ids : id[1] = m
    <2>1. \A x : NewId(x)[1] = x
        BY DEF NewId
    <2>2. (\E id \in NewIds(ids) : id[1] = m) <=> \E id \in ids : NewId(id[1])[1] = m
        BY DEF NewIds
    <2> QED
        BY <2>1, <2>2
<1>2. ASSUME NEW id \in All, id[1] = m, NEW other \in gone, other[1] = m PROVE id = other
    BY <1>0, <1>2, MachinesDiffer
<1>3. ~(Stored(m)' /\ Standing(m)')
    <2> SUFFICES ASSUME Stored(m)', Standing(m)' PROVE FALSE
        OBVIOUS
    <2>1. PICK id \in inventory', other \in MountedIds' : id[1] = m /\ other[1] = m
        BY DEF Stored, Standing
    <2>2. id \in All' /\ other \in All' /\ id # other
        BY <2>1 DEF RowInv, Places, All
    <2>3. id \in RowIds /\ other \in RowIds /\ id[2] = generation'[m] /\ other[2] = generation'[m]
        BY <2>1, <2>2 DEF RowInv, Places, All, WorkshopTypeOK, MountedIds
    <2> QED
        BY <2>1, <2>2, <2>3 DEF RowIds
<1>4. CASE \E id \in back : id[1] = m
    <2>1. Stored(m)'
        BY <1>0, <1>1, <1>4 DEF Stored
    <2> QED
        BY <1>3, <1>4, <2>1, PlaceIs
<1>5. CASE (\E id \in gone : id[1] = m) /\ ~\E id \in back : id[1] = m
    <2>1. PICK id \in NewIds(gone) : id[1] = m
        BY <1>1, <1>5
    <2>2. id \notin NewIds(back)
        BY <1>1, <1>5, <2>1
    <2>3. Standing(m)'
        BY <1>0, <2>1, <2>2 DEF Standing
    <2> QED
        BY <1>3, <1>5, <2>3, PlaceIs
<1>6. CASE ~\E id \in gone : id[1] = m
    <2>1. Stored(m)' = Stored(m) /\ Standing(m)' = Standing(m)
        <3>1. ~\E id \in NewIds(gone) : id[1] = m
            BY <1>1, <1>6
        <3>2. ~\E id \in NewIds(back) : id[1] = m
            BY <1>0, <1>1, <1>6
        <3> QED
            BY <1>0, <1>6, <3>1, <3>2 DEF Stored, Standing
    <2>2. generation'[m] = generation[m]
        BY <1>0, <1>6 DEF Renewed
    <2>3. ~\E id \in back : id[1] = m
        BY <1>0, <1>6
    <2>4. Place'[m] = Place[m]
        BY <2>1, <2>2, PlaceIs
    <2> QED
        BY <1>6, <2>3, <2>4
<1> QED
    BY <1>4, <1>5, <1>6

\* What a transaction does to the rows is a step of the promise.
LEMMA MovesArePromised ==
    ASSUME RowInv, RowInv', NEW k \in WorkshopCalls,
           \/ StandStill
           \/ \E id \in inventory : Moved({id}, {})
           \/ \E id \in MountedIds : Moved({id}, {id})
           \/ \E id \in MountedIds : \E out \in SUBSET (MountedIds \ {id}) : Moved(out, out)
           \/ \E id \in inventory : \E out \in SUBSET MountedIds : Moved(out \cup {id}, out)
    PROVE  [B!BelongingsNext]_Place
<1>0. Place \in [Machines -> {"nowhere", "inventory", "mounted", "deleted", "both"}] /\ DOMAIN Place' = Machines
    BY PlaceIs
<1>1. \A id \in All : id[1] \in Machines /\ Place[id[1]] = IF id \in inventory THEN "inventory" ELSE "mounted"
    <2> SUFFICES ASSUME NEW id \in All
                 PROVE  id[1] \in Machines /\ Place[id[1]] = IF id \in inventory THEN "inventory" ELSE "mounted"
        OBVIOUS
    <2>1. id[1] \in Machines
        BY IdsAreRows DEF RowInv
    <2>2. IF id \in inventory THEN Stored(id[1]) ELSE Standing(id[1])
        BY DEF Stored, Standing, All
    <2>3. ~(Stored(id[1]) /\ Standing(id[1]))
        BY <2>1, NeverBoth
    <2> QED
        BY <2>1, <2>2, <2>3, PlaceIs
<1>2. CASE StandStill
    <2>1. Place' = Place
        BY <1>2, PlaceIs DEF StandStill, Stored, Standing
    <2> QED
        BY <2>1
<1>3. ASSUME NEW id \in All, NEW out \in SUBSET (MountedIds \ {id}), NEW gone, Moved(gone, out),
             \/ gone = out /\ id \in MountedIds
             \/ gone = out \cup {id}
      PROVE  B!BelongingsNext
    <2> DEFINE m == id[1]
               moved == {other[1] : other \in out}
    <2>1. m \in Machines /\ Place[m] \in {"inventory", "mounted"} /\ moved \in SUBSET Machines
        BY <1>1 DEF All
    <2>2. moved \subseteq B!InPlace("mounted") \ {m}
        <3> SUFFICES ASSUME NEW other \in out PROVE other[1] # m /\ other[1] \in Machines /\ Place[other[1]] = "mounted"
            BY DEF B!InPlace
        <3>1. other \in All /\ other \notin inventory /\ other # id
            BY DEF RowInv, Places, All
        <3> QED
            BY <1>1, <3>1, MachinesDiffer DEF RowInv
    <2>3. \A n \in Machines : Place'[n] = IF n = m THEN "mounted" ELSE IF n \in moved THEN "inventory" ELSE Place[n]
        <3> SUFFICES ASSUME NEW n \in Machines
                     PROVE  Place'[n] = IF n = m THEN "mounted" ELSE IF n \in moved THEN "inventory" ELSE Place[n]
            OBVIOUS
        <3>1. Place'[n] = IF \E x \in out : x[1] = n THEN "inventory"
                          ELSE IF \E x \in gone : x[1] = n THEN "mounted" ELSE Place[n]
            BY <1>3, PlacesMoved
        <3>2. (\E x \in out : x[1] = n) <=> n \in moved
            OBVIOUS
        <3>3. m \notin moved
            BY <2>2
        <3>4. CASE n = m
            <4>1. gone = out => Place[m] = "mounted"
                <5> SUFFICES ASSUME gone = out PROVE id \in MountedIds
                    BY <1>1 DEF RowInv, Places
                <5>1. id \notin out
                    OBVIOUS
                <5> QED
                    BY <1>3, <5>1
            <4>2. gone = out \cup {id} => \E x \in gone : x[1] = n
                BY <3>4
            <4>3. gone = out => ~\E x \in gone : x[1] = n
                BY <3>2, <3>3, <3>4
            <4> QED
                BY <1>3, <3>1, <3>2, <3>3, <3>4, <4>1, <4>2, <4>3
        <3>5. CASE n # m
            <4>1. (\E x \in gone : x[1] = n) <=> \E x \in out : x[1] = n
                BY <1>3, <3>5
            <4> QED
                BY <3>1, <3>2, <3>5, <4>1
        <3> QED
            BY <3>4, <3>5
    <2>4. Place' = [n \in Machines |-> IF n = m THEN "mounted" ELSE IF n \in moved THEN "inventory" ELSE Place[n]]
        BY <1>0, <2>3, PlaceIs
    <2> HIDE DEF m, moved
    <2>5. B!Mount(m, moved)
        BY <2>1, <2>2, <2>4 DEF B!Mount
    <2> QED
        BY <2>1, <2>5 DEF B!BelongingsNext
<1>4. ASSUME NEW id \in MountedIds, Moved({id}, {id}) PROVE B!BelongingsNext
    <2> DEFINE m == id[1]
    <2>1. m \in Machines /\ Place[m] = "mounted"
        BY <1>1 DEF All, RowInv, Places
    <2>2. \A n \in Machines : Place'[n] = IF n = m THEN "inventory" ELSE Place[n]
        BY <1>4, PlacesMoved
    <2>3. Place' = [Place EXCEPT ![m] = "inventory"]
        BY <1>0, <2>1, <2>2, PlaceIs
    <2>4. B!Dismount(m)
        BY <2>1, <2>3 DEF B!Dismount
    <2> QED
        BY <2>1, <2>4 DEF B!BelongingsNext
<1>5. ASSUME NEW id \in inventory, NEW out \in SUBSET MountedIds, Moved(out \cup {id}, out) PROVE B!BelongingsNext
    <2>1. id \in All /\ out \in SUBSET (MountedIds \ {id})
        BY DEF All, RowInv, Places
    <2> QED
        BY <1>3, <1>5, <2>1
<1>6. ASSUME NEW id \in inventory, Moved({id}, {}) PROVE B!BelongingsNext
    <2>1. {id} = {} \cup {id} /\ {} \in SUBSET MountedIds
        OBVIOUS
    <2> QED
        BY <1>5, <1>6, <2>1
<1>7. ASSUME NEW id \in MountedIds, NEW out \in SUBSET (MountedIds \ {id}), Moved(out, out) PROVE B!BelongingsNext
    BY <1>3, <1>7 DEF All
<1> QED
    BY <1>2, <1>4, <1>5, <1>6, <1>7

LEMMA AcquiringIsPromised ==
    ASSUME RowInv, NEW m \in Machines, generation[m] = 0, inventory' = inventory \cup {<<m, 1>>},
           generation' = [generation EXCEPT ![m] = 1], UNCHANGED mounted
    PROVE  B!BelongingsNext
<1>1. ~Stored(m) /\ ~Standing(m)
    <2>1. \A id \in All : id[2] = generation[id[1]] /\ id[2] # 0
        BY IdsAreRows DEF RowInv, Places
    <2> QED
        BY <2>1 DEF Stored, Standing, All
<1>2. Place[m] = "nowhere"
    BY <1>1, PlaceIs
<1>3. /\ Stored(m)' /\ ~Standing(m)'
      /\ \A n \in Machines \ {m} : Stored(n)' = Stored(n) /\ Standing(n)' = Standing(n) /\ generation'[n] = generation[n]
    <2>1. <<m, 1>>[1] = m /\ <<m, 1>> \in inventory' /\ MountedIds' = MountedIds
        BY DEF MountedIds
    <2>2. \A n : Standing(n)' = Standing(n)
        BY <2>1 DEF Standing
    <2>3. \A n \in Machines \ {m} : generation'[n] = generation[n]
        BY DEF RowInv, WorkshopTypeOK
    <2>4. ASSUME NEW n \in Machines \ {m} PROVE Stored(n)' = Stored(n)
        BY <2>1 DEF Stored
    <2> QED
        BY <1>1, <2>1, <2>2, <2>3, <2>4 DEF Stored
<1>4. Place' = [Place EXCEPT ![m] = "inventory"]
    BY <1>3, PlaceIs
<1> QED
    BY <1>2, <1>4 DEF B!BelongingsNext, B!Acquire

LEMMA DiscardIsPromised ==
    ASSUME RowInv, NEW id \in inventory, DiscardItem(id)
    PROVE  B!BelongingsNext
<1> DEFINE m == id[1]
<1>1. /\ inventory' = inventory \ {id} /\ UNCHANGED <<mounted, generation>> /\ id \in All
      /\ m \in Machines /\ generation[m] # 0
    BY IdsAreRows DEF DiscardItem, RowInv, Places, All
<1>2. \A other \in All : other[1] = m => other = id
    BY <1>1, MachinesDiffer DEF RowInv
<1>3. Stored(m) /\ ~Standing(m)
    BY <1>1, NeverBoth DEF Stored
<1>4. /\ ~Stored(m)' /\ ~Standing(m)'
      /\ \A n \in Machines \ {m} : Stored(n)' = Stored(n) /\ Standing(n)' = Standing(n)
    BY <1>1, <1>2, <1>3 DEF Stored, Standing, MountedIds, All
<1>5. Place[m] = "inventory" /\ Place' = [Place EXCEPT ![m] = "deleted"]
    BY <1>1, <1>3, <1>4, PlaceIs
<1> QED
    BY <1>1, <1>5 DEF B!BelongingsNext, B!Delete

LEMMA PlacesInit == WorkshopInit => B!BelongingsInit
<1> SUFFICES ASSUME WorkshopInit PROVE B!BelongingsInit
    OBVIOUS
<1>1. /\ inventory = {<<m, 1>> : m \in Owned} /\ MountedIds = {}
      /\ generation = [m \in Machines |-> IF m \in Owned THEN 1 ELSE 0]
    BY DEF WorkshopInit, MountedIds
<1>2. ASSUME NEW m \in Machines PROVE ~Standing(m) /\ (Stored(m) <=> m \in Owned)
    <2>1. \A x \in Owned : <<x, 1>> \in inventory /\ <<x, 1>>[1] = x
        BY <1>1
    <2>2. \A id \in inventory : id[1] \in Owned
        BY <1>1
    <2> QED
        BY <1>1, <2>1, <2>2 DEF Stored, Standing
<1> QED
    BY <1>1, <1>2, PlaceIs DEF B!BelongingsInit

LEMMA StepsArePromised ==
    ASSUME RowInv, RowInv', [WorkshopNext]_workshopVars
    PROVE  [B!BelongingsNext]_Place
<1>1. ASSUME UNCHANGED <<inventory, mounted, generation>> PROVE Place' = Place
    BY <1>1, PlaceIs DEF Stored, Standing, MountedIds
<1>2. ASSUME NEW k \in WorkshopCalls, RoomStep(k) \/ OldStep(k) \/ ShopStep(k) PROVE [B!BelongingsNext]_Place
    <2>1. CASE InstallCommits(k)
        BY <2>1, InstallKeeps, MovesArePromised
    <2>2. CASE UninstallCommits(k) \/ RemoveCommits(k)
        BY <2>2, UninstallKeeps, MovesArePromised
    <2>3. CASE ToggleCommits(k)
        BY <2>3, ToggleKeeps, MovesArePromised
    <2>4. CASE MoveCommits(k)
        BY <2>4, MoveKeeps, MovesArePromised
    <2>5. CASE PlaceCommits(k)
        BY <2>5, PlaceKeeps, MovesArePromised
    <2>6. CASE PurchaseCommits(k)
        <3>1. CallFits(k) /\ call[k].op = "buy" /\ call[k].pc = "commit"
            BY <2>6 DEF RowInv, PurchaseCommits, At
        <3>2. call[k].id \in RowIds /\ call[k].id[2] = 1 /\ generation[call[k].id[1]] = 0
            BY <3>1 DEF CallFits
        <3>3. call[k].id[1] \in Machines /\ call[k].id = <<call[k].id[1], 1>>
            BY <3>2 DEF RowIds
        <3> QED
            BY <2>6, <3>2, <3>3, AcquiringIsPromised DEF PurchaseCommits
    <2>7. ASSUME NEW r \in Racks, NEW id \in inventory, InstallReadsRack(k, r, id) PROVE Place' = Place
        BY <1>1, <2>7 DEF InstallReadsRack, OnlyBegins
    <2>8. ASSUME \/ InstallReadsItem(k) \/ InstallReadsAdjacent(k) \/ BuyRoomChecks(k) \/ ReadsTargets(k) \/ ReloadReads(k)
                 \/ \E r \in Racks : UninstallReads(k, r)
                 \/ BuyRoomReads(k)
                 \/ \E id \in MountedIds : RemoveReads(k, id) \/ ToggleReads(k, id)
                 \/ \E id \in MountedIds, slot \in 0 .. OldSlots - 1 : MoveReads(k, id, slot)
                 \/ \E id \in inventory, slot \in 0 .. OldSlots - 1 : PlaceReads(k, id, slot)
                 \/ \E m \in Machines : PurchaseReads(k, m)
          PROVE  Place' = Place
        BY <1>1, <2>8 DEF InstallReadsItem, InstallReadsAdjacent, BuyRoomChecks, ReadsTargets, ReloadReads, UninstallReads,
              BuyRoomReads, RemoveReads, ToggleReads, MoveReads, PlaceReads, PurchaseReads, OnlyReads, OnlyBegins
    <2>9. ASSUME BuyRoomCommits(k) \/ TellsPurchase(k) \/ ReloadAssigns(k) \/ HandlerThrows(k) PROVE Place' = Place
        BY <1>1, <2>9 DEF BuyRoomCommits, TellsPurchase, ReloadAssigns, HandlerThrows
    <2> QED
        BY <1>2, <2>1, <2>2, <2>3, <2>4, <2>5, <2>6, <2>7, <2>8, <2>9 DEF RoomStep, OldStep, ShopStep
<1>3. ASSUME NEW m \in Machines, SendMiner(m) PROVE B!BelongingsNext
    BY <1>3, AcquiringIsPromised DEF SendMiner
<1>4. CASE WorkshopRestart
    BY <1>1, <1>4 DEF WorkshopRestart
<1>5. CASE UNCHANGED workshopVars
    BY <1>1, <1>5 DEF workshopVars
<1> QED
    BY <1>2, <1>3, <1>4, <1>5, DiscardIsPromised DEF WorkshopNext

(* The handlers of the workshop keep the promise of Belongings: whatever    *)
(* interleaves, fails or is cut short, a machine is in one place, a step    *)
(* mounts at most one and sends to the inventory what it takes out of the   *)
(* way, and only its owner's deletion takes one away, from the inventory.   *)
THEOREM BelongingsKept == WorkshopSpec => KeepsBelongings
<1>1. WorkshopSpec => []RowInv
    BY RowInit, RowNext, PTL DEF WorkshopSpec
<1>2. RowInv /\ RowInv' /\ [WorkshopNext]_workshopVars => [B!BelongingsNext]_Place
    BY StepsArePromised
<1> QED
    BY <1>1, <1>2, PlacesInit, PTL DEF WorkshopSpec, KeepsBelongings, B!BelongingsSpec

-----------------------------------------------------------------------------
LEMMA NewestRow ==
    ASSUME RowInv, NEW m \in Machines
    PROVE  PlacesOf(m) = IF generation[m] = 0 \/ m \in discarded THEN {} ELSE {<<m, generation[m]>>}
<1>1. \A id \in All : id = <<id[1], generation[id[1]]>> /\ generation[id[1]] # 0 /\ id[1] \notin discarded
    BY IdsAreRows DEF RowInv, Places
<1>2. PlacesOf(m) = {id \in All : id[1] = m}
    BY DEF PlacesOf, All
<1>3. generation[m] = 0 \/ m \in discarded \/ <<m, generation[m]>> \in All
    BY DEF RowInv, Places
<1>4. <<m, generation[m]>>[1] = m
    OBVIOUS
<1> QED
    BY <1>1, <1>2, <1>3, <1>4

LEMMA AsManyRowsAsIds == RowInv => Cardinality(mounted) = Cardinality(MountedIds)
<1> SUFFICES ASSUME RowInv PROVE Cardinality(mounted) = Cardinality(MountedIds)
    OBVIOUS
<1> DEFINE f == [row \in mounted |-> row.id]
<1>1. f \in [mounted -> MountedIds]
    BY DEF MountedIds
<1>2. \A a, b \in mounted : f[a] = f[b] => a = b
    BY Typed DEF RowsDiffer
<1>3. \A id \in MountedIds : \E row \in mounted : f[row] = id
    BY DEF MountedIds
<1> HIDE DEF f
<1>4. f \in Bijection(mounted, MountedIds)
    BY <1>1, <1>2, <1>3 DEF Bijection, Injection, Surjection, IsInjective
<1>5. ExistsBijection(mounted, MountedIds)
    BY <1>4 DEF ExistsBijection
<1> QED
    BY <1>5, FS_Bijection DEF RowInv

LEMMA RacksMatch == RowInv /\ AloneInv => RacksMatchMachines
<1> SUFFICES ASSUME RowInv, CallsKnow, RacksAgree, bypassed = {} PROVE RacksMatchMachines
    BY DEF AloneInv, RacksMatchMachines
<1>1. ASSUME NEW a \in mounted PROVE SlotOf(a.id) = a.slot /\ a.id \in MountedIds
    <2> DEFINE b == CHOOSE row \in mounted : row.id = a.id
    <2>1. b \in mounted /\ b.id = a.id
        OBVIOUS
    <2>2. b = a
        BY <2>1, Typed DEF RowsDiffer
    <2> QED
        BY <2>2 DEF SlotOf, MountedIds
<1>2. ASSUME NEW r \in Racks, rack[r].miner # NoId
      PROVE  rack[r].miner \in MountedIds /\ SlotOf(rack[r].miner) = RackSlot(r)
    <2>1. PICK a \in mounted : a.id = rack[r].miner /\ a.slot = RackSlot(r)
        BY <1>2 DEF RacksAgree, NamedAreRows
    <2> QED
        BY <1>1, <2>1
<1>3. ASSUME NEW n \in Racks, rack[n].blockedBy # NoId
      PROVE  /\ rack[n].miner = NoId /\ <<n[1], n[2] - 1>> \in Racks
             /\ rack[<<n[1], n[2] - 1>>].miner = rack[n].blockedBy /\ Size(rack[n].blockedBy) = 2
    <2>1. PICK r \in Racks : Next2(r) = n /\ rack[r].miner = rack[n].blockedBy /\ Size(rack[n].blockedBy) = 2
        BY <1>3 DEF RacksAgree, NamedAreRows
    <2>2. r = <<r[1], r[2]>> /\ r[2] \in Int /\ n[1] = r[1] /\ n[2] = r[2] + 1
        BY <2>1 DEF Next2, Racks
    <2>3. n[2] - 1 = r[2]
        BY <2>2
    <2>4. <<n[1], n[2] - 1>> = r
        BY <2>2, <2>3
    <2> QED
        BY <1>3, <2>1, <2>4 DEF RacksAgree, BlockedIsEmpty
<1>4. ASSUME NEW row \in mounted, row.slot >= RackOffset
      PROVE  \E r \in Racks : /\ rack[r].miner = row.id
                              /\ Size(row.id) = 2 => rack[Next2(r)].blockedBy = row.id
    BY <1>4 DEF RacksAgree, RowsAreNamed
<1> QED
    BY <1>2, <1>3, <1>4 DEF RacksMatchMachines

(* For any machines, rooms, racks, prices, calls and restarts: however the  *)
(* workshop's handlers interleave, fail or are lost, a machine that was     *)
(* acquired and not deleted has exactly one row, no two rows have one slot, *)
(* and the column pays exactly for what was bought, the engine having heard *)
(* of it but for what is about to be told; while calls do not overlap, no   *)
(* two machines reach one slot, racks name what stands on them, and the     *)
(* engine counts the active machines.                                       *)
THEOREM WorkshopHolds == WorkshopSpec => []WorkshopSafe
<1>1. ASSUME RowInv, AloneInv, PayInv PROVE WorkshopSafe
    <2>1. EachMachineInOnePlace
        BY <1>1, NewestRow, AsManyRowsAsIds DEF EachMachineInOnePlace, RowInv, Places
    <2>2. SlotsDoNotOverlap
        BY <1>1, RowsApart, Typed DEF SlotsDoNotOverlap, AloneInv, RowsDiffer
    <2>3. PaidForWhatWasBought
        <3>1. ASSUME \A k \in WorkshopCalls : call[k].pc # "tell" PROVE wallet.live = wallet.column
            <4>1. Untold = {}
                BY <3>1 DEF Untold
            <4>2. Cardinality(Untold) = 0
                BY <4>1, FS_EmptySet
            <4> QED
                BY <1>1, <4>2 DEF PayInv, RowInv, WorkshopTypeOK
        <3> QED
            BY <1>1, <3>1 DEF PayInv, PaidForWhatWasBought
    <2>4. EngineCountsMounted
        BY <1>1 DEF EngineCountsMounted, AloneInv, CallsKnow, CountsActive
    <2> QED
        BY <1>1, <2>1, <2>2, <2>3, <2>4, RacksMatch DEF WorkshopSafe, RowInv
<1> QED
    BY <1>1, RowInit, RowNext, AloneInit, AloneNext, PayInit, PayNext, PTL DEF WorkshopSpec
-----------------------------------------------------------------------------
(* The composition: one part in each behaviour.                              *)

holdingVars == <<vars, ticketVars, checkVars, workshopVars, cronVars, listVars, focus>>

LEMMA PartsByThemselves == MCSpec => Spec /\ TicketSpec /\ CheckSpec
<1>1. MCInit => Init /\ TicketInit /\ CheckInit
    BY DEF MCInit
<1>2. [MCNext]_holdingVars => [Next]_vars /\ [TicketNext]_ticketVars /\ [CheckNext]_checkVars
    BY DEF MCNext, holdingVars
<1>3. MCSpec => MCInit /\ [][MCNext]_holdingVars
    BY DEF MCSpec, holdingVars
<1> QED
    BY <1>1, <1>2, <1>3, PTL DEF Spec, TicketSpec, CheckSpec

(* What was decided stays decided, in every behaviour of what users own: as  *)
(* long as verifier runs do not overlap a resolved deposit stays as it is,   *)
(* and always a resolved ticket, a confirmed day and the streak it made.     *)
THEOREM OutcomesStay == MCSpec /\ []OneRun => OutcomesAreFinal
<1> QED
    BY PartsByThemselves, DepositsStayResolved, TicketsStayResolved, ConfirmedDaysStay, StreaksStay, PTL DEF OutcomesAreFinal
=============================================================================
