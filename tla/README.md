# Block Miner: a verification project

Block Miner is a browser mining game with real balances: users hold POL, deposit
it from the Polygon chain, spend it on machines, rooms, advertisements and event
offers, earn more of it from a mining engine that pays a block every ten
minutes, and withdraw it. The server is Node with Prisma over PostgreSQL, at
READ COMMITTED, with no balance check in the schema; administrators use a React
panel. This directory models the parts where something happens in several steps
that others can come between, checks the models with TLC and proves some of the
results, for every value of the constants, with TLAPS. Unless they begin with
`client/`, paths below are relative to `src/server/`.

## Inventory

| Component | State | Operations | What is hard | What makes it correct |
|---|---|---|---|---|
| Withdrawals (`models/walletModel.js`, `cron/withdrawalsCron.js`, `src/wallet/autoWithdraw.js`, `controllers/adminController.js`) | `transactions` rows, `users.polBalance`, the engine's copy, transfers on chain | request, approve, reject, complete, the payout cron, the single payer | reads before awaits, stale lists, errors after a broadcast, restarts | nothing debited or refunded twice, paid once or refunded once, hash kept, every row settled |
| Deposits (`services/depositVerifier.js`, `cron/depositsCron.js`, `models/walletModel.js`, `controllers/walletController.js`) | pending and completed rows, balances, the chain | submit, verify, detect | overlapping verifier runs, check-then-create on a column without a unique key, retries and timeouts | a transfer is credited once, only if it is on chain, and every claim is resolved |
| Deposit tickets (`controllers/depositTicketController.js`, `client/src/pages/AdminDepositTickets.jsx`) | a ticket's status and amounts, the administrator's page | open, look at (which analyses), credit, reject | the analysis writes after seconds of chain calls; concurrent approvals; a form filled by another ticket's answer | credited once, with its own amount, and resolved for good |
| Engine balances (`src/miningEngine.js`, `models/minerProfileModel.js`, `cron/miningCron.js`, `src/runtime/miningRuntime.js`) | the column, the miner in memory, `lastPersistedBalance` | boosts, upgrades, blocks, saves, joins, reloads, deltas from requests | three copies of one number, moved by handlers with awaits between them | nothing lost, memory right once requests are done, memory saved in the end |
| Offer events (`services/offerEventPurchaseService.js`, `controllers/adminOfferEventController.js`, `cron/offerEventsExpireCron.js`) | event, offers, purchases, inventory, balances | purchase, claim, edit, remove, expire | optimistic stock counter with retries, checks on reads | never oversold, limits and balances respected, sales add up |
| Shop and swap (`controllers/shopController.js`, `controllers/swapController.js`, `models/minersModel.js`) | price list, machines, two balances | buy several, edit the list, swap at a rate | price and rate are read before the transaction; a swap's amount may be negative | sold as listed, paid for, the engine told |
| Partner callbacks (`controllers/offerwallController.js`, `ptpController.js`, `zeradsController.js`) | ads, views, balances | postback, charge-back, view | repeated and crossing calls; postbacks that can only throw, since the schema has no table for them | a view paid once, no overdraft, the engine's copy follows |
| Rooms, racks and machines (`controllers/roomsController.js`, `machinesController.js`, `inventoryController.js`) | rooms, racks, mounted machines, inventory, the engine's rate | buy, install, uninstall, move, toggle, remove | two-slot machines, evictions, two generations of handlers over the same rows | a machine is in one place, a slot holds one machine |
| Daily check-in (`controllers/checkinController.js`, `services/checkinChain.js`, `cron/checkinPendingCron.js`) | the day's row and its status | claim, pay, poll, sweep | evaluations with stale chain answers | a hash, as written, confirms one day, a confirmed day stays, streaks are kept |
| Cron action runner (`cron/cronActionRunner.js`) | keys in memory | run an action through its stages | overlapping timers, a stage that throws, concurrent actions sharing a key | one run per key, no key left behind |
| Rewarded actions (`controllers/faucetController.js`, `shortlinkController.js`, `youtubeController.js`, `autoMiningGpuController.js`, `sessionController.js`) | claims, daily counts, watched seconds, cards | visit, claim, heartbeat, view | check-then-write in separate statements | rewards a cooldown apart, counts that match what was given |
| Games (`src/socket/registerGamesSocketHandlers.js`) | a session per socket, cooldowns, powers, boards | start, move, end | the start awaits between the cooldown check and the session | one bonus per finished game and cooldown, boards left steady |
| Accounts (`routes/auth.js`, `controllers/userController.js`, `models/userModel.js`, `models/referralModel.js`) | users, passwords, second factor, referrals | register, log in, change and reset, link | bcrypt and other awaits between a read and its write | names apart, the limit per network, the confirmed secret, one referrer |
| Admin session and limiter (`controllers/adminAuthController.js`, `middleware/adminAuth.js`, `middleware/rateLimit.js`, `client/src/components/AdminLayout.jsx`, `client/src/store/auth.js`) | the cookie, the stored token, tabs; a counter per key | log in, check, log out; count a request | two tabs share what a third step changes; a window that ends during a request | a page shows the level of its session, a limit per window |
| Admin pages (`client/src/pages/Admin*.jsx`, `client/src/components/ImageUploader.jsx`) | query, rows, panels, forms | query, page, act, open, upload, save | answers that overtake each other | the rows of the query shown, the form of the row it was opened for |
| Paged lists (`models/userModel.js` and the listing handlers) | rows; a page, a count | read a page, turn it | two queries without a transaction, rows that come and go between pages | a walk sees every row that stayed, none twice, or a named reason |
| Messages and support (`controllers/chatController.js`, `notificationController.js`, `supportController.js`, `adminSupportController.js`) | room, private messages, notifications, tickets | send, list, mark, reply | several statements per handler, answers that cross | what is marked was shown, every message announced |
| Published content (`controllers/bannerController.js`, `creatorController.js`, `transparencyController.js`, `routes/broadcast.js`) | broadcasts, windows, entries, channels | publish, edit, toggle, remove | stale lists, digits parsed in another zone | one broadcast active, windows keep their length |
| Chain access, HTTP surface, operations, legacy code | | | | not modelled, see the end and `PROJECT.json` |

How they interact. Every component that moves POL commits a change of
`users.polBalance` and then (withdrawals: before the commit) calls
`applyUserBalanceDelta`, which moves both `balance` and `lastPersistedBalance` of
the miner in memory. The engine on its side writes the difference between the
two back to the column on a timer and on some socket events. `EngineBalance` is
the model of that traffic; every other model of money keeps the engine's copy, or
what the engine has been told, as one variable. Machines, cards and games change
the rate the engine mines with through `reloadMinerProfile`; those models keep
what the engine was last told.

`server.js` mounts the administrators' routes, uploads, health and the panel. The
player server that would call `startCronTasks`, `setProfileLoader`,
`startDepositVerifier`, `processApprovedWithdrawal` and the users' controllers is
not in this repository, so the models take these functions as called the way
`cron/index.js`, the routes and the controllers call them, and assume one server
process (the deployment has one replica).

## Modules

| Module | What it is |
|---|---|
| `Withdrawals`, `WithdrawalPromise` | withdrawals, detailed; what one promises: owed, then paid or refunded, for good |
| `Deposits`, `DepositTickets` | deposits by submission and by detection; tickets and the page that credits them |
| `EngineBalance` | the three copies of a balance |
| `OfferEvents`, `Shop`, `Partners` | what is sold, and what partners pay |
| `Workshop`, `Belongings` | rooms, racks and machines, detailed; what their owner is promised |
| `CheckIn`, `CronRunner` | the daily check-in; the runner of every timer |
| `Faucet`, `Shortlink`, `WatchTime`, `Games`, `MatchThree` | what is earned by doing something; the board of the match game |
| `Accounts` | registration, sessions, passwords, names, second factor, referrals |
| `AdminGate`, `RateLimit`, `AdminPages`, `AdminForms`, `Listings` | the way into the panel, the limiter before it, its pages, forms and lists |
| `Messages`, `Content` | what is written and what is published |
| `MCWithdrawals`, `MCDeposits`, `MCEngineBalance`, `MCGames` | one model on small sets: the sets behind the configurations, symmetry |
| `MCBackOffice`, `MCHoldings`, `MCPlay`, `MCSales` | several models on small sets, one in each behaviour |
| `..._proofs` | theorems and their proofs |

Common conventions. An asynchronous function is a record of its locals with a
program counter; every `await` that can let other code change what the function
has read is a step boundary. A database transaction is its reads, a step each,
and one step in which its writes become visible; a row that it has updated stays
locked until then. A call that throws, a restart (`Crash` and its kin) and a lost
answer are actions guarded by `FaultKinds`, `MaxFaults` or the like. Variables
called *history* record what happened for the properties and decide nothing.
Where the code is right only for calls that do not overlap, a history variable
marks what overlapped (`overlapped`, `crowded`, `staleRows`, `strayed`,
`watchCrossed`...) and the property says what holds of the rest: each such mark is
one statement of how far the code's check-then-write reaches. It also says that
the property does not cover the overlap itself; the notes of the hazards in
`PROJECT.json` name which. Other marks record a failure the code does not mend
(`reloadMissed`, `syncMissed`, `rateMissed`, `swapLost`) or an input it accepts
(`backwards`). Definitions that
follow another with a longer name (`RefundDueAlways` before `RefundDue`) are
variations a bug could introduce, used to see that each property can fail.

### Composites

`MCBackOffice`, `MCHoldings`, `MCPlay` and `MCSales` each join models that share no
variable. A variable `focus`, chosen at the start, names the one that moves; the
others keep their initial state. Since no action reads another part's variables,
every behaviour of the interleaving of the parts projects to a behaviour of each
part, and a property of one part holds of the interleaving exactly if it holds
when the part moves alone: the composite checks all of them and multiplies no
state. In `MCBackOffice` the withdrawals appear twice, as `focus` "cron" (the
cron with every fault) and "single" (one request and one `processApprovedWithdrawal`
at a time); in `MCSales` the offers appear as "stock" (purchases that race for one
paid offer) and "alone" (one user's purchases, one at a time). A part's `...Safe` is its type invariant with its named safety
properties; `RowsKept`, `OutcomesAreFinal` and `SalesSteps` do the same for action
properties.

### Money

**Withdrawals.** `rows` holds the withdrawals of the `transactions` table, `req` the
`createWithdrawal` calls (pending check, funds check, debit with the engine told,
commit), `work` the locals of whoever sets a status: administrators (`Ask`,
`Approve`; they act on lists that may be stale), cron runs (`StartRun`, `Pay`,
`SendRejected`, `EndRun`) and `processApprovedWithdrawal` (`Auto...`).
`updateTransactionStatus` is `ReadStatus`, `ApplyStatus`, `CommitStatus`, shared
by the administrators and the cron. `sends` and `refunds` count what happened to
each row's money. The order of the list a run walks is abstracted to any order.
What a user's rows hold is a set of units of money (`Reserved`), so that
`FundsConserved` is a statement about a cardinality and not a recursive sum.

**Deposits.** `chain` says what a transfer is; `submit`, `check` and `detect` are the
calls of `submitDeposit`, the checks of the verifier's runs (a run lists the
pending rows and checks each) and `createDepositRequest`. The verifier run that a
submission starts is an ordinary `StartRun`. Hashes are compared as they are
written: `Spellings` are the ways to write one. `submitDeposit` writes it in lower
case and looks for it so; `createDepositRequest` takes it as it comes, so it misses a
row of the same transfer in another case. The scanner's own look-up before
`createDepositRequest` is covered by the one inside it. Every deposit is of one POL.

**DepositTickets.** `opening` are `createTicket` calls; `deskCall` are the calls an
administrator's page makes, each with what it read of the ticket; `desk` is the
page: the ticket it shows, the one whose amount stands in its form. `OpenDetail`
empties the page and asks for a ticket, whose analysis writes the ticket and may
be answered after another ticket was opened.

**EngineBalance.** `db` is the column, `mem` and `saved` the miner's `balance` and
`lastPersistedBalance`, `due` what the user is entitled to by everything that has
happened (the specification's own account). A save is `StartSave` (difference
taken), `WriteSave` (column moved), `FinishSave` (`lastPersistedBalance` set to
the balance of that moment). A load reads the column and applies it later, as a
join or a reload. A request checks the column and either commits and then tells
the engine (`Commit`, `TellAfter`: shop, offers, deposits) or tells it first
(`TellBefore`, `CommitTold`: withdrawals). A block pays every active miner in
memory, commits the rewards and the referrers' commissions, tells the referrers,
or rolls memory back. Rewards are whole numbers: rates, shares and the 1e-7
threshold below which nothing is saved are abstracted.

**OfferEvents.** `buy` is a `purchaseEventMinerForUser` call: the first read with its
refusals (`Buy`), the claim limit or the balance (`CheckClaims`, `CheckFunds`), a
turn of `incrementSoldCountOptimistic` (`ReadStock`, then `Claim` or `Retry`), and
the engine's delta (`Tell`). A failed compare-and-swap leaves the transaction
running; a successful one makes its writes visible together. `removal` is
`adminRemoveEventMiner`, which counts purchases and deletes later. `published`
remembers the largest stock an offer was given. Price 0 stands for a free offer;
one event, which exists from the start.

**Shop, Partners.** A purchase reads the machine, then the balance, then writes, then
tells the engine and notifies; administrators write the `catalogue` meanwhile. In
`Partners` one user's two columns move by swaps (rate read first, engine told before
the commit, amounts of either sign) and an ad that pays each viewer once.
`Postback` and `PtcCallback` stand for handlers whose transactions can only throw.

### What users own and earn

**Workshop.** A row's id is its machine and how many rows the machine has had. The
rooms' handlers mount a machine in a rack and mark the rack beside a wide one; the
old handlers move machines among their slots and send what is in the way to the
inventory; every one reads in some statements and writes in a later transaction,
then reads the rate anew and assigns it to the engine. Any of these statements may
throw (`HandlerThrows`), after the commit too: the handler answers 500, nothing
repeats the reload, and `reloadMissed` says so until a reload succeeds.
`Belongings` is refined with a machine's place as the mapping.

**CheckIn.** A row per user and day, evaluated by the request that paid, by polls and
by the sweep, each an `evaluator` or `checkCall` with the row it read and the
chain it saw. The chain takes a hash in any case, the table does not: `TxOf` says which
transaction a hash as written stands for, and several may stand for one.
**CronRunner**: `inFlight` is the set of keys, `cronRun` the stage of
each run. **Faucet**, **Shortlink**, **WatchTime**: one user's requests with what they
read; time moves in units. A request to the shortlink sends any step number with its
page's token, as the handler accepts it; watched videos, cards and the moves of a
card's machine end by reading the rate and assigning it, and either may throw
(`syncMissed`). **Games**: a session per socket, a cooldown per game, the
powers granted; a move brings a session nearer to its goal. **MatchThree** has the
board of the match game in full: lines, cascades, and the fall as the code's pass over a
column from the bottom row to the top; any symbols may fall in.

### Accounts and the panel

**Accounts**: every handler of `routes/auth.js` and of the profile as a read and a
later write, with bcrypt in between; only unique columns hold. **AdminGate**: a
request leaves a tab with the cookie or the stored token of that moment, the
server answers, the answer sets the cookie, and then the tab resumes. **RateLimit**:
`createRateLimiter` whole, one request a step. **AdminPages**: `view` chooses one of
the pages' behaviours (whether it filters, resets the page, fetches after an
action, opens a panel); a fetch carries the query of the render that sent it, and
answers come in any order. **AdminForms**: one form for new and listed rows, or a
component for each row. **Listings**: `findMany` and `count` are two reads of one
request; the reader turns pages while rows come and leave. A page waits
for each answer here; answers that cross are in `AdminPages`. **Messages**: each
statement of the chat, private message, notification and ticket handlers. **Content**:
hours instead of dates, two time zones, and each page's stale copy.

## Runs

| Run | Conditions | Checks |
|---|---|---|
| `withdrawals_manual` | 2 users, 3 rows, 2 requests, one administrator with stale lists, one fault of any kind | `TypeOK`, `FundsConserved`, `RefundedAtMostOnce`, `HashKept` |
| `withdrawals_cron` | 2 users, 3 rows, 2 requests, the cron alone, up to two answers of broadcasts lost or restarts, fair | `RepeatsFollowFaults`, `LiveAgrees`, `EventuallySettled`, `ImplementsPromise` |
| `deposits_overlap` | two verifier runs, a submission and a detection together, 2 hashes written in two ways, 2 rows, one fault, fair | `CreditedIsOnChain`, `EventuallyResolved` |
| `deposits_two_runs` | two verifier runs on one row | violated: `CreditedOnce` |
| `engine_kept` | one miner, one save at a time, a load, a request, blocks, one fault other than a failed block | `TypeOK`, `NothingLost` |
| `engine_referred` | a referrer and a referred miner, a request, a restart | `ReferredSafe` |
| `engine_saved` | restarts and failed blocks, fair | `EventuallySaved` |
| `holdings` | `Deposits` (one submission, one run, two faults), `DepositTickets`, `CheckIn`, `Workshop`, `CronRunner`, `Listings` | `DepositsSafe`, `TicketsSafe`, `CheckInsSafe`, `WorkshopSafe`, `CronsSafe`, `ListingSafe`, `OutcomesAreFinal`, `KeepsBelongings` |
| `back_office` | `Withdrawals` (the cron; the single payer, one call at a time; each with lost answers, database errors and restarts), `AdminPages`, `AdminForms`, `AdminGate`, `Messages`, `Content` | `PayoutsSafe`, `PagesSafe`, `FormsSafe`, `GateSafe`, `MessagesSafe`, `ContentSafe`, `RowsKept` |
| `sales` | `OfferEvents` (racing for stock; one purchase at a time), `Shop`, `Partners` (amounts of either sign), `Accounts` | `OffersSafe`, `ShopSafe`, `PartnersSafe`, `AccountsSafe`, `SalesSteps` |
| `earning` | `Faucet`, `Shortlink`, `WatchTime`, `Games`, `MatchThree`, `RateLimit` | `FaucetSafe`, `LinkSafe`, `WatchSafe`, `GamesSafe`, `LimitSafe`, `BoardKept` |
| `powers_limited` | one player, a win after each cooldown | violated: `PowersLimited` |

The runs that pass show what the code guarantees under the conditions they name.
Two runs show a statement of the code that does not hold, and are findings: the
verifier's "Anti-double-spend" check when two runs of it overlap
(`deposits_two_runs`), and the limit on active powers that a comment of
`finishGame` names and nothing enforces (`powers_limited`). The conditions matter.
Relaxing one of them in a configuration gives a counterexample of a few steps:

* two `createWithdrawal` calls of one user at the single payer (`SingleNext`): both
  see no pending row, against `SingleOnePending`;
* an administrator who may also reject, beside the single payer: the hash written
  back is the one read earlier, against `HashKept`;
* a fault between a broadcast and its mark, where `SettledOnce` is checked instead of
  `RepeatsFollowFaults`: a restart, a lost answer (at the cron) or a catch that throws as
  well (at the single payer) lets a row be settled again;
* a swap of a negative amount, where `NotOverdrawn` is checked without `backwards`;
* a reload or a sync that throws, where the engine's rate is checked without
  `reloadMissed` or `syncMissed`;
* a database error where `LiveAgrees` is checked: the engine was told before a
  commit that failed;
* two submissions, or two detections, in the deposits of `holdings`: one transfer
  claimed by two accounts, or credited twice;
* two savers in `engine_kept`, or a failed block: against `NothingLost`;
* a load in `engine_referred`: a deposit counted by the reload and by its delta,
  against `EngineKnows`;
* two buyers in `AloneNext`: against `AloneNeverOverdrawn` and `ClaimsWithinLimit`
  (both are parts of `SalesSteps`).

The history marks in the properties (`overlapped`, `staleRows`, `partnersCrossed`,
...) name further conditions of this kind, one overlap each.

Bounds. `Ids` bounds the rows ever created: three rows suffice for two of one
user and one more that must not be disturbed. `MaxAttempts` stands for 20
verification attempts and `MaxTries` for 10 swaps: 1 or 2 let a first, a repeated
and an exhausted attempt happen. `MaxBalance` and `MaxDebt` bound the balances
of the engine, so that blocks and boosts can be repeated but not for ever;
`MaxEdits`, `MaxWareEdits` and the `Max...Asks`, `Max...Calls` bound what users and
administrators do; each is large enough for two requests that overlap and one that
follows them. `MaxPieces` bounds the sales of an offer without a stock. Times
(`Cooldown`, `WindowMs`, `LinkDay`, ...) are a few units, chosen so that the
boundary, the instant before it and the one after it occur and a second window
begins; `Max...Time` and `MaxClock` end the run after that. `NetLimit`, `PageSize`,
`PageRows`, `MaxOpen` and `MaxKeys` are 1 so that the second of anything meets the
limit. `MaxFaults` is small because one fault at the worst moment is what the
properties are about, and two let a fault hit the recovery of another. Deadlock is
not checked: with the bounds used up, every instance may stop. Symmetry is used
only without liveness properties, between values that every part treats alike.

Fairness. `withdrawals_cron` assumes weak fairness of the cron's steps (its
timer fires every two minutes, and the provider and the pool time out) and of
the commit of a request that holds a row lock. `deposits_overlap` assumes it of
the verifier's starts and of every check; nothing is assumed of the chain.
`engine_saved` assumes it of the persist timer and the save it starts. No
fairness is assumed of users, administrators or faults.

## Proofs

The theorems hold for every value of the constants that satisfies the module's
named assumption (any number of users, rows, concurrent calls, any limits and
faults). Where handlers must not overlap, or a failure must not fall on one step,
that is a condition on the behaviour (`Spec /\ []OneAtWork => ...`), not on the
constants: however many handlers there are, the theorem speaks of every behaviour
that keeps to it. Each follows the same argument: an inductive invariant, which TLC
checked on the runs' instances first, holds initially, is kept by every action (a
lemma for each), and implies the property. Most amounts are counted as units of
finite sets, so that the arithmetic rests on the library's theorems about
cardinalities; where a model sums over a set, the lemmas of `Sums` say what the sum
does when one of its values changes.

* `Sums`, lemmas only. `SumFunctionOnSet` is a fold, and what a fold computes needs
  induction over a set, which the library states with a predicate as parameter.
  `CountUp` takes its place: a set of naturals with zero and the successor of each
  of its members has them all, by the well-foundedness of the naturals. With it
  `AddsExist` and `AddsAgree` show that the fold's recursive function is there and
  is the only one, `SumTypedAndTaken` that any element may be taken out of a sum
  first, and `SumSame`, `SumZero`, `SumNat`, `SumAdd` and `SumChange` what the proofs
  cite.

* `Withdrawals_proofs`
  * `TypeCorrect`.
  * `RefundedOnce`: with one status update at a time (`OneAtWork`), a row is
    refunded at most once whatever calls fail. `RefundInv` adds that a refunded row
    is final (`RefundsFinal`) and that what an updater remembers of the row it works
    on is still true (`LocalsTrue`).
  * `FundsAddUp`: under the same condition `FundsConserved`. It is inductive
    beside `RefundInv`: a step that moves the balance by an amount moves as many
    units in or out of `Reserved`, and the lemmas on units (one row's units are its
    amount, rows' units are disjoint) turn that into arithmetic.
  * `HashesStay`: under the same condition `HashKept`. What an update read of the
    row's hash is still so when it writes it back (`LocalsTrue`).
  * `LiveFollows`: unless a database call throws, `LiveAgrees`, for any number of
    overlapping requests, administrators, cron runs and payers. Rows locked by one
    handler are not another's, so the amounts about to be committed do not mix.
  * `CronRepeats`: while the cron is alone at work (`CronAtWork`), whatever fails and
    however often the server dies, `RepeatsFollowFaults`. `SettleInv` says of every row
    whether it is untouched, being paid, or dealt with, by the position of the run that
    listed it, with as many transfers as failures so far explain. `CronSettlesOnce` is
    the same invariant with none to explain: where nothing fails between a broadcast
    and the row's mark (`FailsUnsent`: before the broadcast, between two rows and while
    a failure is recorded calls may fail and the server may die), a withdrawal is paid
    once or refunded once. `CronKeepsPromise`: whatever fails, the model's initial state
    and every step are those of `WithdrawalPromise` or leave it alone; the promise is
    about what first settles a row.
  * `OnePayerKeepsFunds` and `OnePayerKeepsHashes`: `FundsConserved`, `HashKept` and
    no second refund for `processApprovedWithdrawal`, called for one row at a time
    next to one administrator at a time (`PayerAtWork`), whatever fails and however
    often the server dies.
  * `OnePayerRepeats`: under the same condition, `RepeatsFollowFaults`. `SentUpTo` says
    that an approved row with more transfers than failures explain has a call still at
    work on it, and `OnItsRow` that a call's row stays approved until the call marks
    it. Two failures break that, and the next call (`autoWithdraw.js` line 21) cannot
    tell: a restart after the broadcast, and a catch whose own update throws (lines
    84-91). `OnePayerSettlesOnce`: without these two (`LeavesSent`), `SettledOnce`; a
    lost answer of `sendTransaction` or a hash that cannot be saved does no harm, since
    the catch then marks the row.
  * `CronRefundsFailedRows`: `FailedIsRefunded` while the cron is alone at work,
    whatever fails or dies. What the run has listed and not dealt with is open
    (`StillOpen`), so its status asks for the refund.
  * `OneRequestOnePending`: `OnePending` while one request is between its check and
    its commit (`OneRequest`), next to any number of administrators, cron runs and
    payers. No handler makes a row pending again (`NoneReopens`), so the check stands
    until the commit (`CheckStands`).
* `Deposits_proofs`
  * `CreditsAreOnChain`: `CreditedIsOnChain` with no assumption on who runs at once.
    `ChainInv` adds that a check or a detection past its look at the chain has a
    transfer that is there (`ExaminedIsOnChain`), which stays true because the chain
    does not take back a mined transfer, and that checks are of rows that exist.
  * `DepositsHold`: all of `DepositsSafe`, whatever fails or dies, while verifier runs
    do not overlap, nor two submissions of one transfer, and nothing is detected
    (`OneAtATime`): submissions of different transfers may overlap, one another and
    the run. `SoloInv` adds that a check is of a pending row until it has credited it
    (`LoneCheck`), that nobody claims what a submission has looked for
    (`SoughtIsFree`), that a credited transfer has its completed row
    (`CountedOnce`), and that balances count completed rows. `Lowered` says that what
    submissions insert is written in one case: it is what makes comparing hashes as
    written enough here, and what a detection would break.
  * `DepositsStayResolved`: while verifier runs do not overlap (`OneRun`), with any
    submissions and detections beside them, a completed or refused row stays so. The
    row under check is pending (`LoneCheck`), and inserts use unused ids only.
  * `TicketsHold`, `TicketsStayResolved`: `TicketsSafe` and the finality of outcomes
    for any number of pages, calls, requests and faults. `TicketInv` says that between
    its read and its write a call has the ticket to itself, as it read it, or the
    ticket is marked `overlapped` (`WritersAlone`); that a user's lone request still
    has the room it saw (`OpenersAlone`); and that a page without two tickets on
    their way holds the amount of the ticket it shows (`FormIsOfTicket`).
* `EngineBalance_proofs`: `TypeCorrect`. `NothingIsLost`: while no two
  saves of one miner overlap (`SavesFollow`; those of different miners may) and no
  block's transaction fails, `NothingLost` holds.
  Alone it is not inductive: a save in flight has moved the column and not yet
  `lastPersistedBalance`, a request or a block may have moved one side only.
  `CoverInv` follows the money through those positions. `ReferredKeep`: when moreover
  nothing loads a miner again and only saves and the process fail (`NoReload`),
  `ReferredSafe`. `KnowInv` says that memory differs from what is due by exactly what
  requests and the block have yet to tell, counted in units above and below zero; a
  load is excluded because it may read a deposit from the column and be told of it
  again.
* `Sales_proofs`, what is sold and who buys it
  * `TypeCorrect`, of `OfferEvents`. `NotOversold`: an offer never sells more than
    the largest stock it was given, with no assumption on who runs at once. `StockInv`
    adds that an offer's present stock is at most what was published, and that a
    purchase about to swap (`ClaimFits`) read a count that, with what it asks for, fits
    what has been published; the swap's condition makes that count the present one.
  * `OffersHold`: all of `OffersSafe`, again for any overlap. `OffersInv` says by how
    much the engine's copy of a balance is ahead of the column: by what the
    committed purchases of that user are yet to tell (`EngineAddsUp`), a sum over
    the calls in flight, of which `LiveAgrees` is the case that none is.
  * `AloneNotOverdrawn`, `ClaimsKeepToLimits`: while no user has two purchases under
    way (`SoleBuyer`; different users' purchases, edits and removals still race),
    nobody is overdrawn and no claim passes its limit. What a purchase was checked
    against still stands when it commits (`FundsStand`, `ClaimsStand`).
  * `ShopHolds`: `ShopSafe`, for any overlap. `ShopInv` adds that sales are numbered
    from one, so that a new row is new (`SalesNumbered`), that the price a call read
    was listed during the call (`PricesSeen`), and that the purchase of a shopper who
    has not `competed` is alone and its money still there (`LonePurchase`).
  * `PartnersHold`: `PartnersSafe`, for amounts of either sign. `PartnersInv` adds that
    the rows of views record each payment (`ViewsOnRecord`) and that the balances and
    views a lone request read are as it read them (`LonePartner`, `CallStands`). A lone
    swap of a negative amount passes the check of the balance it names and takes from
    the other one, which may go below zero; then the first still has what it had
    (`Solvent`). The engine's copy differs from the column by the sum of what swaps
    about to commit have told it (`EngineFollowsPartners`), for any overlap.
  * `AccountsHold`, `PasswordsStay`: `AccountsSafe`, and that a password changes only
    in a request that gave the old one or is a reset. `AccountInv` says what each
    request carries at each of its steps (`RequestsCarry`), that what it read of
    names, networks, secrets and passwords is still so until two requests overlap
    (`LoneAccountCall`, `ReadsStand`), and that the histories count what the rows
    say (`NetsRemembered`, `LinksCounted`). That a user is referred once needs none of
    the marks: the row of `referrals` is unique.
  * `SalesKeepRules`: `SalesSteps`, of the composition. Its steps are those of each
    part; that the "alone" focus has one purchase at a time is part of its invariant
    (`OneOrOther`), so nobody is overdrawn there.
* `Holdings_proofs`, the parts of the `holdings` run
  * `CronsKeptApart`: `CronsSafe`. A run of an action never run as concurrent holds the
    action's key (`RunHasKey`).
  * `ListHolds`: `ListingSafe`. A row not yet seen lies behind the pages shown and
    among those promised, while no row leaves: rows that come push it towards the end
    only (`BehindThePages`, `UnseenArePromised`); a row that comes between the two
    queries is the case `torn`.
  * `CheckInsHold`, `ConfirmedDaysStay`: `CheckInsSafe`, and that a confirmed day stays
    confirmed, for any number of calls. `CheckInv` says that no call past its read of
    a confirmed row writes it, that what a payment proved shows in the row until a
    write that did not read it, and that two rows never share a hash as written, which
    is what the unique key says. Two hashes that stand for one transaction (`TxOf`) may
    confirm two days: nothing lower-cases them (`services/checkinChain.js` line 29).
  * `StreaksStay`: a streak gets shorter only at the end of a day that was not
    confirmed, or by a stale write. The streak is a recursive function of the days
    before; that it exists for any number of days (`DaysCounted`) and grows with the
    confirmed days (`StreaksGrow`) is proved with `CountUp`.
  * `BelongingsKept`: the initial state and every step of `WorkshopSpec` are those of
    `Belongings` or leave it alone, with no assumption on who runs at once. `RowInv`
    says that every row is its machine's newest id in one place (a handler that moves
    a machine deletes one row and creates another, under a fresh id), which is what
    lets the rows be read as a function from machines to places.
  * `WorkshopHolds`: all of `WorkshopSafe`. `AloneInv` holds of the calls and the racks
    until calls overlap: what a call has read of rows and racks is still so
    (`CallsKnow`), and the racks' flags name exactly the rows mounted (`OldSlotsFit`,
    `RowsAreNamed`, `BlockedIsEmpty`, `NamedAreRows`); the engine counts the machines
    mounted unless a reload threw after the commit (`reloadMissed`). `PayInv` says that the engine's
    balance and the column differ by the prices paid and not yet told, counted in units.
  * `OutcomesStay`: `OutcomesAreFinal`, of the composition, while verifier runs do not
    overlap: a resolved deposit, ticket, confirmed day or streak stays
    (`PartsByThemselves` brings the parts' theorems over).
* `Play_proofs`, the rewarded actions
  * `FaucetHolds`: `FaucetSafe`. `FaucetInv` adds that a claim about to be granted has
    a visit that had lasted long enough when it began (`VisitJudged`), and, until two
    requests overlap, that a request is alone, what it was judged by still stands, and
    the row has the last of the claims (`LoneFaucetCall`, `RowReadStands`,
    `RowIsLastGrant`).
  * `LinkHolds`: `LinkSafe`. A token is made once (`TokensMade`), and whoever holds the
    token of a row, as it is or as any request read it, has waited once for every step
    accepted since the run began (`StepsTimed`, `StepsHaveTokens`): this holds however
    pages overlap and whatever step numbers they send. How many steps a run took is not
    claimed: nothing compares the number sent with the row's. That a day
    has one run rests on what a lone request goes by (`LoneLinkCall`,
    `LinkReadStands`) and on the row telling the day of the last run (`DaysDone`,
    `DaysAreOfEnds`).
  * `WatchHolds`: `WatchSafe`. What a lone request found of seconds, limits and cards
    is still so when it buys, and the rate it read when it assigns it (`RequestsLook`,
    `LoneWatchCall`, `FindingsStand`); a read or an assignment that throws after the
    commit is named (`syncMissed`), since nothing repeats it. The last heartbeat is the one remembered (`LastBeatKnown`), and a card not claimed
    never was (`UnclaimedAsYet`).
  * `GamesHold`: `GamesSafe`. Until a player crosses sessions of a game, it is under
    way once at most, as a session or as a start, and then its cooldown has passed
    (`PlaysApart`): a finish, which sets the cooldown, ends the one session there is.
    A start has an open connection unless one closed meanwhile (`StartsAreOpen`). Until
    two rewards of a player overlap or one throws after its grant, the engine's rate,
    or the total the one reward is about to tell, is at least the sum of the powers
    the player holds (`RateHeld`), which only shrinks as time passes (`LivePasses`).
  * `BoardHolds`: `BoardKept`, on boards of any size with any symbols falling in. The
    pass over a column is a recursive function of the rows passed (`PassingIs`,
    `PassStarts`), and each turn of it (`PassMoves`) keeps that the symbols passed
    lie at the bottom, in their order, above `emptyRow` nothing but holes and rows
    not yet reached. At the top row this is what the fall promises
    (`ColumnsSettle`, `BoardFalls`).
* `BackOffice_proofs`, the administrators' panel and what it publishes
  * `GateHolds`: `GateSafe`. A login's answer, a check's and a logout's each say
    something of the browser until another session call is sent (`LoginIsKnown`,
    `CheckIsOfTheSession`, `LogoutHeard`, `AloneMeansAlone`).
  * `LimitHolds`: `LimitSafe`. A remembered key's count and the requests that passed
    agree until its window ends (`Remembered`).
  * `PagesHold`, `RowsOnlyStepForward`: `PagesSafe`, and that rows are not replaced by
    older ones. Until one overtakes another, the answers under way are in the order
    of their questions, none is older than the rows shown, and the last is for the
    page's query and has its last action (`AnsweredInOrder`, `NothingOlderComes`,
    `LastIsForTheQuery`, `ActsOnThePage`); the panels are one at a time
    (`OnePanelAtATime`) and the amount in the field is of the ticket that is shown or
    about to be (`AmountIsOfTheTicket`).
  * `FormsHold`, `FormsEditTheirRows`: `FormsSafe`, and that a save writes the row its
    form was opened for. An open form, and one being saved, is that of its row and has
    an image of its own or of that row (`FormFits`), and so has every row of the list
    it may be opened from (`ScreenFits`).
  * `ContentHolds`: `ContentSafe`. The last message activated is the only active one
    also in the middle of a request, and a request about to activate has no other
    active (`LastIsActive`, `OthersAreCleared`); the windows on the pages, not only the
    stored ones, are as long as typed ones (`WindowsAreKept`).
  * `MessagesHold`: `MessagesSafe`. Whether a message is on its page does not change
    with what is written or read later (`PagesStay`), so a request about to mark
    messages as read has shown them, or they are past the page, or came too late
    (`ListIsShown`); every message waits for its notification in exactly one request,
    or has it, or lost it (`OneNoticeEach`); and a list of conversations half made
    has what its user had sent when it was asked for (`HalfListed`, `ListingsArePast`).
  * `PayoutsHold`: `PayoutsSafe` of the composition, with one handler of each kind
    (`OneOfEach`), whatever fails and however often the server dies. The steps of its
    two focuses keep the cron alone, or one request and one `processApprovedWithdrawal`
    at a time, which is what the theorems of `Withdrawals_proofs` ask.
  * `RowsStay`: `RowsKept` of the composition: no recorded hash is lost, no older rows
    shown, no form saved over another row than its own.

What the proofs brought to light, and changed. A tab that logs in over an expired
cookie strays the other tabs too (`AfterLogin`): the history mark had missed it, and
`GateSafe` was not inductive. The runner's model used "none" as the action of an
idle run, so no action may have that name (`CronAssumption`). A ticket not yet
opened has to be blank for `CreditIsForItsTicket`, and an amount is right only as
long as the page was never `crossed`, not merely while it is not. `LiveAgrees` holds
for any overlap, but not with a database error; it is proved so, and checked where
none occurs. Constants needed naming conditions the runs already met: "none" and
"free" are no payments of the check-in, a machine without a row (`NoId`) has no row's
id, a check-in has at least one day to count (`MaxDay`), "none" is no card and the
cards are finite, `Nobody` is neither a person nor a network, people are finite and
two names that are the same are so both ways (`SameName`), and no user is called
"admin" (`TalkAssumption`). A step of the shortlink is
timed from the start of its own run: the history had kept the start of the page's
newest run, with which `RunsAreTimed` was not inductive. Two arms of the check-in's
CASE overlapped; the code takes the first, and the second now excludes it. The list of
conversations and the broadcasts take a largest element of a set; that there is one is
proved from the well-foundedness of the naturals (`MaxIsThere`), which needs no
induction over data. A sum says nothing of an infinite set: users, offers, shoppers,
calls and views are finite now, by assumption, as they always are in a database, and
the games have a clock that starts (`MaxGameTime` is not 0).

Conditions that were on constants (one cron run, one payer, one saver) are on
behaviours now, and weaker: `CronRepeats`, `OnePayerRepeats`, `OnePayerKeepsFunds` and
`OnePayerKeepsHashes` allow every failure and restart, `CronSettlesOnce` every one that
does not fall between a broadcast and its mark, and submissions of different transfers may overlap. `MatchThree`
let symbols fall by a library recursion over sequences; it has the code's own pass
over the rows now, about which `BoardHolds` could be proved.

Only model-checked. Everything under fairness: `EventuallySettled`,
`EventuallyResolved`, `EventuallySaved` and the liveness half of `ImplementsPromise`
are beyond the prover. `ImplementsPromise`'s safety half is `CronKeepsPromise`. Every
other property of a passing run is stated by a theorem, under the condition its run
meets where there is one; without the condition several of them are false, and the
violation runs and the hazards say where.

## What is not modelled

* Chain access, HTTP routing and headers, files, mail, logging, backups
  (`cron/backupCron.js` is a stub and `POST /backups` writes a placeholder).
* Legacy code. `src/db/sqlite.js`, `../app/routes/registerAppRoutes.js`,
  `utils/backup.js`, `utils/logParser.js`, `utils/autoMiningGpuUtils.js`,
  `cron/autoMiningGpuCron.js`, `src/services/publicStateService.js` and
  `services/ccpaymentService.js` are CommonJS of an earlier SQLite server, in a
  package of ES modules; `controllers/database/serverDatabaseController.js` does not
  parse; most of `models/shortlinkModel.js` and `shortlinkRewardModel.js` has no
  caller; `middleware/csrf.js` and `adminPageAuth.js` are not mounted.
* Floating-point rounding, hash rates and each miner's share of a block; the
  block's public history; fiat and currency conversion; currencies of an offer other
  than POL; uploaded bytes; what pages look like.
* The event a purchase belongs to being closed between the start of the call and
  its commit (the code takes the start of the call); `failAllPendingWithdrawals`,
  `nonceManager` and other functions without a caller; the administrators' list of
  automatic mining rewards, whose routes ask for two kinds of session at once.
* In `Content` a page has one banner form at a time, where the real one can show the
  create and an edit form together, and a banner always has both of its times. In
  `Listings` no two rows have the same creation time.
* In `Withdrawals` a recorded hash is there or not: which of two hashes a row has
  when 'complete' is said twice is not told apart. In `Games` no restart is modelled.

Seen on the way and outside the runs: `tests/miningEngineRewards.test.js` lines
20-23 expect a block reward of 0.1 where `src/miningEngine.js` line 10 sets 0.30;
`upgradeRig` changes fields that no save writes and the next reload overwrites;
`reportAdblock` and `handlePtcCallback` create audit rows with a field the schema
does not have, so the first always fails and the second always rolls back;
registration creates a referral row and not the `users.referredBy` that
`models/database/serverDatabaseModel.js` lines 111-131 read; a claimed card's machine
in a rack is summed twice (`models/minerProfileModel.js` lines 54 and 112);
`offerwallMePostback` uses `prisma.offerwallCallback`
(`controllers/offerwallController.js` line 69), which `prisma/schema.prisma` does not
define, so every postback and charge-back is answered 500 and credits nothing;
`executeSwap` accepts a negative amount (`routes/swap.js` line 16), which takes from
the balance it was to fill without a look at it; neither the check-in
(`services/checkinChain.js` line 29) nor `requestDeposit` lower-cases a hash, so one
payment in two cases is two hashes to the unique key and to the look-ups; the
shortlink never compares the step sent with the stored one
(`controllers/shortlinkController.js` lines 95-131); the offer event form shows UTC digits and parses them in the browser's zone,
so each save of an unchanged window shifts it.

## Plan

1. Done: the models, runs and theorems above.
2. Open: liveness, which stays with TLC; and a model of the event being closed in
   the middle of a purchase, to replace the choice of its start described above.
