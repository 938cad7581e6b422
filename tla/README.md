# A TLA+ model of the trading platform

The program is a prediction market with a fantasy-sports branch: users hold a
wallet of coins, trade the two sides (`Y`/`N`) of *probes* (events), enter
contests made of events, deposit and withdraw money, and operators settle, cancel
or reset events and contests from a dashboard. It is a Node.js/Express server
over PostgreSQL (Knex), Redis, a ZeroMQ matching engine and payment gateways.
Several server processes run side by side, so nothing in memory protects
anything: what coordinates two requests is a row, a Redis key with or without a
time to live, or a `redis-lock`.

The money paths are chains of `await`s, mostly outside a database transaction,
and each chain carries its own home-made guard. The models ask, guard by guard,
what it guarantees under every interleaving, crash, expiry and repetition, and
exactly which circumstance defeats it. Properties of the form "X unless H"
name that circumstance by a *history variable* H, which only records and never
guards; wherever H is false the property is unconditional.

## 1. Inventory

The directories `services/`, `utils/`, `msg_recv/` and `recurring_tasks/`, which
the code `require`s, are not in the repository. Two of their members matter
everywhere: `UserService.executeTransactions` (a list of wallet operations) and `redisCaching` (`lock`, `getKey`, `setKey`, `delKey`, and the
hash calls `getHM`, `setHM`, `delHMKey`). They are modelled from how `controllers/` and
`models/` use them: a lock is taken when free and expires, an unlock deletes the
lock's key whoever holds it, a transaction list is applied at once. The repository's own
function of that name (`models/transactions.js:39`), which some handlers reach through
that service, executes a list item by item, each under its user's wallet lock; `Transfers`
models it that way, failures inside a list included.

| Component | State | Operations | Meets | What is hard | What makes it correct |
|---|---|---|---|---|---|
| Request guard: `events.controller.js`, `user.controller.js` | Redis keys and locks per user and event | `putCall`, `mergeYesNoTokens`, `putRedeemRequests` | matching engine, wallet | two polling loops on each other's keys; keys that expire; a `finally` that deletes another's key | a trade and a withdrawal never act on one balance at once; one request of a kind at a time; no request waits for ever |
| Wallet ledger: `models/user.js`, `models/wallet.js` | append-only `wallet` rows | `updateWallet`, `updateWalletTransaction` | club settlement, every payment | read-latest-then-insert under a lock that is released twice, or before the commit | the balance is the sum of the operations; the bonus is never minted |
| Event lifecycle: `probe.controller.js` | `probe.status`, the hash field `PROBES_UPDATE` | `update` (edit, settle, cancel, reset) | settlement process, cancellation, contests | flag without TTL, early returns, failure half way, an actor that ignores the flag | one update at a time; a user is paid one way; a complete event is paid |
| Settlement: `settlement.js` | `probecalls`, `probecallsopen`, transactions | `settle`, reset's reversal | matching engine, lifecycle | a non-atomic chain repeated after a crash, late orders | winnings and refunds exactly once |
| Cancellation: `event.cancel.controller.js` | the same tables, liquidity, fee, referral and tax rows | `cancelEvent` | lifecycle, contests | six phases with six different ideas of being repeatable | nothing refunded twice, nothing left when the event is `CAN` |
| Contest: `contest.controller.js` | `contest`, `contest_user`, hash field `CONTEST_UPDATE` | `update`, `enterContest` | events, wallet | a flag deleted just before its test; a status read first and written last | prizes once, refunds or prizes, nobody left out |
| Payout processing: `user.controller.js` | `redeem` row, Redis key, the gateway's transfers | `processRedeemRequests`, `processRedeem` | payment gateway, cancellation | lost and late answers, retries under a new transfer id | a withdrawal is paid at most once and never after its cancellation |
| Deposits: `payments.controller.js`, `user.controller.js` | `payments` row, lock of the order | callbacks and status requests of eight gateways | gateways, wallet | duplicated and late callbacks, rows read before the lock, a stop between record and credit | a deposit is credited once, and only if it was paid |
| Withdrawals: `user.controller.js`, `payments.controller.js` | `redeem` rows, lock and cached status of each, the gateway's own | request, dashboard, gateway callbacks, polls | gateways, payout processing, request guard | late and repeated callbacks, cancellations that are not awaited, returns without unlock | a withdrawal is refunded when it failed, and once |
| Transfers: `luckycoins.controller.js`, `partner.payment.controller.js`, `payments.controller.js`, `models/transactions.js` | wallets, partner accounts, orders of a conversion | conversions, partner debits and credits, refunds, bonuses | wallet ledger, gateways | a balance read before the list of operations that depends on it; a list that breaks off | coins are conserved; one conversion a day |
| Tournament: `events.controller.js`, `probe.controller.js` | entries (`probecalls`), counts in Redis, a global variable, transactions | entry (`putCall`, `handleTournamentPutCall`), completion and reset (`update`) | request guard, wallet | counting before inserting, four writes per entry, an entry that overtakes the completion | no overbooking, ranks and payments agree, the pool is paid once |
| Club event: `club.events.controller.js` | `club_event`, bets, transactions | `updateClubEvent` | wallet ledger | the status is read outside the transaction, whose callback writes on other connections | winnings, refunds and reversals match the status |
| Prize table: `probe.controller.js` | none: a function of places and entries | the `switch` of `update` for competitions | tournament | ten tiers written out once per number of entries, boundaries | the prizes do not exceed the pool, a better rank gets no less |
| Liquidity: `liquidity.provider.controller.js` | shares and tokens of providers, a key per user and event, the engine's answer | add, remove | matching engine | an answer that lies under the user's key, a refusal that deletes another's key | nobody removes more than is his; an answer is one's own |
| Market making loops: `market.make.controller.js`, `market.maker.v2.controller.js` | a register (one JSON object in Redis), its copy in memory, `runningEvents` | runs of the scheduler, tasks, requests of the dashboard | trade handlers | the register is written as a whole by tasks and requests | no more is invested than the limit; one task per event |
| Market makers' orders: `marketmaking.controller.js` | keys per user and event, open orders, cache of the page | bulk and odds orders, cancellations, halts, the odds page | matching engine | shared keys, a wallet read once for a bulk, pay-offs summed over other lists than the page's | orders are covered; a cancellation is done when it says so; profits are the pay-offs |
| Trade: `events.controller.js` `putCall`, merges | wallet, shares, open calls, limits of private events | the checks before an order goes to the engine | request guard, matching engine | each check reads the database, the key is per event | orders keep to limits and to what there is |
| Prices: `events.controller.js`, `probe.controller.js`, `models/probe.v2.js` | two caches in Redis | trades delete, readers fill them | matching engine, replica | a lagging replica, deletions that come too early | quotes are the market's; no quote can be bought below its value |
| Fees, referrals, rewards | fee and referral rows | listings; their recovery is the cancellation's | settlement, cancellation | repeated recovery | each fee row used once |
| Sign-in: `user.controller.js`, `common.controller.js`, `otpless.controller.js` | codes, attempts, WhatsApp sessions, accounts | send, verify, sign up, webhooks | SMS and mail services, wallet | attempts counted on a replica, a lock on the wrong name | limits hold; one account and one bonus a person |
| Bank accounts: `user.controller.js` | rows, the gateway's beneficiary, a mark of equality | add, remove, approve, reject | gateway, withdrawals | three copies that no transaction joins, undeclared globals | the account shown is the one paid |
| Content, configuration, history, statistics, middleware, database set-up | derived data | reads, single-row writes | - | - | - |

The `components` list of `PROJECT.json` gives the same inventory file by file with
the status of each, `hazards` the places where each difficulty bites.

## 2. Modules

Each component has a specification and, where there are theorems, a `_proofs` module. Components
that share state are composed (`Tournament` over `PrizeTable`, `EventLifecycle` with the
contest's cancellation in it). Components that share no state and no actor
are checked side by side in one run: `MCMoney`, `MCTrading`, `MCAccounts`, `MCOperators` and `MCWallet` declare the variables of
all their components, and a behaviour is that of one, which `part` names, while the variables of the others
stay `None`. A property `X` of such a module says `part = "..." => X` of its component. The `_proofs`
modules follow the same division; each of their theorems about a property is a conjunction of two facts: the component's specification keeps
the component's property, and the composed one keeps the run's. The other components have an `MC` module of their own.

| Module | Models | State | Runs |
|---|---|---|---|
| `TradeOrWithdraw` | what the guard promises: trades, one per event, or one withdrawal | who trades on each event, who withdraws | refined in `request_guard` |
| `RequestGuard` | guard keys and locks of one user's trades, merges and withdrawals | handler positions, lock and key owners, orders at the engine | `request_guard`, `request_guard_live` |
| `Trade` | what `putCall` and the merges check, for one user's requests on several events | wallet, shares, open and matched orders per event, keys | `accounts` |
| `Prices` | the caches of one event's price and page, book or pool | the market, its replica, both caches, what each request has read | `accounts` |
| `WalletLedger` | one user's wallet rows | call positions, lock owner, rows (committed or not), id sequence | `wallet` |
| `EventLifecycle` | `update` of one event and the contest's cancellation of it | status, flag, lock, what each request read and has still to pay | `operators` |
| `Settlement` | one event's settlement, refund-only run and reset | rows per order, per-user tallies, ledger of credits and refunds | `money` |
| `EventCancel` | the six phases of `cancelEvent` | rows still listed per phase, transactions executed | `money` |
| `ContestUpdate` | updates and entries of one contest | status, flag, lock, listed users, prizes, refunds | `operators` |
| `PayoutProcessing` | the processing of one withdrawal | row, lock, key, transfers at the gateway | `wallet` |
| `Deposit` | eleven handlers of eight gateways, for one order | row, lock, position and stale row of each request, credits | `money`, `deposit_status` |
| `Withdrawal` | one user's withdrawals of a day through six handlers and the dashboard | rows, locks, cached status, the gateway's outcome, refunds | `money` |
| `Transfers` | conversions, partner transfers, refunds and bonuses over item-wise lists | wallets, orders, position of each request in its list | `money` |
| `MatchMaking` | register and tasks of the market making loops | register in Redis and in memory, tasks, what was spent | `accounts` |
| `MarketMaking` | a market maker's orders and cancellations on one event, and the cached page | keys, wallet, open orders, the engine's inbox | `trading` |
| `MakerPage` | the profits shown for trees of events | calls, parents, the page | `trading` |
| `Liquidity` | additions and removals of one event's providers | keys, shares, tokens, answers | `trading` |
| `SignIn` | one person's codes, sessions and sign-ups | rows of codes and their replica, locks, sessions, accounts | `accounts` |
| `BankDetails` | bank accounts of two users | rows and their replica, beneficiaries, marks, globals | `accounts` |
| `ClubEvent` | `updateClubEvent` for one club event | event row, bets, transactions, what each update read | `operators` |
| `PrizeTable` | the shares of the pool, by places, entries and rank | none (operators) | in `tournament` |
| `Tournament` | entry, completion and reset of one tournament, over `PrizeTable` | entries, counts, the global, transactions, wallets | `tournament` |

How they fit together. `EventLifecycle` shows that one update of an event runs at
a time; `Settlement` and `EventCancel` use that and detail what one such run
does (they are the `pay` and `refund` places of `EventLifecycle`, user by user).
`ContestUpdate` calls the cancellation as one step and `EventLifecycle` contains it as
the actor `ContestCancels`. `RequestGuard` leaves the matching engine's late answers
behind, which `Settlement` takes up as its `Late` orders. `RequestGuard` has the request key
of an entry to a tournament, as of every trade: `Tournament` takes from it that the requests of a
user with the key come one at a time. `Tournament` extends `PrizeTable`, whose
prizes it distributes. `RequestGuard` leaves out what a trade checks while it has its key;
`Trade` models that, and takes from `RequestGuard` that the keys keep requests on one event apart as long
as they are neither lost nor deleted by another (`lost`). `Withdrawal` begins where
`RequestGuard` ends and sends a row in one step, whose inside is `PayoutProcessing`. `Prices` follows
the deletions of the caches by the trades of all users of an event. All
payments end in wallet operations, `WalletLedger`'s subject; `ClubEvent`
leaves those of its transaction to that module.

Correspondence. Every action is one stretch of a handler between two points where
another process can act (an `await` on the database, Redis or a service); its guard is
the handler's condition, early return or loop, and a handler's local variables are
the per-process functions (`seen`, `list`, `base`, `listed`, ...). `map` in
`PROJECT.json` gives the source lines of every definition. Operators commented
`Mutant:` are not part of any specification: each is an action with a plausible
mistake in it (a guard dropped, a boundary moved), kept to show that the property it
is listed with would notice.

Abstractions, module by module.

* `RequestGuard`: a trade's validation, pricing and partner calls are one step;
  the user is an ordinary one (market makers and partners skip the guard).
* `WalletLedger`: amounts are small integers; `READ COMMITTED` visibility is
  explicit. Clearing the lock's `setTimeout` and logging are left out.
* `EventLifecycle`: `H` behaves as `A`; the fields an edit writes are left out.
* `Settlement`: fees, liquidity providers' shares, referral rows, notifications
  and the portfolio history are left out; amounts are two numbers per order,
  what it cost and what it returns.
* `EventCancel`: amounts are left out, a payment is counted, per user and kind.
* `ContestUpdate`: the events of the contest are one; the split of a bracket's
  prize among its winners is left out.
* `PayoutProcessing`: a batch is reduced to one withdrawal.
* `Deposit`: the handlers are data (a sequence of steps and the number of unlocks on each way out), interpreted
  by one action per kind of step. Coupon, invoice and the split among wallets are left out.
* `ClubEvent`: one bet per user; an amount is the pool of bets it was computed from. Fee and
  commission are left out: they follow the winnings.
* `PrizeTable`: money is in units of 1/100000 of the pool, so that every share is a whole number;
  `toFixed(2)` is left out. A test of the text of the `switch` is no part of the project; `Cut` states
  how its lists depend on the number of entries, the exceptions included.
* `Tournament`: one server process, one tournament (others appear as `ReadOtherCount`, which overwrites the
  global); the ranks of all rows are one step, as nothing reads them in between;
  the flag of `EventLifecycle` keeps completions and resets apart and is external. `putCall` lets `Y`, `N`
  and `0` through as a call value, and the completion compares `parseFloat`s: two values, ranked
  with the group of the first row in front.
* `Trade`: a call costs its amount, a share is worth a coin, and merges find enough shares of the other side.
* `Prices`: prices are whole numbers below 100; what the pool's mathematics (external) tell is any such price.
* `Transfers`: one unit per receiver; whether the database function refuses a debit beyond the balance is
  not known from the repository, and both are explored.
* `Withdrawal`: amounts are left out; whether `cancelRedeemRequest` (external) passes over rows cancelled
  already is not known, and both are explored.
* `MatchMaking`: every order costs one unit; which orders the ladder asks for is left open.
* `MarketMaking`, `Liquidity`: the engine answers each message once, in any order, or not at all.
* `MakerPage`: the page is a function of the calls listed; three events in two trees.
* `SignIn`: a code is the request that caused it; the day's end is an action (`Tick`).
* `BankDetails`: two accounts per user; KYC is a status.

## 3. Runs

| Run | Question | Answer |
|---|---|---|
| `request_guard` | Do the two polling loops exclude trades and withdrawals? | Yes, while both own their keys and the trade is not of the fantasy domain, whose keys a withdrawal does not look for: then every step is one of `TradeOrWithdraw`. Test and set of a key is atomic towards `putCall`; one withdrawal at a time until a key expires. |
| `request_guard_live` | Can a request wait for ever? | A trade and a withdrawal do wait for each other, and the matching engine may never answer, but the keys' TTLs end every wait. |
| `wallet` | Is the balance the sum of all operations? | Yes unless an unlock released another call's lock or a row was read past an uncommitted one; both happen. The bonus is never minted. |
| | Can a withdrawal be paid twice or after its cancellation? | Only after a key expired under a handler, a retry that asked too early, or a cancellation between attempts. |
| `operators` | Is one update in process at a time, and can a user be both credited and refunded? | One at a time; both only for users credited before the cancellation began or when a contest's cancellation met an update. |
| | What does the missing guard of contests leave? | A cancelled contest has refunded its entries; prizes follow closed events; double payments go back to overlaps or interrupted runs. |
| | Do bets, transactions and status agree over settlements, cancellations and resets? | Yes, unless two updates overlapped or one ended between its first write and its commit; late bets are named too. |
| `money` | Deposits: which gateways credit at most once, whatever comes? | Those whose handlers record the payment with a condition on the row, or test the row under a lock that no other call frees or that does not expire under them. A recorded deposit without a credit goes back to a request that stopped in between. |
| | Transfers: are coins conserved, and is a day's limit kept? | Unless requests overlapped between check and list, a list broke off, or an order was confirmed again. |
| | Withdrawals: what do late and repeated callbacks do? | They do not refund what was paid; a failed withdrawal is refunded once if `cancelRedeemRequest` passes over cancelled rows; the lock stays behind after a cancellation (it is not released on that way out). |
| | Settlement: are winnings and refunds paid exactly once over crashes, repetitions, resets and late orders? | Winnings: yes, except for the five named circumstances (one of them an order that is matched after a run that broke off had paid its user). Refunds: never twice; lost when a run crashes while paying. |
| | Cancellation: what is repeated, lost, complete? | Trades are refunded at most once, and a `CAN` event has been through all phases. |
| `trading` | Are the profits shown to a market maker the pay-offs? | Yes, provided the page lists the event's siblings and its parent. |
| | Are a maker's orders covered, and is a cancellation complete when it answers? | Covered unless a bulk has several orders or meets another; complete unless there were several orders or the key was lost. |
| | Liquidity: is an answer one's own, and is nothing removed beyond one's shares? | Unless two requests of a user met; a refused request can cause that. |
| `accounts` | Trades: do orders keep to the limits and to what was there? | On one event yes, as long as its key does its work; over two events nothing does. The amount limit holds where price times number is what an order spends. |
| | Prices: is a quote the market's own? | Unless a cache was filled from a lagging replica or by overlapping trades. Quotes never sell both sides below their value. |
| | Sign-in: do attempts, codes, accounts and bonuses keep to one? | But for the lagging replica, lapsed locks, the two names of one person and the two rows that overlapping requests leave. |
| | Bank accounts: is the one shown the one paid? | Unless a request broke off, an answer was lost, or requests overlapped, those of other users included (the undeclared globals). |
| | Market making loops: is the limit kept with one task per event? | But for lost updates of the register, lost answers, and a second task after a pause. |
| `deposit_status` | Does the poll of a gateway's status register a payment twice? | Yes: finding 5. |
| `tournament` | How can a tournament be overbooked? Do entries, ranks, returns, transactions and wallets agree over completions, edits, resets, late entries and breaks?| Overbooked only by two requests past the check at once or by the global. The rest agrees but for rows with returns of an earlier completion, an ignored error, or a pair of writes that was broken; a late entry is not ranked and not paid.|

The runs check the properties that say most; several are conjunctions of named parts (`OrdersHold`, `QuotesHold`,
`TransfersHold`, `RefundedWhenDue`, ...), each stated and commented in its module. The modules state more, which hold on the
same instances and can be added to the runs: `TypeOK`, `CancelledNotSettled`,
`OneProcessor`, `CompletedHasTransfer` and `PaidOneWay` of `ContestUpdate` (these four proved, section 5), `PaidOneWay` of `ClubEvent`.

### Bounds

* `RequestGuard`: 2 trades, 1 merge, 3 withdrawals, 2 events (one fantasy). Two of a kind show a
  duplicate; a third withdrawal shows what the refusal of the second does to the first. The liveness run
  has 2 trades, 1 merge, 1 withdrawal on 1 event (no symmetry).
* `WalletLedger`: 3 updates and a settlement with 2 operations: a stolen lock needs two calls and
  a third to take it. The first row has coins, bonus and locked bonus, so that all branches of `NewRow` occur.
* `Settlement`: 2 users and 4 orders, one of each fate (matched, unmatched, for sale, late), one user's both on the same side; three runs (`Settlements`, the module's `MaxRuns`) let a
  run crash, be repeated, and the event be settled again.
* `EventCancel`: 2 users, four runs (`Cancellations`): three crashed runs and one that ends.
* `Transfers`: 3 requests of each of three mixes of handlers that meet on the same wallets, with balances of one or two
  units: enough for one request and short for two.
* `Withdrawal`: 3 requests, 2 rows: a callback, its repetition and a request or the dashboard between them.
* `MarketMaking`, `Liquidity`: 3 requests (at most two of them bulks, of at most two orders): two that overlap and the one
  whose key is deleted. `MakerPage`: 3 events in two trees, 2 calls of one or two contracts at a price (`Events`, `Trees`, `MaxCalls`, `Numbers`,
  `Prices`); the sums of more calls are the proof's (`PayoffSum`).
* `Trade`: 2 requests on 2 events (`Pair`), a wallet (`Funds`) and limits (`PrivateLimit`, `RetentionLimit`, `MaxTradeAmount`) that
  bear one of them. `Prices`: 2 requests, any book of three orders (`BookOrders`).
* `SignIn`: 2 requests and a code sent before; `BankDetails`: 2 requests of 2 users; `MatchMaking`: 1 event,
  2 requests beside a scheduler and its tasks, at most 2 units spent.
* `EventLifecycle`: 2 users, 3 updates, 1 contest cancellation: two that overlap and one that comes after.
* `PayoutProcessing`: 3 handlers: an attempt, a retry and an overlapping batch.
* `Deposit`: 3 requests in every mix of the order's handlers: two that overlap and one that comes after.
* `ClubEvent`: 2 users, 2 options, 3 updates: settle, reset, settle again; or two that overlap and a successor.
* `Tournament`: 3 requests of 2 users for 1 place (so that it can be overbooked) or 3 (so that ranks and
  prizes differ and the ranking can reorder rows); completions, failures and counts for other
  tournaments are at most 2 together: two completions with a reset between, or one that fails. The two
  call values and a user's requests are interchangeable.
* `ContestUpdate`: 2 users, 3 updates, 2 brackets: overlap, interruption between the brackets, and a successor.

Requests, handlers and users that the code treats alike are symmetric; no symmetry
is used for liveness. Requests are finite and a system in which all have ended may
stop, so the configurations do not check deadlock: a request that waits for ever is what
`EveryRequestEnds` is for.

### Fairness

Only `RequestGuard` has a liveness property. `FairSpec` assumes that a handler that has
begun keeps running (weak fairness of its steps: the event loop) and that Redis
expires what has a TTL. Requests need not arrive and the matching engine need not
answer: an order may be lost.

## 4. Findings

Each quotes a message, comment or name of the program that the model contradicts. 5 is a run of its own
(`deposit_status`). The formula in brackets, put as the `INVARIANT` of the component's configuration, leads to the counterexample
of the others (in a composed module it is stated of its component, `part = "contest" => K!...`); where a history variable
is named, the checked properties hold wherever it is false.

1. `putCall` refuses a duplicate with 423 from inside its `try`, and its `finally`
   (`events.controller.js:1058`) deletes the key the first request has set.
   A third request runs beside the first (`OneTradeAtATime` of `RequestGuard`).
2. `update` of a probe leaves the field `PROBES_UPDATE` set when it throws
   (the deletion is commented out, `probe.controller.js:1355`) and on three early returns:
   every later update is refused as "already in process" (`RefusedOnlyInProcess` of `EventLifecycle`).
3. `update` of a contest deletes the flag `CONTEST_UPDATE` one line before it reads it
   (`contest.controller.js:457`): the refusal is unreachable (`~overlap` of `ContestUpdate`).
4. `enterContest` refuses closed contests by `status = 'C'` only; a cancelled contest can
   be entered, and the fee is not refunded (`late = {}` of `ContestUpdate`).
5. `getStatusAndAddToTxns` reads the payment's row before it takes the lock and tests that
   row (`payments.controller.js:241`, `255`): two overlapping polls credit the deposit twice
   (`RegisteredOnce` of `Deposit`).
6. `updateClubEvent` reads the status without a lock and outside its transaction
   (`club.events.controller.js:231`): two settlements pay the winners twice (`CompletedOnce` of `ClubEvent`).
7. `putCall` counts a tournament's entries and `handleTournamentPutCall` inserts one later, with no lock between
   users (`events.controller.js:741`, `67`): it can be overbooked (`NotOverbooked` of `Tournament`); with one or two
   places the prize table then has no case and nobody is paid.
8. The count is kept in `participationCount`, which is not declared and so belongs to the whole process
   (`events.controller.js:737`): a request for another tournament replaces it before it is
   compared (`AloneNotOverbooked`).
9. An entry is stored under an order id of its own (`events.controller.js:64`) and looked up by another
   (`450`, `881`): a user whose entry stands and is paid for is told that there was no position
   (`AnswerIsTrue`).
10. A reset clears the rank of an entry only for the type `Bet` (`probe.controller.js:3616`) and never its
    returns, and a completion adds up the returns of all rows (`1295`): after a reset, former winners
    are paid again, beyond the pool (`ResetPaysPool`).
11. The key of a trade is per event, the wallet and the number of private events are not: two orders of one user on two events
    pass on the same money and on the same last private event (`events.controller.js:601`, `together` of `Trade`).
12. `max_trade_amount` is compared with `coins * noofcontracts` (`events.controller.js:285`), which is not what a market order
    spends (`unclear` of `Trade`).
13. `putCall` deletes the caches before its order is matched (`events.controller.js:749`), and readers fill them from a replica: an
    outdated page stays for an hour (`stale` of `Prices`).
14. `convertToDeposit` counts the day's conversions and then converts; "Only 1 request allowed per day"
    (`luckycoins.controller.js:73`) does not hold for two requests at once (`counted` of `Transfers`).
15. The callback that cancels a withdrawal returns without releasing its lock (`payments.controller.js:784`, `left` of `Withdrawal`).
16. `bankDeets` and `detailsToDelete` are undeclared (`user.controller.js:1129`): a removal may act on
    another user's list (`odd` of `BankDetails`).
17. A refused request deletes the key of the one that runs, in `Liquidity` (`liquidity.provider.controller.js:147`) and in
    bulk orders (`marketmaking.controller.js:608`), as `putCall` does (1).
18. The register of the market making loops is written as a whole by tasks and requests from copies read before an `await`
    (`market.make.controller.js:349`): numbers counted meanwhile are lost and the limit is exceeded (`MatchMaking`).
19. `addToTemp` deletes a person's row and inserts the new one in two statements (`models/user.js:1248`): two requests to send
    a code that overlap leave two rows, `updateTemp` writes the attempts of the one read to both, and a code is compared
    once more than the limit (`twoRows` of `SignIn`; it takes more requests than `accounts` has).

## 5. Proofs

The `_proofs` modules hold the theorems; they assume only the named `ASSUME`s of the modules, so
they hold for any number of users, requests, events, orders, operations and brackets. Each follows
one pattern: an inductive invariant, a lemma for its initial states, a lemma with one step per
action, and a temporal step. What has to be added to the property, and why:

* `RequestGuard`. `ExclusionHolds` needs only types, since the guards of both loops read the other's key in
  the step that passes it. `AdmissionHolds` needs `LockCovers` (who is between test and set holds
  the domain's lock, which expires only under a request that is gone). `OneWithdrawalHolds` needs
  `RedeemKeyHeld` (an active withdrawal owns the key while none has expired).
  `GuardImplements` is the refinement of `TradeOrWithdraw`: a trade of the abstract specification is under way on an event while its
  request is past its wait and owns the event's key, and so is a withdrawal. Two lemmas map the steps that end one
  (`TradeEnds`, `WithdrawalEnds`: a key that is deleted, lapses, or changes hands before the wait), two the
  steps that start one (`TradeStarts`, `WithdrawalStarts`: nobody else owns a key that could be in the way), and the theorem has a
  step per action. Types suffice as the invariant.
* `WalletLedger`. `BonusHolds` rests on `NewRowBounded`, a lemma on the arithmetic of `NewRow`
  (bonus plus locked bonus never grows), and on the invariant that every row a call has read obeys the bound,
  committed or not. `BalanceHolds` needs `RowsInv` (how ids, transactions and pending coins keep to each other) and
  `Serial`: while no lock was stolen and no row read past an uncommitted one, one call at a time writes, from the
  latest row.
* `EventLifecycle`. `OneUpdateHolds` needs `FlagGuard` (between test and set the lock is held and the flag unset).
  `PaidOneWayHolds` and `CancelledHolds` need who is on which route (`Route`), that credited and
  refunded users lie apart while either route runs (`Apart`, `OneWayInv`), and that what a request has read is still the
  status (`StatusKnown`): stale otherwise. `CompletePaidHolds` needs that a settling request's
  list holds all that is not yet credited (`SettleInv`).
* `PayoutProcessing`. `KeyIsOwned` gives one processor; `AttemptIsRecorded` (every transfer the gateway may
  still pay is the one in the row) gives `RecordedHolds` and `PaidOnceHolds`; `CancelledInTime` and `Completion` the others.
* `ContestUpdate`. `RefundsTraced` follows a cancelling update from its list to its write; `EventsTraced` says an
  update that pays has seen the events closed. `PaidOnceHolds`, `PaidOneWayHolds` and the action property `ClosedHolds`
  need that the status an update has read is still the contest's while none overlaps (`StatusKnown`), and that only the
  update that made them knows of payments the status does not show yet (`PaymentsTraced`).
* `Deposit`. The handlers are data, so the first lemmas say what the eleven sequences of steps have in
  common (`HandlersWellFormed`, `HandlerLength`). Then: the row is written by who has recorded the payment, with his payment id
  (`RecorderInv`); who has recorded has credited, is about to, or was cut off (`OwesInv`, which gives `RecordedHolds`); only he
  credits (`CreditInv`); and of `cashfree`, who is past the lock and before his last unlock holds it (`LockInv`). The
  last two and the condition of the update give `CreditedOnceHolds`.
* `Withdrawal`. What a request has not learnt it does not act on (`FreshInv`); a lock is held by a callback on its
  way to the answer or was left (`OwnerInv`, which is `LockReleasedHolds`); who has heard of a failure is right
  (`FailedInv`), and a refunded row is cancelled until a callback completes it (`OnceInv`): `RefundedWhenDueHolds`.
* `EventCancel`. What the query of the trade phase returns is not refunded yet and what was refunded is not
  returned, but for the marks that failed (`MarksInv`): nobody is paid twice. The trade phase leaves nobody behind
  (`TradesInv`), a later phase that is over has paid its list (`ListsInv`), and the users lost are at
  most as many as runs broke off in the first phase (`LostInv`): `RefundsCompleteHolds`.
* `Settlement`. What a run has read is what it copies and deletes, but for the orders the engine moved (`OpenInv`); an order
  counts once (`CallsInv`); what a user got back and what the run under way owes him lies between the cost of his unmatched
  and of his closed orders (`BackInv`, which is `RefundedExactlyHolds`); the run computes what his orders
  won, and who has been paid has got that (`WonInv`, for `WinningsPaidExactlyHolds`). The proof of `WonInv` did not
  go through at first, for a good reason: after a run that broke off had paid a user, the
  engine may match another order of his, which the repeated run, finding the user's transaction,
  does not pay. The instance had hidden it, because that user's orders were on different sides. The
  property now names this circumstance, and the instance contains it.
* `Transfers`. The handlers are data here too: `TransferHandlers` says, handler by handler, what their steps and items have in
  common. The sum of wallets, partner and confirmed orders is at all times what it was and the effects of every
  request so far, each a function of its steps and items (`SumInv`); where a request can be with its items (`ShapeInv`) gives
  that one that is not midway has done exactly what it brings, and one that broke off without a record too (`EvenInv`). Who is
  past the count has counted nothing (`CountInv`), and orders that are confirmed or debited have a row (`OrdersInv`):
  `TransfersHoldTogether`.
* `Tournament`. The pool is not exceeded for any number of places and entries (`PaidWithinPool`, of `PrizeTable`), by a case per
  tier (`TierWithin`, `CutWithin`): a tier's shares times the widths of its brackets add up to at most the
  pool, and of a bracket at most its width is filled (`WidthBound`, `Product`). The same case split shows that no tier rises, and
  a better rank's bracket is not a later one: `BetterRankNoLess`. `PoolSafe` carries that over to every
  state. `OverbookedHolds` needs that one entry at a time is between count and row unless two met (`OneChecksInv`).
  `WalletHolds` needs only the amounts' types (`AmountsInv`): each pair of writes is balanced or named. `PaidHolds`
  needs that while prizes are marked and paid the rows held are the first of the table, each with one rank (`RanksInv`), that
  what is due is what the rows say (`DueInv`), and that ranks marked have their prizes (`PrizesInv`), whose
  sum over the rows is at most the pool (`TallyWithin`).
* `Sums` has the lemmas on sums over finite sets that settlements and tournaments need: a term taken out, a
  union, a comparison, a renaming, a sum by classes. The library's induction theorems take the property as an operator, which
  the provers cannot instantiate; `FiniteInduction` takes it as a set, and is proved from the least element of a set of
  cardinalities.

* `ClubEvent`. What makes `SettledOnce` and `BetsAllComeBack` provable is to say what the books of an event are, its transactions
  as its row stands: those committed and those of an update that has written its status and not committed yet. While updates are under way one at a time and
  none broke off between its writes (`Quiet`), the row tells which winnings the books show (`BooksMatch`), the position of the update under
  way which bets it has closed or opened again (`BetsMatch`), and its list is what its writes call for (`ListMatches`).
* `Trade`. What a check has read holds until the engine takes the order, because nothing else is at work on the event (`OneAtWork`): the key is
  the request's or its loss is on record. Requests at work on two events know of each other (`KnownTogether`). While there were none,
  the number of private events and the money stay what the check has read.
* `Prices`. What is cached and not current is about to be deleted or is on record (`PendingIsStale`, `PageIsDeleted`).
* `SignIn`. Under the lock one verification at a time counts: what the row says of the attempts is how often the code was
  compared. The first attempt at `CodeSafe` failed for a good reason, which the two requests of the instance are too few to
  show: two overlapping requests to send leave two rows, and the count of the one read replaces that of both. The
  property now names it (finding 19).
* `BankDetails`. Between the gateway's answer and the table's row a request knows which account the user has (`Between`,
  `Knows`), and there is one such request.
* `MatchMaking`. The register, its copy in memory and the copies the tasks hold agree on what was invested (`InStep`), or
  the difference is on record; one task per event follows from how copies and running events go together (`OneTask`).
* `MarketMaking`. A bulk of one order that met no other is covered because between its check and its order there is no
  other one, and the wallet has its coin all the while (`BulksAreCovered`). A cancellation waits for its own order because the key is the request's until the
  engine has taken the message, or its loss is on record (`CancelsAreWaitedFor`).
* `Liquidity`. While nothing of a user is on record (`Undisturbed`), one request of his is at work, the key is its own until the
  engine has left its answer, and the shares it asks for are his (`UserKept`); what is left in the pool is a sum over all users, which at
  most one removal on its way brings down (`PoolKept`).
* `MakerPage`. Nothing that a page is made of changes after it was asked for (`PageInv`), so the theorem is an identity between
  sums: what a set of calls pays is the value of those that win less what was paid (`PayoffSum`, by induction over the calls).
  The calls of a row are those of the family (`ChildIsPayoff`, `StandaloneIsPayoff`). It is here that a tree needs
  `PageAssumption`: a parent has no parent.

What is assumed of the constants: in `MCMoney`, that `None` is no request and no value of a row
(`MoneyAssumption`), that orders are finitely many, each with a user, a side, a cost and a return in `Nat`, and no order is of two of
the fates matched, for sale, late (`SettlementAssumption`), and the types of the cancellation's lists (`CancelAssumption`), and that the requests on the wallets are finitely many, with integer
balances (`TransfersAssumption`);
in `Tournament`, that users are numbers (the completion takes them in some order) and entries are finitely many
(`TournamentAssumption`); in `MCOperators`, that the two kinds of requests differ, at least one bracket is paid
(`OperatorsAssumption`) and `None` is no value of a club event's row (`ClubEventAssumption`); in `MCWallet`, that an update has one
operation, a settlement one or more, and the first row holds numbers (`LedgerAssumption`, `PayoutAssumption`); in `MCAccounts`, that limits are
numbers, a pair of events is finite, orders of a book have prices below a contract's value, and `None` is nobody and no row
(`TradeAssumption`, `PricesAssumption`, `SignInAssumption`, `BankAssumption`, `MatchMakingAssumption`); in `MCTrading`, that ids are
positive, prices and numbers natural, and the parent of an event has none itself (`PageAssumption`), that a bulk and its coins
are numbers (`MarketAssumption`), and that providers are finitely many, and at least one, with shares (`LiquidityAssumption`).
The code justifies them: they are keys and columns of tables.

A theorem about a property of a composed run is about the composed `Spec` too, each of whose behaviours is one
component's: `DepositIsPart`, `TradeIsPart` and their like carry a component's invariant over.

| Module | Theorems |
|---|---|
| `RequestGuard_proofs` | `TypeCorrect`, `ExclusionHolds`, `AdmissionHolds`, `OneWithdrawalHolds`, `GuardImplements` |
| `Wallet_proofs` | `LedgerTyped`, `BonusHolds`, `BalanceHolds`; `PayoutTyped`, `OneProcessorHolds`, `CompletedHolds`, `CancelledHolds`, `RecordedHolds`, `PaidOnceHolds` |
| `Operators_proofs` | `EventTyped`, `OneUpdateHolds`, `CompletePaidHolds`, `PaidOneWayHolds`, `CancelledNotSettledHolds`; `ContestTyped`, `CancelledHolds`, `PrizesHold`, `PaidOnceHolds`, `ContestPaidOneWay`, `ClosedHolds`; `ClubEventTyped`, `SettledOnce`, `BetsAllComeBack` |
| `Money_proofs` | `DepositTyped`, `CreditedOnceHolds`, `RecordedHolds`; `WithdrawalTyped`, `RefundedWhenDueHolds`, `LockReleasedHolds`; `CancelTyped`, `RefundsCompleteHolds`; `SettlementTyped`, `WinningsPaidExactlyHolds`, `RefundedExactlyHolds`; `TransferTyped`, `TransfersHoldTogether` |
| `Tournament_proofs` | `PaidWithinPool`, `BetterRankNoLess`, `PoolSafe`, `OverbookedHolds`, `WalletHolds`, `PaidHolds` |
| `Accounts_proofs` | `OrdersAllHold`; `QuotesAreHeld`, `PricesTypeCorrect`; `SignedUpHolds`, `CodeSafe`, `SignInTypeCorrect`; `DetailsHold`, `BankTypeCorrect`; `InvestmentHolds`, `MakingTypeCorrect` |
| `Trading_proofs` | `ProfitHolds`; `MakerOrdersHold`, `MarketTypeCorrect`; `LiquidityHolds` |

Every safety and action property of a passing run is stated by a theorem. Model-checked only: `EveryRequestEnds` (liveness and
`ENABLED` are beyond TLAPS) and the counterexample of `deposit_status`. That a better rank is paid no less
(`BetterRankNoLess`) is proved and not run: it is about `PrizeTable` alone, for all numbers. The type invariants are proved
too (those of `Liquidity` and `MakerPage` as the lemmas `LiquidityTypesKept` and `PageTypesKept`), but for `Tournament`'s, of which the
proofs use `Counts` and `AmountsInv`, and `Trade`'s, of which
`TradeTyped` leaves out the histories and the sign of `bought`.
No module declares a `RECURSIVE` operator, which the prover cannot use either.

## 6. Not modelled

See the notes in `PROJECT.json`. Listings, reports (`history`, `populateHistory`, statistics, search), content and configuration are
reads or writes of single rows that no guard depends on. Rewards, coupons, KYC documents and several gateways delegate to
services outside the repository, as do the matching engine and the price of a pool: they appear only through what
the code here sees of them. The price ladders of the market making loops and the texts of notifications and invoices are
data that no property tells apart. Middleware filters one request each; the rate limiter has no `await` between its test and its change.
The creation of events and contests inserts rows that nothing else knows yet.

## 7. Plan

Done, in this order: `RequestGuard`, `WalletLedger`, `EventLifecycle`, `Settlement`, `EventCancel`,
`PayoutProcessing`, `ContestUpdate`, `Deposit`, `ClubEvent`, `PrizeTable`, `Tournament`, `Withdrawal`, `Transfers`, `Liquidity`,
`MarketMaking`, `MakerPage`, `MatchMaking`, `SignIn`, `BankDetails`, `Prices`, `Trade`, `TradeOrWithdraw`.
What is left of the state-changing code: coupons and the creation of payment orders, bulk uploads and approvals of events, the odds of
club events, the profile and preferences of users.

To prove next: that `MarketMaking`'s cached page is outdated only where `stale` says so, and an abstract wallet that `WalletLedger` implements.
