# Arrissa entry station: a verification project

The program is a trading server: one FastAPI process (`backend/main.py`), a
PostgreSQL database, a React front end, and background threads that keep
promises to users while nobody is looking. They place orders at a set time,
run analysis agents on a schedule or when something happens, meter credits, sell
and check licences, and load and update modules. What it computes is ordinary;
what is hard is that requests, threads, other server processes and restarts
change the same rows at once, and that a trade's numbers are worked out in
several places. That is what the modules here are about.

## Contents

1. Inventory: the parts, their state, their operations
2. What is modelled, module by module
3. Runs, bounds, and what they show
4. Fairness
5. What is proved
6. Findings, and what the exceptions say
7. Plan
8. Not modelled

## 1. Inventory

The process starts its threads in `main._startup`: module workers, the
auto-updater, data triggers, market alerts, the two scheduler threads, the daily
scan, the watch list and the agent schedule. Requests run on a thread pool. Every
database access opens a connection of its own (`db.connect`), at PostgreSQL's
default isolation level, READ COMMITTED. So a function that opens two
connections is two transactions, and one that reads and then writes sees other
sessions' commits in between.

| Part | State | Operations | What is hard | What makes it correct |
|---|---|---|---|---|
| Scheduled work (`trading_api`, `agent._schedule_action`) | rows of `scheduled_orders`, `scheduled_actions`; a batch and a claimed row per thread | schedule, cancel, select, claim, execute, settle | several processes, cancellation against execution, a death between claim and settle, a lost answer and a second request | one call per promise, asked again only for want of an answer; never after a cancellation, never early; only faults strand a row |
| Auto-updater (`auto_update`, `main._count_inflight`) | in-flight counter, time of the last request | count, download, wait for idle, exit | work the counter does not see | nothing in hand is cut off |
| Billing (`billing`, `main`, `admin_api`, `store_api`) | `user_billing` row, `credit_ledger`, `billing_transactions` | checkout, verify, apply, renew, comp, cancel, adjust, charge, debit | overlapping transactions, webhooks twice or late, stale answers of Paystack | a reference applied once; allowances never add up; a cancellation stays |
| Analysis cache (`analysis_cache`, `analysis_api.analysis`) | registry of entries; payload, cost, flags and an event in each | acquire, wait, finish, fail, prune | fields written without the lock, slow and dead leaders, failed ones, time-outs | only whole answers are shared; a question is run twice at once only for a reason; nobody waits for ever |
| Analysis jobs (`analysis_api`, the test run in `main`) | `_JOBS` | start, work, sweep, collect, call, stream | the sweep against a running worker | an answer reaches the one who asked, and only them; a share is paid for what was served |
| Agent schedule (`agent_schedule`) | the schedule in the flow; `spec`, `last_run_at`, `next_run_at` in the row | edit, tick, anchor, skip, run, finish | the flow changes between ticks and during a run; crashes; an end the database does not take; long runs | once per minute, an interval apart, edits take effect |
| Data triggers (`data_triggers`) | `agent_trigger_seen`, `last_data_fire` | look, mark seen, fire | marked before it is fired, cooldown, windows against slow passes | never twice on one item, or on one combination; nothing lost silently |
| Licence store (`store`, `store_api`) | `store_licences`, binds, purchases, claims | issue, grant, bind, claim, renew, revoke | check-then-act across transactions, dated on top of perpetual | one key per instance, moves are limited, time moves outward |
| Modules (`modules`, `registry`, `module_installer`, `catalog`, `auto_update`) | directories, `modules` table, the registry's tables, loaded set, the catalogue's cache, the key, the challenge | install, load, enable, disable, forget, seed, claim, update | dependency order, no lock, loads over what is loaded, a crash in the middle of a replace, claims that overlap | off means off; a module on disk stays; the page shows what is owned |
| Market alerts (`market_alerts`) | `market_alerts`, the client's watermark, the bell | emit, since, seen, dismiss | watermark against commit order | none missed, none hidden |
| Watch list, daily scan (`watchlist`, `daily_scan`) | one row per slot or day, the build lock | build, force, save, catch up | slow and failed builds, the forced one | one list per slot; what is picked is what the rules pick |
| Accounts (`brokers`, `user_session`, `main`, the brokers' modules) | what is owned, what is chosen, the active account, the `_traders` | choose, drop, connect, disconnect, bind | checks and writes apart | no request acts on an account the user withdrew |
| Sign-up (`main`) | sign-ups, users, codes, settings | ask, enter, complete, invite, suspend | two completions, settings changed between steps | one user where there is to be one; by the last code only |
| Broker adapter (`broker_base`, `modules/tradelocker`) | positions and orders at the broker, tokens in the row and in each adapter | order, close, break even, lock, modify, in bulk; refresh, retry; poll | lists read once, refusals, lost answers, stale tokens | what is reported happened; an order is carried out once |
| Live pages (`main.ws_positions`, `ws_ticks`) | one poller per account | open, leave, poll | a second tab, a poller in a call | the newest page is served, no poller is left behind |
| Profit monitor (`trading_api._Monitor`) | one object, one thread | start, stop, status, close | check-then-act on shared state | running means running, stop stops it |
| Chat (`main.agent_chat`, `agent`) | credits, memory, the turn | gate, round, tool, meter, charge | tools in a pool, a browser that leaves | what was burned is paid for; what was promised is remembered |
| Flow runs (`analysis_agent`) | queue, visits, the 5-second cache | walk, branch, octo, call | cycles, recursion, octos below octos, edits meanwhile | the run is the drawing's, within the limits |
| Model keys (`ai_keys`, `connections`) | connections, old columns, policy, picks | connect, switch, pick, list, resolve, price | several places and times answer one question | who runs and who prices agree |
| Telegram, calendar, news (`modules/*`) | cursor, history; rows; the threads | poll, answer, charge; list, burst, save | crash between cursor and answer, a cursor that cannot be read; a listing that lags | answered once and charged; kept soon and for good |
| Market reads (`market`) | marks of refused accounts | read, mark, wipe | marks shared by all reads | a read that can be served is served |
| Computations (`broker_base`, `trading_api`, `risk_gate`, `analysis_agent`, `pretend_time`, `market_hours`, `agent_schedule`, `artificial_sentiment`, `telegram`) | none | sizes, levels, stops, calculators; signals; clocks; footprints; text cut in pieces | wrap-around, nesting, boundaries, one idea coded several times | agreement with a reference definition, or with each other |

Interactions: scheduled work and agent runs call the broker and the analysis
engine under `user_session.as_user`; agent runs, the analysis API and chat debit
through `billing`; the auto-updater ends the process all the others run in;
`store_api`'s webhook calls `billing.renew_subscription`; data triggers and
market alerts read providers that modules put into the registry; the watch list
reads the market through any account that serves it.

## 2. What is modelled

### ScheduledWork, OneShot

`ScheduledWork` is the pair of polling threads of each server process. `status`
and `runAt` are columns; `pc`, `batch` and `job` are a thread's position in
`_scheduler_loop` or `_actions_loop`, the two being the same loop over two tables
(`TableOf`). The loop's three transactions are three steps: `SelectDue`, `Claim`
(or `ClaimLost`), `Settle`, with the broker call `Execute` in between. A call is
up to `Attempts` requests, one per `Execute`: TradeLocker's session sends a
request again when its answer is lost or a server error, orders too
(`api.py:197-214`). `Answered`, `Refused` and `Unanswered` are what may become of
one; `tries` counts those of the call under way, `sent` those the broker took, and
`unheard` remembers that the answer to one it took was lost. An action writes
several things and reports on them; `Reported` is its end whatever came of the one
that is followed. `DatabaseError` is the outer `except`, at either of the two
updates, with the transaction committed or not; `Restart` kills a process. Rows
with the same `run_at` are taken in any order; a batch is the earliest `Limit`
rows.

`OneShot` is the abstract specification: the life of a promise without threads,
batches, processes or faults. A promise is fired by one call; only for want of an
answer, and before it is kept or broken, is it fired again. `KeepsPromises` states
that ScheduledWork implements it under `phase <- status, fired <- sent`.

Left out: which symbol, account and broker a row names; the two ways
`_compute_run_at` arrives at a time (`Schedule` takes any time, past ones too).

### Instance

Adds to ScheduledWork the middleware's counter (`RequestBegins`,
`RequestEnds`), the quiet period, and `apply_when_idle`: `SeesIdle` and `Exit`
are two steps, as `_idle()` and `os._exit` are. `Exit` is `Restart` of the
updating process.

### Billing

One user. A session is one request's transaction; its steps are the statements
whose result the code keeps (`at`, `arg`, `delta`), and the last write together
with the commit. `lock` is PostgreSQL's lock on the `user_billing` row, held from
the UPDATE or upsert to the commit. The balance is `bal`, the sum of the ledger.
`Verify` takes Paystack's answer at one moment and uses it later. The renewal
webhook may come at any time and any number of times. `CompGrant`/`Comp` are
`admin_api.set_plan`, `AdjustCredits` its neighbour. `RunBegins` and `Debit` are
the gate before a metered run and the debit after it. `applied` and `extra` are
history variables: how often a reference was applied, and what was granted
besides an allowance (top-ups, adjustments, debts written off by `cancel`).

Left out: `renews_at` and the interval, the Paystack identifiers, the other
users. `_ensure_row` is the initial state.

### AnalysisCache

Callers with questions (`KeyOf` stands for `key_for`). `acquire` runs under
`_lock` and is one action per outcome; `finish` and `fail` hold no lock, and each
of their assignments is an action, in the code's order. `settings()` may answer
differently at each call: `Windows` holds the window lengths, 0 meaning that
sharing is off. `acquire` reads the clock just before it takes the lock; the model
takes both at once. A leader may take any time, or never come back. A waiter whose
leader failed or took too long runs the analysis itself, alone, as do the others
that waited with it. Entries are named by the caller that created them.

### AgentSchedule

`flow` is the schedule the owner's flow states (an interval, a cron expression
as a set of minutes, or none: no node, invalid, or an agent that is not active);
`spec`, `lastRun` and `nextRun` are the row. `Look` is `_due_agents` with its
arming (`Arm`) and the cut to MAX_PER_TICK, in any order; `queue` holds the snapshots
the tick works from. An attempt is skipped (`Skip`), fails before the run
without `_finish` (`Raise`), or runs (`BeginRun`, `EndRun`). A skip and a run end
with `Finish`: the row is written (`Write`), or the database refuses, the tick's
`except` swallows it and the row keeps its old next run. `LookFails` is a tick whose
transactions fail, with or without the arming. `Crash` ends the
process and starts it again after `BOOT_DELAY_S`. `MaxFaults` bounds these three.
`seen`, `begun` and `tried` are history variables about the present version
of a flow, and `lost` says that the end of its last attempt was not written.

### DataTriggers

One thread per process, and the triggers of the agents, which stay as they are. A
condition is a kind, a waiting time and the items its filters let through (impact,
instruments, currency); stories and releases come and are printed when they like,
a story with the time it was published. `seen` is `agent_trigger_seen`, `lastFire`
the column `last_data_fire`. A pass reads `lastFire` once (`Look`), evaluates one
agent after another, enters what it met one transaction at a time (`Mark`), runs
on the first that was not there, and notes the time in a transaction after the run
(`Note`). Each of these may fail, or the process die (`Fail`, `Abandon`, `Crash`),
or the run be declined for want of credits (`Decline`). A mark is the key a
condition gives to an item; what is entered is one mark under "or" and, under
"and", one mark of each condition. `answered` and `owed` are history variables.

Left out: the order of the items (any of those met may be first), the query limits
of the providers, the text an agent is told.

### Licences

The seller's rows (keys with their instance, modules, term and number of moves)
and its purchases. Each `store.py` call opens and commits a transaction of its
own, so a request is a chain of steps: a purchase that is verified reads the
licence of its instance (`Look`), grants or extends, binds, closes; a download
checks the binding and binds; the webhook finds a purchase by customer and plan.
`grants` that overlap are remembered, as the exceptions are about them.

### Platform, Parts, ModuleParts, MCPlatform: the parts that share no state

Nineteen state machines and seven modules of pure operators share no variables
with one another. Each is a module with variables and constants of its own.
They are put side by side, for any value of their constants: `machine` names the part a
behaviour exercises, chosen in `Init` and then fixed, so a run is the union of the
separate state spaces and not their product. `Platform` declares what they take turns
with: the variables `v1` to `v17` are the chosen part's, in the order its module
declares them, and the others stay 0; `Actors` and `Things` are interchangeable names,
the threads and the things a part has. `Parts` instantiates the eleven machines that
users' requests reach, `ModuleParts` the eight of the installable modules, of what
installs them and of the daily builds. Each property is "if this is the machine, then
its module's property".

The pure operators are one more machine, "sums": each initial state is one question,
which no step changes, and the invariants say what its answer must be like. `Parts`
asks those of `TradeMath` and `SignalMath`, for any sets of questions that are well put.

`MCPlatform` is what TLC runs: `MCSpec` begins as `PartsSpec`, as `ModulesSpec`, or with a
question to the other pure modules, which are instances for small constants only. As
`machine` never changes, a behaviour that exercises a machine is one of `PartsSpec` or of
`ModulesSpec` for the constants of `Platform.cfg`, and these two are what the theorems are
about.

| Module | Code | State and steps |
|---|---|---|
| `ModuleLifecycle` | `module_installer`, `modules`, `modules_api` | directories, side copies, rows, loaded and serving modules; install, replace, remove, switch on and off, load, boot, failed copies, crashes; dependents listed at one moment, then loaded and recorded one by one |
| `Registry` | `registry` | the tables by name, notes, connection types, workers and routes, each with the module it is from; register one by one, once for each load, a load over a loaded module, one that stops anywhere, `forget`, a start of the server; a worker goes with its load |
| `ModuleStore` | `catalog`, `auto_update`, `modules_api`, the seller's answers in `store_api` | seeding at a start, claims by id and by host with their challenge, the catalogue's cache, downloads, installs, updates, a key by hand, restarts |
| `DailyBuilds` | `watchlist`, `daily_scan` (the loops) | hours, the build lock, slots and lists, the scan's sleep and its catch-up at boot |
| `WatchPicks` | `watchlist` (the content) | sums: the funnel, the measures, the clock points, the levels |
| `ScanPicks` | `daily_scan` (the content) | sums: features and score, the picks kept |
| `AnalysisJobs` | `analysis_api`, `main` | calls, jobs, streams of one question: who leads, who shares, what each pays and is told, sweeps, restarts |
| `MarketAlerts` | `market_alerts` | inserts that commit late, polls, the bell |
| `Signup` | `main` | code, invite, completion, settings, suspension, API keys, statement by statement |
| `TradingDesk` | `brokers`, `user_session`, `main`, `trading_api.trader` | owned, chosen and active accounts; each read and write a step, the drop of an active account's too |
| `ProfitMonitor` | `trading_api`, `broker_base` | start, stop and status statement by statement, the loop and its peak |
| `OrderBook` | `broker_base`, `trading_api`, TradeLocker's `_submit_*` | a book, quotes that move, positions with their volume, passes over a list read once: orders in bulk, close in part or whole, break even, lock profit, levels, moves and cancellations |
| `TradeMath` | `broker_base`, `trading_api`, `risk_gate` | sums: sizes, levels, risk plans, stops, calculators, money, hours, the gate |
| `BrokerSession` | `modules/tradelocker` | the row, tokens in the adapters, requests, refreshes, log-ins, crashes |
| `LiveStreams` | `main`, `broker_base`, TradeLocker | sockets, the poller, its stop event, frames |
| `ChatTurns` | `main`, `agent` | gate, rounds, pool, memory, meter, charge, leaving |
| `FlowRuns` | `analysis_agent` | the queue, visits, branches, octos (bodies within bodies) and their tentacles, calls of agents, the cache |
| `SignalMath` | `analysis_agent` | sums: reading an entry, a stop, a target and an order type out of an answer (hints that name none, a price read twice), and repairing them |
| `ModelKeys` | `ai_keys`, `connections`, `billing` | keys, picks, tiers, policy and its cache; a run from its gate to its price |
| `TelegramBot`, `Delivery` | `modules/telegram` | supervisor, listener (which may die), cursor (which may not be read), answers; sums: text cut to the limit, captions, what is reported as sent |
| `CalendarFeed` | `modules/economic-calendar` | listings, the sleep, bursts, saves, stop and start |
| `NewsFeed` | `modules/news` | cycles over two sources, page reads, saves |
| `MarketReads` | `market` | shortlist, marks, widening, wiping, per read |
| `Footprint` | `artificial_sentiment` | sums: swings, battle, book out of candles |
| `ClockMath` | `agent_schedule`, `market_hours`, `pretend_time` | sums: cron fields and their search, the FX week, pruning of replayed answers |

Conventions in these modules: a step is what lies between two statements whose
result the code keeps and others can change; `past`, `raced`, `lost` and the like
are histories and are named so in their declarations; `left`, `bound`, `faults`
are the bounds. A list whose order nobody reads (the registry's) is a set. Numbers are
whole (pips, ticks, cents), an average is compared by its sum, a fraction by its cross
product; a rounding is modelled by what it does.

## 3. Runs, bounds, and what they show

| Run | Instance | Distinct states | Shows |
|---|---|---|---|
| `work_safety` | 2 processes, 1 table, 3 orders, batches of 2, 2 requests to a call, time 0..1, 2 faults; symmetric in processes and orders | 360k | safety of ScheduledWork, and that it implements OneShot |
| `work_liveness` | 1 process, both tables, 2 orders and an action, batches of 1, 2 requests to a call, 1 fault | 152k | due rows are taken up, and settled without faults |
| `restart` | 1 process, 1 order, 1 request | | counterexample, see Findings |
| `billing` | 2 sessions at a time, 5 in all, 2 plans, 1 purchase and 1 top-up | 144k | safety of Billing |
| `billing_idempotent` | the same with 2 sessions in all | | counterexample |
| `analysis_cache` | 3 callers, 1 question, windows 0 and 1, wait limit 2, time 0..5 | 558k | safety and liveness of AnalysisCache |
| `agent_schedule` | 2 agents, intervals 1 and 3, one expression naming 3 minutes, 1 agent per tick, 1 edit, 1 fault (a crash or a failed database), time 0..7 with 2 units to a minute | 1.5M | safety of AgentSchedule |
| `data_triggers` | 2 processes, 2 agents ("or" and "and"), 1 story, 1 release, cooldown 2, time 0..3, 1 fault; symmetric in processes | 1.3M | safety of DataTriggers |
| `licences` | 2 requests at once, 2 keys, 2 instances, a product, a bundle that includes it, its free part; two orders, or an order and an administrator, or an order over two terms | 874k | safety of Licences |
| `licences_renewal` | one customer, two instances | | counterexample |
| `platform` | each machine alone, below | 2.2M | safety of the machines, and the sums |
| `risk_gate` | the gate's questions | | counterexample |

The machines of `platform`, with 2 actors and 2 things each unless said otherwise:

| Machine | Bounds | States |
|---|---|---|
| sums | every combination of the values listed in MCPlatform | 110k questions |
| modules | 2 modules, one requiring the other; 2 requests without a fault and 4 in all, or 1 with 2 faults and 5 in all | 81k |
| registry | 3 modules with 14 contributions, two names and a path in common, 3 loads | 24k |
| store | 2 free modules and a paid one; six mixes of crashes, removals, builds, visits, collects, rounds, a sale and its lapse | 81k |
| builds | 4 hours, 1 fault | 202k |
| analyses | 2 users, 2 asks, records kept 1 tick, time 0..3, a restart | 136k |
| alerts | answers of 1 alert, 4 clock ticks | 87k |
| signups | both editions, 2 codes, 1 key, 1 edit, 1 wrong code | 470k |
| desk | 3 accounts of 2 brokers | 72k |
| reads | 2 accounts, one on the shortlist; 2 reads with a tick, or 3 | 113k |
| streams | 3 openings and a tick, or 1 and 6 ticks | 20k |
| monitor | shares 1 and 50, 2 moves of the profit | 148k |
| orders | 2 orders of volume 2, 2 quotes, 2 passes | 11k |
| session | 2 adapters of a login, 2 threads, 2 attempts; mixes of orders, expiries, log-ins and faults | 144k |
| chat | 2 turns of a round with 2 calls, or one of 2 rounds; memory of 1 | 117k |
| flows | a cycle, an octo, a diamond, an octo below itself, a call back and a call of itself; 6 steps, 2 visits, depth 2, 2 bodies, an edit | 107k |
| keys | 2 providers, 2 connections, 2 edits with a run or 2 listings | 110k |
| bot | 4 messages; a crash, a failure and a disconnection, or 2 failures, or a restart and a failure | 43k |
| calendar | 2 releases, interval 5, time 0..6; a fault, or a stop and start | 49k |
| news | 2 sources, 2 versions; faults, or a stop and start | 35k |

Why the bounds are enough for the cases that matter:

- Three orders and batches of two make both processes hold the same rows, and
  leave a row behind for the next batch. Two faults let a row be stranded, and
  a second process die on another one. Two requests let an answer be lost and the
  broker be asked again.
- Two sessions at once are the smallest number that can overlap; five in all
  cover a purchase, a cancellation, a renewal delivered twice, and one more.
- The third caller is the one that comes after a leader failed or was pruned
  while a second one leads. The clock stops at 5, and new callers stop coming
  MAX_WAIT before that, so every waiter sees its time-out.
- A minute of two units, with a tick per unit, has the thread look twice in one
  minute. With one agent per tick, the other one waits its turn. One fault is a run
  whose end is not written, or a crash in the middle of one.
- A story and a printed release make a burst of two for the agent that takes
  either, so two processes can enter one item each or both meet an item that is
  there. Time 3 lets the agent run, rest for the cooldown, and run again.
- Two licence requests are the least that overlap, and the limit on moves is 1, so
  it is met; two keys are one more than an instance should have.
- In `platform` a hazard is about two requests, threads or tabs, or about one and a
  fault; where both kinds matter the bounds come as alternatives ("or" above), as
  their product adds states and no new case. Two things let one be held while the
  other is worked on. The sums hold every side of each comparison in their
  operators, values on it included.

CHECK_DEADLOCK is off: clocks, requests, edits and faults are bounded, and all
processes may come to rest once they are used up; a question is a single state. Every
property of a passing run has a mutant, an operator next to the one it replaces
("Mutant of ..."), which the property catches; a property of `platform` has one for each
of the modules it speaks of.

Type correctness is not among the properties of the runs: where it is a strengthening
that proofs rest on it is a theorem (`Typing`, `StaysWellFormed`).

## 4. Fairness

`work_liveness` assumes weak fairness of the clock and of each poller thread's
next step. The threads are `while True` loops that sleep a second, every
statement in them is inside a `try`, and the broker adapters give every request
a time-out and make so many requests to a call and no more, so a step that stays
possible is taken. Nothing is assumed of users, lost answers, errors or restarts.

`analysis_cache` assumes weak fairness of the clock and of a waiter's return,
`event.wait(timeout=...)` being the operating system's promise. Nothing is assumed
of leaders: `WaitersGetAway` holds although a leader may hang.

The other specifications state no fairness. Where something has to happen in time
(a slot is built, a printed number is kept, a record stays collectable), the clock
of the model does not tick past whoever is due and awake, which is said at the action,
and the property is an invariant about what is there when the time is over.

## 5. What is proved

The proofs hold for every value of the constants that satisfies the assumptions the
modules name: any number of processes, rows, sessions, plans, callers, agents, keys,
requests and items, any clock. TLC evaluates the assumptions on the constants of the
runs. Each proof has the same shape: an inductive invariant `IInv`, type correctness
in it; one lemma per action that a step keeps it; and the properties from it, by PTL.
Where an invariant speaks of what only a proof asks for, TLC checked it too, before it
was proved.

What is assumed of the constants, beyond their types:

- `AgentScheduleAssumption`: an interval is at least one unit, and the boot delay
  no shorter than a minute (it is 100 s, `agent_schedule.py:37`), as a restart that was
  back within the minute could begin a second run in it.
- `LicencesAssumption`: keys and requests are finitely many, terms at least one.
- `BillingAssumption`, `AnalysisCacheAssumption`, `ScheduledWorkAssumption` and
  `DataTriggersAssumption` say that the names for nothing are no names of things.
- `PlatformAssumption`: "none" and "nobody" are no actors and no things.
- `PartsAssumption` (bounds, times and shares are numbers) and, each for its part,
  `OrderAssumption` (prices are positive),
  `DeskAssumption`, `ReadAssumption`, `SessionAssumption`, `BuildAssumption` (a day has
  hours, and the scan's hour is one of them), `LifecycleAssumption`, `StoreAssumption`,
  `RegistryAssumption` (what a module registers is one of the five kinds).
- `CalendarAssumption`: listings are at least two ticks apart. The code lists every
  300 s and polls seconds apart in a burst (`econ.py:33-35`).
- `BotAssumption`: messages are numbers in the order they came, as Telegram's update ids.
- `TurnAssumption`: finitely many turns, and a memory of at least one note.
- `KeyAssumption`: no provider is called "tier", the word that begins a tier's alias;
  connection ids are positive; a pick names a model of its provider.
- `FlowAssumption`: the limits are numbers, a node may be visited once at least, and every
  flow that may be drawn has a node (`WellDrawn`; `run_flow` refuses one without). Cycles,
  edges into the air, flows without a trigger and calls of deleted agents are allowed.
- `SumAssumption`: the questions are well put. Prices, volumes, risks and levels are whole
  and not negative, or not given; a point of the instrument is worth something; quoted
  rates are those of what the currencies are worth; a plan that the risk engine made has
  an entry; hours are ones that can be saved (`main.py:2005-2019` takes 00:00 to 23:59). A
  loss limit, an entry out of line and a level on the wrong side are allowed.

**ScheduledWork**, at the end of the module. The properties are not inductive: how often the
broker was asked says nothing about who may ask it next. `Custody` says that a
claimed row is 'executing' in exactly one thread's hands; `Heard` says what each
status means for `sent` and `unheard`; `Holding` what the holder of a row knows of them:
a call that is still asking has been taken by the broker only if an answer was lost, and
no more often than it has asked; `DueStays`
says that rows in a batch were due when they were selected, and time does not go
back. `Claim` establishes custody because its UPDATE is conditional; `Settle` may
overwrite the status without looking because custody is exclusive. That is the
argument for the unguarded UPDATE, and it is why `NoPromiseIsKeptTwice`,
`TheListIsHonest`, `NothingIsEarly`, `OnlyAFaultStrands` hold. `PromisesAreKeptOnce`
is the refinement: `StepSimulation` maps each step to a step of OneShot or to a
stutter. A retried request is OneShot's own exception: with `Attempts` = 1 it fires once.

**BillingProofs.** `Fits` and `GrantsFit` say that the entry a lock holder is going
to insert brings the balance to at most its plan's allowance plus `extra`, and
`OtherEntries` that everybody else's entry adds nothing that `extra` does not
account for. Since only the lock holder has a grant pending, nobody else's grant
can come in between; debits, which take no lock, only lower the balance. This
gives `PeriodsDoNotAddUp`, and with the shape of the steps `SuccessMeansGranted`,
`RenewalsDoNotResubscribe` and `RenewalsOnlyAdd`.

**AnalysisCache**, at the end of the module. `Lifecycle` ties an entry's fields to the position of its
leader, which is how the order of assignments in `finish` matters; `Registered`
and `LeadersKept` say that a leader's entry stays registered until it ends or has
been running for longer than the limit; `Riders` says what a caller that waits or
is served is pointing at; `AloneForAReason` that a waiter left alone saw its run fail or
grow old. From them `SharedAnswersAreComplete` and `OverlapsHaveAReason`.

**DataTriggersProofs.** `Entered` says that what a thread has in hand is in the
table, and, before the run, new to the agent; `Exclusive` that no two threads have
the same entry for one agent in hand, which is where the INSERT that lands only
once comes in; `UpToDate` that a pass knows the last fire unless it was noted after
the pass began. They give `NoMarkIsAnsweredTwice`, `CooldownHolds` and
`StaysWellFormed`. The first speaks of items under "or", where what is entered is a single
mark (`Singles`), and of combinations under "and". That a story is not *lost* is not among them: see Findings.

**AgentScheduleProofs.** `TickIsRead` says what the tick's snapshots are worth: an
agent in the queue was due when the thread looked, and its snapshot is the flow's
unless the flow was edited since. `RowIsAnchored` says that the row's next run is that of
the interval it remembers; `TicksMoveOn` that an agent is not in hand twice in one tick.
`AttemptIsKept` and `MinuteIsSpent` relate the
histories to the row: after an attempt whose end was written (`lost` says which was not) the
row holds that flow and that attempt, and a minute in which a cron agent began a run is
behind the row, or is over, or the process died and sleeps until it is over. Of an attempt
that was lost only `TicksMoveOn` is left: the next is at a later tick. The theorems `EditedIntervalsReanchor`,
`CronFiresOncePerMinute`, `CronAnswersAMinute` and `IntervalsKeepTheirLength` follow;
the last three are action properties. The next
minute of a cron expression is the least element of a set of minutes here; the search
that finds it in the code is a sum of `platform` (`ClocksAgree`).

**LicencesProofs.** The invariant says what a request at each of its steps has read
and holds (`RequestsAreWhole`), that two unfinished grants for an instance know of each
other (`RacesAreKnown`), that a grant which is to mint a key found none and none came
since (`NoneIsThere`), that what it is to write contains what the key has and what was
paid for (`GrantsAddUp`), and that a key no administrator touched never moves
(`KeysStayPut`). The bound on moves counts the requests between `bind`'s read and its write
(`MovesAreCounted`), a cardinality of a set of requests: the limit is exceeded by exactly those that
read before the others wrote. Theorems: `PaymentsOpenTheirProduct`, `InstancesHaveOneKey`,
`MovesAreBounded`, `TermsOnlyMoveOutward`.

**PartsProofs, ModulesProofs.** The machines of Parts and of ModuleParts, one after another. A part's
`IInv` stands at the end of its module; `MachineStays` lets each theorem look at one
part only.

| Theorem | Parts | What the invariant adds to the property |
|---|---|---|
| `SignUpsLetIn` | Signup | a verified sign-up was given the code it has, unless a code was sent between the read and the write of a verification; completions that overlap are all known; a single-user instance that completes alone has nobody yet |
| `AnalysesAreAnswered` | AnalysisJobs | each stage has what came before it and nothing of what comes after; a leader runs for its own user; a record is the one its start or end wrote until a sweep may have passed |
| `AlertsAreNotMissed` | MarketAlerts | times are readings of a clock that do not agree; what a poll that has read will answer for |
| `MonitorsAreSeen` | ProfitMonitor, LiveStreams | a start alone past the check finds none running; the entry names a connection that is open; what a poller counts never exceeds what failed in a row |
| `ReportsHold` | OrderBook | a pass that has a position to itself knows it as it is, its volume included; what was reported of is or was there |
| `AccountsStayInReach` | TradingDesk, MarketReads | it takes a move still to be written upon the last choice, or a handler overtaken between its read and its write, for the active account to be out of reach; an account that would have served all along is before the read |
| `BuildsAreNotSkipped` | DailyBuilds | the hour looked at needs no list or has one; the sleep ends within a day at the scan's hour, with arithmetic of days and hours |
| `TurnsStaySettled` | ChatTurns | each turn's account; the sum over all turns, a recursive function over sets of turns, changes by what one turn's does (`SumsExist`, `TogetherIs`, by a least counterexample) |
| `KeysStayTrue` | ModelKeys | a run is priced by the key it holds while it runs; a listing keeps what was picked |
| `InstalledPartsKeepUp` | NewsFeed, BrokerSession, CalendarFeed, TelegramBot | what is in hand was shown, what was listed alone is stored; a token is of one row, and one thread has newer ones; nobody oversleeps, how late a number is with each failure; the batch is what follows the cursor, or all that is unconfirmed after a poll that could not read it |
| `RunsStayWired` | FlowRuns | the counts of steps and visits are those of the steps walked and of the node at work (`Counted`); what may be walked next was walked, is at work or is queued (`Followed`); tentacles' steps that no walked step follows are the bodies' at work, each with the tentacles of its own octo (`Attached`, `Staffed`); a respond node ends the walk (`Responded`); a run below another waits at a call node |
| `TradesStaySafe` | TradeMath, SignalMath | no step changes a question, so each property is a lemma about the operators: a quotient is determined by its products (`QuotientIs`), a size is within its limits and its risk (`SizeFits`), a basket's weights add up whatever its length (`SumsScale`, by a least counterexample), a repaired signal has its levels on their sides (`DraftFits`) |
| `ModulesStayWhole` | ModuleLifecycle, ModuleStore, Registry | a module being replaced is whole somewhere until the second fault; what serves though it is off has a request that will see to it (`Followed`); claims under way know of each other; a module remembers all it registered, load by load, and the lists hold just that |

TelegramBot's behaviours end with two listeners (`doubled`): the theorem speaks
of every state up to and including that one, and Findings says how it comes about. `Bootable` in
ModuleLifecycle, the modules a start can load, is a recursive function; its waves are proved
one from the other, without induction over data.

Proof attempts changed the models where these said less, or other, than the code:
LiveStreams' `ErrorsLast` speaks of the polls a page missed in a row, not of the
frames it was sent; a market read asks its marked accounts when every account is
marked; Registry's lists became sets when the order proved to matter to nobody, and its
`TakenExactly` excuses a worker without a stop only for its own module; DailyBuilds'
`SlotsAreBuilt` is stronger than it was; `MovedStopsLock` promises that a moved
stop stays behind the quote for shares up to 100 %, as the code does not bound the share;
and FlowRuns numbers the edges it follows in drawing order (`Targets`), instead of filtering
a sequence, starts anywhere in a flow without a trigger, as the code does, and says of the
tentacles which body's step they come right before.

Only model-checked:

- Liveness (`DueIsTakenUp`, `DueIsSettled`, `WaitersGetAway`): fairness and ENABLED are
  beyond the prover.
- `ClocksAgree`, `PicksAreSound`: these sums are folds and recursive functions compared
  with reference definitions, for which the same holds.
- The four counterexamples.

## 6. Findings, and what the exceptions say

Counterexamples, each the one property of its run:

- `restart`: the updater's idea of idle is "no HTTP request". A scheduler thread
  that has claimed a row is not one; the process exits, and the row says
  'executing' for ever. `auto_update.py:22` and `main.py:280` claim otherwise.
- `billing_idempotent`: `apply_success` is idempotent only one call at a time. Two
  verifications that read 'pending' together both credit a top-up.
- `licences_renewal`: a renewal is credited to the oldest purchase of that customer
  and plan (`store_api.py:808`), whichever of two subscriptions was paid.
- `risk_gate`: the loss limit blocks nothing, as `_realised` calls `closed_trades`
  with a keyword it does not have and takes the exception for a day without losses
  (`risk_gate.py:108`).

Several properties hold "unless", and the exception is then an interleaving that
the code does lose. They are named in the comment of the property and, the graver
ones, in the hazards of PROJECT.json. A reader of the code may want the list:

- *Work.* An order whose answer was lost is asked for again, up to five times in one
  call, and may be placed as often (`api.py:197`); "failed" says nothing of what the
  broker did then. A scheduled run whose end the database does not take is begun again
  in the same minute, and charged again (`agent_schedule.py:367-394`). When an analysis
  fails, all who waited for it run at once, each alone (`analysis_cache.py:219`). Under
  "and" a release is run on again with every further story, as what is marked is the
  pair. An analysis cache leader slower than 180 s is pruned and a second one starts
  (`analysis_cache.py:164`). An edited cron expression still runs once at the old minute
  (`agent_schedule.py:311`). A story that comes during a run is never looked at
  (`data_triggers.py:386`). A ninth agent that is always due starves. A pass longer than
  a release's window misses it. The sweep drops the record of a job that runs for more
  than half an hour (`analysis_api.py:255`). An analysis whose model failed is stored
  and shared, and followers pay their fraction.
- *Licences.* Two grants at once mint two keys or merge the same old list; moves check
  and count in two transactions; a dated purchase gives a perpetual licence an end
  (`store.py:198`); a superseded purchase's page grants it again.
- *Modules.* A second fault can lose a module that a first one left set aside; a forced
  install re-enables; a switch stops direct dependents only; a dependent switched off
  after its provider's start listed it (`modules.py:224`) is started and written enabled
  again; an install over a loaded module registers its tools, notes and workers twice,
  and both workers run; two modules that give one name withdraw each other's; a worker
  without a stop runs on.
- *Module store.* A claim by id never applies: the seller answers with an empty
  challenge and the instance gives up for want of one (`catalog.py:219`), so the loops
  collect nothing. Claims at once blank each other's challenge. A listing on its way
  while a key is stored brings the old entitlements back for five minutes. The page and
  the loop install free modules the owner removed (`auto_update.py:127`). The update
  button (`modules_api.py:285`) asks the seller's table of this instance, which is
  empty. A key whose year is up is still served the newest build (`store_api.py:80`).
- *Builds.* The build lock is released before the list is saved; a list that failed
  counts as built, and a forced one that failed replaces a good one; the scan's catch-up
  at boot does not look whether scanning is on. Picks are upper-cased
  (`daily_scan.py:315`, `watchlist.py:369`), so instruments the broker spells with small
  letters are never picked.
- *Alerts, accounts, sign-up.* An insert that commits after a later poll is lost to that
  browser. The choice of the active account is checked and written apart, and so is its
  drop: an account chosen in between is replaced without a look (`brokers.py:195-203`).
  A verification marks the address and not the code it read, so a code sent in between
  is verified by the old one (`main.py:834-847`). Two completions at once make two users
  of a single-user instance.
- *Trading.* Every request that held a position writes back the level it read;
  `break_even` after `lock_profit` loosens the stop; `percent=1` means all of it;
  `remove_levels` reports `ok` for a level that stays, as no 0 is sent
  (`trader.py:592-600`); 24:00 among the hours, which cannot be saved, raises in the
  gate and is the end of the day to the API (`risk_gate.py:95`,
  `trading_api.py:381-383`); of concurrent refreshes the last write stays. Racing starts
  leave a monitor nobody sees (`trading_api.py:807`). The two readers of the settings
  differ on an empty style.
- *Chat and runs.* A turn that is left is not metered; an exception of the charge is
  swallowed; a called agent's cost is dropped (`analysis_agent.py:919`); the memory is
  read and written apart (`agent.py:164`). An octo that hangs on an octo recurses
  without a limit (`analysis_agent.py:1113`), so the calls of a run are not bounded by
  OCTO_CALLS, although line 45 calls it the limit of "tentacle calls in one run".
- *Keys.* `provider:model` runs on the user's key when the policy is off and is charged
  in full (`ai_keys.py:354`); a listing overwrites a choice made meanwhile.
- *Telegram, feeds.* Switching the module off and on while a listener polls leaves two;
  a crash after the cursor loses the answer; a cursor that could not be read counts as
  0, and what was answered since the last poll is answered and charged again
  (`module.py:430-441`), although "the cursor advances FIRST" (line 563); an answer that
  could not be sent is not charged. One failed listing near a release costs the whole
  interval; a page that failed is not read again until the story is revised.
- *Reads, pages.* A read that wipes the marks can take the last attempt from one that
  had skipped its account (`market.py:218`). An older tab keeps its socket and its
  frozen numbers.

## 7. Plan

Done: all parts of the inventory have a module, and the safety properties of
every module with steps, and those of a trade's sums, are theorems. What is left, in this
order:

1. Under "and", `_c_before_event` gives a release for its whole lead time
   although its comment says one tick, so one release is answered with several
   stories in turn: `NoSecondRun` says so of combinations; how many there can be is a
   property to state once edits of a trigger are modelled too.
2. Composition: DataTriggers and AgentSchedule with the gate of Billing; AnalysisJobs
   over AnalysisCache instead of the part of it that AnalysisJobs keeps.

## 8. Not modelled

Listed with reasons under "components" in PROJECT.json. In short:

- The front end, the pictures (`modules/visuals`), mail and the pages of the admin
  console compute or display, and keep no state the others rely on; most console
  handlers are one statement.
- What a data node fetches, what a prompt says and what a model answers: the modules
  take any answer of the kinds the code tells apart.
- The protocols of Paystack, the model providers, Exness and TradeLocker beyond the calls,
  answers and refusals named in the modules; the parsers of pages and of commands.
- Signatures and manifests of modules, the asset copy, the history a new instance is
  handed; encryption and cookies.
- The instance's identity: one upsert decides, and Licences and ModuleStore take it as
  given. The database itself is modelled only as the order in which its
  transactions commit.
- Correlation, statistics, chart drawing and the scoring of headlines: straight-line
  computations without a second definition to be checked against.
