# A TLA+ model of Confidential Creator Support

Confidential Creator Support lets a supporter pay a creator by a confidential
Token-2022 transfer. The chain holds who supports whom and until when, never
how much. This directory models the system's state machines in TLA+, checks
them with TLC on small instances, and proves their safety properties with TLAPS for every
instance. Paths below are relative to the repository (`src/`).

Contents: [1 Inventory](#1-inventory) · [2 Modules](#2-modules) ·
[3 Runs](#3-runs) · [4 Fairness](#4-fairness) ·
[5 What is proved](#5-what-is-proved) · [6 Disagreements](#6-disagreements-with-the-documentation) ·
[7 What is not modelled](#7-what-is-not-modelled) · [8 Plan](#8-plan)

## 1 Inventory

```
  web (Support, Register, Me)      web (Dashboard)          anyone
     |  sign + send     | proofs        | contributions, totals  |
     v                  v               v                        v
  on-chain program   api relay ----> api routes <---------- creator page
     |  events in logs  | payer's txs    ^
     v                  v                | queries
  rpc node, websocket ----> worker ----> index (Postgres)
```

| component | code | state | operations | hard behaviour |
| --- | --- | --- | --- | --- |
| on-chain program | `programs/ccsupport` | Config, Creator, Handle and Pledge accounts | `init_config`, `register_creator`, `update_creator`, `pledge`, `set_visibility` | lapses and renewals at their boundaries, counters at u32 and u64, several transfers in one transaction |
| worker: queue and cursor | `apps/worker/src/{cursor,backfill,subscribe,run}.ts` | job queue, cursor in memory, 256 remembered signatures, durable cursor | `push`, backfill pass, `process`, `startWorker`, `stop` | socket and backfill race; handlers, saves, rpc and the process fail; same-slot siblings |
| worker: index writer | `apps/worker/src/{events,apply}.ts`, `packages/db/src/schema.ts` | tables creators, pledges, contributions | `parseEvents`, `planWrites`, `createApplier` | replay over newer rows, rolled back transactions, foreign log data |
| index queries | `packages/db/src/queries` | none | counters, series, keyset pages | a row keeps one start and one expiry; rows arrive between pages |
| api relay | `apps/api/src/relay`, `routes/relay.ts` | transactions in flight | `validateBatch`, `submitBatch`, `confirm` | a batch that stops in the middle, deadlines, roll-back before confirmation |
| rate limiter | `apps/api/src/middleware/rate-limit.ts` | hits by client, sweep counter | `hit`, `sweep`, `prune` | window boundaries, sweeps between hits |
| support flow | `apps/web/src/screens/Support`, `Register/submit.ts`, `packages/chain/src/confidential` | form, run, cached queries, token account | `runContribution`, `waitConfirmed`, `planPreparation`, `buildContribution` | a plan that is stale when it lands, two runs of one supporter, waits without an answer |
| creator's cabinet | `apps/web/src/screens/Dashboard`, `workers/decrypt.worker.ts`, `api/creators.ts` | pool of workers, promises, amounts, fetched rows | the walk over pages, `decrypt`, `pump`, worker messages, effects | workers that start late or die, cancelled effects, rows that arrive meanwhile |
| key session | `apps/web/src/confidential` | keys by wallet, attempts by wallet | `get`, `forget`, derive, select a wallet | a prompt that outlives `forget` or the wallet's selection |
| confidential amounts | `packages/chain/src/confidential/{contribute,decrypt,disclose,audit}.ts`, `apps/worker/src/ciphertext.ts`, `Dashboard/summary.ts` | proof accounts and their histories, ciphertexts in the index, balances of a token account | land a contribution, find its ciphertext, decrypt, disclose, verify, sum | a proof account may be used before and again; amounts come in two parts whose sums carry; a step of a contribution fails |
| generated client | `packages/chain/src/generated`, `program.ts`, `pda.ts` | none | build, parse and identify instructions; decode accounts and events | fields and accounts are told apart by position alone |
| demo | `tools/demo/src/{main,supporters,send}.ts`, `scenarios/us1.ts` | pool, one job per worker, transactions awaited, pending sweep | fund, prepare, contribute, sweep back, compare sums | requests that fail after they took effect, transactions that land after they were given up |

They interact through four channels: signed transactions (web and relay to
chain), the chain's log lines and their order (chain to worker), the index's
tables (worker to api), and http pages (api to web). What each must get right:

- **program**: no record without a transfer; paid time neither lost nor
  invented; counters equal to what they count; handles resolve uniquely.
- **worker**: what the cursor has passed is in the index; replay is harmless; a
  broken pass is followed by another one.
- **writer and readers**: the events alone rebuild the accounts; counters and
  series read from the index agree with the chain.
- **relay and limiter**: a bad batch sends nothing; members land in order; the
  limit holds in every window; every request is answered.
- **support flow**: success is claimed only of what is recorded; a second click does
  not pay beside a first one; the balance stays readable; every wait ends.
- **cabinet**: no contribution is missed, no job lost or done twice at a time.
- **key session**: the keys shown are the selected wallet's; nobody is asked twice.
- **confidential amounts**: whoever may read an amount reads what moved, nobody
  else reads anything; a disclosure that verifies is true, and a true one verifies.
- **generated client**: what is built does what was asked, what is read is there.
- **demo**: what it reports was paid, its sums balance, the SOL comes back, it ends.

`PROJECT.json` lists all components, and the hazards line by line with the
properties that cover them; hazards without a property carry the reason.

## 2 Modules

| module | models | how it corresponds to the code |
| --- | --- | --- |
| `Periods` | `programs/ccsupport/src/periods.rs`, `packages/shared/src/periods.ts`, `ccs_is_active` in SQL | pure operators `MayExtend`, `ExtendExpiry`, `IsActive` |
| `Ccsupport` | the program | one action per instruction; its guard is the account constraints, the `require!`s and the overflow checks. A failing instruction is no step, since the chain rolls it back. The other instructions of the transaction are the parameter `transfers` of `MakePledge` |
| `CcsupportProofs` | — | theorems about `Ccsupport` and `Client` |
| `Layout` | `state/*.rs`, `events.rs`, `generated/{accounts,types}`, instruction data | a value on the wire is the sequence of its fields: `…Bytes` is the order in which the program writes them, `Decode…` the order in which the client reads them |
| `Client` | `generated/instructions`, `generated/programs`, `program.ts`, `pda.ts`, the `#[derive(Accounts)]` of each handler | an instruction is account metas by position and data. One half builds it from what a caller asks (`Built`), the other is what the program requires of each position (`Runs`); the parsers read it back |
| `Events` | `parseEvents` and the event decoders | log lines as invoke/return/data records; the invoke stack decides whose data a line is, and the loop over the lines is a recursive function of the place it has reached |
| `Applier` | `planWrites`, `createApplier`, the schema's keys | one operator per write; `Apply` folds the writes of one transaction and `Accepts` says whether the database takes them all |
| `ProgramIndex` | program, log, an index filled in order, the readers | composes `Client`, `Ccsupport`, `Events` and `Applier`: the program runs what clients build; `RollBackPledge` and `RollBackVisibility` log the event of a transaction that failed. The readers are operators on the index: counters, the pages of listed supporters, a supporter's pledges and their standing, the monthly series with its window |
| `ProgramIndexProofs` | — | theorems about `ProgramIndex`: index and readers |
| `LogReplica` | — | abstract specification: an index that copies a log in order, skips nothing and may take again what it has; `Apply` is a parameter |
| `Indexer` | `cursor.ts`, `backfill.ts`, `subscribe.ts`, `run.ts` | one action between any two awaits: `Deliver` (push), `PassStart/List/Fetch/Break` (a backfill pass), `Skip/HandleOk/HandleFail/Save` (`process`), `Boot/Listen/Stop/Exit/Crash` (the worker's life) |
| `IndexerProofs` | — | theorems about `Indexer`, and that its steps are steps of `LogReplica` |
| `RateLimiter` | `createRateLimiter` | a limiter is a record, made by `NewLimiter` with its limit and window; `Hit` is one synchronous call, from the limiter's state to its next and a verdict |
| `Relay` | `routes/relay.ts`, `payer.ts`, `validate.ts`, `routes/devnet.ts` | a request is a process: `Arrive` (limiter and `validateBatch`, no await in between), `Send`, `Poll`, `CheckHash`, and the throws of each call; the devnet faucet is a mode of a request, with a limiter by wallet and a `Build` that asks for the blockhash |
| `RelayProofs` | — | theorems about `RateLimiter` and `Relay` |
| `Support` | `Support.tsx`, `contribute.ts`, `submit.ts`, `account.ts` | a click is a process whose stages are the awaits of `runContribution`; the token account has the six fields that the plan and the transfer depend on |
| `SupportProofs` | — | theorems about `Support` |
| `Cabinet` | `pool.ts`, `useAmounts.ts`, `decrypt.worker.ts`, `api/creators.ts`, keyset pages | page, workers and index are concurrent; messages are sequences per worker; `Pump` is called at the end of each handler that calls it |
| `CabinetProofs` | — | theorems about `Cabinet` |
| `KeySession` | `session.ts`, `KeysProvider.tsx`, `WalletRow.tsx` | the session's map, the mounted component's keys and callers, and every prompt ever opened: `Select`, `Derive`, `Approve`, `Refuse`, `Forget`. An answer comes at any time after its prompt |
| `Ciphertexts` | `decrypt.ts`, `audit.ts`, the token program's ciphertexts | pure operators; a ciphertext is its value and its key, a logarithm is found below a bound |
| `Payments` | `contribute.ts`, `ciphertext.ts`, `disclose.ts`, `summary.ts`, over `KeySession` | a contribution is four transactions over one proof account, each of which may fail or never come (`Contribute`, `ContributeOn`, `Pay`); its owner may use the account before (`UseBefore`) and again (`Recreate`); the worker indexes when it likes (`IndexTransfer`), the creator applies the pending balance (`ApplyPending`). Readers and verifier are operators on this state |
| `PaymentsProofs` | — | theorems about `KeySession` and `Payments`, and that the second runs the first unchanged |
| `Demo` | `us1.ts`, `supporters.ts`, `send.ts` | each await of `runSupporter`, of the pool, of the sweep and of `creatorReceived` is a point where others move; one poll of the sender serves all who wait. The api and the network are seen from outside |
| `DemoProofs` | — | theorems about `Demo` |

`MC*` modules and `.cfg` files instantiate them. Properties stand at the end of
the module they are about. Definitions marked *mutant* state plausible mistakes;
each property is checked to reject at least one of them (`PROJECT.json`,
"mutants"). External parts — the chain's network, rpc answers, the token
program, the browser, the wallet — are modelled by what the code depends on and
named as external in the module's header.

History variables (`paid`, `lapsed`, `lived`, `applied`, `failed`, `unheard`,
`allowed`, `refused`, `disturbed`, `overtaken` (of `Indexer` and of `Support`), `paidBefore`,
`since`, `asked`, `arrived`, `paid` and `late` of `Demo`, `fresh` of a prompt) record what happened
for the properties; no guard of a program action reads them.

### Abstractions that matter

- Times are small numbers; `Period`, `Grace` and `MonthLength` are of the same
  order, so that lapses, renewals in grace and month ends fall together.
- Counters and slots keep their width: u32 and u64 are `0..MaxU32` and `0..MaxU64`, and
  an addition past them aborts, as the release profile has it. Times are i64 in the
  code and naturals here; `TermsFit` bounds the terms by the counters, far below
  the largest i64 with the code's values.
- A transaction has one event in `ProgramIndex`, as every client builds it. Its
  log lines have another program around the program's own, with data that looks like
  the event before and after it, and the system program inside.
- `Applier` keeps the keys of the schema (a handle is unique, what a row refers to
  exists). Left out are the integer columns, half as wide as the program's counters, the
  length check on a ciphertext, and `planWrites`' errors when a pledge comes without
  ciphertext or block time, which are `HandleFail` of `Indexer`.
  `Applier` itself takes any number of them.
- `Indexer` names a transaction by its place in chain order, yet the worker's
  guards see only slots and signatures, as the code does. A listing is complete
  up to the moment of its first page; a socket delivers in order what it does
  not lose. `IndexerAssumption` says that one slot's transactions fit the memory of
  signatures; the code assumes this too (256 of them).
- `HandleOk` does not separate the commit from the cursor's move in memory: no
  job runs in between and the save that follows is its own step, so the crash
  after the commit is there.
- In `Payments` a zero-knowledge proof is the statement it proves: nobody makes
  one of a false statement, and a verifier accepts it where it rebuilds the same
  statement. A commitment is its value and its opening. The two parts of an
  amount, their sums, the carry and the search bound are kept; the bounds are
  small numbers in the same relation (`LoRange <= Search`). The token program takes
  no more credits than the account was configured for (`MaxCredits`) until
  they are applied; a transfer beyond them does not land.
- The owner of a proof account may fill it with other units before the contribution or
  after it (`OtherAmounts`, `MaxUses` of them in all), for the same three readers, and
  closes it each time. More than one such use before the contribution changes nothing: the
  worker reads the oldest.
- Who pays fees, retries and timeouts of a payment are in `Relay` and `Support`;
  `Payments` lets any step fail or never come.
- In `Client` different seeds give different addresses, and the bytes of a single
  field are left out: an order of fields is what can be wrong silently.
- `Cabinet` orders rows, slots and jobs by counting (`Place`: how many come first), and
  `ProgramIndex` the listed supporters (`PlaceOf`), not by the library's recursive
  sort, about which nothing could be proved.
- In `Support`, proofs and ciphertexts are reduced to `version` (of the balance they were made
  from) and `sound` (whether the owner's decryptable balance was the true one).
- In `Relay`, `Support` and `Demo` a wallet or an rpc call may throw after the transaction
  was sent. The status is asked for at any commitment, so that a failure, once seen, may be
  taken back by a fork in `Relay` and `Support`: until its blockhash expires the
  transaction may still land.
- `Demo` reads an account as of all that had landed by then; a node that is behind could
  miss a top-up or a contribution (`send.ts:112-113` works around such a node for
  blockhashes only). One poll asks for everything that is waited for: the code asks for
  256 signatures at a time, oldest first, and what is further back waits for those before it.
  What the creator held before the run is counted from 0.

## 3 Runs

| run | module, cfg | question | bounds |
| --- | --- | --- | --- |
| `terms` | `MCCcsupport` | Does any order of registrations, contributions, lapses and renewals break paid time, counters or "no transfer, no record"? | 2 wallets, 1 creator handle (plus a bad one), `Period = Grace = 1`, 2 periods at most, `MaxU32 = MaxU64 = 3` so the overflow abort of `periods_total` fires, 4 instants, 2 slot changes |
| `index` | `MCProgramIndex` | Do clients, program, events, index and readers agree? | 4 transactions, 1 of them rolled back at most, a series of 2 months, 2 handles, 2 supporters of a creator who may start in one second, pages of 1 and 2, months and days of 2 instants; every ask of `Client` in every state |
| `storm` | `MCIndexer.cfg` | What can be lost when everything may fail? | 3 transactions of which two share a slot, memory of 2 signatures, 2 crashes or shutdowns |
| `backfill` | `MCBackfill.cfg` | Does the backfill alone implement the log replica, and does every transaction get in? | 4 transactions, two in one slot, one failed on chain; saves fail; 2 stops |
| `relay` | `MCRelay` | Limits, order, answers | 3 requests: two batches of 2 from one address and a top-up of the faucet; limit 1 in a window of 2, blockhash and wait of 1, arrivals until 2, sweeps every 2 hits |
| `support` | `MCSupport` | Is every outcome that the form reports true? | 2 overlapping clicks, 1 income, 1 listing change, 2 polls |
| `cabinet` | `MCCabinet` | Are rows, jobs or amounts lost? | 2 workers, 3 contributions of which one may arrive late, pages of 1, 2 pools |
| `payments` | `MCPayments` | Does everybody read what was paid, under whatever keys are shown? | 2 payments of 7 or 40 units, 1 other use of a proof account (before or after) with 7, parts of 2 bits, logarithms below 16; 1 wallet that is selected and left, 3 prompts |
| `demo` | `MCDemo` | Does the demo report the truth and clean up? | 3 supporters of whom one contributes twice, 2 workers, sweeps of 2, 2 faucet attempts, 1 fault (deadlines may pass without end) |
| `series`, `handler_failure`, `listing` | | each violates one documented claim, section 6 | |

What the passing runs show:

- **terms** — `PaidTimeIsKept`: a term reaches at least all paid periods from its
  start and at most all of them from now. `UnbrokenTermIsExact`: without a lapse
  it is exactly the periods paid for. `NeverTakesBack`: no step shortens it.
  `PledgesTotalCountsPledges`, `NoTransferNoRecord`, and the one type invariant.
- **index** — `SpeaksForItsCaller`: what a client builds is accepted exactly when
  the program allows what was asked, touches the accounts of those who were meant,
  and is parsed as what its event says; `ReadsAreTrue`: what the screens decode is
  what the program will overwrite next. `IndexIsTheChain`: the events alone rebuild
  the accounts. `CreatorPageIsTrue`: the counters are the chain's, and the list of
  supporters, walked page by page, holds the public and active ones, once each, also
  when two started in one second. `SupporterPageIsTrue`: no pledge is left out, and
  grace and end are told when the chain has them. `SeriesMissesNoActiveMonth`, and
  `HandlesAndCreatorsAgree` with two handles to fight over.
- **storm** — `GapsHaveACause`: with socket, handler, save, rpc and process all
  failing, a transaction that the cursor passed is in the index, or its handler
  failed, or it was never notified and a notified one was handled before a pass had
  brought it (`overtaken`). What landed while the worker was down, what no socket
  served and what was queued in a crash is brought by a pass, and lost only if a push
  comes first. The start alone can do it, without any fault: what lands between
  the first pass's listing and the subscription (`run.ts:58-66`) is not notified, and the
  next push moves the cursor past it before the timer's pass (section 6).
  `AppliedOncePerLife`: siblings and duplicates are told apart by a bounded memory.
- **backfill** — `EventuallyIndexed`, and `IsReplica`: `Indexer` implements
  `LogReplica` with `copied <- Cardinality(applied)`, fairness included: the index
  is a prefix of the log at every moment, and a replay over newer rows is harmless.
- **relay** — `LimitInEveryWindow`, `RetryAfterIsEnough`, `BatchLandsInOrder`,
  `EveryRequestIsAnswered`.
- **support** — `DoneMeansRecorded`, `EveryWaitEnds`, and `NoPaymentBesideAnother`: of two
  clicks that both paid, the first had landed when the proofs of the second were made.
  Whatever a run was shown as (given up, failed at a commitment that a fork takes back,
  thrown by a wallet that had sent), a transfer of it that is still under way and the
  retry's cannot both land, since both are proven of one balance. A retry whose proofs
  are made after the first transfer landed does pay again, whatever the screen said of
  the first: nothing in the code prevents that, and no property claims it.
  `ReadableUnlessOvertaken`: the balance becomes unreadable only when an account was
  changed between a plan and its landing, which only the token program could rule out.
- **cabinet** — `WalkIsWhole`: a walk brings every row that was there when it
  began, none twice. `JobsReachTheirWorker`, `OneWorkerPerJob`, `NoAmountIsMissed`,
  `EveryJobSettles`.
- **payments** — `AmountsAreWhatMoved`: creator and supporter by the row of the
  index, the auditor by the transfer, each read what moved, and any other key reads
  nothing, also after the proof account was used again. Where the account was used before
  the contribution, the row has what was proven first: the creator reads that
  (section 6), the auditor still what moved. `DisclosureIsTrue`: no
  combination of a landed transfer, a landed proof, units and a true statement verifies
  for other units than that transfer moved, nor for a transfer that failed. `DisclosureStands`: what is disclosed from a row
  verifies, then and later, and never from a row with an earlier use's ciphertext.
  `BalancesAddUp`: available, pending and received agree
  with the chain (received as long as no row is of an earlier use); a pending balance that outgrew the search is an error and no wrong
  number. `ShownKeysAreCurrent`, `OnePromptAtATime`: with one exception (section 6),
  the keys shown are the selected wallet's, not forgotten ones, and signed for once.
- **demo** — `ResultsAreTrue`: a listed contribution was paid, and a result without
  an error lists all of them. `ReceivedIsTheSum`: the creator's balance grows by what the
  results list and by nothing else but payments of supporters whose result carries an
  error. `SolComesBack` (but for a top-up
  that lands after its wallet was swept), `RunEnds`.

Why the bounds are enough to be interesting: each instance reaches the case that
its properties are about (the mutants show it — every property fails on its
instance when the code is changed as its mutant says). Two pairs suffice for
`terms` since the actions read one pair at a time and the counter sums over
pairs; the theorems of section 5 remove the bound. A memory of two signatures
evicts within a history of four. One late row in front of and behind a cursor is
what a page boundary can get wrong. More requests or clicks only repeat
interleavings of two. In `payments` the amount 7 fits one logarithm and 40 does
not, its double outgrows the search of the high part, two low parts carry (two credits are
all that an account takes), and
three prompts are an old one, a new one and one too many. In `demo` one fault
leaves three supporters behind one another in a pool of two, a batch that is full and
one that is not.

`CHECK_DEADLOCK FALSE` is said where the bounded system may stop: the clock at
its bound (`terms`, `index`, `series`, `relay`), no pool left and nothing to
read (`cabinet`), all payments made and prompts used (`payments`), a run that ended
(`demo`). The other runs check deadlock: backfill polls and form visits never end.

## 4 Fairness

| module | assumed | why the code justifies it |
| --- | --- | --- |
| `Indexer` | WF of `Boot`, `Listen`, `Exit`, `PassStart`, `Process` | the event loop runs what is runnable, the timer fires (`run.ts`), a supervisor restarts a process that ended |
| | SF of `PassList`, `PassFetch` | an rpc node that is asked again and again answers now and then; a pass may be broken any number of times before |
| `Relay` | WF of `Tick`, `Answered(r)` | time passes and an rpc call that does not throw is answered. No client need send and no transaction need land |
| `Support` | WF of `Wait(r)` | a poll that does not throw is answered. Wallet prompts may stay open for ever, transactions may never land |
| `Cabinet` | WF of `RunEffect`, `Handle(s)`, `Work(s)` | React runs its effects, the page's event loop its handlers; a worker loads and answers unless it fails |
| `Demo` | WF of the driver's steps and of `PollsLate` | one event loop runs what is ready; the sender's timer fires, and deadlines pass. No transaction need land, no request need succeed |

`LogReplica` owes a copy of each transaction that landed, nothing else. Faults,
arrivals and users are never fair. `Payments` and `KeySession` state safety only.

## 5 What is proved

For any sets of wallets, mints, handles and transfer lists, any `Period`, `Grace`
and `MaxPeriods` and any bounds, `CcsupportProofs` proves of the program:

| theorem | states |
| --- | --- |
| `TypeCorrect` | `Spec => []TypeOK` |
| `PaidTimeCorrect` | `Spec => []PaidTimeIsKept` |
| `UnbrokenTermCorrect` | `Spec => []UnbrokenTermIsExact` |
| `ContributionsWithinPeriodsCorrect` | each contribution pays for 1 to `MaxPeriods` periods |
| `NeverTakesBackCorrect` | `Spec => NeverTakesBack`, an action property |
| `HandlesCorrect` | `Spec => []HandlesAndCreatorsAgree` |
| `PledgesTotalCorrect` | `Spec => []PledgesTotalCountsPledges` |
| `NoTransferNoRecordCorrect` | `Spec => []NoTransferNoRecord` |

For the same constants, and in the same module, of the client:

| theorem | states |
| --- | --- |
| `SpeaksForItsCallerCorrect` | `Spec => SpeaksForItsCaller`, an action property |
| `ReadsAreTrueCorrect` | `Spec => []ReadsAreTrue` |

For any history, any ranks of the wallets, sizes of pages and lengths of month and day,
`ProgramIndexProofs` proves of the index that a worker fills in order, and of its readers:

| theorem | states |
| --- | --- |
| `ProgramRuns` | `ProgramIndexSpec => Spec`: the composition runs the program unchanged, so the theorems above hold in it |
| `IndexIsTheChainCorrect` | `ProgramIndexSpec => []IndexIsTheChain` |
| `NothingIsRefused` | no transaction of the log breaks a key of the schema (a handle is unique, what a row refers to exists), so the database never stops the worker |
| `CreatorPageCorrect` | `ProgramIndexSpec => []CreatorPageIsTrue` |
| `SupporterPageCorrect` | `ProgramIndexSpec => []SupporterPageIsTrue` |
| `SeriesMissesNoActiveMonthCorrect` | `ProgramIndexSpec => []SeriesMissesNoActiveMonth` |

For any history, memory of signatures and mix of faults, `IndexerProofs` proves of the
worker:

| theorem | states |
| --- | --- |
| `WorkerInvariant` | `Spec => []IInv`, the inductive invariant |
| `GapsHaveACauseCorrect` | `Spec => []GapsHaveACause` |
| `AppliedOncePerLifeCorrect` | `Spec => AppliedOncePerLife`, an action property |
| `AppliedStaysAPrefix` | as long as no handler fails and nothing is overtaken, `applied` is a prefix of the log |
| `IndexIsAReplica` | as long as that holds, the steps of `Indexer` are steps of `LogReplica` or leave its state alone |

For any set of requests, batches of any length, any limits, windows and interval of
sweeps, `RelayProofs` proves of the relay and its limiters:

| theorem | states |
| --- | --- |
| `LimitInEveryWindowCorrect` | `Spec => []LimitInEveryWindow` |
| `RetryAfterIsEnoughCorrect` | `Spec => []RetryAfterIsEnough` |
| `BatchLandsInOrderCorrect` | `Spec => []BatchLandsInOrder` |

For any number of clicks, any amounts and bounds, `SupportProofs` proves of a
contribution:

| theorem | states |
| --- | --- |
| `ContributionInvariant` | `Spec => []SupportInv`, the inductive invariant |
| `ReadableUnlessOvertakenCorrect` | `Spec => []ReadableUnlessOvertaken` |
| `DoneMeansRecordedCorrect` | `Spec => []DoneMeansRecorded` |
| `NoPaymentBesideAnotherCorrect` | `Spec => []NoPaymentBesideAnother` |

For any contributions in any order, any number of workers and any page size,
`CabinetProofs` proves of the cabinet:

| theorem | states |
| --- | --- |
| `CabinetInvariant` | `Spec => []CabinetInv`, the inductive invariant |
| `JobsReachTheirWorkerCorrect` | `Spec => []JobsReachTheirWorker` |
| `OneWorkerPerJobCorrect` | `Spec => []OneWorkerPerJob` |
| `NoAmountIsMissedCorrect` | `Spec => []NoAmountIsMissed` |
| `WalkIsWholeCorrect` | `Spec => WalkIsWhole`, an action property |

For any wallets and any number of prompts, `PaymentsProofs` proves of the session:

| theorem | states |
| --- | --- |
| `ShownKeysCorrect` | `SessionSpec => []ShownKeysAreCurrent` |
| `OnePromptCorrect` | `SessionSpec => []OnePromptAtATime` |

For any number of payments, any amounts that two parts can hold, any `LoRange` and
`Search` and any number of credits, `PaymentsProofs` proves of the payments:

| theorem | states |
| --- | --- |
| `AmountsCorrect` | `Spec => []AmountsAreWhatMoved` |
| `DisclosureIsTrueCorrect` | `Spec => []DisclosureIsTrue` |
| `DisclosureStandsCorrect` | `Spec => []DisclosureStands` |
| `BalancesAddUpCorrect` | `Spec => []BalancesAddUp` |
| `PaymentKeysCorrect`, `PaymentPromptsCorrect` | the session's theorems, with payments going on |

For any number of supporters, workers, faults and attempts and any size of a sweep,
`DemoProofs` proves of a demo run:

| theorem | states |
| --- | --- |
| `DemoInvariant` | `Spec => []DemoInv`, the inductive invariant |
| `ResultsAreTrueCorrect` | `Spec => []ResultsAreTrue` |
| `ReceivedIsTheSumCorrect` | `Spec => []ReceivedIsTheSum` |
| `SolComesBackCorrect` | `Spec => []SolComesBack` |

Assumptions, which TLC evaluates on each instance: `PeriodsAssumption` (a period
and the maximum are positive), `CcsupportAssumption` (valid handles are handles,
the wallets are finitely many, "no account" is not an account, ...),
`CiphertextsAssumption` (a low part is within the search), `KeySessionAssumption`
("no keys" is not a wallet), `PaymentsAssumption` (the three readers differ, an
amount is positive and its parts are within the search, and so are the low parts of
as many credits as an account takes: 2^16 of them, of at most 2^16 - 1 each, stay below
2^32), `ClientAssumption` ("no
account" is not what an account decodes to), `ProgramIndexAssumption` (a month, a day and
a page are positive, no two wallets have one rank as text), `IndexerAssumption` (slots do not fall
along the log, a signature is of one transaction, and the transactions of a slot fit
the memory of signatures), `RateLimiterAssumption` and `RelayAssumption` (limits,
windows and waits are positive, no batch is empty, a faucet request is one
transaction), `SupportAssumption` (the units of a contribution are positive, the runs
finitely many and none is called 0), `CabinetAssumption` (finitely many contributions,
no two of them equal in the order of the index; a page and the pool hold at least one),
`DemoAssumption` (there is a worker: `main.ts:50` asks for a concurrency of at least one;
at most as many repeat as there are supporters) and `SigsAreSigs` (a signature is not the name of a message).

**The terms.** Neither `PaidTimeIsKept` nor `UnbrokenTermIsExact` is
inductive. A first contribution finds `expires_at = 0` only because an account
without contributions is the zeroed one (`FreshIsZero`). An unbroken term is
extended from its expiry, not from now, only if it still runs when the renewal
comes: `UnlapsedTermRuns` relates `lapsed`, the clock and the expiry.
`ContributionsWithinPeriods` gives a renewal a positive number of periods.
`TermInv` is the conjunction of the five; three facts are proved of it (it holds
initially, every step keeps it, it implies the properties), with one step per
action and one lemma per conjunct. The arithmetic is in two lemmas:
`PaidTimeAddsUp` (the only nonlinear one) and `ExtendExpiryBounds`.
`PledgesTotalCorrect` needs that the set of supporters grows by exactly one on a
first contribution and not at all on a renewal, and that nobody pledges to an
unregistered wallet; `NoTransferNoRecordCorrect` that a transfer which matches
what the program expects is one that the token program booked for that pair.

**The client.** `SpeaksForItsCaller` is about every pair of states, so no invariant is
needed: there is one lemma per instruction, which expands what is built position by
position and meets what the handler requires of each. Only a contribution takes
more: `TransfersOfAContribution` says what the program finds in its two
instructions, and `NoTransferIsNothing` that the second is nothing to a pledge.
`ReadsAreTrue` is about reachable states: it rests on `TypeOK` (what an account's bytes
decode to is a record of the screen's fields, one lemma per kind of account) and on
`HandlesAndCreatorsAgree`, without which the page behind a handle could be another
creator's.

**The index.** What the index says when the worker is behind is nothing the chain still
holds, so `IndexInv` speaks of all the tables that there were: a sequence of tables, one
per transaction of the log, each of which is what `Apply` makes of the one before, the
database taking every write (`AreTables`); the one at `applied` is the index and the last
one is the chain (`ReplayInv`). An instruction appends one (`TablesGrow`, from one lemma per
instruction: `RegistrationIsWritten` and the like say that the event it emits turns tables
that say what the accounts said into tables that say what they say now), a rolled-back one
appends the same again, and `ApplyNext` goes one on. That no write is refused needs
`HandlesAndCreatorsAgree`. `ReceivedIsSent` says that `parseEvents` finds in the lines
of a transaction its own event and no other program's: the loop is nine lines long for
every event, so its values are given line by line. The readers need besides that a start
is after 0, which the first page has as its cursor, and that a lived month stays
counted (`ReadersInv`). For the walk over listed supporters, `PlacesOfRows` shows that
counting gives each row a place of its own and each place a row, `RestOfTheRows` that the
rows behind a cursor are the rest of the same list, and `WalkOfRows` that what
has been read after any number of pages is a beginning of it, by giving the walk's value for every page.

**The worker.** `GapsHaveACause` alone says nothing of what will be applied next. `IInv`
accounts for each transaction that landed: it is settled (applied, its handler failed,
or overtaken), without a notification that reached the worker, on the wire or in the queue
(`NothingUnaccounted`); wire and
pushes are in the order of the log (`PushesInOrder`); a pass has in front of it a
contiguous piece of the log, all settled before it (`PassIsContiguous`), and at most one
job in the queue, for the first of them (`PassHasOneJob`). So whatever job is processed
next, all before it is settled, which is `PassedIsSettled`, for the cursor in memory and
the one on disk. `AppliedOncePerLife` needs `MemoryInv` besides: the signatures remembered are
sorted by slot, end at the cursor and hold everything that this life applied in the
cursor's slot, so that a shift at the limit drops older slots only; this is where
the bound of `IndexerAssumption` is used. `IndexIsAReplica` concludes from `ReplicaInv` (the
applied transactions are `1..k`) that each step lands one, copies the next one, takes
one again or does nothing. It assumes that nothing is missed: where a handler
fails or a push overtakes, the code does skip a transaction (section 6). The fairness that `IsReplica` asks for besides
stays with TLC.

**The relay.** What a limiter counts is a pruned and swept list of times, what the
properties count is the history of allowed hits. `LimiterInv` relates the two: after any
time within the current window, the history holds no more hits of a key than its list
(`WindowsMissNoHit`), no list is longer than the limit (`WindowsFit`), and a key just
refused has a full list (`RefusedAreFull`). Pruning and sweeping are shown by lemmas to
remove only what no such time is before. `BatchInv` says that a handler is at the one
transaction that may be under way: those before it are confirmed, those after it unsent.

**The support flow.** `DoneMeansRecorded` compares what a run
believes with what the network does, so `StagesFit` bounds for each stage where its two
transactions can be. `ReadableUnlessOvertaken` needs that a plan which may still land
was made of the account as it is, unless the account changed under the run
(`PlanIsCurrent`), and that a proof whose balance is still the account's current version
was made of the true one (`BuiltOnBalance`). `NoPaymentBesideAnother` is inductive only
with `ProofsKnowThePast`: proofs that may still hold either know of every
transfer that has landed, or the account's ciphertext is no longer the one they were
made from; each landing makes a new one.

**The cabinet.** `JobsInPlace` says that a job is at one slot or once in the queue, exactly
while its promise is open. `WorkerKnows` says what is between the page and one worker:
the job it is at is in its inbox, its answer or its failure in its outbox; the key comes
before any job. The step that most can go wrong is `Pump`, which is called inside
other handlers and hands several jobs to several workers at once: `PumpPlaces` and
`PumpKnows` show both parts of it for any number of free slots. `WalkInv` says that the rows read so
far descend to the cursor and that what was there when the walk began is among them or
below it; `PageIs` and `WalkOn` show it for a page of any size. What orders rows and
slots does so by counting, which the lemmas `Places`, `OrderedList`, `KeptJobs` and
`TakingIs` make usable.

**The session.** That an answer shows the right keys depends on who waits for it.
`SessionInv` adds to the types: what the map remembers is an attempt of its
wallet, of this life, not refused (`RememberedIsCurrent`); a prompt that could be
joined is the one in the map (`OpenIsRemembered`); who waits, waits for a prompt of
the selected wallet (`CallersWaitForTheSelected`); the keys shown are those of the
map (`ShownIsRemembered`), and while none are shown somebody waits for what the map
holds (`RememberedIsAwaited`). Each but the last two speaks of the exception
`RefusedLate`, which the code's `session.ts:28` makes necessary. It ends with the life of
the session in which the old prompt was refused: `forget` empties the map and with it the
damage. Only where a mounted component still waits for an attempt that the map had lost
can it outlive that, since `forget` leaves those who wait, and their answer shows keys.

**The payments.** The reader's and the verifier's operators look only at landed
transactions and rows, so `LedgerInv` says what those are: the transactions of a
proof account are, by place, an earlier use of it if there was one, those of its payment,
then a later use; nothing follows one that failed (`HistoryOf`); a row is the oldest
ciphertext with the place of its proof (`RowsAreOfPayments`). `FetchFindsThePayment` shows
that the worker's search, oldest first, ends at the payment's own proof unless the
account was used before; `DecryptContext`
that a key reads the units where the handle is for it and nothing otherwise, in one
logarithm or in two; `CommitmentsPinTheAmount` that two contexts with the transfer's
commitments are of one amount, whatever their openings. `PaymentsRunTheSession`
shows that each step of `Payments` is a step of `KeySession` or leaves it alone,
which carries the session's theorems over.

`BalancesAddUp` needs a second invariant, of the token account: its low part is at most
`credits` low parts, so within the search; both parts together are what arrived
since they were applied last; the sum of the units over all transfers that landed is
what ever arrived (`BalanceInv`). Without the count of credits the low part grows
without bound and the owner could find no figure for it; `account.test.ts:198` shows the
count, so the model has it. The dashboard sums over the rows, which are some of
the transfers, with `MapThenSumSet`, a recursive function over subsets. That its value
does not depend on what is taken out first (`SumTotals`), that two such functions agree
(`TotalsAgree`) and that there is one (`SumExists`) are proved by a least counterexample
among the subsets or their sizes, no induction theorem being usable; then a sum over fewer rows is
no greater (`SumLess`) and one more transfer adds its units (`SumMore`).

**The demo.** `DemoInv` follows a supporter through the run. `FlowInv` ties what
`runSupporter` has in its locals to the chain: what is listed was paid, and
what was paid is listed, about to be listed or covered by an error. `PoolInv` says which worker has whom, and
that nobody is handed out twice; `QueueInv` that a settled supporter is in the queue of the next sweep or in
one sweep under way, once; `HoldingsInv` what a sweep read of a wallet; `SolInv` that SOL in a wallet is
still to be read, on its way, or in a run that will fail, unless it came late. The sums
need no induction: `ReceivedIsTheSum` compares sums over one set. The balance is named when
nobody is under way any more (`PaidIsAccountedFor`): what was paid by then is listed or of
a supporter with an error, and after it only transactions that were given up land
(`QuietStep`).

Only model-checked, and why:

- Liveness (`EventuallyIndexed`, `EveryRequestIsAnswered`, `EveryWaitEnds`,
  `EveryJobSettles`, `RunEnds`) and the fairness that `IsReplica` asks for: no backend of
  the prover reasons about `ENABLED`, which fairness is made of.

All other properties of the passing runs have a theorem.

## 6 Disagreements with the documentation

Three claims are refuted by a run. Each trace is short enough to be read.

1. **`series`** — `README.md:43` and `packages/db/src/queries/series.ts:14` say
   that the series counts who was active in each month. A renewal after a lapse
   moves `expires_at` and leaves `started_at`, so the months in between are
   counted, also retroactively.
2. **`handler_failure`** — `apps/worker/src/cursor.ts:69-71` says that a failed
   handler stops the index. The queue goes on, and the next transaction's cursor
   passes the failed one, where every later pass starts.
3. **`listing`** — `apps/web/src/screens/Support/Support.tsx:171` says that an
   unchanged form never takes a listed wallet off the page. It starts from a
   cached query which a change on the Me screen does not refresh.

Met while modelling, in a model's state space but without a run of their own:

- `apps/worker/src/subscribe.ts:42-43` says that a dropped socket costs latency, never
  records, and `run.ts:24-25` counts on the timer's backfill for what a socket drops. The first
  notification on the new socket moves the cursor past what the old one lost, if it
  overtakes the next pass: the third cause in `GapsHaveACause`. No socket need
  drop for it: what lands at start-up between the first pass's listing and the subscription
  is not notified either.
- `apps/worker/src/cursor.ts:94`: a crash between the write and the save makes the
  next life apply transactions again, over newer rows. A backfill alone brings the newer
  ones right after; with a socket a pushed transaction may come first, and a row stays as
  it was until the next event of its pledge.
- `apps/worker/src/ciphertext.ts:44-46` takes the oldest proof in a proof account's history
  for the contribution's, as it is for an account used once. The supporter holds
  the account's key: after filling it with other units and closing it, a contribution
  through it gets a row with those units, which the creator reads as the amount. `disclose.ts:207-210`
  says itself that the history is no evidence, and a disclosure from such a row does
  not verify.
- `apps/web/src/screens/Support/contribute.ts:92-98,161`: an error of the wallet does not say
  that nothing was sent, nor does a failed status (`submit.ts:28-31`) that nothing will land. A
  run that is shown as failed may have paid.
- `apps/web/src/confidential/session.ts:28`: a refusal forgets the wallet's entry,
  whichever attempt it holds by then. A prompt that was left open over `forget` and
  is refused after a new `get` takes the newer attempt with it: the wallet is asked
  twice, and keys forgotten meanwhile may be shown. Without the disjunct
  `RefusedLate`, which lasts as long as that life of the session or somebody who waits for a
  lost attempt, both session properties are violated.
- `apps/web/src/api/creators.ts:53` says that the cabinet needs every contribution
  before it can sum; with keys derived on another screen it sums what it has.
- `apps/api/src/relay/payer.ts:38` says that a rejected transaction will never land,
  while `confirm` reads the status before the blockhash, and a failure at the
  processed commitment may be taken back by a fork.
- `tools/demo/src/scenarios/us1.ts:313-314` takes the SOL in flight for one portion
  per worker and one batch. While a worker waits for its batch to land, the others
  fill the next one, and each of them may come to wait for a batch of its own.
- `apps/worker/src/ciphertext.ts:76` reads one page of the proof account's history.
- The comment at `packages/shared/src/periods.ts:20` on renewals in grace reads
  otherwise than `extend_expiry` and `README.md:42`.

## 7 What is not modelled

- Cryptography itself: proofs and ciphertexts are taken at their word (section 2);
  the search of a logarithm, keys from signatures and the parsing of bytes.
- A history of a proof account longer than one page; transactions that the node
  reads but does not serve yet, which are `HandleFail` of `Indexer`.
- The packing of instructions into transactions, which the planner decides; the
  shape it gives a contribution is fixed in `Payments`.
- The registration form's check of a handle before the signature, which the program
  repeats. The walk over listed supporters sees one index at one time; rows that
  arrive between pages are modelled for the contributions (`Cabinet`) only.
- The Audit screen (mock data), rendering, formatting, configuration, logging.
- The demo's renewal and probe scenarios, its measuring, the mint tool and the
  spikes, which try libraries out and are not run by the product.
- The bytes of single fields; the rent that accounts cost.

## 8 Plan

Done, in this order: `Periods`, `Ccsupport`, `CcsupportProofs`; `Events`, `Applier`,
`ProgramIndex`; `LogReplica`, `Indexer`; `RateLimiter`, `Relay`; `Support`,
`Cabinet`; `Layout`, `Client` under `ProgramIndex`; `Demo`; `Ciphertexts`,
`KeySession`, `Payments`; then the proofs of session, payments, client, worker, relay,
support flow, cabinet, index and demo.

What is left to model adds little that the runs do not reach: transactions with
several pledges, the checks of single instructions in `validate.ts`, a node that is behind
in `Demo`, the demo's renewal scenario. Of the claims of section 6 that have no run of
their own, the next to get one are `payer.ts:38` and `subscribe.ts:42-43`; the rows that a
restart leaves older than the chain, siblings that overtake each other within a slot, and
a job for a pool without workers contradict no document and stay hazards with a note.

To prove nothing is left but what the prover cannot: liveness, and with it the fairness
half of `IsReplica`.
