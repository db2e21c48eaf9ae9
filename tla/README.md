# hashpoo in TLA+

hashpoo is a mining pool for ORE on Solana: a server (`hashpoo/src`, Rust, tokio tasks over shared state) and a
command line miner (`hashpoo-cli/src`). The pool works in rounds of about a minute. It gives each miner a range of
nonces for the chain's current challenge, collects the solutions the miners send, submits the best one shortly
after the minute is over, and shares out what the chain pays by the difficulty each miner contributed.

This directory holds TLA+ modules translated from that code, TLC configurations that check them on small
instances, and proofs checked by TLAPS. `PROJECT.json` says which lines each definition stands for.

    tlc -config RoundFaults.cfg MC_MiningRound.tla      # one run: <name>.cfg with MC_<module>
    tlapm MiningRoundProofs.tla                         # the proofs of a module

## Inventory

| Component | State | Operations | Talks to | Module |
|---|---|---|---|---|
| `ready_clients_processor` | `ready_clients`, `app_nonce`, `client_nonce_ranges` | one distribution a second: cutoff, challenge, a range for each ready client | chain (RPC), miners; reads `app_proof`, `best_hash`, `PAUSED`, `sockets` | `MiningRound` |
| `client_message_processor` | `ready_clients`, `pongs` | Ready, Pong, BestSolution | the contributions task | `MiningRound`, `Connections` |
| `client_contributions_processor` | `epoch_hashes` (best hash, contributions) | validate and record a solution | reads ranges, sockets, `app_proof` | `MiningRound` |
| `pool_submission_processor` | `PAUSED`, resets `app_nonce`, `epoch_hashes` | cutoff, collect, freeze, up to `SUBMIT_LIMIT` attempts, discard | chain; spawns the attender and waits for it | `MiningRound`, `RoundLife` |
| attender (spawned for a landed transaction) | `app_proof`, database | wait for the new challenge, record, announce the rewards, reset, resume | database, `pool_mine_success_processor` | `MiningRound` (waiting, resetting), `Settlement` (recording) |
| `proof_tracking_processor` | `app_proof` | copy each notification | chain (websocket) | `MiningRound` |
| `pool_mine_success_processor` | database | split the rewards, store earnings, balances, contributions | database, miners | `Settlement`, `RewardSplit` |
| `post_claim`, `claim_processor` | `claims_queue` (in memory), database | check and queue a claim; pay the queue one by one | chain, database | `Claims`, `ClaimLife` |
| `ws_handler`, `post_signup`, start-up | database | authenticate, enrol; the pool and the receiver of the commissions | database | `Enrolment` |
| `handle_socket`, ping and pong tasks | `sockets`, `pongs` | connect, read, ping, remove | miners | `Connections` |
| miner (`mine.rs`, `turbomine.rs`) | mission, threads, best difficulty sent | connect, Ready, mine, submit, Ready again | server | `ClientMiner`, `NonceSearch` |
| `database.rs` (PostgreSQL) | the tables | statements, their answers and faults | all of the above | `Database` |
| `dynamic_fee` | none | priority fee from RPC statistics | chain | none |
| routes, reports, notifications | none | read-only queries and messages | database | none |

What is hard: all of these tasks share state through locks that they release at every await, and most of them
await the RPC between a check and what depends on it. The RPC may not answer, a transaction may land while its
sender hears an error, notifications may be missed or late, miners come and go, and the server may restart
(`panic = 'abort'` makes every panic of a task a restart) with only the database kept. The hazards are listed in
`PROJECT.json`, each at its line.

What makes each part correct:

* rounds: what is settled is what the chain accepted and paid, each challenge once; best hash, contributions and
  the frozen snapshot agree; missions stop during a submission and start again after it; a ready miner is
  served.
* settlement: no round is settled twice, the shares never exceed the rewards, every earning is on its miner's
  balance, and the attender and the processor come to their end.
* claims: a miner is paid what it asked for once, and never more than its balance unless it sends requests at the
  same time.
* connections and enrolment: no connection outlives its socket, none that answers is removed; every miner has one
  balance.
* the miner: the best solution of a mission is found and reaches the server; missions and Ctrl-C come to an end.

## Plan

Done: `MiningRound` (coordination of a round) with the abstract `RoundLife` that it implements, `Claims` with the
abstract `ClaimLife` that it implements, `Database`, `RewardSplit` and `Settlement` (records and shares), `Enrolment`,
`Connections`, `ClientMiner`, `NonceSearch`; `Sums` for what adds up over rows; a module of proofs for each, in which
every safety property that a passing run checks is proved.

Open, in this order:

1. A ledger that `Settlement` implements. Most of what it would say is said by `SettledOnce`, `BalancesAreEarned`,
   `NotOverpaid` and `BooksBalance`, which relate every reachable state of the tables to the rounds; the ledger would
   add that each row is entered by a step of its own round.
2. What a claim confirmed during a round does to the rewards: `RoundLife` with rewards that are at most what was paid.

Composition: `Settlement` takes any sequence of landed transactions with their results, of which `MiningRound`
produces some; `MiningRound` takes miners that answer a mission with solutions above `MIN_DIFF`, which `ClientMiner`
shows them to be (`SentIncreasing`, `ReadyOnlyBetweenMissions`); `ClientMiner` takes any search, of which
`NonceSearch` is one; `Connections` has the sockets that `MiningRound` lets come and go. A product of two of them
would have more states and no behaviour that the parts do not have: each takes every input that the other can give.
`Settlement` and `Enrolment` share the statements in `Database` and EXTEND it.

## MiningRound

Every task is a program counter with its locals (`dist`, `contrib`, `sub`), cut at the awaits where another task
can change what it has read. The state is the code's:

| Module | Code |
|---|---|
| `appProof` | `app_proof`: challenge and balance |
| `readyClients`, `sockets` | `ready_clients`, `AppState.sockets` (the keys) |
| `appNonce`, `nonceRanges` | `app_nonce`, `client_nonce_ranges`, in units of `NONCE_RANGE_SIZE` |
| `bestHash`, `contributions` | `epoch_hashes`; `best_hash.difficulty` is derived from the solution |
| `paused` | `PAUSED` |
| `missions` | the tasks spawned at `ready_clients_processor.rs:114` that have not finished |
| `solutions` | the two unbounded channels from the connections to the contributions task |
| `mineSuccess` | messages for `pool_mine_success_processor`, all of them kept |
| `landed`, `balance`, `age`, `inflight`, `sent` | the chain: accepted solutions, the pool's balance, nearness to the cutoff, transactions under way |
| `notifications` | proof notifications not yet handled |
| `client`, `job` | the miners |

A challenge is the number of solutions accepted before it, so that "older" and "newer" make sense; the code
compares challenges only for equality. A solution is a record of its miner, challenge, range and difficulty.
`Cutoff` has three values because the code distinguishes three: 10 seconds or more, less than 10, none.

Decisions a reader may question:

* *Steps that are one although the code locks more than once.* `ContribValidate` reads range, socket and proof: no
  task reads one to change another. `ContribRecord` reads the contributions and writes later; it is the only one
  that inserts, and a reset in between has the same effect as a reset before. The resets of nonce, epoch and `PAUSED`
  follow each other without an await on anything but a lock. When the chain still has the challenge of the solution,
  an attempt's validity check and its sending are one step.
* *Fetched, then stored.* A proof that comes from the RPC is stored when the lock of `app_proof` is had, which may be
  after the chain has moved on and the notification of that was handled: `Fetch` and `Store`, in the attempt
  (`SubAttempt`, `SubSync`), the attender (`AttendCheck`, `AttendHear`) and the refresh after a submission that failed
  (`SubDiscard`, `SubRefresh`). In the last, an older proof may replace a newer one.
* *The attender* runs while the submission loop waits for it (`mission_completed_receiver`), so both are one
  program counter. When it gives up after `CHECK_LIMIT` the loop goes on, with everything left as it is.
* *`get_clock`* repeats until the RPC answers; a step that needs it may simply not be taken yet.
* *The wallet of a solution* is the one its connection authenticated with. `epoch_hashes.challenge` is never read
  and left out. Addresses, and connections removed by them, are the subject of `Connections`.
* *A transaction for a challenge that is over* cannot land, so it is not kept in `inflight`.

**Failures** are a constant: `rpc` (no answer), `confirmation` (an error for a transaction that may have landed or may
land later), `notification` (missed while the subscription is re-established), `disconnect`, and `delay`. Without
`delay` three things that take seconds are assumed not to outlast one that takes tens of seconds: a round has fifty
seconds before its cutoff, in which notifications are handled and the submission loop gets past the awaits between
reading the proof and freezing (`OnTime`); a miner does not solve a new challenge during the one call between the
submission loop's reading of a proof and what it does next, which is reading the best hash, or storing that proof
(`IssuedSince`); and the task spawned for a mission, and the distribution's removal of the client from
`ready_clients`, are done before the miner has mined it. `SettledIsLanded` and `ImplementsRoundLife` need these
assumptions: `RoundFaults.cfg` makes them, and so do the theorems about these two. With `delay`
(`RoundTwoMiners.cfg`, and the theorems about the other properties) nothing is assumed.

There is no property of the nonce ranges or of the order in which `app_proof` changes. Ranges do disagree when two
miners share a wallet or a spawned task is late, which costs the miner its solutions; `app_proof` does go back, by a
notification that comes late or by a refresh. What matters is that nothing wrong is settled for it: the two properties
above are checked, and proved, with an `app_proof` that a refresh has taken back, and proved for shared wallets as well.

### Runs

| Run | Question | Bounds |
|---|---|---|
| `round_faults` | Is what is settled what the chain accepted and paid, once, whatever fails? Is all of it an implementation of `RoundLife`? | 1 miner, 2 accepted solutions, 3 Ready messages, 2 queued solutions, all faults but `delay`, no claims |
| `round_two_miners` | Do best hash, contributions, snapshot and pause agree in every interleaving? | 2 miners, 2 difficulties, 1 accepted solution, 1 claim, 2 Ready messages, `rpc` and `delay` |
| `round_liveness` | Does every pause end, and is every ready miner served, if settlements end? | 2 miners, 1 difficulty, 1 accepted solution, `rpc` and `confirmation`, fairness |
| `round_contributions` | violated: the contributions task ends only when its senders are gone | 1 miner |

Two accepted solutions are needed for a round to be settled with a proof of the one before, and three Ready
messages for a miner to take part in a third. Two attempts (`SubmitLimit = 2`, the code has 5) give one retry, two
checks (`CheckLimit = 2`, the code has 30) give one unsuccessful check before giving up, and one checkpoint
(`WaitLimit = 1`, the code has 6) gives both outcomes. Two miners are enough for one to beat the other between a
read and a write; ranges, contributions and sockets of different miners do not interact otherwise.
`CHECK_DEADLOCK FALSE`: at the bounds the chain accepts nothing more and all miners may have left, and the
contributions task may have ended; the tasks then have nothing to do.

**Fairness** (`FairSpec`) is weak fairness of time, of the handling of notifications and of each of the server's
tasks: each is a loop of its own on the tokio runtime, whose awaits all end (RPC calls have a timeout and a number of
retries, and `get_clock` repeats until it has an answer). Miners, the chain accepting a transaction, and every fault
have no fairness. So `MiningResumes` holds even if nothing lands: the submission then gives up and discards.

The attender's fairness ends where its work on the database begins (`AttendSettle`): there it repeats each call
without a limit (`pool_submission_processor.rs:606-664`, `707`, `722`), and it may never end. Both liveness properties
are therefore stated on condition that settlements end (`SettlementsEnd`), and claim nothing of a server whose attender
is stuck: its pause does not end. That the attender does come to an end, in spite of faults and restarts and as long
as no challenge has two records, is what `Settlement` shows of it (`RoundsAreSettled`).

### Proofs

`MiningRoundProofs` proves every safety property of the module, for any sets of clients, wallets and difficulties,
any limits and bounds, under the assumptions stated with the constants.

`TypeCorrect`, `BestHashCorrect`, `FrozenCorrect` and `PauseCorrect` hold for any choice of faults. They follow from
one inductive invariant, `RoundInv`. None of the four is inductive by itself:

* `TypeOK` needs `BestChosen` (a submission that has collected has a solution), or an attempt could send `None`;
* `BestHashIsBest` needs `QualifiedIsRecorded`: a solution that is about to be recorded has at least the minimum
  difficulty, which is positive; otherwise a solution of difficulty 0 would be recorded and not become the best;
* `BestIsFrozen` needs `BestIsContributed`: between the collection and the freeze the chosen solution's miner is
  still among the contributors and at least as hard; it holds because only the submission itself resets, and a
  miner's contribution is only replaced by a harder one;
* `PauseIsHeld` needs all of it, as missions are paused with the best hash still in place.

`TypeInit` and `TypeNext` show the types, `ResetRestores` and `RecordPreserves` the two operators that the steps
share, `RoundInit` and `RoundNext` the rest, one step per action.

`SettledCorrect` and `RewardsCorrect` follow from `OrderInv`, which relates the wire to the chain. Notifications under
way are of the running challenge, and none is under way after the cutoff (`ProofsAreCurrent`); nothing is ahead of the
chain, though `app_proof` may be behind its own missions (`NothingIsAhead`); a proof that is about to be stored after
a failed submission may be old, but not older than the solutions there are (`RefreshIsOld`); a submission begins with
the proof its solutions were mined for, or a later one (`SolutionsAreOfRound`, `BestIsLatest`); while a transaction may
land the whole server is at the running challenge (`OffersAreCurrent`), so that an old proof is only ever stored when
nothing it could harm is under way; the transaction that a confirmation is about is the last one sent, and what landed
is what the submission had chosen (`LandInv`); once the attender settles, `app_proof` is the proof of what it settles
(`SettlingIsHeard`); and every balance that is kept anywhere is the one after as many rewards as its challenge says
(`BalancesAreExact`). `app_proof` is not monotone, and no part of the invariant says so. Two hypotheses are made by
name:

* `Timely`: `"delay" \notin Faults`, see above;
* `QuietClaims`: a claim is confirmed before the cutoff, with `app_proof` at the running challenge and no refresh about
  to be stored. The notification of another can still be under way when the attender or the refresh has read the next
  proof from the chain, or come between two of them, and `last_challenge` of `proof_tracking_processor` is never
  assigned, so that it is not refused. In `round_faults` there are no claims, so that it holds there.
  `RewardsCorrect` says nothing once a claim was confirmed: a claim lowers the balance whose difference is taken.

Only model-checked: the liveness properties, which are beyond this prover.

### RoundLife

`RoundLife` says what all of this is for, without tasks, attempts, messages or errors: the pool has one submission at
a time, a solution with the contributions that share in it, its finder's among them; it offers the solution to the
chain, which accepts one of those it was offered for each challenge; and the submission is settled, if its solution
is the one that was accepted, for what the chain pays, later than every other that was settled; or it is given up.
`MiningRound` implements it (`ImplementsRoundLife`): `accepted` and `offered` are the solutions of `landed` and
`inflight`, `submission` is what `sub` has frozen, from the freeze to the reset, and `settled` is `mineSuccess`.

`RoundLifeCorrect` proves it for all constants, with `Timely` and as long as no claim is confirmed (the settled
rewards are a difference of balances, which a claim lowers). `OfferInv` adds to `OrderInv` which challenge the
solutions with the chain are for: `OrderInv` says that what landed is what was submitted, and this that it is
where `accepted` has it. Then `SubFreeze` is a `Begin` (the finder's share is `BestIsContributed`), an attempt that is
sent an `Offer`, `Land` an `Accept`, `AttendSettle` a `Settle` (`LandInv` for the solution and for the order,
`RewardsAreExact` of the next state for the rewards), `SubRefresh` and an attender that gives up a `GiveUp`, and each
other step leaves what `RoundLife` sees as it is. In particular no contribution that comes after the freeze, and no
miner that leaves, changes what is settled. As `Settle` pays `Reward`, it says what `RewardsAreExact` says, which no run
checks by itself.

## Claims

A miner asks for part of its balance with a signed request (`post_claim`); the request is checked in four awaits and
put into `claims_queue`, a map in memory with at most one entry per miner. `claim_processor` takes any entry, signs
and sends one transaction, polls its status, and records the payment in four writes before it removes the entry.

| Module | Code |
|---|---|
| `queue` | `claims_queue`, from miner to claim |
| `request` | the handlers of `post_claim`, each a program counter with the amount asked for |
| `proc` | the locals of `claim_processor`: miner and claim it copied from the queue, the signature |
| `balance`, `poolClaimed` | `rewards.balance`, `pools.claimed_rewards` |
| `transactions`, `claims`, `recent` | how many rows of `transactions` and `claims` there are for a signature, and whether a miner's last claim is at most 1800 seconds old |
| `txs` | the chain: every transaction the processor signed, with its status (`signed`, `pending`, `confirmed`, `finalized`, `dropped`) and whether it was executed without an error |
| `earned`, `accepted` | what a miner was credited, and the number of claims accepted; neither is in the code |
| `overlapped`, `lost`, `deductedUnheard`, `claimedUnheard` | history, not in the code: which miners had two requests at a time, how many writes lost their answer, and what those deducted and added |

Decisions a reader may question:

* *The identity of a claim* is the number of claims accepted before it. The code has none, and it is what the
  properties are about. A transaction carries the claim it pays.
* *The checks of the amount* against the two minimums (equal, `main.rs:119` and `124`) restrict `Amounts`, and the
  look-up of the token account between them is not told apart: the amount is at least 500 000 000 grains, so that the
  deduction of 400 000 000 for opening the account cannot wrap. Amounts in the model are small numbers.
* *A balance below zero*, compared as a `u64` (`main.rs:1480`), passes every check: `Covered`.
* *Requests.* The HTTP server handles requests at the same time, also those of one miner: `Miner` assigns any number of
  handlers to a miner. What is promised to a miner without overlapping requests is not promised to one with.
* *A write to the database that fails* is repeated by the code on any error. If it was not executed, that is no step. If
  it was executed and only its answer was lost (fault `answer`), the step stays where it is with the tables changed, and
  is taken again: balance and pool total are relative updates, transaction and claim are inserts without a unique key
  (`database.rs:1537`, `565`, `1093`, `1006`). `AddNewClaim` begins with the look-up of the transaction by its
  signature, which has one answer only if there is one row. A read that fails refuses the claim at the balance, and
  passes the check of the last claim (`if let Ok`): fault `read`.
* *Time.* The processor waits 200 seconds, a blockhash lives about 90 and a transaction is finalized about 13 seconds
  after it was confirmed. So at "Transaction Expired" the transaction is finalized or was never executed
  (`PollExpired`), and it is finalized while it is being polled only if some twenty polls in a row fail (fault
  `outage`).
* *Restart.* A panic of any task aborts the server (`panic = 'abort'`, `Cargo.toml:118`), for which `claim_processor`
  has several `unwrap`s after the payment. The database and the chain keep their state; the queue is lost, and the
  miner may claim again what was paid but not deducted.
* *Sending* is repeated with the same transaction. Once that was executed or has expired, the RPC refuses it each time
  and the processor stays in the loop (`claim_processor.rs:102`): `Send` is then disabled, and nothing but a restart
  ends it. This, and the bounds, is why the cfgs say `CHECK_DEADLOCK FALSE`.

### Runs

| Run | Question | Bounds |
|---|---|---|
| `claims_paid` | Is a claim paid once, recorded as paid, covered, and not lost? Is all of it an implementation of `ClaimLife`? | a miner with two requests at a time and a miner with one, amounts of 2 out of a balance of 3, 3 requests, 2 transactions, 1 restart, 1 credit for each miner, 1 lost answer, all faults but `outage` |
| `claims_expired` | violated: an expired transaction was not executed | the same miners, 1 request, 2 transactions, `outage` only |

Two transactions allow a claim that fails or expires to be tried again, or to be followed by a claim of either miner,
and two claims of one miner to be both paid. After one claim of 2 out of 3 a balance covers a second only with the
credit, so that both answers of the check occur, and it is overdrawn by a second that was checked before. One lost
answer repeats any one of the four writes; one restart at any point, and a request after it, is the case of a payment
that was not deducted.

What overlapping requests and lost answers do is part of the properties. `NeverOverdrawn` says that a balance is
negative only after one or the other; `OnlyPaidLeaveQueue` that an accepted claim leaves the queue unpaid only when an
overlapping request supersedes it (`Superseded`: a later claim of the miner takes its place, or it goes with an earlier
one that was paid); `LedgerAgrees` that the books are those of the payments but for what lost answers have repeated,
and that a row is repeated no more often than an answer was lost. None of them excludes a behaviour of the code: they
say what nothing else may cause, for a claim that was checked, queued, copied by the processor and removed by its
miner's key only.

### Proofs

`ClaimsProofs` proves, for any sets of miners and requests, any amounts and bounds:

* `TypeCorrect`;
* `PaymentsLeadCorrect`: whatever fails, a miner's records are no more than its charges, and those no more than what
  it was paid; a charge is what was deducted less the deductions whose answer was lost (`Charged`). The invariant
  `PaymentsLead` adds to each side what the processor has still to deduct or to record of the payment under way, and
  `RecordsPayment` says that this payment is the one its locals speak of;
* `LedgerCorrect`: without the fault `outage`, all of `LedgerAgrees`. `NothingForgotten` is what makes the books agree
  exactly until a restart: a transaction that was or may be executed has its record or is the processor's. That the
  processor never leaves such a transaction is `EndIsSeen`, hence the assumption. `RowsAreFew` bounds the rows. Totals
  over transactions are sums (`Total`), whose laws are in `SumProofs`;
* `PaidOnceCorrect`: without the fault `outage`, `EachClaimPaidOnce` holds, for any assignment of requests to miners.
  The invariant is `OnceInv`: claims are numbered in order (`ClaimsAreNumbered`), a claim has at most one transaction
  that was executed or may still be, none while it waits and none but the processor's while it is worked on
  (`AliveOnce`), and what has expired was not executed (`EndIsSeen`, the only part that needs the assumption);
* `NeverOverdrawnCorrect`: `NeverOverdrawn` holds, whatever fails. What a request has checked must still hold when the
  claim is deducted, for a miner without overlapping requests and lost deductions (`Sound`), which is
  `AmountsAreCovered`; and that needs `QueueIsHeld`: no claim of such a miner is queued while its request is checked,
  and the claim being paid is the one in the queue. `OverlapIsSeen` says that two handlers at work for a miner make it
  one with overlapping requests;
* `OnlyPaidLeaveCorrect`: `OnlyPaidLeaveQueue` holds, whatever fails, from the same invariants and `RecordsPayment`:
  what is in the queue for the miner of the claim that is being paid is that claim or, after overlapping requests, a
  later one (`QueueIsHeld`).

`PaidOnceCorrect`, `LedgerCorrect` and `ImplementsLife` need the assumption: `claims_expired` is what happens without
it. The others assume nothing.

### ClaimLife

`ClaimLife` says what all of this is for, without requests, RPC calls or transactions that may fail: a miner has one
accepted claim at a time, a claim is paid by one transaction, what is paid is recorded, and only what is recorded is
done with, unless a restart forgets it. To a miner that sends requests at the same time (`raced`) it promises less: a
later claim of its own may take the place of an earlier one, or be done with when that one is. `Claims` implements it
(`ImplementsClaimLife`) with the mapping that the `WITH` gives: `queue` and `restarts` are themselves, `issued` is
`accepted`, `payments` are the claims and signatures of the executed transactions, `recorded` those with a row in
`claims`, and `raced` is `overlapped`. Repeated writes cannot be seen: what is recorded twice is recorded.

`ClaimsProofs` proves it for all constants without the fault `outage`. `LifeInv` collects the invariants that the
mapping needs: that the queue is held (an insert accepts, and replaces only for overlapping requests), that a claim is
alive at most once (what is executed was not paid before), and what the processor's locals refer to (it removes the
claim that it has recorded, or one that came with an overlapping request). Then `Insert` is an `Accept`, the execution
of a transaction a `Pay`, `AddNewClaim` a `Record`, `Dequeue` a `Finish`, `Restart` a `Forget`, a second `Receive` of a
miner a `Race`, and each other step leaves what `ClaimLife` sees as it is.

## Settlement, RewardSplit, Database

`Database` has the statements that settlement and enrolment use. Each is an operator from the tables to the set of
its answers: the tables afterwards, the result the Rust function returns (`ok`, `connection`, `query`, `rows`, or
`abort` where the code unwraps and `panic = 'abort'` ends the process), the row, and the fault on the way. Four
faults can happen: no connection to be had, a refused statement, an answer lost after the statement was executed,
and a crash between two calls. What a statement without a transaction does, and what its caller makes of each error,
is the code's: the attender takes any error of `get_challenge_by_challenge` for a missing record, for instance, and
`query_one` fails on two rows. The rows that a query finds are a set, and what is summed over rows is a sum to the
length of the table (`Sums`, `PaidTo`): the folds of the community modules are out of the provers' reach.

`Settlement` has the attender from the new challenge on (find or insert the old record, insert the new one,
commission, its credit, message, resume) and `pool_mine_success_processor` (three tables in batches, the pool's
total, the winner), both cut at every call, with a restart at any time. `RewardSplit` is the arithmetic: five per
cent, then two truncating divisions.

| Module | Code |
|---|---|
| `db.challenges`, `.contributions`, `.earnings`, `.rewards`, `.total` | the tables, and `pools.total_rewards` |
| `attender`, `processor` | the locals of the two tasks and the call they are at |
| `queue` | the channel between them |
| `server` | start-up, which inserts the record of the current challenge |
| `challenge` | the chain's; `LandUnattended` moves it on without the attender |
| `rewarded`, `crashed`, `faults` | history, not in the code |

A row's id is its position, as nothing is deleted. The nonce and the hashpower of a contribution are numbers of the
instance; the messages to the miners, and logging, are left out. How much a round paid is an input (see
`MiningRound` for where it comes from).

| Run | Question | Bounds |
|---|---|---|
| `settlement` | Is each round settled once, is what is credited earned and not more than the reward, is the winner of its round, and do the tasks come to an end? | 3 challenges, results with 1, 2 and 3 contributions, batches of 2, 2 faults, 5 records of challenges, fairness |
| `settlement_duplicate` | violated: a challenge has one record | the same with one failure to connect |

Three challenges give two settled rounds, so that a row of the one can be mistaken for one of the other. The results
(`MCResults`) are one of each kind that the submission can send: a round whose winning nonce is among its
contributions, as it is in other rounds; one whose frozen contributions lack it, as the nonce is read
(`pool_submission_processor.rs:116`) before the contributions are frozen (line 133), over two batches with a miner
without a row in `rewards`, which `ws_handler` can leave; and one of that miner alone. Three contributions over batches
of two give a full batch, a partial one and a boundary; 47 and 100 do not divide by the hashpowers. Two faults are a
failure and a failure of its retry, or a failure and a restart.

`WinnerIsOfRound` says that a challenge names a contribution of another round only if its own round has no contribution
with the nonce that was sent: that happens in this run, and nothing else makes it happen, though two rounds' rows are
written by batches that are repeated and by a process that may die in between. `RoundsAreSettled` has two parts. The
attender comes to its end, and with it the pause of mining, as long as no challenge has two records:
`settlement_duplicate` shows how one comes to, and then the attender's look-up fails for ever. The processor drains its
queue if, in addition, every batch of rewards has a miner with a row (`SomeoneIsEnrolled`); else the update is refused
for ever, which this run can reach without any fault.

The fairness is of the tasks and of start-up; faults end at the bound, as `RoundsAreSettled` can only hold if the
database answers some day.

### Proofs

`SettlementProofs` proves every safety property that `settlement` checks, for any miners, rewards, hashpowers, batch
size and numbers of rounds, and any faults and crashes. Each step is first taken apart into the call, its answer and
what the task makes of it (`StepIs`); the invariants are then layers, each shown with the ones below:

* `Shape`: the types, and which round each row, message and task is about; `TypeCorrect`.
* `Fresh`: who still has to write for which round, and so that there is no row of it yet; `SettledOnceCorrect`. A
  batch that is tried again has written nothing: it found no connection, or no row to write. A statement of it that
  fails, or whose answer is lost, is unwrapped, and the process dies with the task that would have written it again.
* `Owed`: a balance and what is still due to it are at most what was earned, and just that if no process died;
  `BalancesCorrect`, and with `Booked`, the same for the pool's total, `BooksBalanceCorrect`.
* `Paid`: what is recorded for a round is at most the commission and the shares written so far; with the arithmetic of
  the split (two truncating divisions of numbers that add up to the whole), `NotOverpaidCorrect`.
* `Named`: a challenge that names its winner is one of which nothing more is recorded (`Closed`), and the winner is of
  its round if there is one with its nonce; `WinnerCorrect`, for all results. That a round is closed is what keeps the
  answer of the look-up right afterwards, as a row written later could have the nonce.

`SumProofs` has what they need of sums (equal terms, one more term, one term changed, two sums together, one sum
continued by another), and the two principles behind it, a least element and induction for a set of natural numbers.
The induction theorems of the library take an operator, which the provers cannot instantiate, but a set does as well.

## Enrolment

`post_signup` adds miner and balance in one transaction, `ws_handler` in statements of their own (miner, pool if
there is none, balance), with what it remembers of the first two results; `main` enrols the receiver of the
commissions. Two handlers (`Handlers`) work on any keys, and each is cut at every call. An abort is the code's:
`signup_enrollment` unwraps the insert of a miner, so that two sign-ups of one key abort the server.

The run `enrolment` (2 handlers, 3 requests, 3 keys of which one is the receiver's and one disabled, 2 faults) shows
that no miner ever has two balances, that `SUCCESS` of `post_signup` means a balance, that requests without a fault
leave no miner without one, and that start-up succeeds some day, whatever is in the database (fairness of start-up
and handlers). Two handlers meet in every pair of calls; a third request comes after a restart.

`EnrolmentProofs` proves `TypeCorrect`, `OneBalanceCorrect`, `SuccessCorrect` and `EnrolledCorrect` for any keys,
handlers, faults and bounds. `EnrolmentInv` rests on ownership: the handler whose insert of the miner was answered
with `ok`, and no other, adds its balance (`Owner`); its miner has none before (`OwnerHolds`); two owners own
different miners (`OwnersDiffer`), because keys are unique (`TablesAreSound`); and unless something was interrupted, a
miner without a balance has an owner (`MinersAreServed`).

## Connections

A connection is its task in the server (accepted, pinged, reading, ending, closed) and its client (up, silent,
gone); `sockets` and `pongs` are maps from addresses, as in `AppState`. Three tasks remove by address: the
connection's own, the ping task after a failed ping, and the pong task for clients silent for more than 90 seconds.
An address can be used again once its client has gone.

Time is counted in half seconds and passes in steps of `Step`; what is due is done before it passes (`NothingIsDue`),
which is how 45 seconds of the pong task, 30 of the ping task and 45 of the client's patience can be compared. The pong
task compares whole seconds, so that its limit is the longest time that is cut off to 90.

A round of pings ends when the slowest socket has taken its ping (`ping_check_processor.rs:31-42`), and the next begins
30 seconds later. A socket takes a ping at once unless nobody reads at its other end: then its buffers may be full, and
it may hold back its ping, with it the round, and with that the removals that are left in it (`HeldUp`). Nothing in the
code bounds how long. `SlowPing` is the bound of the model: half of what a client's patience leaves beside the period.

The run `connections` (2 connections, 2 addresses, steps of 7.5 seconds, rounds held up for 7.5 seconds at most) shows
that a socket in `app_state` has its reader, that a client that answers is removed only in place of a predecessor at
its address, that registered clients hear the server in time though another's socket holds up the round, and that
silent ones are removed within 135 seconds and the fraction. Two connections are enough for a predecessor and a
successor at one address, and for two clients side by side, of which one holds up the other's pings. All periods are
multiples of the step.

`ConnectionsProofs` proves all of it for any numbers of connections and addresses, and any horizon. `SocketsAreRead`
is inductive with the types: a task that ends leaves no entry of its own behind because an entry is at its
connection's address, and a removal by address never adds one. The other three properties depend on how the periods
interleave, and each holds for every step of time that is fine enough, which 7.5 seconds are:

* `AnsweringCorrect`: if a client's patience and a step fit into the tracker's limit (`FineTracker`). Of the first
  connection at an address, the entry of `app_pongs` is no older than the last thing the client has heard, or a Pong
  is on its way (`FirstAreFresh`); so that what the tracker holds for expired had a former owner (`ExpiredAreFormer`).
* `HeardCorrect`: if the time for which sockets hold up a round, a ping period and a step fit into the client's patience
  (`FinePings`): what a client has waited and the pinger will still wait is at most a round and a period
  (`AllHeardInTime`). If sockets hold a round up for more than 15 seconds, clients that are well do give the server up.
* `SilentCorrect`: if a step divides the tracker's period (`Divides`), or its looks would come later than they do. The
  entry of a silent client is at least as old as its silence (`SilenceIsHeld`), which needs that connections at one
  address follow one another (`Succession`), or another's Pong would make it younger; and the tracker looks before an
  entry is older than the limit and a period (`AgesAreBounded`).

`AnsweringCorrect` and `SilentCorrect` hold however long a round of pings is held up.

## ClientMiner and NonceSearch

`ClientMiner` is the miner's process: the connection loop, the receiver thread, the task of each mission with its
mining threads (a solution is what it is worth), and the submission processor with its channel. It covers `mine`
and, but for the search, `turbomine`. The run `client_miner` has two mining threads, two missions, two difficulties
and one connection that may break at any time: everything but `running` and the connection loop belongs to one
connection, and the loop that reconnects is in the model. It shows that what is sent for a mission gets better and
better, that its best is sent though Ready overtakes it, that Ready is never sent while a mission is on, and, with
fairness of the threads and of a server that pings its sockets, that missions end and that Ctrl-C ends the program.
`ReceiveIdle` is what the latter rests on: the message loop does not look at `running`, and it is the time-out since
the last StartMining that ends it.

`ClientMinerProofs` proves `IncreasingCorrect`, `ReadyCorrect` and `BestSentCorrect` for any number of threads,
missions and connections, and all that solutions may be worth. `MinerInv` has two parts. `RoundInv`: a Ready, a
mission on its way to the miner and one that is worked on are one per connection (`OneAtATime`). `PipeInv` is about
the order of the processor's queue: a solution may only be behind one of its own mission, with no Reset between them,
and what has been sent for its mission is at most the processor's best, or nothing if a Reset is still before it
(`Ordered`); on a connection that lasts, the processor's best has been sent for the mission of what comes next
(`BestKept`), and what a mission has found is on its way or was sent (`AllKept`).

`NonceSearch` is one mission's search: the nonce loops of both programs, which share `running`, the clock and
(`turbomine`) `stop`. The thread's position, chunk and best are the closure's locals. The run `nonce_search` takes a
range of 9 nonces for 2 threads, so that the parts are uneven, chunks of 3, a look at the clock every second nonce,
solutions of two difficulties near either end, and Ctrl-C, the cutoff and a closed channel at any time. No fairness
is stated: it asks only for safety.

`NonceSearchProofs` proves all of it for any number of threads, range, chunk sizes, periods and worths: first the
arithmetic (the cores' parts do not overlap and cover the range: `CoresApart`, `CoresCover`; a chunk fits:
`ChunkInCore`; a remainder that is not 0 is one more than its predecessor's: `NotDivided`), then the inductive
`SearchInv`: where a thread is in its chunk and its part and what it has hashed (`Position`), that its best is the
best of those (`Best`), and how many nonces it has hashed since the cutoff (`Late`). `RangeIsSharedOut` is not
inductive because it does not say how far a thread is, `CutoffIsKept` because it does not say when the next look at
the clock comes, `BestIsReturned` because it speaks of the end only.

## Findings

Shown by a run that violates what the repository says:

* A solution of a wallet without a nonce range makes `client_contributions_processor` return
  (`client_contributions_processor.rs:48`): from then on no contribution is recorded. The range is inserted after
  the mission was sent, so a new wallet's quick first solution is enough (`round_contributions`).
* A claim that was paid can count as expired, as the status Finalized is no answer to `claim_processor`; it is then
  paid again (`claims_expired`).
* A connection that cannot be had while the attender looks up a challenge makes it insert a second record of it,
  after which every look-up of that challenge fails and the attender never ends (`settlement_duplicate`).

Behaviours of the models that a reader of the code may not expect, without a run of their own:

* `PAUSED` is checked before the await of a distribution and not after it, so missions of a round under submission
  still go out.
* A transaction that landed without its confirmation being received is discarded as failed, and its rewards are
  never shared out.
* `last_challenge` of `proof_tracking_processor` is never assigned, so old notifications are applied; and the proof
  that a failed submission stores was read before the lock was had, so that it may be older than what it replaces
  (`pool_submission_processor.rs:836-841`). Until the next notification, missions then go out for a challenge that is
  over.
* Ranges belong to wallets, although several miners may use one (`main.rs:1689`): a miner's solutions are dropped once
  another of its wallet has taken a range.
* Two requests of one miner that overlap can both be answered with "SUCCESS", as `post_claim` does not check the queue
  again when it inserts. One of them is then lost, or both are paid and the balance is overdrawn (`overlapped`). A
  negative balance, read as a `u64`, covers any later amount.
* A write of `claim_processor` that was executed with its answer lost is executed again: the miner is charged twice, or
  the pool's claimed rewards are counted twice, or a row is there twice. Two rows of the transaction make
  `get_transaction_id_by_sig`, which wants exactly one, fail for ever (`claim_processor.rs:176-186`), and no further
  claim is paid until a restart.
* A miner whose contribution is replaced by a better one between the two reads of `epoch_hashes` in a submission
  (`pool_submission_processor.rs:116` and `133`) wins the round with a nonce that is not among its contributions. The
  look-up by nonce alone then finds nothing, and the challenge stays without its winner and its rewards, or it finds an
  earlier round's contribution, which is recorded as the winner (see `WinnerIsOfRound`).
* A round whose only contributor has no row in `rewards` blocks `pool_mine_success_processor` for ever: `update_rewards`
  refuses a batch that changes no row (`database.rs:1522`), and the processor repeats it
  (`pool_mine_success_processor.rs:203-220`). It takes no further fault (see `SomeoneIsEnrolled`).
* A claim confirmed after the cutoff, or while an old proof is about to be stored, can leave a notification that takes
  `app_proof` back to the challenge before (see `QuietClaims`).
* Once its transaction was executed or has expired without an answer, `claim_processor` sends it for ever
  (`claim_processor.rs:102`).
* A lost answer of `update_pool_rewards` counts a reward twice in the pool's total (`BooksBalance` allows for it),
  and a crash between two of the processor's tables leaves the round's later ones unwritten (`BalancesAreEarned`
  says in which direction).
* Two sign-ups of one key at the same time abort the server; a fault between the statements of `ws_handler` leaves a
  miner without a balance, which later requests do not add.

The hazards without a property are listed in `PROJECT.json` with the reason.

## Proved and checked

Proved for every value of the constants: 36 theorems in seven modules (`PROJECT.json`, "theorems"), and the lemmas
they rest on, those about sums in an eighth. 32 of them are the type invariants, the safety invariants and the action
properties that the passing runs check, all of them, and the refinements of `ClaimLife` and `RoundLife`. Hypotheses
are named where they are made, and each is discussed with its module: `Timely` and `QuietClaims` (`MiningRound`,
`SettledCorrect`, `RewardsCorrect` and `RoundLifeCorrect` only), the absence of the fault `outage` (`Claims`,
`PaidOnceCorrect`, `LedgerCorrect` and `ImplementsLife` only), `FinePings`, `FineTracker` and `Divides`
(`Connections`). The runs that check these properties satisfy them. Nothing is assumed in the other modules.

Model-checked only: the liveness properties and whatever depends on fairness (`MiningResumes`, `MinersAreServed`,
`RoundsAreSettled`, `StartsAgain`, `CtrlCExits`, `MissionsEnd`), which are beyond this prover; and the three
properties that are violated.

`CHECK_DEADLOCK FALSE` is stated where a bound ends the behaviour (rounds, requests, missions, faults) or the
program itself ends (the miner after Ctrl-C, a search once it is joined). `Connections` has no such bound on time
and is checked for deadlock.

## Not modelled

Queries and reports (`routes.rs`, `rr_database.rs`, `reporting_processor`), notifications to Slack and Discord, byte
layouts, the TPU client's internals, logging, configuration, the SQLite build (the default is PostgreSQL, with the
same statements), and the command line tools beside mining: they keep no state that others use. `dynamic_fee`
computes a price from statistics; the price decides only when a transaction lands, which `MiningRound` leaves open.
Of what is modelled, these parts are left out: the messages to the miners and `messaging_all_clients_processor`;
threads of `mine.rs` whose core could not be had; the earnings that the miner keeps in a database of its own; what a
difficulty of 72 or a `min_difficulty` below 8 would do to the hashpower of a solution; and a restart of the server
during a round in `MiningRound`, after which nothing of a round is in memory (what it leaves in the database is in
`Settlement`).
