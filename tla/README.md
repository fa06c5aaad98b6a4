# A verification development for qsys

qsys takes conditional orders from a Kafka topic, keeps them in the MySQL table
`orders`, and keeps in the Redis set `qsys:active_clients` the clients that have at
least one order. The query server asks Redis first and MySQL only for active clients.
The two stores are written one after the other, without a transaction across them.
This directory states what the code promises about that in TLA+, checks it with TLC
on small instances, and proves the safety properties with TLAPS.

## 1. Inventory

### Components, state and operations

| Component | Source | State | Operations |
|---|---|---|---|
| Stores | `internal/db/mysql.go`, `redis.go`, `deploy/init.sql` | rows of `orders` (unique by client, exchange, stock); the Redis set | batch INSERT IGNORE, batch DELETE, SELECT DISTINCT client_id, SADD/SREM pipeline |
| UpdSvr | `internal/app/upd_svr.go` | the locals of each running `HandleBatch` | `HandleBatch`; `Handle` (never called) |
| Consumer engine | `cmd/consumer/main.go` | a channel and a batch per worker, the record the dispatcher holds, the engine's context; in Kafka the committed offset and the owner of each partition | dispatcher loop, worker loop, `flushBatch`, `Close` |
| Reconciler | `cmd/reconciler/recon.go`, `redis.go` scripts | the lock with its TTL, the watchdog, the cursors of the two stages | lock, renew, stage 1 (MySQL to Redis), stage 2 (Redis to MySQL), unlock |
| Query server | `cmd/cli_svr/main.go`, `mysql.go` `GetOrders` | the requests in progress | `handleQueryOrder` |
| Producer | `internal/mq/producer.go` | closed flag, counters, the writer's queue | `SendOrder`, completion callback, `Close` |
| Backup producer | `internal/mq/backup/producer_sync.go` | `taskChan`, pool of workers, closed flag | `SendOrder`, `runWorker`, `Close` (no program uses the package) |
| Order model | `internal/model/order.go`, comparisons in `upd_svr.go` | none | `BuildOrderKey`, `IsValid`, `Validate`, `cmpOrderKeySafe` |
| Configuration | `internal/config/config.go` | the configuration | `setDefault`, the file, `override` by the environment |
| End-to-end test | `cmd/e2e_test/tst.go` | its oracle | `apply`, `verifyData` |
| Load generators, query clients | `cmd/sims`, `cmd/clis` | counters | send, query |

### How they interact

    producers --> Kafka topic, by client_id --> consumer processes (3 in plan.md:36)
                                                  dispatcher --channels--> workers
                                                  worker: fold, HandleBatch, dlq, commit
                                        HandleBatch --> MySQL rows, then Redis set
    reconciler:   MySQL -> SADD, then Redis -> MySQL -> SREM, under a Redis lock
    query server: SISMEMBER, then SELECT

The components share nothing but the topic, the rows, the set and the lock. A client
has one partition (the producer hashes client_id) and within one process one worker
(the dispatcher hashes the same key), which is the only thing that orders the actions
on a row.

### What is hard

- **Concurrency.** Every call to a store is a point where the handlers of other
  workers, the reconciler and the queries run.
- **Partial failure.** Of three writes (creates, deletes, Redis) any may fail, time
  out after it took effect, or be retried. The failure of the last is only logged.
- **Offsets.** Workers commit their own last offset in any order, and a commit covers
  everything before it; after a failed dead letter queue the batch is dropped.
- **Crash, shutdown, rebalance.** Records are delivered again while the later ones may
  have been applied already; the old owner of a partition goes on with what it holds.
- **Late commands.** A statement or a pipeline whose handler gave up at its deadline may
  still be executed by the server, after the rows or the set were written again.
- **Short answers.** `GetOrders` looks at no `rows.Err` and skips a row it cannot scan;
  what it got is answered with status 200 like the whole.
- **Time.** The lock of the reconciler expires; renewals are not checked.
- **Closing.** Both producers test their closed flag once, before they block or hand
  over; `Close` runs between.

### What makes each component correct

- Stores and UpdSvr: a client is in the set exactly if it has rows, once nothing about
  it is in progress, and an error or a crash is the only excuse; a client that keeps
  rows is never hidden meanwhile.
- Consumer: rows end as the order of the topic says; no committed record is
  unaccounted for; a client is handled by one worker at a time; `Close` returns;
  every record is dealt with.
- Reconciler: only the holder of the lock works; nobody ends or prolongs the lock of
  another process; a clean pass in a calm moment repairs everything.
- Query server: an answer with status 200 is what was true at one moment while it was
  computed, or, if reading the rows broke off, a part of it that looks like the whole;
  except while a batch is about to make the client visible, or the stores disagree about
  it for a reason known (section 3, what the properties excuse).
- Producer: what `SendOrder` handed to the writer is counted as sent or as failed; the
  topic tells the last action on every instrument unless a batch failed.
- Backup producer: every attempt is counted; `Close` leaves nothing behind and every
  call returns; what the pool reorders is what two workers held at once.
- Order model: the key of a valid order loses nothing of it.
- Configuration: with positive numbers only the keys without a default are needed.

## 2. Modules

| Module | Models |
|---|---|
| `Stores` | the table and the set, and the repositories' operations on them |
| `UpdSvr` | `HandleBatch`, one action per outcome of each store call |
| `OrderRows` | abstract specification: what the consumers promise about each row |
| `Consumer` | consumer processes over Kafka; uses `UpdSvr` by INSTANCE; implements `UpdSvr` and `OrderRows` |
| `CliSvr` | `handleQueryOrder` |
| `Recon` | the reconciler, its lock and its watchdog |
| `System` | `UpdSvr`, `CliSvr` and `Recon` interleaved over the same stores, with late statements and pipelines |
| `OrderModel` | `IsValid`, `Validate`, `BuildOrderKey` |
| `Producer` | the asynchronous producer and the kafka-go writer behind it |
| `Config` | `LoadConfig`, and what its numbers make of a consumer |
| `ProducerSync` | the synchronous producer, from every configuration of `Config` |
| `UpdSvr_proofs`, `Consumer_proofs`, `Recon_proofs`, `System_proofs`, `Producer_proofs`, `ProducerSync_proofs` | theorems about the module of that name; in `Producer_proofs` also those about `OrderModel` |
| `Delivery_proofs` | theorems about `Consumer` over `Consumer_proofs`: the order in which records are handled, the rows, the refinement of `OrderRows` |
| `Offsets` | lemmas about sequences, their elements, and least and greatest numbers |
| `MCUpdSvr`, `MCConsumer`, `MCRecon`, `MCSystem`, `MCProducer`, `MCProducerSync` | instances for TLC |

**Stores.** An order key is a record of a client and an item (exchange type and stock
code taken together). One SQL statement and one Redis command are atomic. A pipeline
that succeeds is one step; one that fails may have run in any part.

**UpdSvr.** `phase[w]` is the place in `HandleBatch` of worker `w`; `cres`, `dels`,
`rems` are its slices and the SREMs it queued. `CreateFail`/`DeleteFail` say that a
statement that reports an error may have been executed; `RetryOrFail` is
`execWithRetry`. `QueryFail` and `SyncFail` are the two errors the code logs and
swallows. `Begin` and `Return` belong to the caller; a call may begin with a context
that is done already (the consumer was cancelled), and any group of workers, those of
one process, may expire or die together. The history variable `stale` holds the
clients whose last change of rows may have missed Redis.

**Consumer.** One action per thing a goroutine does between two blocking points.
`StartFlush` is `flushBatch` up to the call, including the panic of `od.Action[0]` on
an order without action. The fold, the dead letter queue and the commit follow the
code; a commit sets the offset of the last record of the batch whatever was committed
before, as kafka-go does with `CommitInterval` 0. Whether the dispatcher sees the
cancelled context before or after the next record is left open, as `FetchMessage` may
return either. Kafka itself (`Assign`, `Revoke`, `Leaves`, `CommittedBy`) is external:
modelled from the way the code uses it. Values that are no protobuf order ("dirty",
which the code expects) and orders without action ("blank", for instance an empty
value) can be in the topic; the producer of this repository validates its orders, other
writers need not.

**CliSvr.** `GetOrders` answers with the rows of the client, `GetOrdersTruncated` with a
proper part of them, both with status "ok": the code makes no difference. The history
variable `cut` remembers which requests met the second, for the properties only.

**Recon.** `Recon` orders clients by number and takes pages of `BSize`. SSCAN is
external: it returns what was in the set during the whole iteration, perhaps several
times, and may return what was not. Time passes in minutes; a watchdog whose ticker
fired goes before the next minute. `clean[r]` says that a pass met no error, `missed[r]`
counts the renewals lost in a row.

**System.** Every step is one component's step, plus `Observe`, which keeps the history
the properties need. `HandlerGivesUp`, `LateStatement` and `LatePipeline` add what no
component shows alone: a statement or the pipeline of a handler is put into `late` when
the handler is told that it failed, and is executed at any later moment. `turned` and
`raced` record why a disagreement may exist: an answer of MySQL to a reconciler that
turned before it was acted on, or a late command. `Init` and `Next` have no entry of
their own in `map`: they put together those of the three components, each mapped to its
own program.

**OrderModel, Producer.** A string is a sequence of characters, since the copy into the
arrays of the key is what matters. `SendOrder` ends where it calls the writer; `Written`
and `Refused` are the two ways `WriteMessages` returns. The writer is external: it keeps
a queue per partition, appends batches of it in order, possibly several times, and calls
`CompleteOk` or `CompleteFail`; after a failure the batch may be in the partition or not.
A request the broker executes after a later batch is not modelled.

**Config, ProducerSync.** `LoadConfig` layers defaults, file and environment for the
numbers some part computes with; a variable that is no number leaves the value. Negative
and zero values are followed to where they bite: `New` and the consumer's `make` panic
on a negative capacity, the ticker on a `db_batch_tout` of 0, a pool of 0 takes nothing.
In `ProducerSync`, `SendOrder` is split where it reads `closed` and where it offers to
the channel; a channel without capacity hands over (`HandOver`); the send on a closed
channel ends the process (`SendPanics`), as no goroutine there recovers.

Operators introduced by a comment that begins with "Mutant" are wrong variants of the
definition that follows them, such as a worker that flushes at shutdown only. No
specification uses them; put in the place of the definition, each makes the run named
with it in `PROJECT.json` fail, which shows that the property depends on that code.

## 3. Runs

| Run | Question | Bounds |
|---|---|---|
| `updsvr` | do the stores agree, and does every call return? | 2 workers with a client each, 2 items, 2 tries; every batch |
| `consumer_rows` | does `Consumer` implement `OrderRows` and `UpdSvr`? are offsets committed behind the work only? | 1 process, 2 workers, every topic of 3 records over 2 clients, batches of 2, channels of 1, 2 faults |
| `consumer_takeover` | is redelivery to the same or another process harmless? | 2 processes, 1 client with 2 items, 4 records, 2 faults among store, commit, crash, signal |
| `consumer_live` | do shutdown and processing finish? | 1 process, 2 workers, 3 topics of up to 4 records with odd ones, 1 fault |
| `consumer_overtaken` | *violation*: is no committed record lost? | a crash |
| `consumer_dropped` | *violation*: the same when both the stores and the dead letter queue fail | 2 faults |
| `consumer_rebalance` | *violation*: do rows follow the topic when a partition moves? | 2 processes, 1 rebalance |
| `recon_lock` | who holds the lock? does a clean pass agree, whatever it began with? | 2 reconcilers, every content of the stores over 2 clients, pages of 1, TTL 5 and renewal 2 minutes as in the code, 3 mishaps |
| `system_query` | is an answer current? what can make the stores disagree? | 1 client with 2 items, 1 worker, 1 request, 1 late statement or pipeline at a time |
| `system_recon` | what can make the stores disagree, and does a pass repair it? | 2 clients, pages of 1, 1 worker, 1 reconciler |
| `producer` | do the counters add up, and does the topic tell the last action? | 2 goroutines, 3 attempts, 2 partitions, batches of 2 appended up to twice, strings of 1 and 2 characters, 3 good orders and one that fails each test of `Validate` |
| `producer_sync` | does everything return, add up and drain? what is reordered? which keys must the file have? | 2 goroutines, 2 attempts, 3 tries; pools of 0, 1, 2 and (by the default) more workers, channels of -1, 0, 1, 2 and 300; 6 files with 2 environments |

**Why the bounds are enough to be interesting.** Two workers or processes are what the
races need; two items let a client keep rows while it loses others; two records fill a
batch and a third makes another batch with the same key; a channel of one blocks the
dispatcher; two faults let an error of the stores meet a failed dead letter queue, or a
crash meet a lost commit. Pages of one make the cursor of stage 1 and the iteration of
stage 2 take several rounds. Two messages are what a pool can reorder, and one is
offered while the other is held when `Close` comes. A late statement or pipeline waits
while the next batches of its client run. `MaxFaults`, `MaxMishaps`, `MaxLate`, `MaxAttempts` and
`MaxCopies` bound what happens outside the code's control or what is sent; the topic is
finite. The deadlock check is off where a system may really stop: in the consumer runs
everything may have been handled, or a dispatcher may be blocked for ever behind a dead
worker; in `producer_sync` a panic ends the process.

**What the violations show.**

- `consumer_overtaken`: worker 2 commits offset 2 while worker 1 still holds the record
  at offset 1; the process dies, offset 1 is never delivered again. main.go:66 says that
  data may repeat and may not be lost.
- `consumer_dropped`: HandleBatch fails, the dead letter queue fails, the batch is
  emptied without a commit (main.go:161, 181); the next batch commits past it.
- `consumer_rebalance`: the old owner's worker applies create again after the new owner
  applied create and delete. `RowsFollowLog` is the oracle of the end-to-end test.

The passing runs and the theorems say how far these go. Only records of *other* workers
are overtaken (`CommitsFollowHandling`); every committed record was handled, is in the
dead letter queue, is still in memory, or was forgotten by a crash, a panic or that
failed queue, and in no other way (`CommittedAccounted`). A crash without a rebalance
leaves the rows right (`RowsFollowLog` in `consumer_takeover`). The stores disagree about
a client at rest only after a lost update, a late statement or pipeline, or an answer
that turned before a reconciler acted on it (`DisagreementExplained`; prob.md:3 knows of
the last), and a clean pass repairs every client nobody touched meanwhile
(`PassRepairs`).

**What the properties excuse.** Several hazards do happen in this code, and no property
could hold that ruled them out. The properties then name the event and say that the harm
stays with it; the notes of `hazards` say which:

- `stale` (`SyncedClientsAgree`, `VisibleThroughDeletes`, `DisagreementExplained`): the
  clients of a batch whose statement, query or pipeline failed for good. `PassRepairs` is
  what answers for them.
- `raced` (`DisagreementExplained`, `AnswersAreCurrent`): the clients a late command hit,
  or on which a reconciler acted upon an answer that had turned.
- `excused` (`AnswersAreCurrent`): the requests during which a batch with creates for the
  client was running, or the client was `stale` or `raced`. And the requests in `cut` may
  be answered with a part of the rows, of one moment still.
- `forgotten` (`CommittedAccounted`) and dead workers (`ShutdownCompletes`,
  `RecordsDealtWith`): an order without action makes a worker panic; its batch is gone
  and a full channel behind it blocks `Close` for ever.
- `refused` (`CountersAddUp` of `Producer`): an attempt that `Close` overtook between the
  test of `closed` and the writer. `together` (`ReorderedOnlyTogether`): messages two
  workers held at once.

`ForeignLockKept` excuses nothing: a step that changes a lock is its holder's own, or a
minute passing, or its TTL running out. A lock that a dead process left is thus neither
deleted nor prolonged by others; that no pass runs until it expires is how the code is
made.

**Fairness.** `UpdSvr!FairSpec`: a running handler takes steps, since goroutines are
scheduled and every store call ends by the deadline of its context. Nothing is assumed
about the outcome of a call. `Consumer!FairSpec`: the same for the dispatcher and the
workers; a free partition is assigned; a process whose goroutines ended leaves.
`ProducerSync!FairSpec`: workers run and their writes end by the timeout of the context
they are given; the timer in the select of `SendOrder` fires; `Close`, once called, goes
on. It assumes neither that a sender ever finds room nor that anybody sends or closes.
No fairness is assumed for signals, crashes, rebalances, restarts or panics.

A run passes when TLC finishes without an error: `tlc -config UpdSvr.cfg MCUpdSvr.tla`,
and so on. The longest takes two to three minutes with two workers. `tlapm
Consumer_proofs.tla`, and so on, checks the proofs of a module.

## 4. Proofs

Every theorem holds for all values of the constants under the named assumptions of its
module: any number of workers, clients, items, processes, partitions, retries, any topics
and capacities. Each component has an inductive invariant (in the last column), which
initial states satisfy, steps preserve, and the properties follow from. TLC checked each
of them on the instances above before it was proved.

| Module | Theorems | Invariant |
|---|---|---|
| `UpdSvr_proofs` | `TypeCorrect`, `HandlerSafe`, `StoresAgree` (`SyncedClientsAgree`), `NeverHiddenByDeletes` (`VisibleThroughDeletes`), `RemovalsJustified` (`RemovalIsJustified`), `NilMeansApplied` (`OkMeansApplied`) | `HandlerInv` |
| `Consumer_proofs` | `ConsumerTypeCorrect`, `CommitsAccounted` (`CommittedAccounted`), `EngineImplementsUpdSvr` (`ImplementsUpdSvr`), `HandlersApart` (`OneHandlerPerClient`), `GroupStoresAgree` (`StoresAgree`) | `ConsumerInv` |
| `Delivery_proofs` | `CommitsAfterHandling` (`CommitsFollowHandling`), `GroupHandlersApart` (`OneHandlerPerClient`), `StoresAgreeInGroup` (`StoresAgree`), `DeliverySafe`, `RowsAsExpected` (`RowsFollowLog`), `GroupImplementsOrderRows` (`ImplementsOrderRows`) | `DeliveryInv`, `CalmInv` |
| `Recon_proofs` | `ReconTypeCorrect`, `WorksUnderLock` (`HoldsLockWhileWorking`), `CleanPassesAgree` (`CleanPassAgrees`), `ForeignLocksKept` (`ForeignLockKept`) | `LockInv`, `SweptInv`, `FoundInv` |
| `System_proofs` | `SystemTypeCorrect`, `DisagreementsExplained` (`DisagreementExplained`), `AnswersCurrent` (`AnswersAreCurrent`), `PassesRepair` (`PassRepairs`) | `SystemInv`, `RepairInv` |
| `Producer_proofs` | `KeysAreExact`, `ProducerTypeCorrect`, `TopicKeysAreExact` (`KeysTellOrdersApart`), `EveryAttemptCounted` (`CountersAddUp`), `ProducerSafe`, `TopicEndsAsTaken` (`TopicTellsLastAction`) | `ProducerInv` |
| `ProducerSync_proofs` | `ProducerSyncTypes`, `EveryAttemptCounted` (`CountersAddUp`), `NothingLeftBehind` (`CloseDrains`), `OrderOfTopic` (`ReorderedOnlyTogether`), `BatchToutIsNeeded` (`OnlyBatchToutIsNeeded`) | `PoolSafe` |

**UpdSvr.** All but the types assume `OneWorkerPerClient`: within a process the hash
gives each client to one worker. Without it the properties are false: that is what
`consumer_rebalance` shows across processes. `HandlerInv` adds, for every running call,
what its locals know about the stores (`BatchInv`): the rows written so far are there, a
client queued for SREM has no rows, a client that only loses rows is in the set if it has
some. The middle of the argument is a frame lemma: a step of one worker changes the rows
and the membership of the clients it serves only, so that what the others know stays
true because no client is served twice.

**Consumer.** `ConsumerInv` relates three things. `WorkerInv`: what a worker holds is of
its own clients, a selecting worker's batch is not full, a process that is down holds
nothing. `Reached` against `Accounted`: every record at or before the committed offset,
the fetched position, or a record still in memory is handled, in the dead letter queue,
forgotten, or waiting. The last disjunct of `Reached` is what makes it inductive: a
worker commits the offset of a record it *holds*, so that everything before it was reached
already, even when the partition has since moved, another process fetched from an
earlier offset, or the commit goes backwards. `EngineImplementsUpdSvr` shows that every
step of `Consumer` is a step of `UpdSvr` or leaves its variables alone, for any number of
processes; with one process (`SingleProcess`, which gives `OneWorkerPerClient`) the
theorems about `UpdSvr` carry over by that refinement: `HandlersApart`, `GroupStoresAgree`.

**The order of delivery.** The theorems of `Delivery_proofs` assume what the properties
need, each no more than named here:

- `NoRebalance`: a partition changes its owner only when its process has ended. Without
  it they are false, as `consumer_rebalance` shows; processes may still crash, panic, shut
  down, restart and take over, and everything else may fail. `CommitsAfterHandling`
  assumes nothing else.
- `ClientsKeepPartition`: all records of a client are in one partition. The producers see
  to it (`kafka.Hash` over the client, `producer.go:29`; that the asynchronous one does
  is part of `TopicTellsLastAction`).
- `Calm`, for `GroupImplementsOrderRows` only: no crash, shutdown or rebalance either. A
  record that is delivered again sets a row back to an old action for a while, which
  `OrderRows` does not allow; `RowsAsExpected` says that it ends well.

`OrderInv` follows the records of a worker from the dispatcher to the channel to the
batch: only the owner of a partition holds records of it (`OwnersHold`), none overtakes
another (`InLine`), and a worker that holds a record holds all of its own that were
fetched after it (`NoneSkipped`). With that, a commit of the last record of a batch
leaves none of the worker's behind, and two workers of different processes never have the
same client. So the theorems about `UpdSvr` carry over to any number of processes; the
frame lemmas of `UpdSvr_proofs` are stated with `Apart` (no client is in two batches) for
this purpose. `RowsInv` is about the last record of a key (`Latest`): while it is in
memory or yet to be fetched the row may be anything, afterwards the row is as the record
says. What makes it inductive is that when it leaves memory the handler has written its
fold (`HandsOver`, `U!HandlerInv`), that later batches of the key are of records before
it only if it comes back as well, and that then it is pending again. What the fold holds
of a key is its last action in the batch (`Latest` again, for `Expected`); `Folded` is a
set comprehension, so that no induction is needed.

`GroupImplementsOrderRows` maps `todo[k]` to the actions on `k` that are in memory or not
fetched yet. `HandleOk` and `HandleFail` are `Write` or `Stay` for each key of the batch; a
`Result` without an error is `Acknowledge`; the dead letter queue and a panic are
`PutAside`; every other step leaves all keys as they are. That the row is as the last
action acknowledged follows from `HandlerInv` (what the handler has written when it
returns nil is still there) and from the order of the batch. `CalmInv` adds that nothing
is fetched twice.

**Recon.** `LockInv` is the arithmetic of the lock: a working process holds it at an age
of at most its lost renewals and its timer, unless the losses are as long as the TTL
allows. `SweptInv` says what a pass without errors has established for one client so far:
in stage 1 up to the cursor, in stage 2 for everything not owed by the iteration any
more. `ForeignLocksKept` goes through the actions: with the lock in another hand, the
unlock leaves it and a renewal its age. That a page is not skipped needs a fact about the `BSize` smallest of a set of
numbers (`SmallestFacts`), which rests on cardinalities of finite sets.

**System.** `BatchInv` and `DisagreementExplained` of `SystemInv` are those of `UpdSvr`
weakened by `raced`: with reconcilers and late commands about, a handler knows less.
`PassInv` says that what a reconciler is about to act on is true or has turned.
`RepairInv` applies `SweptInv` of `Recon` to the clients nobody disturbed: for them, the
pass in the middle of everything has done what it would have done alone.
`AnswersCurrent` follows a query between Redis and MySQL with what was `seen`; an answer
in `cut` is a part of something seen.

**Producers.** In `PoolSafe`, the messages that left the channel are a prefix of the
accepted ones (`QueueInv`), numbers tell messages apart (`NumbersInv`), and a message
held while a later one left the channel was held together with it: with these, a write
can put two messages in the wrong order only if the pair is in `together`. A worker that
returned found the channel closed and empty (`PoolInv`). `KeysAreExact` rests on
`CopyIsExact`: copy of a string as long as the array is the string; `TopicKeysAreExact`
needs that nothing but valid orders gets through queues and repetitions.
`EveryAttemptCounted` counts places: `Waiting` is the set of positions in all queues, so
that a batch of `n` records takes `n` elements out of it (`BatchLeaves`). `LineInv` says of
each instrument that what is written to its partition, followed by what waits, ends with
the action taken last. `SaysLast` (of two sequences in a row the second has the last word)
and `RepeatedSays` (a batch written several times says what it says once, which takes the
arithmetic of `%`) carry it over a batch that leaves the queue for the topic.

**Checked by TLC only.** Liveness under fairness (`HandlerReturns`, `ShutdownCompletes`,
`RecordsDealtWith`, `CallsReturn`), which the prover cannot do. Every safety property of a
passing run is a theorem; that the three violations are reachable is TLC's to show.

## 5. Not modelled

- `Handle`, `UpdateOrder`, `SAddActive`, `SRemActive`, `SetNX`, `GetOrderCount`, `Del`,
  `cmpOrderKeySafe`, `cmpOrderKeyUnsafe`: called by nobody (the sort that used the
  comparisons is commented out).
- InnoDB locks: a deadlock between two statements is a failed try like any other.
- Late statements and pipelines in `UpdSvr` and `Consumer`: there a failed statement, and
  the pipeline of `upd_svr.go:185`, takes effect (in any part) at once or never. `System`
  has the late ones of handlers.
- Late pipelines of a reconciler (`recon.go:140` and `:220`): `AddFail` and `RemoveFail`
  take effect, in any part, at once or never, in `Recon` and in `System`. A late one
  would be a membership changed upon an answer that had turned, as `raced` has it.
- What the kafka-go writer repeats inside one `WriteMessages` of the synchronous producer
  (`producer_sync.go:81`): `WriteOk` appends a message once. No property of
  `ProducerSync` counts copies; repeated batches are in `Producer`.
- Actions other than create and delete in a batch: `Validate` lets no other through.
  From another writer, one would take the place of an earlier action on its key in the
  fold and then be skipped by `HandleBatch`.
- The HTTP layer of the query server (limits, metrics, formats), the connection pools,
  the pools of query strings, the strings, ports and writer settings of the
  configuration: they touch no state the properties speak of.
- The load generators, the query clients and the test program (its oracle is
  `RowsFollowLog`), generated code, debugging aids.
- `Producer` and `Consumer` are not composed: the topic is chosen in the initial state of
  `Consumer`, in every order of records, which is more than a producer can write.

## 6. Plan

Modelled in this order: the dual write (`UpdSvr`), the consumers (`Consumer` over
`UpdSvr`, `OrderRows`), the reconciler (`Recon`), everything over the shared stores
(`System`), the producers and the order model, the configuration. Proved in this order:
`UpdSvr`, `OrderModel`, `Recon`, `System`, `Consumer`, the producers, the order of
delivery.

What would come next, the most useful first:

1. A composition of `Producer` and `Consumer` over one log: `TopicTellsLastAction` and
   `RowsFollowLog` together say that the row is as the last order sent.
2. `RowsFollowLog` with rebalances after which the old owner's workers hold nothing.
3. Late pipelines of the reconciler in `System`, and late statements in `Consumer`: both
   make the state space of the present runs too large.
