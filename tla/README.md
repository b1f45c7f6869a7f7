# FactCast in TLA+

FactCast is an event store on PostgreSQL: clients publish *facts*, the server
keeps them in one table in the order of a serial, and consumers subscribe to
the facts that match a specification. This directory holds TLA+ models of the
parts of FactCast on which everything else rests, the TLC runs that check them on
small instances, and proofs, checked by TLAPS, of what must hold for every
instance.

Contents: [inventory](#1-the-system) · [plan](#2-plan) · [modules](#3-modules) ·
[runs](#4-runs) · [fairness](#5-fairness) · [proofs](#6-proofs) ·
[findings](#7-where-code-and-documentation-disagree) ·
[limits](#8-what-is-not-modelled)

## 1. The system

Paths are relative to `src/`; `store/` stands for
`factcast-store/src/main/java/org/factcast/store/`.

| Component | State | Operations | What makes it correct |
|---|---|---|---|
| **Publishing** (`store/internal/PgFactStore`, `lock/AdvisoryWriteLock`, `GrpcFactStore` on the client) | table `fact`, its sequence, the advisory lock | `publish`, with a fallback to publishing one by one if duplicates are ignored | serials become visible in their order; what is reported as published is there |
| **Optimistic locking** (`WithOptimisticLock`, `AbstractFactStore`, `PgTokenStore`) | table `tokenstore`; attempts and token on the client | `currentStateFor`, `publishIfUnchanged`, `invalidate`, `compact`; the attempt loop | no conditional publication on a stale view; the loop ends |
| **Subscription on the server** (`PgFactStream`, `PgFetchingCatchup`, `PgSynchronizedQuery`, `CondensedQueryExecutor`, `CurrentStatementHolder`, `SubscriptionImpl`) | serial, executor, timer flag, current statement, connected/closed | connect, catchup in two passes, fast-forward, follow, trigger, close | every matching fact once, in order, no gap; it arrives in the end; a closed stream stops |
| **Listener** (`listen/PgListener`, trigger `notifyFactInsert`, the event bus) | a connection with pending notifications | listen, receive, post, reconnect | a lost notification delays nobody for ever |
| **Pipeline** (`pipeline/*`) | the transformation buffer and its mode | filter, pass or buffer, flush | order is kept, the buffer is bounded, failures are not passed over |
| **Fast-forward target** (`tail/FastForwardTargetRefresher`) | id and serial of the newest fact | refresh | nobody is forwarded past a fact that it did not get |
| **gRPC server adapter** (`GrpcObserverAdapter`, `StagedFacts`, `BlockingStreamObserver`) | staged facts, keepalive timer, readiness of the channel | stage, flush, wait, keepalive, cancel | order across flushes; a slow client ends in an error, a cancelled one in silence |
| **Client subscription** (`ResilientGrpcSubscription`, `ClientStreamObserver`) | current subscription, last position, closed, attempts | connect, reconnect after an error, await, close | continues without a gap; closed means closed |
| **Factus** (`factcast-factus*`) | projections, their positions, writer tokens, snapshots | update, subscribe, fetch, find, lock, batch | state and position agree; one writer |
| **Transformations** (`store/registry/transformation`) | cache table and buffer, graph of scripts | transform, put, flush, invalidate, compact; shortest chain | no stale entry survives an invalidation; the chain is a cheapest path |
| **Schema registry** (`store/registry`) | schemas, near cache | refresh, register, invalidate | nodes agree after a refresh |
| **Blacklist** (`filter/blacklist`) | a table; a set of ids shared by all pipelines | notify, read, accept, isBlocked | the set follows the table; no update frees what stays blocked |
| **Tail indexes** (`tail/PGTailIndexManagerImpl`) | partial indexes, valid or not | create, drop old and invalid ones | the newest valid index is kept; invalid ones go |
| **Query page** (`json-view.ts` in the browser, `FullQueryPage`, `FilterCriteriaViews` on the server) | conditions, their views, the last result; editor, providers, metadata of links | query, add, remove, reset, quick filter, navigate; render, clear, attach, detach | a link means the condition that it names; views follow conditions |
| Snapshot caches, security, CLIs, codecs, Spring configuration | external maps, none, or presentation | | |

How they interact. A publishing call takes the advisory lock for its transaction,
inserts and commits; the deferred trigger sends a NOTIFY per namespace and type.
`PgListener` turns notifications into events on an asynchronous bus; every follow
subscription has an executor on that bus which runs *its* query for rows behind
*its* serial. Rows go through filters and the transformation buffer into
`SubscriptionImpl`, from there through the gRPC adapter to the client. Optimistic
locking only shares the table, the lock and the token store with that. On the
client, `ResilientGrpcSubscription` reconnects and hands facts to an observer;
Factus's observers batch them and apply them to a projection, under a lock that
instances of an application share. Transformations are computed by scripts, cached
in a table that all nodes share, and replaced by a refresh of the schema registry
on one of them. The blacklist is a table as well; every node reads it again when the
listener posts a signal.

What is hard here: serials are drawn before the commit, so readers by serial rely
on the lock; each subscription is served by four kinds of threads (the connecting
pool thread, bus threads, the timer, whoever closes); notifications are lost with
the listener's connection; the client sends a call again when a connection breaks,
though the call may have committed; the serial of a subscription moves while the
fact is still in a buffer. On the client, the thread that reports a broken
connection is also the one that repairs it; on the server, whoever sends may have
to wait for the client. Locks of projections expire under their owners, and caches
are invalidated by signals that race with what fills them. `PROJECT.json` lists these hazards by line, with the
properties that would catch them.

## 2. Plan

Done, in the order of importance:

1. `AppendOnlyLog`, `FactStore`: publishing and optimistic locking, with proofs.
2. `FactFeed`, `FactStream`: one subscription on the server on top of that log.
3. `ClientSubscription`: the client's side of it, over connections that break.
4. `ObserverAdapter`: the server's end of the stream between the two.
5. `Projection`: what Factus does with the facts.
6. `TransformationCache`: scripts, chains and cached facts on several nodes.
7. `QueryPage`: the user interface, in the browser and on the server.
8. `Blacklist`: the set of blocked ids, and the table that it follows.

How they fit together. `FactStore` implements the `AppendOnlyLog` that `FactStream`
reads; `FactStream` implements the `FactFeed` that `ObserverAdapter` hands on, fact
by fact and mark by mark; what arrives at the other end is what `ClientSubscription`
assumes of a connection (facts after the requested position, in order, then the
signal), and what its observer gets, once and in order, is what `Projection`
assumes of its subscription. `FactStream` takes a transformation as a step that may
fail; `TransformationCache` is about what it yields. Where a link of this chain
does not hold in the code, section 7 says so.

`Blacklist` maintains what `FactStream` takes as part of its set `Wanted`. The core of each
of the eight has its proofs, see section 6.

Not done, and why: tail indexes (they affect speed only, and their states are
PostgreSQL's), the shortest path of transformations (a pure function whose proof needs
an induction over data), snapshots of Factus (caches that may forget at any time) and the
refresh of the schema registry (a periodic job under a cluster-wide lock).

## 3. Modules

### AppendOnlyLog

What the fact table promises to everybody who reads it by serial: rows are only
added, and what becomes visible is newer than everything visible before.
`FactStore` implements it (proved); `FactStream` builds on it.

### FactStore

Clients, each a thread with a `GrpcFactStore`, and the server's side of each call.

| Model | Code |
|---|---|
| `log`, `nextSer`, `tokens` | tables `fact` and `tokenstore`, the sequence of `ser` |
| `req[k]`, `st[k]`, `read[k]`, `rows[k]` | call `k` on the server: what was sent, how far it is (its transaction holds the lock in `check`, `insert`, `refuse`) or its reply, the serial read for a token, uncommitted rows |
| `pc[c]`, `count`, `calls`, `retries`, `token`, `batch`, `part` | `WithOptimisticLock.attempt` and `GrpcFactStore.publish` of client `c` |
| `ReadState`, `CreateToken` | `getCurrentStateFor` or, for servers without fast tokens, `getStateFor`; `PgTokenStore.create` |
| `Reject`, `AquireExclusiveTXLock`, `CheckState`, `InsertFact`, `InsertDuplicate`, `Commit`, `Refuse` | `publish` and `publishIfUnchanged`; the deletion of the token is part of the transaction |
| `Attempt` … `RetriesExceeded` | the loop of `attempt` |
| `Publish`, `PublishOneByOne`, `ReceiveDuplicate` | `GrpcFactStore.publish` |
| `CallFails`, `RetryCall`, `RetryBatch`, `GiveUp` | `runAndHandle`, `callAndHandle`, `Resilience` |
| `Crash` | a transaction that PostgreSQL rolls back |

A call that a client no longer waits for keeps running: that is how a lost reply
and a repeated publication meet. Facts are an id and a key; a key stands for all
that a `FactSpec` tells apart. `seen` in a request is a history: what the business
logic decided on. Fast tokens, the treatment of duplicates, retries and what is published are
settings of each client.

### FactFeed

What a subscription promises: the oldest fact that is due, again and again. After a
failed transformation (`broken`) it may leave facts out; what it delivers is still in the
log, wanted and newer than everything before.

### FactStream

One subscription, at the grain of what threads can see of each other.

| Model | Code |
|---|---|
| `log`, `target` | the table (an `AppendOnlyLog`), `FastForwardTargetRefresher.target` |
| `listener`, `notes` | `PgListener`'s connection and what waits in it |
| `pc`, `phase`, `request`, `from` | the pool thread in `PgFactStream.connect` |
| `tasks`, `scheduled`, `waiting` | dispatched events, `currentlyScheduled`, threads in front of `runTarget` |
| `runner`, `qpc`, `latest`, `todo`, `serial` | `PgSynchronizedQuery.run`, its result set, `PgFactStream.serial` |
| `buffer`, `mode`, `delivered` | `BufferedTransformingServerPipeline`, the observer |
| `closed`, `closer`, `closedBy`, `disconnected`, `holder`, `executor`, `registered`, `cancelled` | `SubscriptionImpl.close` and, step by step, `PgFactStream.close` |

A query takes its snapshot in one step (`RunCatchup`, `RunQuery`) and hands its rows
out one by one. A flush first transforms, which may fail, then delivers fact by
fact. A thread that runs `close()` does nothing else until that has ended
(`Free`). Keys are split by the constants: `Queried` (selected by SQL), `Wanted`
(also accepted by blacklist and script), `Outdated` (needs a transformation).
Failures are of three kinds with three ways out of the code: a
`TransformationException` becomes an error signal; any other exception ends the
catchup and is passed on, is passed on by `escalateError` within a row, and is only
logged after the last row.

`atConnect` is a history variable. Events are a set: two events for the same type
that nobody has handled yet lead to the same query.

### SubscriptionContract

What the application sees of a subscription: the next fact, an error if something has gone
wrong, and the end of its wait, for a reason. There are no connections in it.
`ClientSubscription` implements it (`KeepsContract`, proved).

### ClientSubscription

| Model | Code |
|---|---|
| `current`, `lastPosition`, `isClosed`, `attempts`, `monitor` | `ResilientGrpcSubscription`, its `Resilience`, its synchronized methods |
| `initialized` | `GrpcFactStore.initialized`, forgotten by `reset` after every error |
| `cursor`, `subClosed`, `future` per connection | a `SubscriptionImpl` with its `ClientStreamObserver` |
| `pc[t]` | the user's thread, and for each connection its gRPC thread and its keepalive timer |
| `Receive`, `OnNext`, `SetPosition` | a fact arrives, the observer gets it, the position moves: three steps that others can see |
| `BreakOff`, `StaleDetected`, `Detach` | `onError`, from the stream or from the timer |
| `EnterConnect` … `SetCurrent` | `connect`, `reConnect`, `doConnect` |
| `FailClose`, `FailDetach`, `Tell` | `fail` |
| `Await`, `GetAndBlock`, `FutureEnds` | `delegate` and `SubscriptionHolder.getAndBlock` in the waiting thread |

Between `Detach` and `EnterConnect` lies the sleep. A thread that runs `doConnect`
holds the monitor, also while it runs `fail`. The server is external. An exception
that the application's observer throws ends a connection as well; it is not
retryable.

### ObserverAdapter

The pipeline's thread calls a handler (`OnNext`, `OnCatchup`, …), which leaves a list
of `steps`: flush, add, send a mark, end. A message is sent in `Send`, or in `Wake`
after waiting; a waiting thread has released the lock of `BlockingStreamObserver`,
so the keepalive timer may send meanwhile. `timer` says whether a keepalive task exists,
which has to agree with what its thread does. `bytes` follows `StagedFacts` with its
limit of 90 %; the sizes of the instance include one that never fits. `phase` is
what the pipeline does, and decides who learns of a failed send: `notifyError` for
everything but the flush at the end of a follow query and the flush of `onError`
itself (`gaveUp`, a history).

### Projection

Instances that keep one projection in an external store. `managed` and
`transactional` are chosen at the start, so every run covers the four kinds. `lock`
is the Redis lock behind the writer token; it is given back by the thread that took
it. `liveness` is what the token believes. Facts are received into `buffer`,
flushed into `batch`, handled one by one and committed with the position, or
written one by one. `trespass` is a history: an instance wrote without holding the
lock, which the code cannot exclude (section 7).

The subscription is that of `ClientSubscription`: behind it connections come and go
(`Reconnect`). Each may bring one fast-forward position (`FastForward`), any that is later than
all facts received and passes over none. The positions come from different servers, and a
later one may be older. `MayForward` is `FactStreamPosition.isAfter`, which compares with the
last fact applied; `Remembers` says when a position takes the place of that fact, which only
the update of a managed projection does.

### TransformationCache

A transformation is an edition number; `table`, `buffer` and `chain` hold the edition
that an entry was made with. A flush is two steps (`Clear`, `Insert`), an
invalidation three (`Clear`/`Insert`, `Delete`, `Notify`). A timer remembers what was under
way on the node when it was scheduled; if it fires before that has ended, the delay of ten
seconds was too short. That is one of the faults that the model allows at any moment:

| Fault | What the code does |
|---|---|
| `OnTimer` before the activities have ended | the delay is fixed, whatever is under way |
| `DeleteFails` | the exception leaves `invalidateCachesFor` before `notifyFor`, and `on` before it schedules the second invalidation; nobody tries again |
| `LoseSignal` | a notification gets lost with the listener's connection, and the signal is not among those that are posted for a fresh one |
| `Restart` | memory is gone, with the signals and timers in it |

`missed` and `spoilt` are histories: which invalidation of a node has come to nothing since the
last first invalidation that went well; and whether, in any node, an invalidation has come to
nothing, a restart has interrupted one, or a flush held rows in its hands while a second
invalidation ran.

### Blacklist

| Model | Code |
|---|---|
| `table`, `notifications` | table `blacklist`; what its trigger has sent to the listener's connection |
| `listener`, `Listen`, `Inform`, `Notify`, `Break` | `PgListener` and the signal that it posts for a fresh connection and for each notification |
| `signals` | events on the bus; those posted before the provider is registered are lost |
| `pc[u]`, `list[u]` | the two threads that update: the one that starts the server, and the one of the bus (the bus synchronizes on the subscriber, the start does not) |
| `blocked` | `Blacklist.blocked` |
| `RemoveAll`, `RemoveThrows`, `AddAll` | `Blacklist.accept`, as `HashSet.removeAll` behaves with a view of the same set |

`known`, `alone` and `failed` are history: what was read last, whether the other thread was
in the middle of an update then, and whether the update that followed has failed. An exception
stops the start of the server, and is only logged by the bus.

### QueryPage

Server (`criteria`, `views`, `queryResult`), browser (`editor`, `providers`, `content`,
`metaData`) and two queues in between. A condition stands for its object, as
`FactCriteria.equals` compares references. A link carries the index that the server
will use and the conditions that its text names. `Init` is a new page; `SetParameter` is the
same callback when the user navigates to the route of the page that is open (Vaadin keeps the
instance), with a URL that has conditions or none. `navigated` is a history: a URL has
replaced the conditions, and no result was rendered, nor cleared, since.

### The Proofs and MC modules

`XProofs` extends module `X` by its inductive invariant, the lemmas and the theorems;
`MCX` gives the constants of the TLC instances.

Operators described as *Mutant* are plausible mistakes next to the definition that
avoids them (the serial read after the query, no lock, a buffer that is not
cleared…). `PROJECT.json` says which property each one would break.

## 4. Runs

`tlc -config <cfg> <module>` with the names in `PROJECT.json`. All passing runs
explore their state space completely.

| Run | Question | Instance |
|---|---|---|
| `store` | no lost update; what is reported as published is in the log; append-only log; every client returns; types | two clients that are configured differently, one with fast tokens and a single fact, one with slow tokens and a batch that contains this fact and whose duplicates are ignored; two attempts each or a plain publication, one fault, one repeated call, compaction at any time; 250 000 states |
| `stream` | exactly the owed facts, in order, no gap until a transformation fails; the serial passes nothing; catchup signal not premature; a closed stream stays stopped; types | follow, delayed, ephemeral, catchup; facts that match, that need a transformation and that are not selected, a batch of four in front of a buffer of three; the client closes, a query fails and a transformation (of a full or a partly filled buffer) fails at any moment; 3.5 million states |
| `arrive` | every fact arrives, in order and without a gap | follow with and without delay, facts that a filter refuses, one loss of the connection or one unparsable notification, gaps between serials, refreshes of the fast-forward target; 167 000 states |
| `client` | once and in order; attempts within the limit; a normal return means delivered; a closed subscription releases who waits; the contract, step by step | two facts, two attempts per window, two connections that break or fall silent, one failing handshake, close and await at any moment; follow and catchup; 266 000 states |
| `projection` | state and position agree; the position never goes back over a fact; all facts are applied | two instances, three facts among five serials, two of which can be forwarded to in a row, batches of two, any number of reconnects, one crash, failing handler, failing commit or lost lease, one close; 1.07 million states |
| `transformations` | nothing stale is left but by a fault | two nodes, one cached fact, one replacement, one failed deletion, short delay, lost signal or restart; 2.8 million states |
| `adapter` | order, size of the messages, marks behind facts, errors told, rest after close | three facts of three sizes, two polls; 344 000 states |
| `blacklist` | the set follows the table; no gap in an update; it takes effect in the end | two ids, three changes, one lost connection, one failing read; the server starts at any moment; 349 000 states |
| `querypage` | views, links, filters, providers | up to two conditions at first and four in all, five requests, navigations among them, two editors; 811 000 states |
| `lostfacts`, `abandoned`, `removal` | see section 7 | smallest instance |

Why these bounds. A lost update needs two writers and one token in between; a
publication out of order needs two transactions. A third client repeats one of the
two. For a subscription, a fact can be before, in the middle of, or behind each
pass and each query; with two to four facts all these cases occur, together with a
full buffer. Each failure has to hit every point once; two of them mostly repeat
the same code. The only symmetry used is that of the nodes in `transformations`, which
checks no liveness. For the client, two failures are what it takes for two
connections to be repaired at the same time; with two attempts the limit is reached.
Two instances and one fault are enough for a second writer. Entries of different
facts do not meet in the cache; one replacement races with everything that two
nodes may have under way. One fault suffices to show that each exception of
`StaleFactsVanish` is needed: without any one of them TLC finds a counterexample, and so it
does without the exception for navigation in `LinksNameConditions`. The projection has two
serials in front of its last fact, which is what an older fast-forward position after a newer one
takes. Five requests are enough for a query, a navigation, a change of the conditions, another
query and a click. In the adapter
each size occurs in each place: a fact that fits, one that forces a flush, one that
never fits. Two ids show every way in which an update can go, that its removal is broken off
included; `removal` takes a third, so that one is replaced beside one that stays.

Deadlock is checked for `FactStore`, `FactStream` (`Terminated` and `Idle` say in which
states nothing is left to do) and `TransformationCache`. The other systems may stop:
a subscription that is closed or lost, a projection with nothing more to apply, a
stream that has ended, a user who does nothing more, a table that does not change.

## 5. Fairness

*FactStore*: the server goes on with some call while any can go on (the lock is
handed to a waiter when its holder's transaction ends), clients that have started
go on and react to a failed call. A crash, a lost connection and the nightly job
need not happen.

*FactStream*: each kind of thread goes on while it can. `PgListener` loops for ever
and sleeps between connections; the bus uses an unbounded pool, `runTarget` is
synchronized and its holder leaves; a scheduled timer fires. Publications, closing
and failures need not happen. Weak fairness is enough, as only one thread of each
kind waits for something that another one can take away, and it gets it back.

*ClientSubscription*: threads run, and a connected server goes on sending. Breaking
off, closing and the passing of the window need not happen. *ObserverAdapter*:
threads run, waits time out (`lock.wait(1000)`), gRPC delivers `onCancel`. The client
need never become ready. *Projection*: threads run, an instance asks for the token
again and again, hence strong fairness for `AcquireToken` (`subscribeAndBlock` loops,
`update` is called regularly), and Redis lets the lock of a dead instance expire.
*Blacklist*: `PgListener` loops for ever, the bus dispatches
what was posted, and whoever updates goes on. Changes, lost connections and failing reads need
not happen; whether a removal that can go well does is left open.
`TransformationCache` and `QueryPage` state safety only.

## 6. Proofs

Every theorem holds for all values of the constants, from the assumptions that the
module of the component names; TLC evaluates those on every run. All have the same
form: an inductive invariant `IndInv`, which TLC has checked on the instances of
section 4 before it was proved; `Init => IndInv`; a lemma per action or group of
actions; then the theorem by `PTL`. The steps of one component often concern one
thread or one variable only; lemmas named `...Aside` say what such a step leaves
as it is.

| Module | Theorem | States |
|---|---|---|
| `FactStoreProofs` | `TypeCorrect` | `Spec => []TypeOK` |
| | `NoLostUpdate` | `Spec => []DecidedOnCurrentState` |
| | `NothingPublishedIsLost` | `Spec => []PublishedIsLogged` |
| | `ImplementsLog` | `Spec => AppendsInOrder`, the refinement of `AppendOnlyLog` |
| `FactStreamProofs` | `TypeCorrect` | `Spec => []TypeOK` |
| | `InOrder` | `Spec => []DeliveredAscending` |
| | `CatchupCompletes` | `Spec => []CatchupIsComplete` |
| | `StoppedForGood` | `Spec => StaysStopped`, an action property |
| | `NothingIsSkipped` | `Spec => []NothingBehindSerial` |
| | `ImplementsFeed` | `Spec => DeliversInOrder`, the refinement of `FactFeed` |
| `ClientSubscriptionProofs` | `TypeCorrect` | `Spec => []TypeOK` |
| | `DeliveredExactlyOnce` | `Spec => []ExactlyOnce` |
| | `AttemptsAreLimited` | `Spec => []AttemptsWithinLimit` |
| | `ReturnsAfterDelivery` | `Spec => []ReturnMeansDelivered` |
| | `ImplementsContract` | `Spec => KeepsContract`, the refinement of `SubscriptionContract` |
| `ObserverAdapterProofs` | `TypeCorrect` | `Spec => []TypeOK` |
| | `FactsAreSentInOrder` | `Spec => []SentInOrder` |
| | `NoMarkOvertakesFacts` | `Spec => []MarksFollowFacts` |
| | `BatchesFit` | `Spec => []MessagesFit` |
| `ProjectionProofs` | `TypeCorrect` | `Spec => []TypeOK` |
| | `StoreAgreesWithPosition` | `Spec => []StateMatchesPosition` |
| | `NeverBackOverAFact` | `Spec => OnlyForward`, an action property |
| `TransformationCacheProofs` | `TypeCorrect` | `Spec => []TypeOK` |
| | `NothingStaleIsServed` | `Spec => []StaleFactsVanish` |
| `QueryPageProofs` | `TypeCorrect` | `Spec => []TypeOK` |
| | `QueryIsShown` | `Spec => []ViewsShowConditions` |
| | `LinksAreCurrent` | `Spec => []LinksNameConditions` |
| | `ProvidersComeAndGo` | `Spec => []ProvidersFollowEditor` |
| | `FiltersHit` | `Spec => FiltersHitTheirConditions`, an action property |
| `BlacklistProofs` | `TypeCorrect` | `Spec => []TypeOK` |
| | `TableTakesEffect` | `Spec => []UpdateTakesEffect` |
| | `UpdatesLeaveNoGap` | `Spec => NoGapInUpdate`, an action property |

### FactStore

* `LockInv`: one transaction holds the lock, only it has pending rows. Nobody
  else can commit between its check and its commit.
* `SerialInv`: pending rows are newer than the log *and than every serial that any
  token was created with*, even though those are read without the lock. A token's
  serial is one of a committed row, and a row gets its serial under the lock,
  after all earlier holders have committed.
* `UniqueInv`: serials and ids stay unique when pending rows are committed.
* `ClientInv`, `CallInv`, `TokenInv`: a token that is used was handed out by an
  answered call, and keeps the serial which that call read.
* `SeenInv`: what the business logic saw is in the log and contains everything in
  its scope up to its token's serial. The logic runs after the token was issued,
  so rows committed later than its look are newer than the token.
* `DecidedOnCurrentState` follows at `CheckState`: nothing newer than the token in
  the scope, so `seen` is all there is, and `LockInv` keeps it so.

`LogStep` shows from `IndInv` that a commit is a step of the abstract log and everything
else a stutter. `NothingPublishedIsLost` has an invariant of its own on top, `OutcomeInv`:
what each call's answer and each client's progress through a batch say about the log.

### FactStream

* `EarlyInv`: until the executor is registered, the connecting thread is alone: no
  query, no event, no timer, and the pipeline is empty between its passes.
* `StopInv`: what `close` has reached, and that whoever could still start a query is
  registered, scheduled or connected, so `close` finds it. `StaysStopped` follows.
* `OrderInv`: delivered facts, then buffered ones, then the serial, then selected
  rows, each in order. The serial and `latest` are serials of committed rows, so
  a publication, whose rows are newer than those, cannot get in between. This holds
  with failing transformations as well.
* `CompleteInv`, while nothing was lost (`Intact`): every owed fact up to the serial is
  delivered or buffered; no owed fact lies between the serial and a selected row
  without being selected; what is owed up to `latest` is behind the serial or
  selected. The last part is why the serial may move to `latest` after a query: it
  was read *before* the snapshot.
* `ReachInv`: what was in the log at connect is behind the serial once a pass is over.
  With `CompleteInv` and the empty buffer this gives `CatchupIsComplete`.

`FeedStep` maps every step to `FactFeed`. The oldest selected row that passes directly is
the oldest fact that is due, by `CompleteInv`; so is the first one in the buffer, by
`OrderInv`. A transformation that fails is the step `Break` of `FactFeed`: `CompleteInv` ends
there, since the code skips facts (run `lostfacts`), and what is left to show of later deliveries,
that they are in the log, wanted and newer, rests on `OrderInv` alone. `NamesAssumption` says
that "nobody" is no thread.

### ClientSubscription

`ChainInv`: connections form a chain, and only the thread at its head, the user's at
first and then the gRPC thread of the latest connection, delivers or reconnects.
`PositionInv` keeps the cursor, the position and what was delivered in step along that
chain; `AttemptInv` says that whoever is about to reconnect has found an attempt left
and nobody else can take it; `DoneInv` that a future completes after the facts it is
about. `FailureInv` bounds the connections.

`ContractStep` maps every step to `SubscriptionContract`. That a wait ends with an exception only
if something went wrong, and that the observer hears of errors only then, rests on
`ReasonInv`: a future that failed, a thread that is repairing a connection and an exception
on its way each have a failure behind them that was counted.

### ObserverAdapter

`StepsInv` lists what a handler may have left to do in each phase. `OrderInv`: what was
sent, what is in the pipeline's message, what is staged and what waits for the next
batch are four sets in this order. `CompleteInv`: together they are all facts that fit,
unless the client has cancelled, a failed send was not reported or the adapter is
ending; `GaplessInv`: what was sent has no holes. Marks are sent in phases in which
nothing is staged (`StagedInv`, `MessageInv`).

`FitInv`: what is staged and what is in a message fits. The bytes of a batch are a *set* of pairs of
a place and a number, and their count is its cardinality; adding a fact adds a disjoint
set, which the theorems on finite sets can count. A sum over the sequence would have needed an
induction over data.

### Projection

`LocalInv` is about what an instance holds, with or without the lock; `WriterInv`, only for the
holder of the lock, says which facts its buffer and batch still owe to the position;
`StoreInv` is the agreement of state and position, with at most one fact ahead of the
position without transactions. Before a trespass only the holder of the lock moves
anything of it. `FurtherInv` adds what the position is while the holder writes fact by fact, and
while the holder listens if it remembers where it was forwarded to (`PlaceInv`): the place from
which it started or the last position that it knows of. Hence the next fact or batch is ahead of
the position, and so is a fast-forward target if the update remembers. Otherwise the target is
ahead of all facts received, which makes it pass the same facts as the position, be it older or not.

### TransformationCache

Whatever is stale is somebody's business: a chain that of a first invalidation of
its node, a worker's task that of a second one that waits for it, a buffer that of
either, a row of the table that of some node (`ChainInv`, `TaskInv`, `BufferInv`, `TableInv`);
or an invalidation of the node has come to nothing (`missed`). Rows of the table, and a copy in the
hands of a flush (`FlushInv`), are covered only while nothing has spoilt the table, and whatever
has come to nothing has (`MissedInv`).

### QueryPage

`ConditionsInv`: no request takes the first condition away, none means a condition that
is yet to be made. `RenderInv`: the last call under way, or else what the editor shows, is
about the conditions that there are now, unless a URL has replaced them since (`navigated`).
What every request tells the browser is one definition (`Tells`). `FilterInv`: the index in a click is that of the
conditions in its text.

### Blacklist

`KnownInv`: a table that differs from what was read last is somebody's business: a notification in
the connection, a signal on the bus, a listener that has yet to tell of its connection, or a signal
that is being handled. `AloneInv`: if the last update began alone, whoever is in the middle of an
update is the only one and works with what was read last; between removal and addition nothing
is blocked that is not in the list; and after an update that did not fail the set is what was read.

### Only model-checked

* `EveryClientReturns`, `EveryFactArrives`, `ClosedReleasesWaiter`, `EveryFactIsApplied`,
  `FailureIsTold`, `ClosedComesToRest`, `EventuallyInEffect`: liveness under fairness, which the
  prover does not treat.

Every invariant, every action property and all three refinements of the passing runs are
proved. `NothingBehindSerial` and the refinement of `FactFeed` rule out gaps only up to the first
transformation that fails, since the code skips facts after that (section 7).

## 7. Where code and documentation disagree

Three are runs that TLC finishes with a counterexample; `PROJECT.json` quotes the lines.

* `lostfacts`: a transformation fails with an unexpected exception after the last
  row of a follow query; the buffer is cleared, the serial is already behind it, the
  exception is logged: the facts are skipped for good. In the same place
  `ObserverAdapter` shows a second way: the flush at the end of a follow query runs
  out of polls, and the batch that `popAll` has emptied is gone.
* `abandoned`: the handshake of a reconnect fails, the exception leaves `onError`
  through the gRPC thread, and the subscription stays neither connected, nor closed,
  nor reported.
* `removal`: `Blacklist.accept` calls `removeAll` with `Sets.difference` of the same set. If only
  some of the blocked ids are to be removed, the iteration goes through that view while the set
  changes, and ends with a `ConcurrentModificationException` unless the first id removed was the
  last to be visited. The bus logs it; the rest stays blocked, and what the change has added
  is not blocked, until the next signal at least.

Others are in the models, but no run of their own states them:

* *Lost reply*. `optimistic_locking.md` says "the process can safely be retried, as there
  was nothing published yet". If the reply to a committed `publishIfUnchanged` is lost,
  the call is sent again (`GrpcFactStore:394`), returns false, and `attempt` runs the
  business logic again.
* *Failed query*. A follow query that fails is logged (`CondensedQueryExecutor:140`) and
  not repeated before the next notification or reconnect of the listener: with
  `MaxQueryFailures = 1`, `EveryFactArrives` does not hold.
* *Fast-forward*. The target is refreshed at any time (`PgFactStream:182`); if that is
  after the last pass of the catchup, it is ahead of a matching fact that was not
  delivered. `Projection` assumes that it is not.
* *Fast-forward after a reconnect*. A subscription that reconnects continues after the last fact
  received (`ResilientGrpcSubscription:173`, a fast-forward does not move that), so a server whose
  target was refreshed earlier may send an older target than the one stored. `FactusImpl:237`
  compares it with the last fact applied only, and `FactusImpl:401` as well in an update that
  began without a position and has applied nothing: the stored position goes back. It passes over no
  fact, so nothing is applied twice; `OnlyForward` says both.
* *Close during registration*. `PgFactStream.close` between the last `isConnected()` and
  `eventBus.register` leaves the executor registered.
* *Reconnect*. If a new connection fails before `currentSubscription.set` (`ResilientGrpcSubscription:181`), the
  thread that repairs it is done before, or finds a subscription that is there; the
  dead one stays current, and `awaitCatchup` spins on its future while attempts are
  left. A `close()` during the sleep is undone by the reconnect. After `fail` in two
  threads the observer's `onError` is called twice.
* *Two writers*. `extend-projection-db-support.md` says "only one instance at a time can
  update the projection". The token is checked before a batch, not in the
  transaction (`FactusImpl:209`); `RedisWriterToken.isValid` asks whether the lock is
  held, by whomever; `TokenAwareSubscription.close` gives the lock back while the
  thread that applies facts is still at it; a managed projection never asks. All of
  these set `trespass` in `Projection`. A subscription that has died keeps its token.
* *Second invalidation*. `PgTransformationStoreChangeListener` schedules it "to avoid
  in-flight transformations to be persisted". A flush that has copied the buffer but
  inserts after the second DELETE leaves stale rows for good. If the first DELETE throws
  (`PgTransformationCache:224`), the chains of the node are not told
  (`PgTransformationStoreChangeListener:81`), the second invalidation is not scheduled (`:72`), and
  the node goes on with the old script; if the second one throws, or comes while a
  transformation that took more than ten seconds is still under way, stale rows stay. Nobody
  tries again before the next replacement. Signals that are lost with the listener's connection
  are not sent again (`informSubscribersAboutFreshConnection` speaks of facts and of the
  blacklist only), and a restart forgets a second invalidation, though the node may have
  inserted stale rows before. `StaleFactsVanish` names what each of these may leave.
* *Blacklist at the start*. `PgBlacklistDataProvider` registers on the bus, then reads and updates
  without the synchronization that the bus gives to its handlers: if a signal comes in between, the
  list that was read first may be applied last (`alone`).
* *Oversize facts*. `GrpcObserverAdapter:163` says "add it to the next batch" and ignores
  the result: a fact of 90 % of the client's message size or more is dropped.
* *Slow clients*. If the flush of `onError` runs out of polls, the client is never told;
  if that happens to a keepalive, its timer thread dies and keepalives stop, though
  the stream lives. `OnCancelHandler` replaces the handler that wakes waiters, so a
  cancellation is noticed at the next poll.
* *Query page*. Reset keeps `queryResult`: adding a condition afterwards renders the old
  result again. A click that is on its way while conditions change may hit another
  condition, or all of them. If the user navigates while the page is open (the menu's entry, then
  "back" to a URL with a query), `setParameter` replaces the conditions and rebuilds their views, but
  the result stays with the links made for the earlier conditions: until the next result, addition,
  removal or reset they name conditions that are gone, and a click goes to whatever has their index.

Not a run, but visible in `FactStore`: a publication that is rejected, or rolled back
for a duplicate, leaves its token in the token store until it is compacted, though
`WithOptimisticLock` leaves the removal to the server. An old token is only ever
refused, so nothing but its row is lost.

## 8. What is not modelled

* Tail indexes, the shortest path of transformations, snapshots of Factus and the refresh of
  the schema registry, see section 2.
* The vendored JavaScript of the documentation sites (Hugo themes, reveal.js, deflate,
  horsey and so on): third-party code that FactCast ships but does not contain. The only
  JavaScript or TypeScript of FactCast itself is `json-view.ts`, which `QueryPage` models
  together with its Java side; of that file, annotations, hovers without links and
  positions in the text are left out, being presentation.
* In the modelled parts: JSON, SQL text and index choice; matching of `FactSpec`s and
  scripts (sets of keys instead); metrics and telemetry; `FactStreamInfo`; real
  time (a timer may fire at any moment, the resilience window may be exhausted at
  any failure, tokens of any age may be compacted).
* Changes of blacklist and transformations during a subscription: `FactStream` takes both as
  constant. The blacklist that is read from a file.
* Several subscriptions at once: they share no state but the table, the bus and the
  target, none of which a subscription changes for another one. The bounded pool
  in which `connect` runs is shared, and a subscription may wait for it.
* Servers in read-only mode, which neither insert into the cache's table nor delete from it.
* URLs that the query page did not write itself, such as one with an empty list of conditions.
* Timed waits of a client's subscription, ephemeral requests in `ClientSubscription` (the
  server starts them at its latest fact whatever the position), writer tokens other
  than that of Redis.
* Security, the other pages of the UI, command line tools, codecs and Spring configuration have no
  protocol of their own.
