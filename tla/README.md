# A TLA+ model of AutoLoadCache

AutoLoadCache puts a cache in front of the methods of a data access layer
(the DAO). An interceptor hands each call of an annotated method to
`CacheHandler`, which answers from the cache, or calls the method and writes
what it returned. The library promises more than that: one call of the DAO per
key whatever the number of concurrent requests, also across servers when a
distributed lock is configured; data that is loaded again before it expires; and
deletions that wait for the end of a transaction.

This directory models the concurrent core of that code, its batch calls, its two-level
cache and its admin page in TLA+, checks it with
TLC on small instances, and proves its main invariants with TLAPS for every
value of the constants. Line numbers below are those of the modelled commit;
`PROJECT.json` maps each definition to the lines it stands for.

    tlc -workers 2 -config DataLoader.cfg MCDataLoader.tla
    tlapm DataLoader_proofs.tla

## 1. The system

`core` is `autoload-cache-core`, `common` is `autoload-cache-common`.

| component | state it keeps | operations | interacts with |
|---|---|---|---|
| `CacheHandler` (core) | `processing`: key -> `ProcessingTO`, shared by all threads | `proceed`, `deleteCache`, `proceedDeleteCacheTransactional`, `clearCache`, `writeCache`, `get`, `delete` | everything below |
| `CacheHelper` (core) | two thread-locals: `OP_TYPE`, `DELETE_CACHE_KEYS` | set, get, clear, add and read keys | `CacheHandler`, on the caller's thread |
| `DataLoader`, `ProcessingTO` | per call: `isFirst`, `cacheWrapper`, `tryCnt`; per flight: `cache`, `firstFinished`, `error`, `startTime` | `loadData` (`doFirstRequest`, `doWaitRequest`), `getData` | `processing`, the cache, the distributed lock, the DAO |
| `ILock` and its Redis implementations | the key in Redis; a thread-local with the start and length of the lease | `tryLock`, `unlock` | one Redis, many servers |
| `RefreshHandler` (core) | `refreshing`: the keys listed; a `ThreadPoolExecutor` with a bounded queue | `doRefresh`, `RefreshTask.run`, the rejection handler, `shutdown` | called by `proceed` on data about to expire; its tasks call `DataLoader` |
| `AutoLoadHandler`, `AutoLoadTO` | `autoLoadMap`, `autoLoadQueue`, a sort thread, the auto-load threads; per object the times, statistics and `loading` | `putIfAbsent`, `removeAutoLoadTO`, `resetAutoLoadLastLoadTime`, `shutdown`, and the loops of its threads | called by `proceed`, `writeOnly`, `deleteCache` and the admin page; its threads call `DataLoader` |
| `MapCacheManager`, `CacheTask` | a map of soft references and hashes, a count of changes, a file | `setCache`, `mset`, `get`, `mget`, `delete`; clean, persist, load | one thread of its own, and every request |
| `MagicHandler`, `DeleteCacheMagicHandler` | none | split a batch call into keys, read, load what is missing, write, put results back in order | `CacheHandler`, a cache manager |
| `ComboCacheManager` | none of its own | writes, reads and deletes in a local and a remote cache | two cache managers |
| Redis and Memcached managers | the server's | `setCache`, `mset`, `get`, `mget`, `delete` | a client library |
| `CacheWrapper`, statistics of `AutoLoadTO` | expiry, load times, use times | `isExpired`, averages | read by most of the above |
| `DataLoaderFactory` | a pool of `DataLoader` objects | borrow, return | `proceed`, `AutoLoadHandler`, `RefreshHandler` |
| admin page (`list.js`, its `b-modal` dialogs, `AutoloadCacheController`) | the list, the arguments shown, the item and action a confirmation is for; which dialogs are visible, due, leaving or waiting | `loadData`, `showModal`, `handleOk`, `showArgs`; `bv::show::modal`, `bv::modal::hidden` | HTTP; `AutoLoadHandler`, `CacheHandler.delete` |
| interceptors, script parsers, serializers, reflection, Spring Boot wiring | none that matters to the cache's logic | | |

### What is hard here

* *Interleavings.* Requests race for `processing` without a lock, refresh tasks
  and auto-load threads run beside them, and `AutoLoadTO` objects outlive their
  place in the map. Most checks (the size of a map, a flag, an entry's absence)
  are not atomic with what follows from them.
* *Failure.* The DAO, the cache, the lock, a script or a cloner may throw at any
  call, and what was registered before must be taken back on every path.
* *Ordering.* `setFirstFinished`, `processing.remove`, `notifyAll` and the write of
  the cache follow one another while new requests arrive; a deletion may come
  between a load and its write; a DEL may overtake nothing or everything.
* *Time.* `wait(2)` may miss its notification, waiters give up or retry, leases
  run out during a load.
* *Crashes.* The map cache is written to a file while requests change it, and a
  restart finds whatever the last write left.
* *Several things for one.* A batch call reads, loads and writes key by key beside updates
  that delete key by key; a delete empties one cache after the other; answers of the
  server reach the admin page in any order while dialogs open and close.
* *Limits.* The refresh pool drops its oldest task when it is full, the
  auto-load map is bounded by a check outside of any lock.

### What makes each component correct

* `DataLoader`: one load per key and JVM at a time; no entry of `processing` is left
  behind; a waiter gets what the flight it joined brought, or says why not; nothing
  but the DAO can hold up a request.
* Lock: never two owners inside (which the code does not keep, finding 2; what it keeps
  is that nothing but a DEL sent late in a lease lets a second one in); the key goes away
  whoever dies.
* `CacheHelper` and the transactional delete: deletes at the end of the outermost
  call, all of the keys, and nothing left on the pooled thread.
* `RefreshHandler`: a key is refreshed by one task, and a key that is listed has one.
* `AutoLoadHandler`: bounded; each key that is registered gets its turn, once a
  round; nothing marks an object for ever.
* Cache contents: nothing older than a deletion is written after it, except by those who
  had it in hand, and what is older goes away in the end.
* Map cache: what is not in the file is still counted as a change, so that it will be.
* Batch calls: results are matched to their keys, and keys without a row stop
  reaching the DAO.
* Two levels of caches: moving a copy from one to the other does not prolong its life,
  only a renewal after a failed load does, and for a bounded time; and what a delete
  removed is brought back only by who had it in hand, or took it from another server's
  local cache to renew it or to answer a poll.
* Admin page: what is posted is what was chosen, once; the page shows what was done.

## 2. The modules

| module | what it is |
|---|---|
| `DataLoader` | `loadData` with the cache lookup before it and the cache write after it |
| `SingleFlight` | abstract: loads are flights, one in the air per key |
| `MCDataLoader` | the instance of it |
| `RedisLock`, `MCRedisLock` | the Redis lock of one key, with messages and time |
| `TransactionalDelete`, `MCTransactionalDelete` | `@CacheDelete` in nested `@CacheDeleteTransactional` calls |
| `RefreshHandler`, `MCRefreshHandler` | listed keys, the pool and its rejection handler |
| `AutoLoadHandler`, `MCAutoLoadHandler` | the map, the sort thread, the queue and the auto-load threads |
| `MapCache`, `MCMapCache` | the map with its hashes, the cleaner, the file, crashes and restarts |
| `Consistency`, `MCConsistency` | one key on several servers: requests, refresh tasks, auto-load threads, writers and deletes together |
| `ComboCache`, `MCComboCache` | local caches and a remote one |
| `Magic`, `MCMagic` | batch calls and deletes of several keys |
| `AdminPage`, `MCAdminPage` | the page, its dialogs, its requests and the controller |
| `DataLoader_proofs`, `RefreshHandler_proofs`, `AutoLoadHandler_proofs`, `MapCache_proofs`, `Consistency_proofs`, `ComboCache_proofs`, `Magic_proofs` | theorems about the module of that name |
| `Components_proofs` | theorems about `RedisLock`, `TransactionalDelete` and `AdminPage`, which share nothing, in a section each |

`Components_proofs` extends three modules at once, so the names that every module has are
prefixed in two of them: `LockTypeOK`, `LockSpec`, `lockVars` in `RedisLock`, `PageTypeOK`,
`PageSpec`, `pageVars` in `AdminPage`.

Conventions: `pc` names the next step of a thread; one action is one step of the
Java code that other threads can tell apart, so that everything between two reads
or writes of shared state is one action. An action named like a method
stands for that method or for the part of it that follows the previous one's.
Operators defined just before an action as a slip or a variant of it
(`EndNestedResetsOpType`, `RemoveNewest`, `RemoveFieldUncounted`, ...) are altered forms:
no specification uses them, they are there to confirm that a property notices the
slip. Variables marked *history* record what a property needs and
guard nothing.

### DataLoader

A request is one thread of one call. `processing` maps keys to `ProcessingTO`
objects, and the object a request created is identified with the request, as it
creates at most one at a time and makes a new one when it retries. `wrapper` is
the data in hand, named by the request that loaded it (or `Foreign` for data of
another server). `Hit` and `Miss` are `proceed`'s lookup; `GetProcessing` and
`PutIfAbsent` lines 95-113; `GetLock` to `SetCache` `doFirstRequest`; `SetError` to
`NotifyAll` the catch and finally blocks; `CheckFinished` to `Reread`
`doWaitRequest`, including the recursion into `loadData`; `WriteCache` what `proceed`
does afterwards. `Overdue` is the passing of `waitTimeOut` since the object's
`startTime`. `CacheLoses` and `ForeignWrite` are everything else that happens to
the cache. Open: which of several outcomes the DAO, the lock and the cache
produce. Left out: the contents of data, the slow-load log, `loadDataUseTime`.
The mapping to `SingleFlight` takes a flight that is registered and not finished as
in the air (`Flying`), its `ProcessingTO`'s data or error as its outcome (`Landed`).

### RedisLock

All clients of all servers compete for one key. `ttl` is the server's expiry,
`lease` what is left of the lease the server gave a client, `useTime` the age of
the lock by the client's own clock (`LOCK_START_TIME`). An OK of SET NX and a DEL
travel for at most `NetDelay` ticks; a SET itself may take any time. `SetNxThrows`
is a lost reply: the key is set and nobody knows. `Unlock` sends nothing when the
lease is over; `GiveUp` is a DEL that fails, or the death of the owner. `releasedLate`
(history) is set when an owner sends its DEL so near the end of its lease (`Late`) that
the key may be another client's when it arrives, and reset when the key is given away
with nobody inside and no DEL under way.

### TransactionalDelete

`depth` counts the nested transactional calls of each thread, `isStart` and
`onError` are the levels at which the local `isStart` and the annotation's
`deleteCacheOnError` are true. `DeleteCache` is `@CacheDelete`: inside a
transaction it collects the key, outside it deletes. `Leave` returns or throws
from the innermost call, and the exception may be caught by any caller.
`OP_TYPE` stays LOAD inside the outermost call until a nested one clears it.

### RefreshHandler

`refreshing` is the set of listed keys, `pc` and `key` a request's place in
`doRefresh` or in its pool's rejection handler. The pool is modelled from its
documented algorithm: core threads, queue, further threads, rejection.
`NewTaskThrows` is the constructor of `RefreshTask` failing in a deep clone. A
task's run is one action: what it loads and writes is `Consistency`'s matter.

### AutoLoadHandler

`AutoLoadTO`s are objects with identity: threads may hold one that the map no longer
has. An object that nobody refers to can be made anew. `CheckSize` and
`PutIfAbsent` are the two halves of `putIfAbsent`, `Get` the case that the key is
there; `FlushRequestTime` the first `setLastRequestTime`. The sort thread is
`SortCheck`, `GetAutoLoadQueue`, `Put`, an auto-load thread `Loop` to
`WriteCacheAndSetLoadTime`. When an object is due, and when it is dropped for want
of requests, are decided by times and averages and are left open (`Skip`,
`Discard`, `Reload`): every safety property holds whatever they decide.
`SortThrows` is `Arrays.sort` failing because requests change the times it compares.

### MapCache

`cache` maps plain keys to data and other keys to a hash, an object with identity:
a request or the cleaner may hold one that has left the map. `Put` and `GetHash` to
`PutField` are `setCache`, `Remove`, `RemoveHash` and `GetField`, `RemoveField` are
`delete` with its three forms, `CacheChange` and `CacheChangeAll` the counting that
follows. The thread of `CacheTask` cleans key by key and field by field
(`VisitKey` to `CountCleaned`; `iterator.remove()` removes whatever is there by
then), then persists (`ReadCount` to `AddCountAgain`); `destroy` persists once more
on a thread of its own, `"main"`. Serialization visits the map key by key while it
changes. `Dead` is data that has expired or that the collector has taken from its
`SoftReference`: the two are one to every reader. The file is a map, or unreadable
from `Open` to `Write` and after a write that failed. `Crash` may come at any
step; `Start` loads the file. No request is made before `start` or after `destroy`
began, as in a container that starts and stops the bean. Left out: copying of
values, and a key used both with and without `hfield` (an error in the code).

### Consistency

Data is the version of the row it was read from; `db` is the row's, `cache` and `life`
the shared cache's entry, `held` the `CacheWrapper` in a thread's hand, `old` the one a
refresh task or an auto-load was made with. `Hit`, `DoRefresh`, `Miss` and `Return`,
`WriteCache` are `proceed` around `loadData`, which is cut to the steps that move data:
`LoadData` (`processing`), `Dao` or `Poll`, `Land` or `Crash`, and `TimeOut`. `Answer` hands
data to the waiters. `Renew` is the catch block of `RefreshTask.run` and of `loadCache`:
the old data is written again, with a shorter life. `Update` and `Delete` are a method
with `@CacheDelete` (or, without `Delete`, `opType = WRITE`, which is `writeOnly`).
`LockDown` is `openLockDown`. A `Miss` is always possible, as the cache may throw. What
`DataLoader`, `RefreshHandler`, `AutoLoadHandler` look into (the monitor, the pool, the
queue) is left open here: a task may be dropped and a thread may start at any time.

### ComboCache

One key: `remote`, and `local` for each server. A copy has one `life` wherever it is, as
both caches are given the same `CacheWrapper` (`ComboCacheManager.java:90`).
`GetLocal`, `AskRemote`, `GetRemote`, `Refill` are `get` and `mget`, which asks the remote
cache for all keys when one is missing locally. `Answer` is what the callers do with what
they got, and where a copy goes on from there: `proceed` returns it; a `RefreshTask` is
handed a live one, and an auto-load thread any, to renew if the load fails (`old`); a
first request that polls (`DataLoader.java:175`) writes it, wherever it came from. Who is
first, and whether a first request loads or polls, is `DataLoader`'s matter and left open.
`Load` and `BuildCacheWrapper` are a load, with up to `LoadTime` ticks in between;
`LoadThrows` a load that fails, after which `Renew` gives the old data a life of up to
`RenewExpire` (the code takes half of `expire`, and at least 120 s; auto-loads likewise).
`SetLocal`, `SetRemote` are `setCache`; `DeleteLocal`, `DeleteRemote`, `DeleteThrows` are
`delete`, and an `Update` whose delete fails at once is one without `@CacheDelete`. Auto-load
threads read the remote cache only, methods with `localOnly` write the local one only. A
local cache answers null for what has expired (`Kept`), so such copies are dropped from it;
a remote one may still hand them out. `Writer` are the threads that update, the others
read and load: no thread does both at once.

The histories: `outdated` is how long a version has not been the row's, `renewedAgo` the
time since the last renewal; `carriers` are the threads that hold data older than the
last delete, because they had it in hand then or took it from the local cache of another
server since; `returned` says that one of them wrote it to where the delete had been, or
that it was put back there between the two halves of the delete.

### Magic

A call goes through the phases get, put, done. `Get` is `mget` at one key, and may miss a
key that is cached; `LoadData` the DAO's answer to all that was missed, in any order,
perhaps with rows nobody asked for; `Unmatched` is `writeMagicCache`'s map, `Put` `mset`
at one key, `PutBreaks` its failure; `Values`, `ResSize`, `ReturnObject` and `ConvertToReturnObject` put
the result together; what a loop collects that passes over some positions is `At`, by the
rank of a position (`Nth`), which `MCMagic` compares with `SelectSeq` for all
sequences up to four elements (`LoopAssumption`). `Update` and `Delete` are an update of several rows and
`DeleteCacheMagicHandler`'s keys. There is no `DataLoader` in this path: calls for the
same keys do not wait for each other. Left out: the age of entries, a delete that
fails, the empty argument (it is answered at once) and the types of arguments.

### AdminPage

The page is one thread; `requests` is the bag of what is under way, so answers come in
any order, or not at all (`HandleError`). `ShowModal`, `HandleOk` and `ShowArgs` are the
functions of `list.js`, `ShowList`, `AfterPost` and `ArgsArrive` their callbacks, `Serve` the
controller. `Show`, `Enter`, `Hide`, `AfterLeave`, `Dismiss` are `b-modal`'s methods: a dialog
that finds another one open waits for `bv::modal::hidden`; between `doShow` and its
`nextTick` it is `due`, while its transition ends `leaving`. `NoField` and `EmptyField`
are `hfield = null` and `""`, which `handleOk` posts alike. The page's html only says which
button calls which function. Assumed of Vue 2.5 (not in this repository's logic): a
`nextTick` made in a click handler is a task of its own, which an answer may overtake,
but no user and no transition.

## 3. What is checked

| run | states | what it shows |
|---|---|---|
| `DataLoader` | 16 000 | two requests of a key, two retries: safety, the refinement of `SingleFlight`, `OnlyTheDaoHoldsARequest` |
| `RedisLock` | 1 306 000 | three clients, a lease of four ticks, messages that take up to a tick: exclusive but for late DELs, and the key goes away |
| `RedisLock_delay` | violation | three clients, a lease of three ticks, see finding 2 |
| `TransactionalDelete` | 151 000 | two threads, two keys, three levels of calls |
| `TransactionalDelete_error` | violation | see finding 1 |
| `RefreshHandler` | 6 700 | two requests, six keys, two core threads and one more, a queue of two |
| `AutoLoadHandler` | 902 000 | two requests racing for three keys and a limit of one, an auto-load thread, an admin, a sort that may fail: the map, the queue, the marks, and that everyone is served |
| `MapCache` | 2 038 000 | a request, a plain key and a hash of one field, both savers, crashes and failing writes |
| `Consistency` | 248 000 | a request, a refresh task and a writer on one server, an auto-load thread on another: who brings deleted data back, and that it goes away |
| `ComboCache` | 2 147 000 | two servers with a writer each, an auto-load thread on one and a request on the other: staleness, and deletes over two levels |
| `Magic` | 1 470 000 | two threads over two keys, one of them asked for twice; an array without nulls and a list with them |
| `AdminPage` | 849 000 | three buttons pressed, two items that differ in an empty `hfield` only, two operations, one change behind the page's back |

### The properties

`DataLoader` - `SingleFlight`: between `putIfAbsent` and `setFirstFinished` one
request per key. `NoOrphanEntry`: an entry of `processing` has an owner on its way to
remove it. `RetryOnlyWhenOverdue`: a waiter whose flight has landed does not go
back to the cache, as it did in releases 4.11 and 4.12.
`ImplementsSingleFlight`: whoever joined a flight gets that flight's outcome, which
has *landed*, was never another key's, and a request that led a flight answers with
that flight. `OnlyTheDaoHoldsARequest`: every request ends, although notifications get
lost.

`RedisLock` - `ExclusiveUnlessReleasedLate`: two clients are inside at once only when a
DEL was sent near the end of its owner's lease, and no longer than until the key is given
away with nobody inside; leases that run out during a load, lost replies and
dead owners do no harm. `LockGoesAway`. `RedisLock_delay` shows that `Exclusive` as such,
which is what `doc/lock.md` says, does not hold (finding 2).

`TransactionalDelete` - `CleanUnlessGivenUp`: at rest a thread owes no deletion and
has no thread-local left, unless an outermost call of it failed with
`deleteCacheOnError = false`. `KeysRemembered`: nothing makes it forget a key before.
`DeletesOnlyAtTheEnd`: nothing leaves the cache on behalf of an open transaction.

`RefreshHandler` - `OneTaskPerKey`, `ListedHasTask`: tasks and listed keys
correspond, though requests drop each other's tasks; the exception are keys whose task
could not be made.

`AutoLoadHandler` - `BoundedSize`: the map outgrows its limit by at most one entry for
each racing request. `RegisteredIsRequested`: an object without a request time is
about to get one, or its write failed. `QueuedOnce`, `LoadingIsTrue`,
`EveryoneIsServed`: no object waits twice, is marked for loading outside of a DAO
call, or is passed over for ever, unless the sort thread has died of its sort.

`MapCache` - `UnsavedIsCounted`: while nothing is being written, what the map has and
the file has not is covered by a positive count, or by a change that is about to be
counted. It holds through changes between the reset of the count and the end of
serialization, through failed writes, and for fields put into a hash that was
removed. Two exceptions are in the code and named by the history variable
`missed`: deletions of plain keys (see section 5), and the removals of a cleaning
round that ends in a `NullPointerException`.

`Consistency` - `OnlyTheLateBringItBack`: after a delete, data older than it is in the
cache only if a thread that had it in hand at the delete, or a task made from such a
thread's data, has written it. Those who wait for a flight, look later or load later
never do. `OthersAreUpToDate` is the argument: until then nobody else has older data he
may write. `Converges`: when the row is updated no more, the cache ends up with its data
or none, however often older data is renewed. It excepts runs in which the DAO goes
on failing or first requests go on polling other servers' data, which they write back
with a whole life (`DataLoader.java:175`): there it does not hold.

`ComboCache` - `BoundedStaleness`: no cache has a copy that still lives of data
replaced more than `Expire + LoadTime` ticks ago, unless old data was renewed less than
`RenewExpire` ticks ago; moving, polling or holding a copy does not make it younger.
Renewals may follow one another as long as loads fail, so there is no bound without that
exception. `OnlyCarriersBringItBack`: after a delete nothing older is in the remote cache
or the local one of that server, but what was put back between the two halves of the
delete, or what a carrier wrote. A request that merely hits an old copy in another
server's local cache is none for longer than its call, and auto-load threads never
become one after the delete.

`Magic` - `MatchedToTheCall`: results correspond to the argument by key, position by
position. `StaleIsLate`: an entry that differs from the database is about to be
deleted, or was written by a call that had asked before the last change. `ArraysFit`: an
array without nulls is filled exactly, with three exceptions (section 5).
`NoPenetration`: in calm times every key of a call is a hit in the end, keys without a
row included; it needs no fairness, as calls that are not made miss nothing.

`AdminPage` - `PostedAsChosen`: each operation posted was chosen, once, in order.
`OwnChangesShow`: at rest the list shows the user's own operations, unless an answer was
lost or overtaken. `ArgsAreThoseAskedFor`: so do the arguments, unless two questions
were under way at once or one failed. `WaitingAppear`: a dialog that waits is shown in the end.

Each module also has its type invariant (`TypeOK`, `LockTypeOK`, `PageTypeOK`).

### Bounds

* Two requests of one key make a leader and a passenger, and each leads a flight of its
  own when it comes after the other's `remove`; two retries let a retry fail. Three
  requests, one of which arrives between any two of the leader's last steps, were checked
  for safety as well (214 000 states), and are covered by the proofs. Keys do not
  interact but through `lockOn`.
* Three clients are what a broken lock needs: one too late, one inside, one let in.
  A tick of delay for the OK and one for the DEL leave, of a lease of four, two in which
  a release is in good time, one in which it is late, and then the end of the lease. Three
  ticks are enough to break `Exclusive`.
* Three levels of calls (`MaxDepth = 3`) are an outermost one, a nested one, and one
  inside the nested one that fails before it does. Two threads show that the thread-locals do not mix.
* Six keys fill three threads and a queue of two with one left that is rejected;
  two requests drop each other's tasks.
* A limit of one, which two racing requests take to three, shows the overshoot in
  full. Two objects in the map and a queue of one make the sort thread wait in `put`.
* Two `AutoLoadTO` objects for three keys: an object in use is not made anew, so that a
  thread which holds an old one delays a registration in the model. One auto-load thread:
  a second one takes TLC beyond minutes. What several of them do to each other (the marks,
  the queue) rests on the proofs, which have neither bound.
* One request suffices for `MapCache`, as the cleaner and the serializer are the
  threads it races with (two requests without `destroy` were checked as well, 1.5
  million states). Two hash objects are the one in the map and the one that
  left it. Two changes may be counted at a time; no call is made beyond that.
* One update is what `Consistency`, `ComboCache` and `Magic` need to tell old data from new,
  as the history variables speak of the last delete; more versions, or a second server
  with requests, take TLC beyond minutes. The proofs have no bound.
  `Expire = 2` and `RenewExpire = 1` tell a renewed entry from a new one; in `ComboCache`
  `Expire = 1` and `LoadTime = 1` let a copy die in the middle of a `get`. There a writer
  on each server lets the delete be made beside the auto-load thread or beside the
  request that finds an old local copy. `localOnly` is left to the proofs.
* Two keys and the batches `<<k1, k2>>`, `<<k2, k2>>` and none at all give hits, misses
  and both in one call, and a key twice. `k2` has a row at first, and may be answered
  without being asked for.
* Three buttons are a dialog that is visible, one that waits for it and a choice made
  in between; a fourth adds no new pair of dialogs.

Deadlock is checked, except for `RefreshHandler` and `AutoLoadHandler`, where after
`shutdown` everything really may stop, and for `AdminPage`, where nothing has to happen
once the buttons are pressed.

### Fairness

* `DataLoader`: weak fairness of each request's steps (the JVM schedules runnable
  threads, the DAO call and the cache call return) and of `Overdue` (time
  passes). Nothing is assumed of notifications or of other servers.
* `RedisLock`: clocks advance and messages arrive. No client has to unlock.
* `AutoLoadHandler`: the sort thread and the auto-load threads are scheduled, and the
  DAO calls they make return. The sort may throw (`SortMayThrow = TRUE`), as it may with
  every `AutoLoadQueueSortType` but `NONE`: the sort thread then dies, nothing is served
  any more (hazard `AutoLoadHandler.java:256`), and `EveryoneIsServed` excepts that.
* `Consistency`: threads are scheduled, DAO calls end one way or another, a delete that
  is due is made, time passes and an entry expires at its end. Nothing is
  assumed of new requests, tasks and auto-loads.
* `AdminPage`: the browser's tasks run and transitions end. No answer has to arrive and
  nobody has to press anything: the other dialog hears the `show` event of the one that
  waits, and hides itself.

## 4. What is proved

Each `_proofs` module shows, for any number of requests, threads, keys and any
limits that the named assumptions allow, that the properties below are
invariants (or action properties) of the specification. Every invariant and every action
property of the passing runs is a theorem for all values of the constants.
The argument is always the same: an inductive invariant holds initially, each action keeps it, and it implies the property.

* `DataLoader_proofs`: `IInv` is the type invariant and `Flights`. The core of `Flights`
  is that a request which `IsFirst` and has not removed its entry *is* the entry of
  its key in `processing` (`LeaderRegistered`), which is what makes
  `processing.remove(key)`, that removes by key alone, remove the right one; that a
  waiter has joined some request's object (`PassengerNotFirst`, `JoinedIsFirst`),
  and that on each step a leader has the data or the error it goes on to publish
  (`LeaderHolds`, `ToDecided`). Proved: `TypeOK`, `SingleFlight`, `NoOrphanEntry`,
  `RetryOnlyWhenOverdue`, and three that no run needs to repeat: `FinishedIsDecided`
  (a finished `ProcessingTO` has data or an error), `RemovedOnlyWhenFinished` and
  `LoadOnlyWithoutData` (nobody calls the DAO with data in hand). On the same invariant
  rests `Refinement`: each action maps to an action of `SingleFlight` or to a
  stutter, so that `Spec => ImplementsSingleFlight` for any requests, keys and retries.
* `Components_proofs`, the lock: `LockTypeOK` and `ExclusiveUnlessReleasedLate`, for any
  lease and any delay. As long as `releasedLate` is false, whoever is inside owns the key and
  the key lives as long as the lease does (`LeaseIsKey`), and a DEL under way has a lease
  that outlasts it (`DelsInTime`), as the owner's clock is behind its lease by no more than
  one delay (`ClocksAgree`, which needs no condition). That a key given away with nobody
  inside and no DEL under way makes all of this true again is what lets the history be
  reset. `ExclusiveIfReleasedInTime` is the corollary for an operator: owners that release
  earlier than the lease time less twice the delay, one for the OK and one for the DEL,
  or so late that `unlock` leaves the key alone, have `Exclusive`. The bound is sharp: with a
  tick less TLC finds two owners (lease 4, delay 1; lease 6, delay 2). That condition is on
  the behaviour (`[][...]_lockVars` beside the specification), as nothing in the code
  bounds how long a load takes.
* `Components_proofs`, the transactional delete: the outermost level is the one with `isStart`
  (`OutermostOwnsTheSet`), and the set is there while a thread is inside
  (`SetWhileInside`). Proved: `TypeOK`, `KeysRemembered`, `CleanUnlessGivenUp`,
  `DeletesOnlyAtTheEnd`, for any depth.
* `RefreshHandler_proofs`: a listed key has one owner among the requests that hand
  over its task, the queue, the threads and the requests that drop it
  (`OneOwner`). Proved: `TypeOK`, `OneTaskPerKey`, `ListedHasTask`, and that the
  key of a task stays listed (`TasksAreListed`).
* `AutoLoadHandler_proofs`: `BoundedSize` is inductive with `TypeOK`, by the cardinality
  of finite sets. `QueuedOnce` needs that the queue is empty when the sort thread is not
  putting (`SortRound`); `LoadingIsTrue` that one thread at a time calls the DAO for a
  key (`OneDao`, which `DataLoader` proves as `SingleFlight`). `NoneIsPassedOver` is an
  action property that only the proof states: an object of the sort thread's round
  (`Waiting`: in the queue, or copied and still to be put) leaves it only into a thread's
  hands, and the next round begins when all of them have. It follows from `SortRound`,
  and is the safety half of `EveryoneIsServed`.
* `MapCache_proofs`: `UnsavedIsCounted` is far from inductive: nothing in it speaks
  of the states in which the file is being written. `IInv` follows an entry whose
  content differs from the file (`FileIsExcused`) or from what was serialized
  (`SnapIsExcused`), and shows that something accounts for it (`Excused`): a positive
  count or a `cacheChange` to come (`Sure`), the cleaner's own count, a removed hash
  about to be counted, or `missed`. Needed beside it: a hash serves one key
  (`OneOwner`); what was removed has no content unless a change is counted
  (`MissedIsGone`, `CleanedIsGone`); and the hash the cleaner looks at is the one in
  the map, or a counted change replaced it (`FoundIsOld`).

* `Consistency_proofs`: `OthersAreUpToDate` is nearly inductive, and is the heart of
  `IInv`: who takes from the cache takes nothing older as long as
  `OnlyTheLateBringItBack` holds with `returned` false, so the two go together. Beside
  them, the row is never older than the delete (`DeletesArePast`), who has not loaded yet
  holds nothing (`EmptyHands`), and old data to be renewed is handed to refresh and
  auto-load threads only (`RequestsRenewNothing`).
* `ComboCache_proofs`: each copy, in a cache or in a hand, is young enough for the life
  it has left (`Bounded`): `outdated` of its version and its `life` add up to no more than
  `Expire + LoadTime`, or the copy was renewed and its `life` and `renewedAgo` add up to no
  more than `RenewExpire`; data being loaded has its own bound (`Loading`). The delete's
  part goes as in `Consistency`: who is no carrier has nothing older than the delete in
  hand, to write or to renew (`HandsAreUpToDate`, `UpToDate`), as long as `returned` is
  false, and so finds nothing older where the delete has been. Nearly every
  step moves one thread and gives it something; `MoveKeeps` says once which such moves keep
  the invariant (`AnswerKeeps` and `RenewKeeps` for the callers of `get`). Proved: `TypeOK`,
  `BoundedStaleness`, `OnlyCarriersBringItBack`.

* `Magic_proofs`: two facts carry the argument. No row or null is kept under a key that is
  not its own, in the database, the cache, the hits or what is to be written
  (`KeptUnderOwnKey`); and what a call has still to write is the database's, or changed
  behind its back (`StillToWrite`), from which `StaleIsLate` follows. The result is compared
  with what it was made from (`ReturnedAsBuilt`). That the loops of
  `convertToReturnObject` keep order and number is counted: `NthPosition` and `Collected`
  show that `At` visits each position once and in order, `FoundOnce` that the data
  found are the hits and the rows, one for each, by bijections between positions and keys.
  Proved: `TypeOK`, `MatchedToTheCall`, `StaleIsLate`, `ArraysFit`; and the safety half of
  `NoPenetration`, that a call whose DAO answers what it is asked has a row or a null
  to write for every miss (`MissesAnswered`). Assumed: finitely many keys, without which
  the DAO could not answer a call for all the rows.
* `Components_proofs`, the admin page: `requests` is a bag, and the lemmas `Sent` and
  `Removed` say what adding and removing does to it. `PostedAsChosen` is not inductive,
  as it says nothing of the choice that OK would post next: `NextToPost` keeps it, as
  long as a confirmation is visible, due or waiting, at a place later than all that were
  posted, and `OneConfirmation` that it is only one of the three, so that the second
  click on OK finds none. `RenewalUnderWay`: the list is new, or a request that will
  make it so is under way (a post that succeeded, a question for the list, an answer
  that is new enough), or an answer was lost or overtaken. `OnlyQuestion`: a question for
  arguments that overlapped no other is alone in the bag, once. Proved: `PageTypeOK`,
  `PostedAsChosen`, `OwnChangesShow`, `ArgsAreThoseAskedFor`; and the safety half of
  `WaitingAppear`, that a dialog waits only for one which is leaving and which nothing
  holds back (`NobodyWaitsInVain`, by `DialogsMoveOn`).

Only model-checked: liveness (`OnlyTheDaoHoldsARequest`, `LockGoesAway`,
`EveryoneIsServed`, `Converges`, `NoPenetration`, `WaitingAppear`), which is out of the
prover's reach.

## 5. Findings

1. An outermost transactional call that fails with `deleteCacheOnError = false`
   leaves `DELETE_CACHE_KEYS` on the thread (`CacheHandler.java:368`): no later
   `@CacheDelete` on that thread deletes anything. (`TransactionalDelete_error`)
2. `unlock` looks at its clock (`AbstractRedisLock.java:70`) and then deletes the key whoever
   owns it (`:76`). When the lease ends between the two, or while the DEL is under way, the
   next owner loses its lock and a third client is let in beside it, although
   `doc/lock.md:5` says that the locks are exclusive. (`RedisLock_delay`)

Met on the way, without a run of its own. The models have the behaviour; where a
property would be broken by it, the property names the exception.

* When a `RefreshTask` cannot be made its key stays listed (`RefreshHandler.java:102`)
  and is never refreshed again (`failed` in `ListedHasTask`).
* Deleting a plain key from the map cache is not counted as a change
  (`MapCacheManager.java:258` asks for a `CacheWrapper`, the map holds
  `SoftReference`s): without another change the file keeps the data, and a restart
  after a crash brings it back (`missed` in `UnsavedIsCounted`).
* `setLocalCache` makes a `LocalCacheWrapper` and does not use it
  (`ComboCacheManager.java:90`): `@LocalCache.expire` has no effect. `mget` likewise
  collects the keys it misses (`:152`) and then asks for all of them (`:158`).
* With two levels of caches, data that a delete removed comes back without anybody having
  had it in hand at the delete: another server's local cache still has it, a hit there makes
  a `RefreshTask` whose load fails (`RefreshHandler.java:170`), or is what a first request
  polls (`DataLoader.java:175`), and either writes it to the remote cache (`carriers` in
  `OnlyCarriersBringItBack`).
* `Arrays.sort` over times that requests change may throw, and the sort thread does not
  catch it (`AutoLoadHandler.java:256`): auto-loading ends.
* A `@Magic` method that returns an array without nulls gets a null at its end for each
  null in the cache and each row it did not ask for, and an
  `ArrayIndexOutOfBoundsException` when a key is asked for twice
  (`MagicHandler.java:345`). When `mget` answers null the call fails (`:170`).
  Rows nobody asked for also keep nulls from being written (`:294`).
* In `LettuceRedisUtil.java:91` the counter that pairs replies with keys stands still at
  the first miss: all keys behind it miss as well.
* On the admin page a failed operation is silent (`showDismissibleAlert` is bound to
  nothing), an item whose `hfield` is `""` is posted as the one without (`list.js:119`), list
  answers that overtake each other leave the older list, and two dialogs may be open
  when the arguments arrive between another dialog's `doShow` and its `nextTick`.
* A waiter whose time is up does not go to the data layer, as `doc/idea.md:12` says, but
  throws `LoadDataTimeOutException` after `loadDataTryCnt` tries (`DataLoader.java:241`).

## 6. Not modelled

* Serialization, cloning, scripts, reflection, Spring wiring and HTTP authentication: no
  state of the cache's logic. Wire protocols are in client libraries. `DataLoaderFactory`
  is a pool of commons-pool2; interceptors only call `CacheHandler`.
* Of `CacheHandler`: `@ExCache` entries (further keys written with the data, with a life
  of their own and no flight), the change listener, the choice of an operation by
  annotation and by `CacheHelper.setCacheOpType`, and a DAO method that calls itself with
  the same key, which waits on its own thread for its own `ProcessingTO`.
* Times: when data is due for a refresh or an auto-load, and when an object is dropped,
  are open choices, so a reset of `lastLoadTime` that gets lost (`AutoLoadHandler.java:131`)
  makes no difference in the models. 32-bit products (`CacheWrapper.java:51`) neither.
* `bootstrap-vue.js`: a vendored UI library, 16 841 of the 17 004 lines of the two scripts. Only `b-modal` acts on the page's state, and is modelled as
  far as `list.js` uses it; tables, buttons and styles render. Vue and axios are
  external.

`PROJECT.json` lists every component with its status, and every hazard, also those that
no property covers yet.

## 7. What could follow

1. `@ExCache` in `Consistency`: a second key written by the same load and deleted on its
   own.
2. The data path of the map cache's hashes in `Magic`: `mget` and `mset` over fields, with
   the cleaner of `MapCache` beside them.
3. A module of time for `AutoLoadHandler`: `lastLoadTime`, `lastRequestTime` and `expire` in
   ticks, so that a lost reset and an overflow can be told from what should happen.
4. For `Consistency`, too, the safety half of what is only model-checked: that renewals do
   not prolong old data beyond a bound.
