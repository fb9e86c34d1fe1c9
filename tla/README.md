# cFrameworkToServer in TLA+

A verification development for the C server framework of this repository: TLA+ modules of its
components, TLC runs that check them on small instances, and theorems that TLAPS proves for every
instance. Paths below are relative to `src/cFrameworkToServer/`.

Contents: [the system](#the-system) · [modules](#modules) · [runs](#runs) ·
[fairness](#fairness) · [proofs](#proofs) · [findings](#findings) ·
[what is not modelled](#what-is-not-modelled) · [plan](#plan)

## The system

One process. `src/main.c` reads the configuration, opens the log, the memory pool, the thread pool, the
database connection pool and the caches, registers the routes, and then runs the event loop on the main
thread until the process is killed (nothing calls `aeStop`). The loop accepts connections and reads
requests; a complete request goes to the thread pool with its `fd_state`; the worker parses it, takes a
database connection, runs the function of its route, gives the connection back, answers on the socket and
returns the `fd_state` to the loop (keepAlive) or closes the socket and frees it.

| component | state | operations | shared with |
|---|---|---|---|
| thread pool, `utils/thread_pool.c` | task list, `thread_count`, `shutdown`, one mutex, one condition variable | create, add, destroy, the worker loop | main calls it, workers run in it |
| event loop, `utils/event/ae.c`, `ae_select.c` | `events[]`, `fired[]`, `maxfd`, fd sets; timer list | create/delete file and time events, poll, dispatch | loop thread and, without a lock, workers that remove an event |
| socket server, `utils/socket_server.c` | one `fd_state` per connection: buffer, `readFlag`, `keepAlive`, `errcode`, `fd_sql` | accept, read, hand over, handle, write, clean up | loop thread and the worker that has the request |
| memory pool, `utils/memory_pool.c` | columns of equal blocks, each with a stack of free ones | `MALLOC`, `FREE`, init, uninit | all threads, one lock |
| database connection pool, `utils/mysql_connection_pool.c` | list of idle connections, time of last connect of each | init, get, give back, reconnect, uninit | all workers, one spin lock |
| log, `utils/log.c` | list of messages, the open file and its day | `log_print`, the log thread, uninit | all threads; a mutex used as a semaphore |
| hash table, `utils/basic_struct/dict.c` | two tables, `rehashidx`, number of safe iterators | add, replace, find, delete, resize, expand, iterate, scan | caches (under spin locks), route table (without) |
| list, `utils/basic_struct/list.c` | doubly linked nodes | add, pop, delete, iterate, dup | log, connection pool |
| route table, `utils/function_route.c` | a hash table from a name to a function | add at the start, look up per request | all workers, no lock |
| session cache and services, `src/service/`, `src/model/user.c` | caches of tokens and verification codes; the table of users | register, verify, login, status, logout, modify | all workers, spin locks around each single access |

Hard behaviour, by component (`PROJECT.json` lists each hazard with its line):

* **Thread pool.** The destroyer reads `thread_count` without the lock while exiting workers change it; adds
  and shutdowns race with workers that go to sleep; the pool is freed when the count says so.
* **Socket server and loop.** `readFlag`, the event table and `maxfd` are shared without a lock; a fired event
  may be stale when its turn comes; fields of an `fd_state` survive from one request of a long connection to
  the next; sends fail while the loop has the socket registered.
* **Memory pool.** The choice of a column and the taking of a block are two steps; the ends of a column.
* **Connection pool.** Pop, reconnect and failure are separate steps; the number of connections has no limit
  of its own.
* **Log.** An unlock of an unlocked mutex is not counted; the change of file at midnight may fail.
* **Hash table.** Every lookup may move entries; iterators and scans live across such moves. The dict of routes is
  read, and so moved, by all workers without a lock.
* **List.** Seven functions re-link neighbours, ends and length by hand; an iterator lives across adds and removals.
* **Timers.** Callbacks create and delete timers, their own included, while the list is walked; the clock may be set back.
* **Random numbers.** The state of the generator is read and written by all workers without a lock.
* **Services.** Check-then-act across the cache and the database; pointers used after the lock is released.

What makes each correct: tasks run once, in order, and a pool is freed only when nobody is in it; each
`fd_state`, socket, block and connection has exactly one owner at each moment, and is neither lost nor used
after it was given up; the log's files hold the messages in order; a lookup finds what was stored; and
what was asked for happens in the end.

## Modules

The actions carry the names of the functions or of the outcome they stand for; the `map` of `PROJECT.json`
gives the lines of each definition. A step is what a thread does between two accesses with which another thread
may interfere: with a lock, from its acquisition to its release; without one, each access.

| module | models | state |
|---|---|---|
| `TaskPool` | abstract: what `thread_pool.h` promises | the mode, the queue, the running and the finished tasks |
| `ThreadPool` | `thread_pool.c` in full: creation that may fail half way, `threadpool_add`, repeated calls of `threadpool_destroy` with its unlocked reads, `threadpool_free`, the worker loop with spurious wakeups | the fields of the pool, the holder of the lock, a program counter for main and for each worker, and the history of accepted, started and finished tasks |
| `ThreadPoolProofs` | the theorems about `ThreadPool` | |
| `SocketServerProofs`, `SessionProofs`, `MemoryPoolProofs`, `MysqlPoolProofs`, `ListProofs` | the theorems about the module each is named after | |
| `UtilitiesProofs` | the theorems about `Log`, `AeTimers` and `Dict` | |
| `Extremes` | lemmas: a non-empty set of numbers has a least, a finite or bounded one a greatest element | |
| `SocketServer` | `socket_server.c` on the file events of `ae.c` and `ae_select.c`, with the pool as a FIFO and the list of database connections | sockets, event table, `maxfd`, `fd_state`s, program counters of the loop and of the worker of each `fd_state` |
| `MemoryPool` | `memory_pool.c` on a C heap | the stack of each column, which columns are allocated, what `malloc` gave out, how many callers have each block |
| `MysqlPool` | `mysql_connection_pool.c` | the idle list, allocated blocks and their age, each thread's place in `GetOneConn` |
| `Log` | `log.c` | the list, the mutex, the day and the file, printers and the log thread, history of what was printed and written |
| `Dict` | `dict.c` | the two tables with their chains, `rehashidx`, `iterators`, one iteration or scan under way with what it has returned |
| `List` | `list.c` in full: nodes with their pointers; `listDup` and `listEmpty` a step per node, the rest a step per call | the heap of nodes, the ends and length of each list, one walk and one iterator under way, history of the nodes each list should hold |
| `AeTimers` | the time events of `ae.c`: `aeCreateTimeEvent`, `aeDeleteTimeEvent`, the wait of `aeProcessEvents`, `processTimeEvents` a step per callback | the list of timers, the clock, the place of the loop with `te`, `prev` and `maxId`, history of what the walk owes |
| `RouteTable` | `get_function_route` by several workers: `dictFind` and `dictRehash` a step per shared access | buckets, counts and `next` pointers of the dict of routes, `rehashidx`, each worker's locals |
| `Session` | the services of `service_basic.c` on `cache.c` and `user.c` | the table of users, the two caches, the request each worker is at, history of what clients were answered |
| `MC*` | instances for TLC | model values, and sets for the constants |

Composition: `ThreadPool` implements `TaskPool` (checked and proved), and `SocketServer` uses the pool at the
level of `TaskPool`: a FIFO that hands each element to one of `NumThreads` threads. In the same way
it uses the connection pool as a list from which a connection is taken and to which it returns, which is
what `MysqlPool` is checked to be (`OnePlace`).

Abstractions, by module:

* `ThreadPool`: tasks are model values and each is submitted once; `malloc` and the mutex calls succeed.
* `SocketServer`: the bytes of a request are reduced to what the parser, the JSON reader and the route table
  say of them (`type`, `keepAlive`, `parses`, `members`, `route`), an answer to whether it is an error. JSON without a
  `route` or `prm` member (`members`) makes `json_handle` use a `NULL`: the process ends there (`Ended`). `wronged` is a
  history variable, the open sockets on which a wrong request came. `select` may return
  any subset of the sockets it watches. When the loop looks into a freed `fd_state` the behaviour is undefined:
  the model stays in that state, and the properties are judged there. `traffic` is what clients do in
  a behaviour; it is chosen once, from the constant `Traffics`, so that one run covers several kinds of clients.
* `MemoryPool`: a block is its column and its index; `<<c, 0>>` is the block at `addr_start`. `malloc` returns any address that is
  not allocated, those of a column that went to `free()` included (block by block: addresses that straddle two blocks are left out).
  What `FREE` writes behind the array of such a column is undefined, and the model goes on as if the array were longer.
* `MysqlPool`: age is counted in ticks up to one past the timeout. A thread gives back only the connection it has, once
  (`FreeOneConn`); what the server does when it gives one back twice is `SocketServerRelease`.
* `Log`: all months have `MonthDays` days; the code compares days of the month, so that after a month without a message the old
  file is used. `NULL` as a file is the day after the last; to close it or to write to it ends the process (`crashed`). `log_uninit`
  is one step; it leaves the spin lock destroyed, and the log thread waits for it for ever.
* `Dict`: an entry is its key, values go with it; each call is one step, because the users of a dict call it
  under a lock (the route table, which does not, is `RouteTable`); key hashes are constants
  chosen to collide. `Asked` are the sizes the caller asks `dictExpand` for; `ScanHeeded` says whether, while a scan
  is under way, it asks for no table of half the cursor or less, `IteratorHeeded` whether, under a safe iterator, it leaves the entry
  that `dictNext` has saved in `nextEntry` alone; see the findings for what happens otherwise: the walk is `wild` once it has the
  address of a freed entry, and no further call of `dictNext` is modelled. `Received` is the
  loop of `dictRehash` over one chain, a recursive function.
* `List`: callers hold a lock, so that a call is a step; `listDup` and `listEmpty` are split because they may fail half way, or
  leave a half-freed list to look at. A caller removes, under an iterator, only the node it got last, as `list.c:204-205` has it.
  `JoinHeeded` says whether it joins no empty list (`listJoin` sets `l->tail` to `NULL` then).
* `AeTimers`: a timer is named by its id; a second has `MsPerSec` milliseconds; the system's clock ticks and may be set
  `MaxClockChanges` times. `Listed` is what a walk from the head meets, defined without recursion so that proofs can use it.
  `FinalizersCreate` says whether a finalizer may create timers; see the findings for why it is `FALSE`.
* `RouteTable`: the initial table is the one the twelve calls of `regist_service` leave, hashed with the repository's siphash
  and its seed of zeros: rehashing is at bucket 6 of 8, with three entries still in the old table. Where a worker would
  follow a wild pointer it stops, so that the property speaks of the first thing that goes wrong.
* `Session`: a user is an id, an account and a token; tokens never collide; a client that shows a token shows one it
  was answered; what follows the use of a freed session is not modelled, so that properties are checked for clients that
  wait for their answers (`Patient`), except in the run that shows what happens otherwise. `userDelete` is an administrator's
  request and waits for nobody; accounts of which one overlapped another request are `crossed`, those a login of which failed after it
  made a token are `failed` (both history), and the properties except them, because there the code breaks them.

## Runs

| run | instance | question | states |
|---|---|---|---|
| `ThreadPool` | 3 workers, 3 tasks, 3 destroys, failing creation | `NoLostWakeup`, `FreedQuiescent`, `ImplementsTaskPool`; `TasksComplete`, `DestroyReturns` | 46 k |
| `ThreadPoolGraceful` | 2 workers, 2 tasks | `GracefulDestroyWaits`: **violated** | |
| `SocketServer` | 3 descriptors, 3 `fd_state`s, 3 database connections, 2 threads, three kinds of clients | `OneOwner`, `NoDangling`, `NoLeak`, `MaxfdHighest`, `ConnExclusive` | 2.4 M |
| `SocketServerLive` | 2 descriptors, 2 `fd_state`s, 1 thread, long connections on which requests go wrong | `AnswerIsOwn`; `EveryRequestEnds` | 100 k |
| `SocketServerValid` | sends that fail on long connections | `CalledWhileValid`: **violated** | |
| `SocketServerRelease` | long connections with JSON that does not parse | `ConnExclusive`: **violated** | |
| `MemoryPool` | 3 threads, columns of 3 and 2 blocks, at most 4 blocks held | `NeverTwice`, `NoneLost`; `MallocReturns` | 114 k |
| `MysqlPool` | 3 threads, 2 connections at first, 4 blocks, failing connects | `OnePlace`, `Bounded`; `GetReturns` | 111 k |
| `Utilities` | one of four, chosen at the start: `Dict`, `List`, `Log`, `AeTimers` | | 484 k |
| &nbsp;&nbsp;part `dict` | 4 keys that collide, tables of 2, 4 and 8, `ScanHeeded`, `IteratorHeeded` | `DictTypeOK`, `LookupIsStored`, `RehashedEmpty`, `SafeIteration`, `ScanComplete` | |
| &nbsp;&nbsp;part `list` | 2 lists, 3 nodes, 2 values, `JoinHeeded` | `Linked`, `IterationComplete`, `LookupsAgree` | |
| &nbsp;&nbsp;part `log` | 2 printers, 3 messages (one above the level), 3 days in months of 2, failing files, `log_uninit` | `NoLostWakeup`, `FilesRight`; `EveryMessageHandled` | |
| &nbsp;&nbsp;part `timers` | 3 timers, delays of 1 and 2, a clock set once | `TimersListed`, `NoOversleep`, `DueFired`; `EveryTimerFires` | |
| `Session` | 2 accounts, 2 workers, 3 tokens, 3 registrations, deletions at any moment, failing statements, expiry, restarts | `OneLiveToken`, `TableKnowsToken`, `AnswerHonored` | 2.3 M |
| `SessionOverlap` | 1 account, 2 requests at once | `OneLiveToken`: **violated** | |
| `RouteTable` | 2 workers, the 12 routes | `RehashidxInTable`: **violated** | |

`SocketServer` and `Session` have a type invariant, too; those of the pools, of `List`, `Log` and `AeTimers`, with `EachTaskOnce` of
`ThreadPool`, are proved, and need no run. `MCUtilities` puts four modules side by side in one run: they
share no state, and `part`, chosen at the start, says which of them moves. Every property of a passing run is accompanied by a
mutant of the code (the definitions marked `MUTANT`) that breaks it.

Why the bounds are enough:

* *Thread pool.* The second of three calls of `threadpool_destroy` may leave the lock held, and the third meets it. The race of the
  destroyer needs one worker that has left and one that has not; with three, one
  can sleep while one runs and one leaves. Three tasks let the queue be longer than one while another runs. The theorems
  do away with the bound.
* *Socket server.* Three descriptors are needed to delete the highest of several and to have a reused number;
  a fourth would be refused (`SetSize`). Two threads are enough for the interferences between two workers, and between
  either and the loop. A connection for each thread and one more shows that none is used twice.
* *Memory pool.* A column of two and a column of three are used up by four held blocks, so that every `MALLOC` goes
  through the next column and the heap.
* *Connection pool.* Fewer connections than threads, so that a third is opened; a fourth block is there to be one too
  many (`Bounded`). A timeout of one tick has fresh and expired connections.
* *Log.* Three days in months of two have a midnight, on which the file may not open, a next one, which closes `NULL` then, and a
  whole month without a message.
* *Dict.* Tables of two to eight go through growing by two and by four, shrinking, and a rehashing during which the
  old table is passed in several steps; `EmptyVisits` (10 in `dict.c`) is 2 there so that a step ends without having
  found an entry. Four keys fill a bucket with three and force two expansions.
* *List.* Three nodes have a head, a middle and a tail; two lists can be joined and one copied into the other.
* *Timers.* Three timers have one that runs, one before and one behind it; with two milliseconds to the second, sums carry
  and differences borrow; a clock set once can be set back or forwards, in the sleep or in the walk.
* *Routes.* The table is the real one; two workers are enough to break it.
* *Session.* Two accounts and two workers have requests of different users, or a request and a deletion of one, side by side; one
  account can be deleted and registered again (three ids), and three tokens leave room for two logins after a registration.

Deadlock is checked except where the program may stop: main need not call anything more (`ThreadPool`), the
pool may be destroyed (`MemoryPool`), everything is printed or the process is gone (`Log`, in `Utilities`), a worker would follow a wild
pointer (`RouteTable`).

## Fairness

Weak fairness on the steps of a thread: the operating system runs every thread that can run. Strong
fairness where a thread waits for a lock that others take and release: `pthread` mutexes do not starve a waiter for
ever in practice, and the code relies on it. Main's calls, clients and spurious wakeups are never required.
Tasks are assumed to return. In `MysqlPool` strong fairness of `Connects` says that a connect tried again and again
succeeds once: `GetOneConn` has no other way out, and with the database gone for good it loops for ever. In
`AeTimers` the loop and the clock go on: callbacks return, and nothing is asked of file events or callers. In
`SocketServer` the loop, the taking of tasks and each worker are weakly fair; nothing is asked of the network.

## Proofs

Eight modules are proved about, each for every value of its constants and from its named assumption only. Where the code keeps a
promise only for some clients, the theorem names the condition on the clients, and a run shows what happens without it.

**`ThreadPoolProofs`**, for every number of workers and every set of tasks:

* `TypeCorrect`, `TaskOnce`, `Wakeups`, `FreedSafely`: `TypeOK`, `EachTaskOnce`, `NoLostWakeup` and `FreedQuiescent`
  are invariants;
* `Refinement`: `ThreadPool` implements `TaskPool`.

None of these is inductive. `IInv` adds where main's argument and index are in range (`CallInv`), where the lock is held
(`LockInv`), which threads exist while the pool is created (`CreationInv`), that `thread_count` is the
number of workers that have not decided to leave, less the one being counted (`CountInv`), and that workers
leave only after the shutdown was announced and, when it is graceful, only with an empty list (`ShutdownInv`).
`CountInv` is the heart of it: `threadpool_free` goes on only when it has read a count of zero, the count never grows again
after the creation, so all workers have left the loop; they hold the lock until they are out, and `threadpool_free` takes
the lock before it destroys it. There is one lemma per conjunct with a step per action, and lemmas about the cardinality of
`Alive` when one worker is added or removed. The refinement follows from `IInv` step by step: append to
`Submit`, pop to `Start`, return of a task to `Finish`, announcement to `Close`, freeing the list to `Drop`.

**`SocketServerProofs`**, for any number of descriptors, `fd_state`s, threads and database connections:

* `TypeCorrect` and `OwnerCorrect`: `TypeOK` and `OneOwner` are invariants, whatever clients send;
* `ConnCorrect`: where the JSON of kept connections parses (`KeptParses`), `ConnExclusive` is one;
* `LeakCorrect` and `AnswerCorrect`: where undefined requests do not ask to keep their connection (`KeptDefined`), `NoLeak` and `AnswerIsOwn` are
  invariants, whatever requests and answers fail;
* `DanglingCorrect`, `MaxfdCorrect`: where, besides, the answers on kept connections arrive
  (`KeptAnswersArrive`), so are `NoDangling` and `MaxfdHighest`.

`OneOwner` rests on `OwnerInv`: what the loop reads into is allocated and no worker's (`ReadInv`); what a worker has is allocated
and marked by `readFlag` (`WorkInv`); the pool has each queued `fd_state` once (`QueueInv`). The other invariants are about what an
`fd_state` that is kept carries over to the next request, and there the code relies on its clients:
`handle_received_data` keeps or drops a connection by `fd_s->keepAlive`, `aeSocketRead` by what the request asks for, and
a request whose JSON does not parse finds the `fd_sql` of the one before (`socket_server.c:110-115`, `148-153`). The conditions say where none of this shows. `PlaceInv` ties the three views of a socket together: a registered descriptor is open and its `fd_state` is about it
(`TableInv`), no two `fd_state`s share an open socket (`SocketInv`), and where a worker is says whether its descriptor is still
registered (`EventInv`). `ErrorInv` rests on it: an `fd_state` is about one open socket, from `accept` to `close`, so that its `errcode`, which only
the `memset` in `aeDoAccept` clears, is never another connection's. `LoopOnlyInv` says that only the loop writes to the table of events: then nothing moves between the check and the
call, and `maxfd` is right after the scan of `aeDeleteFileEvent` (`ScanInRange`). All clients of the run `SocketServer` satisfy
`KeptDefined` and `KeptParses`, and all but those whose sends fail `KeptAnswersArrive`; `SocketServerValid` and `SocketServerRelease` are the runs without.

**`SessionProofs`**, for any sets of accounts, workers and tokens and any number of registrations:

* `TypeCorrect`: `TypeOK` is an invariant, however requests overlap;
* `OneTokenCorrect`, `TableCorrect` and `AnswerCorrect`: where the client of an account waits for its
  answers (`Patient`), `OneLiveToken`, `TableKnowsToken` and `AnswerHonored` are invariants.

None of the three is inductive; what is, is an invariant of each account alone that no deletion crossed (`AccountInv`): its rows
(`RowInv`), what its client was told (`ToldInv`), its live tokens (`LiveInv`), and for each place in a service what the worker there may rely on
(`ServeInv`), for instance that a login about to write its token to the table has the only live one. `StepOfOne` shows that a
step is about one account and leaves the invariant of all others as it is (`Elsewhere`), so that every action is
examined for its own account only. That the requests of a `crossed` account, of which nothing else is known, leave the others alone
follows from `OwnInv`, which holds however requests overlap: a token is in the rows, the answers and the jobs of one account
only, and an id in hand leads to no row of another, because ids are never given out again (`FitsKept`).
`SessionOverlap` is the run without `Patient`.

**`MemoryPoolProofs`**, for any number of threads, of columns and of blocks in each, and whatever `malloc` returns:

* `NoBlockTwice` and `NoBlockLost`: `NeverTwice` and `NoneLost` are invariants;
* `TypeCorrect`: `TypeOK` is one, whose hard part is that the array `header` of an allocated column never overflows.

All three are about columns whose memory is allocated: nothing is promised of one whose first block went to `FREE`. What they say is
that the damage stays there. `ColumnInv`, that a block of an allocated column is on its stack once or has one caller, is inductive
with the types without the bound (`Shape`). The bound is not: that `FREE`
finds room in the array depends on who has the blocks, not on a test in the code. It follows from `ColumnInv` by
counting (`StackFits`): the stack is an injection into the column's blocks. `BlocksApart` (columns share no address) is
why a step on one column leaves the others alone (`ColumnKept`). That a caller frees only what it has, once, is
assumed: it is the guard of `PutBack` and `GiveBack`.

**`MysqlPoolProofs`**, for any finite set of threads, any configured number of connections and any timeout:

* `ConnectionInOnePlace`, `ConnectionsBounded` and `TypeCorrect`: `OnePlace`, `Bounded` and `TypeOK` are invariants.

`Bounded` needs the others: when `GetOneConn` opens a connection the list is empty, so by `OnePlace` all connections
are lent, each to a thread of its own, and the one that asks has none (`Counts`, step `NewBlock`); while the pool is set
up nobody has a connection (`ClosedInv`), so they are all in the list, which is still too short. Lemmas say what a step does to
the list (`HeadTaken`, `PutLast`) and to the threads' blocks (`Gains`, `Loses`); `TypeNext` and `PlacesNext` use them, with
one step per action.

**`UtilitiesProofs`**, about `Log`, for any number of printers, messages and days, and any length of a month:

* `NoWakeupLost`: `NoLostWakeup` is an invariant, inductive with the types;
* `LogTypeCorrect`: `LogTypeOK`, whose point is that the log thread never handles `NULL`;
* `FilesCorrect`: `FilesRight` is an invariant: while a file is open, what the files hold, followed by what waits in the list or is in
  the log thread's hands, is what was printed and is to be shown, in that order. Once a file did not open, or `log_uninit` has closed it,
  the files hold a beginning of that, and nothing is promised of the rest.

`FilesInv` says so of the two parts (`InOrder`, and that what was printed `StartsWith` what the files hold); `InOrder` is kept because messages
are put at the head of the list and taken from its tail (`PutIsLast`, `TailIsFirst`, about `Reverse`). `ShownOf`, which leaves out the messages above the level, is a recursive function on the prefixes of a
sequence. That there is exactly one such function is shown with a least counterexample instead of an induction (`UpToExists`,
`ShownIsUpTo`); what it does to a message appended follows.

**`UtilitiesProofs`**, about `AeTimers`, for any number of timers, any clock and any delays:

* `ListHoldsTimers`: provided finalizers create no timer, `TimersListed` is an invariant: the list holds every timer once, the newest first, and the walk
  stands on a timer of it whatever callbacks do meanwhile;
* `WalkFiresWhatIsDue`: so is `DueFired`;
* `TimeTypeCorrect`: so is `TimeTypeOK`;
* `SleepsNoLonger`: `NoOversleep` is an invariant, whatever finalizers do.

`TimersInv` adds that `prev` is the timer before `te` (`PrevBeforeTe`), without which unlinking a deleted timer could cut off another, and
that what the walk still owes lies ahead of it (`OwedAhead`). `ListedInList` relates the walk from the head, a least fixed point, to the
set of allocated timers; `SecMonotonic` and `DueLater` say that what is due stays due while the clock runs on. `SleepsNoLonger`
has an invariant of its own (`SleepInv`), which needs no order of the list: the wait is measured to the timer that no other comes before
(`NearestIsFirst`), `Before` on seconds and milliseconds is the order of the times (`BeforeIsLess`), and that there is such a timer
is `LeastElement` of `Extremes`.

**`UtilitiesProofs`**, about `Dict`, for any finite set of keys, any hashes, any powers of two as sizes of tables and any sizes callers
ask for:

* `DictTypeCorrect`: `DictTypeOK` is an invariant; the counts of the tables are what their chains hold;
* `LookupIsStoredCorrect`, `RehashedEmptyCorrect`: so are `LookupIsStored` and `RehashedEmpty`;
* `SafeIterationCorrect`: where `IteratorHeeded`, so is `SafeIteration`;
* `ScanCompleteCorrect`: where `ScanHeeded`, so is `ScanComplete`.

None is inductive. `DictInv` says of the tables (`GoodDict`) that each chain holds keys of its bucket only and each once, that
no key is in both tables, and that nothing is left below `rehashidx`; that they hold what is `stored`; and of a safe iterator (`GoodIterator`) that what it
has returned is not `Due` again (not in the rest of its chain, nor in a bucket ahead, of either table) while what it has not
returned is. Operators on chains and tables have a lemma each (`BucketMoved`, `RehashGood`, `InsertGood`, `UnlinkedTable`), and so has
every way what is due can change: an expansion adds an empty table ahead, a new head or a removal keeps the order of the rest
(`PutKeepsOrder`), and no rehashing step is made under an iterator, because `iterators` counts it. That `Received` has
a value at all for every chain is shown with a least counterexample.

The scan needs `ScanInv`, too: every key stored throughout that lies `Behind` the cursor was returned, where a hash is behind if, at
the lowest bit in which it differs from the cursor, it has the 0 and the cursor the 1 (`Disagree`); this does not mention a size, and so
survives every change of the tables until the cursor has bits that the smaller table lacks. Hence `CursorWithin`, that the cursor is below twice the size of each
table, which `ScanHeeded` keeps true: one missing bit does no harm to the loop of line 902, two do. Divisibility, remainders
and bits are derived for powers of two from the definition in `PowersOfTwo`, by least counterexamples again (`PowerIsNat`,
`TwiceDivides`); `NextCursor` is the reversed increment and `SkippedIsBehind` says that what it puts behind the cursor is what the
call returned.

**`ListProofs`**, for any number of lists, nodes and values (`NoNode`, which is `NULL`, is none of them), all four where `JoinHeeded`:

* `ListTypeCorrect`: `ListTypeOK` is an invariant; `len` and the count of `listEmpty` are never decremented from zero;
* `LinkedCorrect`: `Linked` is one: the pointers, ends and lengths are those of `order`, the history of what each list should hold;
* `IterationCorrect`: `IterationComplete` is one;
* `LookupsCorrect`: `LookupsAgree` is one: `listIndex` from either end and `listSearchKey` agree with the order.

`LinkInv` says of each list that it is a `Chain`, or, while `listEmpty` walks through it, what is left of one (`Half`: its old head is
freed, so `prev` of the new one points nowhere), and that no node is in two lists or twice in one (`Apart`). `CallInv` says what a walk
stands on: `listDup` walks through one list while it appends to another, and no iterator runs on a list that is emptied or filled. Each
way to change a list has a lemma on chains alone (`InsertedChain`, `RemovedChain`, `RotatedChain`, `JoinedChain`), one on the list it is
done to, and `OneChanges`: the others stay as they are because no node is shared. `IterInv` is `Progress`: what lies behind the
iterator was returned if it was there from the start, and what lies ahead was not returned; a node added behind it, at either end, or a removal of
the current one keeps that true. For `listIndex`, `Steps` follows a pointer a number of times and is a recursive function: two functions with its
equation agree (`WalkUnique`, by a least counterexample), and one is given explicitly for a chain (`StepsForward`, `StepsBackward`).

**`Extremes`** has what those proofs need of `Min` and `Max`. It takes the least element from the fact that `<` on the natural numbers
is well-founded, stated about sets, because the theorems of the library that take an operator as a parameter cannot be used.

Left to TLC: liveness, which needs fairness and `ENABLED` (`TasksComplete`, `DestroyReturns`, `EveryRequestEnds`, `MallocReturns`,
`GetReturns`, `EveryMessageHandled`, `EveryTimerFires`). Every other property of a passing run is a theorem.

## Findings

Each is a run that TLC ends with a counterexample; `PROJECT.json` has the lines.

1. `ThreadPoolGraceful`: `threadpool_destroy` joins too few threads, and returns 0 while a task runs.
2. `SocketServerValid`: a worker removes and frees what the loop is about to use, between its check and its call.
3. `SocketServerRelease`: the database connection of the request before is released once more.
4. `SessionOverlap`: two requests of one user leave two live tokens, one of which no later login ends.
5. `RouteTable`: two workers in `dictRehash` count one bucket twice; `rehashidx` leaves the old table with an entry still in
   it, the assertion of `dict.c:203` fails, and the route left behind is not found any more. With one worker it holds.

Other disagreements that were met and are not runs, because they show at once in one call, because no line of the
repository promises the opposite, or because nothing in it comes that way, are in the hazards or here only: a failed creation of a thread is reported as
success; a `threadpool_destroy` that is refused returns with the lock held (`thread_pool.c:138-142`), so that the caller's next
`threadpool_destroy` or `threadpool_add` waits for ever, and so do workers that were still inside (`DestroyReturns` excepts it); the first block of a column goes to `free()` and the column with
it (`memory_pool.c:104`), so that its blocks may be handed out twice, by `malloc` and by `MALLOC`, and `memoryPoolUnInit` frees it again; `dictScan` misses keys when the table
shrinks to a quarter meanwhile (`Utilities` with `ScanHeeded = FALSE`: line 902 of `dict.c` counts the bits the smaller table lacks upwards
instead of in reverse, against what 767-768 guarantees; nothing in the repository scans); `listJoin` with an empty second list loses the tail of the first, against
`list.c:333-334` (`Utilities` with `JoinHeeded = FALSE`); a caller that, under a safe iterator, deletes the entry saved in `nextEntry`
(`dict.c:594-596`) or empties the dict gets a freed entry from `dictNext`, against what `dict.h:50-53` allows (`Utilities` with
`IteratorHeeded = FALSE`); after a log file that does not open, the next message to be shown is written to `NULL`, or the first of
another day closes it (`log.c:48-49`, `66`); after a month without a message the log goes on in the old file, as only days of the
month are compared (`log.c:25`); `log_uninit` destroys the spin lock it holds (`log.c:130-131`) and leaves the log thread with
`NULL` as its file; a finalizer that creates a
timer while the walk is at the head of the list may have it unlinked with the next deleted one (`AeTimers` with
`FinalizersCreate = TRUE`); a `userDelete` between the steps of a login or registration of the
account leaves a live token without a row (`service_basic.c:473-480`); two draws of a random number at once may give the same token; an expired verification code is never replaced; `getServiceConfig` reads
`ThreadpoolQuitType` for `TokenFreshTime`; `verifyAfter` always inserts a user, so that the login by code
that `service_basic.h` announces is refused; `maxfd` may be overwritten by a worker; `errcode` sticks to a long connection, which is told of its first error for ever; a long
connection with an undefined request is closed under the loop; JSON without a `route` or `prm` ends the server
(`socket_server.c:118`, `121-123`).

## What is not modelled

The other back ends of `ae.c` and `rtree.c`, a red-black tree, are not compiled. Configuration, conversions, the JSON
parser, cryptography, random numbers and SQL texts keep no state of interest or are plain computations. The tests
were read for what they state. `third/`, five sixths of the lines of the repository, holds the headers of MySQL, OpenSSL and
pthreads: it is external, and the share of lines the modules cover is to be read against the ten thousand lines outside of it.
Of `dict.c`, `dictGetSomeKeys`, `dictRehashMilliseconds` and unsafe iterators are left out; of the services, those
that change nothing (`noticeGet`, `appVer`, `say_hello`). Nothing in the server creates a timer, iterates over a dict or
joins lists: `AeTimers`, `List` and parts of `Dict` model the libraries as their headers offer them.

## Plan

Done: the pools, the server, the log, the hash table, the session services, the list, timers and routes; every safety property
that a passing run checks is a theorem. Next:

1. `Random`: the two accesses of `srand_next`, and the tokens of `Session` drawn through it.
2. The cached `User` that services use after the lock is released (`cache.c:65`).
