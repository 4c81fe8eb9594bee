# A TLA+ verification project for `courses`

The repository collects solutions to a dozen systems courses. They are
independent programs. Modelled here are the ones whose correctness is hard to
see from a test: the transaction layer of a database (`mit6.830/simpledb`), a
MapReduce master with its workers (`mit_6.824/src/mapreduce`), a thread pool
under an HTTP server (`uw_cse333/hw/hw4`), a memory allocator
(`uw_cse351/lab5`), and a search engine with its list and hash table
(`uw_cse333/hw/hw1` to `hw3`).

All paths below are relative to `src/`; `simpledb/` abbreviates
`mit6.830/simpledb/src/simpledb/`, `hw1/` to `hw4/` the directories of
`uw_cse333/hw/`, and `mapreduce/` stands for `mit_6.824/src/mapreduce/`.

## The system and its parts

| Part | State | What is hard about it |
|---|---|---|
| `simpledb/LockManager.java` | owner and readers of every page, a queue of pages per transaction, the waits-for graph | wait/notify, upgrades, deadlock detection on an incomplete graph, bookkeeping outside the monitors |
| `simpledb/BufferPool.java` | map of cached pages, queue for eviction, the file behind them | getPage is not synchronized, eviction against pages in use, fail-fast iterators, commit and abort through the cache |
| `simpledb/HeapFile.java` (with SeqScan, Insert, Delete, Transaction) | number of pages, iterators | growth of the file by several transactions, releasing a changed page before the end |
| `mapreduce/` | registered workers, the channel of free workers, tasks, files | workers that die with or after the work, calls in a closed backlog, the barrier between phases |
| `hw4/ThreadPool.cc` | queue, threads, kill flag | signals nobody waits for, shutdown with queued work |
| `hw4/HttpServer.cc`, `HttpConnection.cc` | a buffer per connection | pipelined requests that arrive in arbitrary pieces |
| `uw_cse351/lab5/mm.c`, `memlib.c` | the words of the heap | boundary tags, coalescing, links read before they are written, growth in place |
| `hw1/LinkedList.c`, `HashTable.c` | nodes, buckets, iterators | deleting under an iterator, growing tables |
| `hw2/` (parser, document table, index) | hash tables of hash tables of lists | deleting from a result while iterating over it |
| `hw3/` (index file, readers, queries) | records at computed offsets | offsets against sizes, a failure or a stop while the file is written |

How they interact. In SimpleDB an operator calls HeapFile, HeapFile asks
BufferPool for pages, getPage asks LockManager for the page lock and then looks
into the cache, evicting and reading as needed. A changed page is marked dirty
when the call returns to BufferPool. At the end of the transaction BufferPool
flushes (commit) or re-reads (abort) the cached pages that the transaction has
locked and tells LockManager to release them. The HTTP server dispatches each
connection as a task to the pool. The search engine is built on the hash table,
and the hash table on the list.

## Modules

| Module | What it is |
|---|---|
| `LockManager` | LockManager.java in detail |
| `PageLocks` | what LockManager promises: a shared/exclusive lock per page |
| `BufferPool` | BufferPool.java on top of PageLocks: state and actions |
| `HeapFile` | transactions that scan, delete, insert, commit and abort: composition, specification, properties |
| `ThreadPool` | the pool, with tasks that return at any time |
| `HttpServer` | extends ThreadPool: tasks are connections with their clients |
| `Malloc` | mm.c and memlib.c as operators on the words of the heap |
| `Allocator` | what an allocator promises: separate arrays that keep their contents |
| `MallocDriver` | the traces and checks of the driver; shown to implement Allocator |
| `LinkedList`, `HashTable` | the operations as operators on records of nodes and buckets |
| `Sequence`, `Dictionary` | what they promise: a sequence, and a map whose iteration visits every key once |
| `ListClient` | any client of a list |
| `Containers` | any client of a list or a table; shown to implement the two |
| `MemIndex` | parser, document table, index and its queries |
| `FileIndex` | layout, writer and readers of the index file, and its queries |
| `SearchEngine` | buildfileindex: crawl, index, write, with failures and stops |
| `MapReduce` | master, task goroutines, calls and workers |
| `LockManagerProofs`, `MapReduceProofs`, `ListClientProofs`, `ContainersProofs` | the theorems about these modules |
| `HttpServerProofs` | the theorems about ThreadPool and HttpServer |
| `HeapFileTypes`, `HeapFilePool`, `HeapFileProofs` | the theorems about HeapFile and BufferPool: types and lemmas; transactions one after another, whatever they do; scans and deletions, also concurrent |
| `MC...` | instances for TLC |

### LockManager

`ownerTrans`, `sharedTrans`, `pagesHoldsByTrans` and `dependency` are the fields
of the class. A list of readers is a set, because a transaction is added only
when it is not in it; a queue of held pages is a bag, because acquireLock adds
the page on every call. `pc`, `req`, `deps` and `toRelease` are the position and
the locals of the thread that runs the transaction.

One passage through a page's monitor, from entering it or waking up to leaving
it or calling `wait()`, is one action (`tryAquireROLockOrWait`,
`tryAquireRWLockOrWait`, `releaseLock` inside `releasePage` and `ReleaseNext`).
This is sound: the maps of a page are only touched inside its monitor, and a
passage enters the monitor of the graph at most once. The updates of the queues
outside the monitors are actions of their own. `wait()` may return without a
notification (`SpuriousWakeup`).

jgrapht's DirectedAcyclicGraph is external: an edge is refused when its target
reaches its source. When one edge of several is refused, the code removes the
vertex, so the edges added before it are gone as well.

### BufferPool and HeapFile

A page is the set of its tuples; a transaction inserts at most one tuple, named
after it. `pages` and `pageids` are the map and the queue of the pool, `disk`
and `fileLen` the file. A thread that has got a page holds a reference to a
HeapPage object. While that object is the cached one, `shared` is TRUE; when it
is evicted or replaced the thread keeps the object, with the contents in `copy`.
Contents change only under the exclusive lock, so two threads never need a
common object outside the cache.

getPage is a sequence of steps, `Acquire`, `containsKey`, `makeRoom`,
`readPage`, `putPage`, `getReturns`, and the steps of other threads come in
between. A single call of `_pages`, `_pageids` or the file is taken as atomic.
These are unsynchronized Java collections, so the real program can do worse;
`put` followed by `add`, and the re-read followed by `put` in abort, are merged.
evictPage, flushPage and flushAllPages hold the monitor of the pool.

transactionComplete walks over `_pages.keySet()`. A key added or removed by
another thread makes its next step throw (`stale`, `IteratorFails`). That, a null
page and a read past the end of the file are unchecked exceptions: the thread
ends (`pc = "dead"`). A DbException ends the call and not the transaction; after
TransactionAbortedException the thread aborts.

`AbortedByLock` may happen whenever the request would have to wait, which is
more often than the real deadlock detection throws. Invariants that hold with it
hold without it, and none of the violation runs needs it.

A scan is an iterator over the pages the file had when it was opened (`open`,
`hasNext`, `readTuples`). `committed` and `work` are history variables:
what the committed transactions have left, and what a running one has done.

### ThreadPool and HttpServer

`work_queue_`, `killthreads_` and `num_threads_running_` are the members of the
pool. They are only touched under `qlock_` (the last loop of the destructor,
after all joins, excepted), so one passage through the mutex is one action:
`ThreadStart`, `Dequeue`, `NoMoreWork` and `TaskReturns` for a worker, `Spawn`,
`Constructed`, `Dispatch`, `Kill`, `Join`, `AllJoined`, `Drain` and `Destroyed`
for the owner. The condition variable is external: a signal wakes one waiter, if
there is one, and a wait may end without a signal. `dispatched`, `started` and
`finished` are history.

In HttpServer a request is its lines and the two line ends behind it; a read
returns any non-empty part of what has arrived. `GetNextRequest` looks for the
end of a request in `buffer_` before it reads, and keeps what is behind it.
Clients send, stay silent, close or reset at any time. `to_lower` is modelled on
the one header name that the server looks up.

### Malloc, Allocator and MallocDriver

The memory is a function from addresses to 8-byte words. Headers, boundary tags,
list pointers and payloads share these words, as in the program, so a wrong
store shows. A word nobody has written holds garbage; `insertFreeBlock` leaves
`prev` of the first block as it is, like the code. An operation is an operator
from memory to memory, and a request of the trace, with the checks of
`eval_mm_valid`, one action. When the heap is exhausted the program exits
(`Exit`). `memcpy` and `memset` are external. Byte contents are those of whole
words.

### LinkedList, HashTable, ListClient and Containers

A node is known by the place that `malloc` gave it, and reading a freed node is
an error that TLC reports. `SortLinkedList` swaps payloads and not nodes: its
loops are rounds over a function from nodes to payloads (`Round`). `ListClient`
and, for both structures, `Containers` are any client that changes a container
through an iterator only, while one is in use; it may run out of memory where
`ResizeHashtable` provides for it (`InsertUnresized`).

### MemIndex, FileIndex and SearchEngine

A file is the sequence of its words with a note whether a delimiter follows the
last one. The tables are HashTables, nested as in the code, that begin with one
bucket so that they grow in the runs. A record of the index file has an offset
and the size of `filelayout.h`; readers follow offsets only. There is one record
for each `fwrite`.

The writers of FileIndex are functions of a stream, of which one call may fail
(`bad`); `ret` in the result is what they return, the number of bytes or 0. A failing call
writes nothing of its record, and stdio keeps what it has buffered before for the
next flush. Where the code asks for a 0 and gives up, the model does
(`WriteRecords`, the position in `WriteBucket`, the header of a table). Where the
code adds it to an offset and goes on, the model does, too: an element
(`WriteElement`, fileindexwriter.cc:441), a bucket record and a bucket
(`WriteChain`, :497 and :505), the documents of a word (`WriteWordDocSetFn`,
:282). Later records then take the place of the lost one and cover what it has
left behind (`Overwrite`).

What was written is `stream` (as the process sees it), `kernel` and `disk`. When
the process stops, part of what stdio has buffered may have left it; when the
machine stops, part of the kernel's pages may be on the disk, the header and the
size independently of the rest. WriteIndex removes the file (`Unlink`) when a
table or the header returns 0, and so when the tables are shorter than their sizes
say. The result of `fclose` is not looked at. `missed` is history: a call has
failed and WriteIndex was not told. An `fsync` that fails ends the process. The
checksum is modelled by the records it covers.

### MapReduce

A task goroutine takes a worker from `registerChannel`, which has no buffer:
`offers[w]` is the number of goroutines that wait to send `w`. A call is a
connection that is in the backlog, open, running, replied or failed (`st`),
because a worker accepts, serves and counts it in different steps, and may close
its listener or die in between. The output of a task is absent, partly written or
whole. `Register` waits for the lock that `killWorkers` holds during its calls.

The comment of `call` says to "assume that call() will time out and return an
error after a while" (common_rpc.go:45). The code has no timeout: a call fails
only when nobody listens or the connection is lost with the worker. The model
follows the code, and `InputsAreWhole` and `DoneIsFinal` rest on it. With a
timeout a task could be given to a second worker while the first still writes the
same files.

## Runs

| Run | Instance | Distinct states | Shows |
|---|---|---|---|
| `locks` | 3 transactions with 2, 2 and 1 requests, 2 pages, fair | 610 561 | LockManager is safe, implements PageLocks, and every transaction completes |
| `heap_serial` | 3 transactions in sequence, 2 pages, pool of 1, scan and delete, 4 calls | 490 585 | FORCE, NO STEAL, abort and eviction |
| `heap_conc` | 2 concurrent transactions, 2 pages, no eviction, 4 calls | 373 445 | isolation and durability of scans and deletes |
| `heap_insert` | 3 transactions in sequence, 2 to 5 pages, pool of 2, scan and insert, 3 calls | 152 944 | growth of the file, committed tuples are found |
| `http` | 2 threads, 3 clients, one with two pipelined requests, fair | 493 003 | the pool and the connections, until the destructor has returned |
| `malloc` | pages of 48 bytes, 192 bytes of heap, 3 allocations of 20, 28 or 60 bytes | 75 732 | the heap through every trace, up to its exhaustion |
| `containers` | lists of up to 4 elements of 3 values; 4 keys in 1, then 9 buckets | 23 350 | links, buckets, iterators and growth |
| `search` | 4 documents of 5 texts, queries of up to 3 of 4 words, a failing call with up to 2 documents | 212 391 | queries in memory and on the file; failures and stops |
| `mapreduce` | 2 map and 2 reduce tasks, 3 workers with limits 1, none and 2, two of which may die, fair | 225 064 | phases, retries, and the end of the job |

Their properties:

- LockManager: `WriterExcludesReaders`, `CompletedHoldsNothing`, `NoLostWakeup`,
  `WaiterKnowsABlocker`, `NoDeadlock`, `ImplementsPageLocks`, `AllComplete`.
- HeapFile: `ForceNoSteal` (the file holds exactly what was committed, in every
  state in which no transaction is in the middle of flushing, so also after a
  crash), `CacheCoherent` (an unlocked cached page is clean and equal to the
  file), `ViewIsCommitted` (what a transaction has read stays committed until it
  gives up its locks), `PoolIsExact` (queue and map of the pool agree),
  `CommittedVisible`.
- ThreadPool: `FifoExactlyOnce`, `OneExecutor`, `QueueIsAttended` (no lost
  wakeup), `ShutdownIsClean`. HttpServer: `AnsweredInOrder`,
  `ServedIfNobodyStays`, `ShutdownEnds`.
- MallocDriver: `HeapIsTiled`, `FreeListIsExact`, `UsedIsLive` (nothing leaks),
  `NothingFragmented` (all free is one block again), `DriverAccepts`,
  `ImplementsAllocator`.
- Containers: `ListWellFormed`, `BucketsWellFormed`, `ImplementsSequence`,
  `ImplementsDictionary`.
- SearchEngine: `MemQueryIsExact`, and for a file that was written without a
  failure `FileQueryIsExact` (exactly the documents with all the words that the
  parser delimits, with their ranks) and `FileIsTiled` (records neither overlap
  nor leave gaps); `OpenedIsWhole` (a file that FileIndexReader opens, after
  whatever failure or stop, has the tables that its header was made for, and they
  are the whole index unless a call failed unnoticed).
- MapReduce: `OneTaskPerWorker`, `InputsAreWhole`, `DoneIsFinal`, `JobEnds`.

The type invariants of LockManager, ThreadPool and MapReduce are proved. That of
HeapFile (`TypeOK`) is a description of its variables that can be added to any of
its configurations; it holds in `heap_insert`. The types in it are proved
(`Types`); that a page never has more tuples than slots is left to TLC.

### Known disagreements

Three runs check a sentence of the repository that the code does not keep; the
findings in `PROJECT.json` quote it.

| Run | The code |
|---|---|
| `heap_durable` | a committed insert is not flushed: its page was unlocked by HeapFile.java:122 (for the same reason abort does not revert it) |
| `search_empty` | a query of three words aborts when the first two have left no document |
| `search_lost` | a failed write inside a table is not noticed (fileindexwriter.cc:441, :497, :505): WriteIndex returns a size, and the file has a valid header and checksum but not all of the index |

Eight more configurations, which are kept here but are not in the list of runs,
show the following; each ends with a counterexample, for instance
`tlc -config MCHeapFileScan.cfg MCHeapFile`.

| Configuration | Property | The code | The sentence |
|---|---|---|---|
| `MCLockManagerReset` | `DependencyReset` | addDeps keeps edges of earlier waits (LockManager.java:208) | "Reset Dependency for transaction tid" (LockManager.java:193) |
| `MCHeapFileEvict` | `ForceNoSteal` | a page being changed is evicted before it is marked dirty, and a committed delete is lost (BufferPool.java:265) | "Verify that commit persists changes to disk" (TransactionTest.java:66) |
| `MCHeapFileBound` | `PoolBound` | concurrent misses make the pool exceed its capacity for good (BufferPool.java:67) | "Creates a BufferPool that caches up to numPages pages." (BufferPool.java:32) |
| `MCHeapFileComplete` | `CompletionReleasesLocks` | a concurrent miss makes transactionComplete throw and keep all locks (BufferPool.java:125) | "release all locks associated to the transaction" (BufferPool.java:112) |
| `MCHeapFileAdd` | `InsertAdds` | insertTuple returns without adding when the new page is filled by another transaction (HeapFile.java:146) | "Add a tuple to the specified table behalf of transaction tid" (BufferPool.java:144) |
| `MCHeapFileScan` | `ScanReadsAll` | a scan ends at an empty page (HeapFile.java:228) | "reads each tuple of a table" (SeqScan.java:5) |
| `MCHttpServerClose` | `CloseEndsConnection` | the header `Connection` is looked up in a map whose names are in lower case, so a request to close is ignored (HttpServer.cc:117) | "If the client sent a \"Connection: close\r\n\" header, then shut down the connection." (HttpServer.cc:103) |
| `MCMapReduceStats` | `StatsAreExact` | a worker whose loop has counted the call of Shutdown reports one task too many (worker.go:47 and :101; :49 corrects the count after the reply has been set) | "the number of tasks we have processed" (worker.go:42), "Don't count the shutdown RPC" (worker.go:49), "the number of tasks this worker has processed" (common_rpc.go:26) |

The passing runs state what does hold around these: deletes are durable and
undone in sequence with any eviction (`heap_serial`), and concurrently without
eviction (`heap_conc`); committed inserts stay visible as long as the process
lives (`heap_insert`).

Met while modelling, and not checked by any configuration:

- `mapreduce/schedule.go:38` indexes the input files with the number of a reduce
  task; a job with more reduce tasks than files panics. MapReduce assumes
  `nReduce <= nMap`.
- `mapreduce/worker.go:48`: Shutdown sets nRPC to 1 when the loop has mostly
  passed its test, so the worker waits for one more connection instead of
  exiting ("all workers have been shut down", master.go:122).
- `hw2/fileparser.c:244` drops the last word of a file that ends with a letter
  (modelled; the queries are exact for the words that are delimited).
- `hw2/filecrawler.c:113` skips every name that begins with a dot.
- `hw1/HashTable.c:205` ignores a failed append and counts the element.
- `hw3/fileindexwriter.cc:360`: fsync is called while the header is still in
  stdio's buffer, so the header need not be on the disk when WriteIndex returns.
  That order is also what makes `OpenedIsWhole` hold: with a flush before the
  one fsync, header and tables could reach the disk in any order.
- `lab5/mm.c:425` reads the word in front of `ptr` before `ptr` is compared with
  NULL; `lab5/mdriver-realloc.c:368` does not notice a payload around another one.

### Bounds

- Two pages and three transactions are enough for a cycle of two, a bystander
  that hides it from the graph, an upgrade race, and a page with several readers.
  `MaxAcquires` bounds the requests of a transaction; 2, 2 and 1 allow the
  shortest deadlock that shows only when the bystander completes.
- `MaxCalls` bounds the calls of a transaction. Four let a transaction scan two
  pages and delete from both.
- `heap_conc` has two pages and a capacity of four: every page is queued at most
  twice, so the pool never evicts. With eviction `ForceNoSteal` fails, which is
  `MCHeapFileEvict`.
- `FilePages` exceeds the initial pages by one page per transaction, as many as
  the transactions can add; the bound never stops an insert.
- `http`: three connections on two threads leave one in the queue; two requests
  on one connection are six pieces, cut and joined in every way. Shutdown may
  begin after any number of connections.
- `malloc`: `MAX_HEAP` holds two large blocks and a small one, but not three large ones. The
  sizes are rounded to 32, 40 and 72 bytes, so there are exact fits, splits,
  remainders too small to split off, growth in place and moves.
- `containers`: `MaxElements` bounds the elements. Three of four keys fill a
  table of one bucket, so it grows to nine, in which two of the keys collide.
  `InsertUnresized` stops at 27 elements for each bucket, which is beyond this
  instance; HashTable under What is proved says what lies behind it.
- `search`: all tables begin with one bucket and grow with the fourth element,
  in memory and so in the file. `MaxQuery` bounds a query. Of the calls that
  write the tables one may fail, and only with up to `MaxFailing` documents; two have four
  words between them, so the table of words has grown and has empty buckets, and
  every call of every writer is among those that fail. The run ends when the
  file is written or its writing has stopped, hence no check for deadlock; in
  `malloc` the program exits when the heap is exhausted.
- `mapreduce`: a worker that leaves after one call, one that lives, and one that
  may accept two calls and die at any point of them. A task is thereby retried
  up to twice.
- Transactions, and in LockManager pages, and the allocations of a trace are
  interchangeable: symmetry is used in the runs without liveness.

### Fairness

- LockManager: weak fairness of `Progress(t)` for every transaction. A thread
  that is not in `wait()` is scheduled in the end, a monitor is held only for one
  step, and a running transaction in the end commits. There is none for spurious
  wakeups or for new requests. A notified thread stays ready until it has looked,
  so weak fairness is enough.
- HttpServer: weak fairness of every thread of the pool, of the owner in
  constructor and destructor, and of the task function. There is none for the
  clients or for accept. A client that stays and says nothing holds its thread for
  ever (read has no timeout), so `ServedIfNobodyStays` and `ShutdownEnds` are
  conditional on that.
- MapReduce: weak fairness of every worker's loop and registration, of every task
  goroutine, of the channel as a whole, and of run. There is none for the
  end of a process or a failed registration. `JobEnds` needs one worker without
  limit that lives, which the instance has: a failed worker is not offered again,
  and without a worker the master waits, by design, for one to register.

## What is proved

Every theorem holds for all values of the constants that satisfy the named
assumptions of its module.

| Module | Theorem | Property |
|---|---|---|
| `LockManagerProofs` | `TypeCorrect` | `TypeOK` |
| | `Exclusion` | `WriterExcludesReaders` |
| | `NoLeak` | `CompletedHoldsNothing` |
| | `BlockerKnown` | `WaiterKnowsABlocker` |
| | `DeadlockFree` | `NoDeadlock` |
| | `WakeupsArrive` | `NoLostWakeup` |
| | `Refinement` | `ImplementsPageLocks` |
| `HttpServerProofs` | `PoolIsFifo` | `FifoExactlyOnce` |
| | `PoolTasksOnce` | `OneExecutor` |
| | `PoolWakesUp` | `QueueIsAttended` |
| | `PoolShutsDown` | `ShutdownIsClean` |
| | `ServerImplementsPool` | the specification of ThreadPool |
| | `ServerKeepsPool` | the four properties of the pool |
| | `RequestsAnsweredInOrder` | `AnsweredInOrder` |
| `MapReduceProofs` | `WorkersHaveOneTask` | `OneTaskPerWorker` |
| | `PhasesReadWholeFiles` | `InputsAreWhole` |
| | `OutputsAreFinal` | `DoneIsFinal` |
| `HeapFileTypes` | `TypesHold` | `Types`, for every workload |
| `HeapFilePool` | `PoolIsExactHolds` | `PoolIsExact` |
| | `CommittedVisibleHolds` | `CommittedVisible` |
| `HeapFileProofs` | `SerialScans` | `ForceNoSteal`, `CacheCoherent`, `ViewIsCommitted` |
| | `ConcurrentScans` | the same three |
| | `UndisturbedScans` | the same three |
| `ListClientProofs` | `ListStaysWellFormed` | `ListWellFormed` |
| `ContainersProofs` | `ContainersKeepList` | `ListWellFormed` |
| | `TableStaysWellFormed` | `BucketsWellFormed` |
| | `TableIsDictionary` | `ImplementsDictionary` |
| | `ResizeDoesNotNest` | the new table of ResizeHashtable is never resized itself |

### LockManager

For any finite set of transactions, any set of pages and any number of requests
(`TidAssumption`, `PageAssumption`, `MaxAcquiresAssumption`).
The inductive invariant is `IInv`. Exclusion needs little
more than the types; the others are not inductive as they stand. `NoLeak` needs `LocksAreRecorded`: a held lock is in the queue of its
holder or about to be put there, and the loop of releasePages has not passed it.
`DeadlockFree` needs two facts. The graph is acyclic: new edges leave a vertex
that their targets do not reach, so what a target reaches is the same before
and after (`UnreachedStaysClosed`, `AcyclicAddDeps`). And a waiter always knows a blocker, although
readers may join later and removeVertex drops edges: a dropped blocker has been
aborted and is about to release. If all transactions that are left waited,
every waiter would have an edge to a waiter; but a finite acyclic graph has a
vertex without successors in the set (`AcyclicHasSink`, by the least number of
descendants). `WakeupsArrive` adds that a waiting reader waits for an owner,
which only releaseLock takes away.

The refinement maps owner and readers to themselves. It justifies modelling
BufferPool on PageLocks: whatever LockManager does to the locks, PageLocks may do.

### ThreadPool and HttpServer

For any number of threads and any set of tasks (`NumThreadsAssumption`,
`NoTaskAssumption`). The invariant adds to the properties what each phase of the
pool's life implies for the threads (`Phases`), that a thread has a task exactly
while it runs (`Hands`), that `num_threads_running_` is the number of threads in
their loop (`Counted`, with the cardinality of a set that changes by one
element), and that no task is dispatched twice (`NoRepeat`). `QueueIsAttended`
is inductive with these: a thread waits only after it has found the queue empty,
and Dispatch wakes one if there is one. ThreadPool leaves open when a task
returns, so the server, whose tasks return when their connection ends,
implements it step by step and inherits its properties.

`AnsweredInOrder` holds for any number of requests on every connection, none of
them empty (`RequestsAssumption`), and whatever headers they carry. Its
invariant (`ConnectionsInv`) places the buffer in the stream: `buffer_` begins
right behind the last request taken, and unless the client has reset the
connection, `buffer_`, the pieces on the wire and those not yet sent are together
the rest of the stream (`Buffered`, `InTransit`). So the first "\r\n\r\n" of the
buffer is the end of the next request and never one inside or behind it
(`FirstEnd`), and a read that cuts the stream anywhere keeps the invariant
(`Reading`).

### MapReduce

For any set of workers, any number of tasks, any limits and any set of workers
that may die (`JobAssumption`). The invariant adds that a caller has a
connection exactly while it waits for one (`Calls`), which tasks exist and are
done in each phase (`Phases`), that nobody knows a worker that has not registered
(`Newcomers`), and that a task which was answered or is done has its output
(`Outputs`). `OneTaskPerWorker` is inductive with
`Newcomers`: a worker is one offer or one call, never both.

### BufferPool and HeapFile

For any set of transactions, number of pages, slots and calls, and capacity of
the pool (`SizeAssumption`, `OpsAssumption`). `TypesHold` is about every
workload. The others need hypotheses on the workload, because without them the
code does not have the properties, as the configurations under Known disagreements
show. An instance of every set of hypotheses is one of the runs.

| Theorem | Hypotheses | Run |
|---|---|---|
| `PoolIsExactHolds` | one transaction at a time | `heap_insert` |
| `CommittedVisibleHolds` | one at a time, none aborts, the file is not empty at first | `heap_insert` |
| `SerialScans` | no insertions, one at a time | `heap_serial` |
| `ConcurrentScans` | no insertions, a pool that never evicts (`NeverFull`) | `heap_conc` |
| `UndisturbedScans` | no insertions; the behaviours in which no page is evicted during a deletion | |

- Insertions are left out of the last three because insertTuple releases the
  page lock before commit could flush the page (`heap_durable`). An abort then does not
  undo them either, which is why `CommittedVisibleHolds` excludes aborts. A scan
  of an empty file throws with a page lock held, hence its last hypothesis.
- A page that is evicted between getPage and markDirty of a deletion loses the
  update. `DeletesUndisturbed` is the absence of that interleaving, stated as a
  predicate on states. It is an invariant when transactions run one after another
  (`SerialDeletes`) and when the pool never evicts (`NeverFullDeletes`).
- Without eviction the queue is still not exact when transactions run
  concurrently: two of them may add the same page. But a transaction that has
  added a page finds it cached from then on, so a queue with room for every page
  once for each transaction never fills (`QueueIsBounded`, `Sizes`, `NoEviction`).

The invariant of the three theorems on scans and deletions is `IInv`: what each
thread has locked at each point of its call, with the queue of LockManager
(`Locking`); how the file, the cache and the committed contents of a page relate,
by the state of the transaction that owns the page (`Contents`: before its first
change, while it changes, flushes, reverts, releases, or is dead); that the object
a thread refers to is the cached one while it changes it, and otherwise a copy of
the committed contents (`References`); and that what a transaction has read is
locked by it and was committed, except what it deleted itself (`Views`).

For transactions one after another, `PoolIsExact` is inductive with `RoomIsKept`:
between the test of the pool's size and the put, nobody else adds a page, and the
page is not there. `CommittedVisible` needs that no thread dies or keeps a lock
(`Orderly`), that the file and `_numPages` grow together (`Growth`), that a page
which is not marked dirty is what the file holds unless it is just being changed
(`CleanIsDisk`), and that what a scan finds is the committed contents with the
changes of the running transaction applied (`VisibleWork`).

### LinkedList

For lists of any length with any payloads (`ListAssumption`). `WellFormed` says
that some sequence lists the nodes in the order of their links. `PushLinkedList`,
`AppendLinkedList` and `LLIteratorInsertBefore` put a node at some place of that
sequence, `PopLinkedList`, `SliceLinkedList` and `LLIteratorDelete` take one out,
and both keep an order (`PutKeepsOrder`, `TakenKeepsOrder`); sorting leaves the
links alone. The invariant adds that a list has finitely many nodes, none of
them NULL (`IsList`), so that `malloc` has a new one to give (`Fresh`). The
steps of a list in `Containers` are those of `ListSpec`.

### HashTable

For any number of buckets, any set of keys and values, and tables of any size
(`ContainersAssumption`). The inductive invariant is `TableInv`, which TLC has
also checked on the instance of run `containers`:

- the table is a record of chains (`IsHash`). Each chain is a proper list, holds
  a key once, and only keys of its own bucket (`IsChain`);
- `num_elements` is the number of keys (`IsTable`);
- an iterator is invalid, or at a node of its bucket (`IsIter`);
- there are at most 27 elements for each bucket.

`BucketsWellFormed` is not inductive without the shape of the records and the
finiteness of the lists. The argument has four parts.

1. *Chains.* A proper list has one order, so following the links from the head
   finds the one node of a key (`NodesInOrder`, `Found`). One chain is
   replaced at a time, and the elements of the others stay (`ChainReplaced`).
   Hence `Inserted` and `RemovedKey`, which say exactly which elements the table
   has afterwards.
2. *Iterators.* What an iterator has not passed are the nodes of its chain from its
   own on and the chains behind (`LeftOf`). HTIteratorNext passes exactly one
   element, also over empty buckets (`NextFilled`, `IteratorMoved`). HTIteratorDelete
   moves on first and then removes the element, and the node it moved to
   survives (`FromRemoved`, `IteratorDeleted`).
3. *ResizeHashtable.* After k rounds of its loop the new table and the part the
   iterator has not passed are together the old table, and share nothing
   (`CopyInv`). At the end nothing is left (`Resized`).
4. *Refinement.* Table and iterator map to `AsMap` and `KeysLeft`. Each action is a
   step of Dictionary (`TableInserts` to `TableDeletes`).

The rounds of the loop are a recursive function. Induction on them goes by the
least counterexample: a set of numbers that is not empty has a least element
(`Least`, from the well-foundedness of the naturals). That there is such a function
at all is proved in the same way (`RoundsExist`), and so is that every round keeps
`CopyInv` (`CopyInvHolds`).

The bound of 27 is a limit of the model. When resizing has failed for lack of
memory, the code goes on inserting into the old table. If there are ever more than
27 elements for each bucket, the new table must itself be resized while it is
filled. `InsertUnresized` stops short of that, and `ResizeDoesNotNest` shows that up
to there no call of InsertHashTable inside ResizeHashtable resizes, as `CopyItem`
assumes.

### Only model-checked

- Liveness (`AllComplete`, `ServedIfNobodyStays`, `ShutdownEnds`, `JobEnds`) is
  beyond the prover.
- `ImplementsSequence`: that the rounds of `SortLinkedList` sort and keep
  the payloads is a double induction over the data. The rest of the list is proved.
- MallocDriver (`HeapIsTiled`, `FreeListIsExact`, `UsedIsLive`, `NothingFragmented`,
  `DriverAccepts`, `ImplementsAllocator`) and SearchEngine (`MemQueryIsExact`, `FileIsTiled`,
  `FileQueryIsExact`, `OpenedIsWhole`). The walks over the heap, the parser and
  the layout of the index file are RECURSIVE operators, which keep a
  module from the prover.

These properties hold on the instances above.

## Not modelled

- `simpledb/HeapPage.java`: the bitmap and the byte layout (getNumEmptySlots
  counts padding bits). A page is a set of tuples here.
- `simpledb/LogFile.java`: rollback and recover are empty, so nothing reads the
  log.
- `mit_6.824/src/labrpc`: a simulated network for services that have no code.
  Raft, Paxos, viewservice and the others contain only "Your code here".
- Sequential of MapReduce; the contents of its files.
- The text of pages, URL decoding and socket set-up in `hw4`; queries over
  several index files and the order of equal ranks, byte order of fields,
  `hw3fsck` and the shells in `hw2` and `hw3`; Free functions of `hw1`.
- The memoizing caches and counters of `pcpp`: a method or two each in
  programs that measure.
- Query operators, optimizer, parser, the kernel lab, the echo server, the
  algorithm assignments and the Python and Scala coursework: sequential, pure
  input and output, or skeletons. `PROJECT.json` lists each with the reason.
- The files under `uw_cse333/hw/projdocs/test_tree` (bash 4.2 among them) are
  text for the indexer, and `gtest` is the library of the tests. They are
  no part of any program of the repository, but nearly nine tenths of its C and C++
  lines, so the modelled code is a small share of all lines.
