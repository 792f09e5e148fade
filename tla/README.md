# A verification model of the Simutrace storage server

Simutrace stores traces of full-system simulators. A client writes entries into
segments of shared memory; the storage server hands out the segments, compresses
them in the background, writes them to a store, loads them again and caches them.
This directory holds TLA+ models of the server's core, written from the C++ code
in `src/simutrace`, TLC configurations that check them on small instances, and
TLAPS proofs about the segment buffer and its free list, the streams and their
index, the trace file, the store manager, the worker pool, the sessions and the
request protocol for every instance.

## Inventory

| Component | State | Operations | What is hard | What makes it correct |
|---|---|---|---|---|
| `ServerStreamBuffer` | segments, lock-free free list, LRU standby list, hash index | request, open, prefetch, submit, free, purge, flush | several locks in one request, retries, cache index and list change separately, flags kept from earlier uses | no segment lost or held twice; a holder has the data it asked for; the cache holds complete data of live stores |
| free list | head pointer, `next` pointers | pop and push by compare-and-swap | every memory access interleaves; ABA | it is a set of segments nobody uses |
| `ServerStream` | locations, open list, reference maps, append state | append, add, open, read-ahead, close, detach, completion | three locks, work between them without any, asynchronous completion, cancel and re-open, failures | one operation per location; a mapping lasts until it is closed; stored segments stay |
| `Simtrace3Encoder` | work items | write, read, completion | items run on other threads and may fail | every item reports once |
| `ServerStoreManager` | map of references, dormant stores | create, open, close, evict | a reference is used after the map's lock was released | one store object per file; a session keeps its store |
| `ServerStore` | streams, attached sessions | attach, detach, destroy | detach waits for the encoders | a detached session left nothing behind |
| `WorkerPool`, `WorkQueue`, `WorkerStreamWait` | queues, semaphores, threads | submit, execute, wait inside of an item, close | signals and items do not match, nested execution, shutdown | accepted work is executed; close returns |
| `WaitContext` | count, condition variable | increment, decrement, wait, destroy | the count and the wake-up are not under the lock | wait returns, and only when all is done |
| `ThreadBase`, `Event`, `ConditionVariable` | thread state, semaphore | start, stop, signal, wait | late start, lost and spurious wake-ups | see their users |
| `Session`, `SessionManager`, `ServerSession` | sessions, their workers, reference counts, on both sides | create, attach, detach, close, release | sessions end themselves while the manager closes them; pointers used without a lock; a closer that polls with a timeout | a session counts its workers and lives as long as one of them; both sides agree; calls return and sessions end |
| `ServerSessionWorker`, `Port`, channels | messages, endpoints, the signal SIGPIPE | call, wait, return, throw | partial transfers, a peer that goes away, rejected payloads, a setting of the process changed by every thread | a response belongs to its request; a peer that is gone costs its connection only |
| `Simtrace3Store` | header, frames, directories | create, open, commit a frame, close | a crash between two stores into the mapped file, failing writes, many committing threads | what was committed stays; one entry at most is torn; the dirty flag is right |
| stream index, queries and client handles | vector of segments, range indices, handles | append, complete, load, query, get next and previous entry | out-of-order completion, failed segments, the first and the last sequence number | queries are exact, readers skip nothing, files can be loaded |
| `Simtrace3MemoryEncoder` | contexts over hidden streams | write, read, drop | an encoder that is a client of other streams | (not modelled) |
| `StreamMultiplexer` | dynamic streams | merge | streams that end | (not modelled) |

How they interact: a client's request travels over a channel to the
`ServerSessionWorker` of its connection (`Rpc`), a thread that belongs to the
session of the client (`Sessions`). The worker calls `ServerStream` (append, open, close) or `ServerStoreManager` (create, open,
close). `ServerStream` takes segments from the `ServerStreamBuffer`, which calls
the stream's encoder to read or write them. The encoder submits a work item to
the `WorkerPool`; the worker that executes it calls back
`ServerStream::completeSegment`, which returns the segment to the buffer and
wakes the `WaitContext`s of the sessions that wait. Before, it has committed the
frame of the segment to the `Simtrace3Store` (`TraceFile`). The location of the
frame extends the index of the stream (`StreamIndex`), along which the handles of
clients read.

## Modules

| Module | Models | State and actions |
|---|---|---|
| `SegmentPool` | the data structures of `ServerStreamBuffer` and its operations under one lock | a pool is a record (`free`, `standby`, `index`, `seg`); each function of the code from `_dequeueFromFreeList` to `_freeSegment` is an operator from pool to pool |
| `LinkHash` | `struct LinkHash` and the equality of the index keys | `IndexKey`: all the index can tell apart of a link |
| `ServerStreamBuffer` | the buffer with its threads and callers | `req[t]` is where a request is in `_requestSegment`/`_tryAllocateFreeSegment` (`RequestSegment`, `Dequeue`, `Evict`, `Contend`), `use[s]` what the holder does with a segment, `flush` the run of `flushStandbyList` that holds `_standbyLock` |
| `FreeList` | `_dequeueFromFreeList`, `_enqueueToFreeList` at the level of single memory accesses | `freeHead`, `next`, and a program counter per thread |
| `SegmentSet` | what the free list promises | an atomic set; `FreeList` is shown to implement it, and `SegmentPool` uses the free list in this form |
| `ServerStream` | `ServerStream.cpp` with the completions of the encoder | an action is one section under `_lock` or what happens between two; `loc` is `_segments`, `th` the calls in progress, `tasks` the encoder's work items and the reads that failed, `view` what the sessions were given, `missed` the sessions that sleep although their wait is over. Composed with the buffer by the operators of `SegmentPool` |
| `TraceStream` | what a stream promises its sessions | the phase of a segment (absent, writing, encoding, stored) and who has it mapped; `ServerStream` implements it |
| `ServerStoreManager` | `_createOrOpenStore`, `_closeStore`, `_evictStore`, `_releaseStore` | the section under `_lock` (`SearchFound`, `SearchNew`) and the section under the lock of the reference (`CreateStore`, `CreateFails`, `Retry`, `Wake`, `Join`) are separate steps |
| `WorkerPool` | `WorkerPool`, `WorkQueue`, `WorkerStreamWait`, and the parts of `ThreadBase` and `Event` they use | a worker has a program counter and a stack of items; `closer` is where `close` is |
| `WaitContext` | `WaitContext` and its condition variable | the two halves of `decrement`, the test and the sleep of `wait` are separate steps |
| `TraceFile` | `Simtrace3Store`: the life of the file and `commitFrame` | `header`, `frames` and `dirs` are the file; every store into a mapped structure that a crash can separate from the next one is an action of its own (`MarkLink` and `Link`, `CopyHeader` and `SetOffset`). `Crash` keeps the file and forgets the process |
| `StreamIndex` | `_addSegment`, the queries of `ServerStream::open`, `_findCycleCountBinarySearch`, and `StStreamOpen`, `StGetNextEntryFast`, `StGetPreviousEntryFast` | `segments` is `_segments`, `trees` and `stats` the range indices, `handle` a read handle, `file` the order in which frames were committed |
| `Sessions` | `Session` and `SessionManager`, their client and server classes, the requests `ServerSessionWorker` and `StorageServer` handle for them | `cl` and `call` are the client, `sess`, `holder`, `wp`, `state` the server, `closer` is where `SessionManager::close` is, `closing` which workers are closing a store; `lost` records threads that met a freed session, `dropped` workers that gave up a connection, `unclosed` sessions whose store could not be closed |
| `Rpc` | `ClientPort`, `ServerPort`, `Port`, the channels of Linux, the loop of the worker | `wire[e]` is the bytes on their way to an end, `io` its current transfer, `sigpipe` the disposition of the signal in a process. A connection is a thread of a client process (`Clients \X Threads`) and a worker of the server |
| `MC...` | constants for TLC | |
| `SegmentPoolProofs`, `ServerStreamBufferProofs`, `ServerStreamProofs`, `StreamIndexProofs`, `TraceFileProofs`, `ServerStoreManagerProofs`, `SessionsProofs`, `RpcProofs` | theorems | `ServerStreamBufferProofs` ends with those about `FreeList`, `StreamIndexProofs` with those about `WorkerPool`. So that one module can extend both, these two have names of their own for their specification (`ListSpec`, `PoolSpec`), its parts and their types |

All models are of the release build: an `assert` of the code is a property,
never a guard. Definitions called "Variant" are mutations of the definition that
follows them; they are used by no specification, and each breaks the property it
is listed with in `PROJECT.json`.

### Abstractions

* The data of a segment is one ghost bit, `ready`: the memory holds all of the
  data of its link. Entry counts, cycles, cookies and timestamps are left out.
* A link <<store, stream, sequence number>> is a value; the index compares
  `KeyOf(link)`. In the runs `KeyOf` is `LinkHash!IndexKey`. In `ServerStream`,
  which has one stream, a link is a sequence number.
* `FreeList` and `ServerStreamBuffer` model one structure twice, once with its
  pointers and once as a set. The set is justified by `ImplementsSet`, which is
  proved up to the first ABA; after it the list is no set any more (see below), so
  what is said of `ServerStreamBuffer` assumes that ABA does not happen.
* `WaitContext` is modelled with its two halves in the module of that name. The
  modules that wait keep one consequence of it, that the thread may sleep on
  although its count is zero: `missed` in `ServerStream` and `WorkerPool`,
  `closing[k] = "missed"` in `Sessions`.
* `ServerStream` requests segments in one step. The interleavings of requests
  are the subject of `ServerStreamBuffer`.
* Sleeping in `_handleContention` is a step; time does not exist.
* `closeStore` holds both locks of the manager and is one step, as is the section
  under the lock of a reference. Creating or opening a store succeeds or throws.
* Events are counting semaphores, as `Event` is on Linux.
* In `TraceFile` the number of a frame or a directory is its offset. A write into
  the file or the mapping survives the end of the process in the order of the
  program; the loss of power, which may reorder writes, is not modelled, and
  neither does the code prepare for it. A stream is its zero frame.
* In `StreamIndex` an entry is its cycle count, a tree is the set of its ranges,
  and a query that may find nothing is a set with at most one member.
* In `Sessions` a request and its reply are one value each; how they travel is the
  subject of `Rpc`. Locks that are held exactly while a thread is at some place
  of the program are predicates over where the threads are (`ManagerFree`,
  `SessionFree`, `StoreFree`), the lock of a session of the server is `holder`.
  What happens after a thread has used a freed session, or has thrown out of its
  finalization, is undefined, and the server stops there (`Up`); `NoUseAfterFree`
  and `DetachAccepted` say when that can be.
* A worker of `Sessions` that closes a store takes the lock of the store manager
  and the store lock of its session, waits, and then has closed the store or
  throws; a throw leaves the store in the session (`unclosed`), and ends the
  process when it leaves the finalization of the thread (`DetachStoreThrows`).
  Creating or opening a store is one step that may fail. The exits of the worker
  with its peer still there are one action, `Drop`, at any request.
* `CloserSetsState` closes the port of the worker at once. On Linux `::close` does
  not wake a `recv` that is in progress, so that the worker may notice later than
  in the model, or not before its peer sends something; the closer does not rely
  on it, its wait may always be over too early (`CloserWaits`).
* In `Rpc` a header is a few pieces and data up to `MaxPayload` pieces. Bytes that
  are no header are taken for any header. Operations that fail on Linux with a
  `PlatformException` make the worker send that exception, and give up when this
  fails too (`ReplyFails`).

## What is checked

Runs that pass:

| Run | Question |
|---|---|
| `MCBufferThreads` | Two threads and two segments, one link stored and one still to be written, two stores that are flushed and destroyed at any time: `SegmentPartition`, `StandbyIndexed`, `FreeIsClean`, `CacheFaithful`, `HolderFaithful` |
| `MCFreeList` | Three threads, two of which take segments: in every interleaving up to the first ABA, the list loses none (`NothingLost`) and implements `SegmentSet` (`ImplementsSet`) |
| `MCStreamSafety` | Two sessions, one of them asynchronous and canceling, three sequence numbers, two segments, failing reads and writes: `SegmentOwnership`; a location is processed only while an operation is under way, or after a failed read, and then for good (`OneOperation`); `ReferencesCounted`, `MappingStable`, and the refinement of `TraceStream` (`ImplementsTraceStream`) |
| `MCStreamLiveness` | Two sessions that wait, reads that fail, wake-ups that are missed: `open` and `detach` return unless the thread missed its wake-up or waits for a read that failed (`OpenReturns`, `DetachReturns`); nothing is left of a detached session (`DetachedClean`) and no reference is left over (`NoLeakedReference`) |
| `MCStreamIndex` | A writer, encoders that finish in any order or fail, a reader in either direction, and the loading of the file: `QueriesExact`, `NothingSkipped`, `Reloads` |
| `MCTraceFile` | Two threads commit the frames of two streams; writes fail and the process dies anywhere: `CommittedSurvives`, `OnlyLastTorn`, `CleanIsConsistent`, `StreamsPrecedeSegments`, `CommitEnds` |
| `MCManagerSafety` | Three sessions, three paths, a cache of one store, so that opening the third path evicts: `OneStorePerPath`, `AttachedStoreLives` |
| `MCSessions` | Two client threads and one session; stores cannot be opened or closed, workers drop connections, the client is killed and the server goes down at any time: `RefsAreWorkers`, `AttachedSessionLives`, `NoUseAfterFree`, `DetachAccepted`, `CallReturns`, `SessionEnds` |
| `MCRpc` | One connection, three calls, every way to cut a message into pieces, rejected requests, handlers that throw or drop the connection, a client that dies or leaves: `InStep`, `CallEnds` |
| `MCPoolWork` | Two workers, two items that wait for nested items, an urgent one, a concurrent `close`: `ClosedMeansDone`; all work is done but what a lost wake-up keeps (`WorkIsDone`) |

Runs that end in a counterexample, each refuting a comment of the code:

| Run | What the counterexample shows |
|---|---|
| `MCWaitWakeup` | `decrement` wakes without the lock; between the test of the count and the sleep the wake-up is lost |
| `MCRpcSignal` | `System::restoreSignal` sets the disposition of SIGPIPE for the whole process. A worker that ends its transfer between the `ignoreSignal` and the `::send` of another one exposes that one to the signal: if its client is gone, the server ends, although the worker means to drop that session only. The threads of a client process share a disposition in the same way |

### Further disagreements

These properties state a comment or an assertion too, and TLC refutes them as
well (`tlc -config <cfg> <module>`). They are kept as configurations beside the
regular runs.

| Configuration (module) | Property | Source | What happens |
|---|---|---|---|
| `MCFreeListTwo` (`FreeList`) | `TakenIsFree` | `ServerStreamBuffer.cpp:291`, `:293` | ABA: with two threads that pop, the compare-and-swap succeeds on a head that was popped and pushed again, and a segment in use becomes the head |
| `MCBufferFolded` (`MCServerStreamBuffer`) | `HolderFaithful` | `ServerStreamBuffer.h:58`, `SimuStorTypes.h:749` | the ids 1 and 65536 fold to the same 16 bits and the equality of keys ignores the store: a request gets the cached segment of another store |
| `MCBufferPrefetch` (`MCServerStreamBuffer`) | `PrefetchOnlyOnce` | `ServerStreamBuffer.cpp:46` | a prefetched segment that enters an empty list keeps its flag beyond the first free |
| `MCStreamDecodeFail` (`MCServerStream`) | `FailedReadReturns` | `Simtrace3Encoder.cpp:176`, `ServerStream.cpp:401`, `:1088` | a failed asynchronous read is reported with `completeSegment(sqn, nullptr)`, which throws for a stored location: an open that joined the read-ahead waits for ever |
| `MCStreamReadAhead` (`MCServerStream`) | `ReadAheadValid` | `ServerStream.cpp:1287` | the read-ahead list contains unfinished segments, whose locations can be deleted: null pointer |
| `MCStreamCloseAssert` (`MCServerStream`) | `CloseOfOneReference` | `ServerStream.cpp:630` | a session that opened a segment twice detaches |
| `MCStreamSharedAppend` (`MCServerStream`) | `MappingStable` | `ServerStream.cpp:1115` | an append submits the segment another session is writing |
| `MCStreamCancel` (`MCServerStream`) | `NoLeakedReference` | `ServerStream.cpp:396`, `:134` | a load is canceled and re-opened by another session before it ends: the first reference stays |
| `MCManagerNoCache` (`MCServerStoreManager`) | `OneStorePerPath` | `ServerStoreManager.cpp:354`, `:128`, `:190` | with `store.persistentCache = 0` a released reference looks like a new one to a thread that already holds it; two store objects of one file exist |
| `MCManagerEvict` (`MCServerStoreManager`) | `EvictsWhenFull` | `ServerStoreManager.cpp:305` | the loop does not count all dormant stores |
| `MCPoolClose` (`MCWorkerPool`) | `CloseReturns` | `WorkerPool.cpp:123`, `WorkQueue.cpp:110`, `ThreadBase.cpp:347` | `close` wakes one of two workers; a late start overwrites the stop request |
| `MCWaitDestroy` (`WaitContext`) | `DestroyedUnused` | `WaitContext.h:50` | the context is destroyed before the last `wakeAll` |
| `MCTraceTable` (`TraceFile`) | `DirtyWhileWriting` | `Simtrace3Store.cpp:362` | the directory table of the header has 448 entries, but its end is compared with the capacity of a directory, 1024; entries behind the table overwrite the checksum and the dirty flag |
| `MCTraceMap` (`TraceFile`) | `CommittedSurvives` | `Simtrace3Store.cpp:338`, `:352` | the mapping of a new directory fails after the old one was linked to it; a call that waited for the lock then starts a directory that nothing links to |
| `MCTraceReopen` (`TraceFile`) | `CleanAlwaysConsistent` | `Simtrace3Store.cpp:180` | a store that is opened after a crash is marked clean when it is closed ("TODO: Handle dirty stores") |
| `MCTraceTorn` (`TraceFile`) | `AlwaysOpens` | `Simtrace3Store.cpp:410` | the process died between the two halves of the entry of a zero frame |
| `MCSessionsFree` (`Sessions`) | `NobodyLost` | `SessionManager.cpp:86` | a worker drops the connection of a thread while another thread attaches (an exception that is none of Simutrace: `ServerSessionWorker.cpp:574`, `:608`): it was the last one of the session, and frees it between the look-up and `attach`. A client that is killed while it attaches does the same |
| `MCSessionsFinal` (`Sessions`) | `FinalizedClean` | `StorageServer.cpp:628` | `SessionManager::close` leaves a session to its last worker and does not wait until it has closed the store |
| `MCSessionsCross` (`Sessions`) | `NeverCrossed` | `Session.cpp:221` | the last worker leaves before `close` gets the lock: the count is zero |

Some statements have no configuration of their own; they are refuted with the
constants of a run changed:

* `MCStreamIndex` with `FindsFirstOfCycle` as an invariant: the binary search
  returns the offset it looked at last, not the smallest one
  (`ServerStream.cpp:891`).
* `MCStreamIndex` with `RetryPossible`: `StGetPreviousEntryFast` called again with
  an invalidated handle returns no entry but the address before `NULL`
  (`SimuTrace.h:1150`).
* `MCStreamIndex` with `Ties = TRUE`: when the last entry of a segment and the
  first one of the next have the same cycle count, the tree keeps one of two
  ranges that start alike, and `QueriesExact` fails. `Reloads` fails: a segment
  that begins and ends in one cycle is taken for a violation by a neighbour that
  shares the cycle; it is dropped, but its frame is in the file by then, and the
  store cannot be opened again. `PreviousExact` fails too:
  `_getPreviousSegment` takes a number beyond the last one for the last one.
* `MCManagerSafety` with `StoreHasItsId`: the store is created by a thread that has
  no id for it (`ServerStoreManager.cpp:199`, `:211`).
* `MCManagerSafety` with `CreateCreates`: `createStore` returns an old, dormant
  store (`ServerStoreManager.cpp:253`).
* `MCRpc` with `Faults = {"memory"}` or `{"handles"}`: a client without memory for
  the data of a response, or a server that fails to send the handles it has
  announced, leaves the ends out of step (`InStep`).

Where a passing run would meet one of these, a constant that names the usage
switches it off: `SharedAppend = FALSE` (one session appends to a stream, as the
client library does), `PersistentCache = 1`,
`ClosedEarly = FALSE`, `MapsMayFail = FALSE`, `TableSize = 3`, `Ties = FALSE`,
`Faults` without `"memory"` and `"handles"`.
`MCStreamSafety` lists no property that canceling breaks (`NoLeakedReference`,
`DetachedClean` and liveness): those are checked in `MCStreamLiveness`, which has
waiting sessions (`AsyncSessions = {}`, `CancelLoads = FALSE`), reads that fail and
writes that do not (`WritesMayFail = FALSE`, to keep it small). After the null pointer of
read-ahead a thread of `ServerStream` stops (`crashed`), and so does the model:
in the passing runs that means the properties hold up to the crash. The same is
true of `Sessions`, where the liveness properties name the exception. A missed
wake-up is no such usage and is switched off nowhere; the liveness properties name
it as what keeps a thread.

`MCBufferLiveness` is kept beside the runs as well and passes: two threads
compete for a single segment, and every request returns (`RequestReturns`).

### Bounds

* Two segments are enough for a miss, a hit, an eviction, a second copy of a link
  and an exhausted buffer; two threads for every race of a request with another.
  The proofs show that nothing of `SegmentPartition`, `StandbyIndexed` and
  `FreeIsClean` depends on the bound. `MaxRetry` bounds the attempts as
  `server.memmgmt.retryCount` does (two: a failed first and a last attempt).
* `MaxSqn` (sequence numbers `0..MaxSqn`): three, so that one is stored, one is
  written and one is read ahead. `MaxRefs` (references of one session to one
  segment) is two: the second exercises sharing. `ReadAheadAmount` is one.
* `MaxStores` ids and `MaxClock` time stamps bound the history of the manager:
  three ids are the stores of three paths, or a store, its replacement and another one.
* `MCTraceFile`: two streams with two segments and a zero frame each are six
  frames; a capacity of three leaves two frames for a directory, so that three
  directories are filled and linked. Two threads are enough for a frame that
  waits for the lock while another thread fails, dies or adds a directory. About
  386,000 states. All four invariants are proved for all bounds.
* `MCStreamIndex`: two bits make three sequence numbers, so that both ends and
  the overflow of a number are one step away; two entries per segment tell a
  segment that begins and ends in one cycle from one that does not. The three
  invariants are proved for all bounds.
* `MCSessions` (about 149,000 states): two connections and one session, so that one thread is the last
  to leave while the other attaches. A connection is used once: a thread that has
  left does not come back. The invariants of this run are proved for any number
  of threads, connections and sessions.
* `MCRpc`: three calls with one bit of sequence number, so that it wraps around;
  headers and data of two pieces, so that a transfer may stop inside of them.
  About 265,000 states. `MCRpcSignal` has two connections with one call each.
* Five work items with a nesting depth of two. `PoolWorkAssumption` limits the
  depth to two, as the only encoder that submits from a work item does.
  `ClosedMeansDone` is proved for any workers and items.
* Segments, threads and sessions are symmetric where the configuration says
  `SYMMETRY`; runs with liveness use none.
* `CHECK_DEADLOCK FALSE` where the system may stop: stores are gone, sessions
  have left, the pool is closed, all operations of a context are over, a bound is
  reached.

### Fairness

* `ServerStreamBuffer`: a thread inside `_requestSegment` or `flushStandbyList`
  goes on (weak fairness). Nothing is assumed about clients and encoders: a
  request ends even if nobody ever gives a segment back.
* `ServerStream`: a thread inside a call goes on and a work item of the encoder
  ends (weak fairness; the pool executes every item but those that lost wake-ups
  keep, `WorkIsDone`). Nothing makes a session call, close or detach. It is not
  assumed that a thread which waits is woken: `open` and `ServerStore::detach`
  sleep in `WaitContext::wait`, which can miss the last wake-up (`MCWaitWakeup`).
  `MissWakeup` lets any of the threads that wait miss it, a spurious wake-up
  (`Spurious`) is possible but not fair, and `OpenReturns` and `DetachReturns` say
  of every other thread that it returns.
* `WorkerPool`: workers and `close` go on; which of the sleeping workers a
  semaphore wakes is open. A worker that waits inside of an item may miss its
  wake-up in the same way; `WorkIsDone` says that this keeps its own items only,
  unless all workers have missed one. `WaitContext`: operations end, the waiting
  thread goes on while it is awake, spurious wake-ups are possible but not assumed.
* `TraceFile`: a thread inside `commitFrame` goes on. One of its steps takes the
  lock; weak fairness is enough because the runs have finitely many frames.
* `Sessions`: the threads of both processes are scheduled; what an application
  asks for, the death of the client and the end of the server are not fair.
  A worker that closes a store ends its wait or misses its wake-up; which of them
  is open, and `CallReturns` and `SessionEnds` except the second case (`Asleep`).
  Handlers end, with an answer or with a lost connection (`Drop`).
  `CallReturns` and `SessionEnds` need no assumption about the timeout of the
  closer, which may be over at any time.
* `Rpc`: both ends go on and handlers return. That a client calls or dies is open.

## What is proved

### The buffer

`ServerStreamBufferProofs` proves, for all `Segments`, `Threads`, `Stores`,
`Links`, every key function and retry count that satisfy `PoolAssumption` and
`BufferAssumption`:

* `TypeCorrect`: `Spec => []TypeOK`
* `Partition`: `Spec => []SegmentPartition`
* `IndexAgrees`: `Spec => []StandbyIndexed`
* `FreeClean`: `Spec => []FreeIsClean`

and, for every key function that tells two links apart (`KeyTellsApart`),

* `CacheTrue`: `Spec => []CacheFaithful`
* `HolderTrue`: `Spec => []HolderFaithful`

The condition is the one that the code misses: `MCBufferFolded`, whose key is the
one of `LinkHash`, violates `HolderFaithful` with two store ids that fold to the
same 16 bits. The theorems say that this is the only way to get a wrong segment.

The first four follow from `Invariant`: `Spec => []IInv`, where

    IInv == TypeOK /\ Consistent(pool) /\ HeldOrListed /\ HeldHasOwner
            /\ RequestHasLink /\ FlushListed

* `Consistent(pool)` says that the free list and the standby list are disjoint,
  the standby list has no duplicates, its segments have an owner and are exactly
  those of the index, and free segments are clean. The properties alone are not
  inductive: without "no duplicates" a removal from the list could leave a second
  copy behind, and without the owner `_evictFromStandbyList` could not find the
  index entry.
* `HeldOrListed` ties `use` to the lists: a segment is held exactly if it is on
  neither.
* `HeldHasOwner` says that a held segment that may go to the cache has a link, so
  that `_addStandbySegment` enters it under a key.
* `RequestHasLink` says the same of a request that is still waiting.
* `FlushListed` says that what a flush has still to visit is on the list, without
  repetitions; the list cannot change under it because it holds `_standbyLock`.

The last two follow from `DataInvariant`: `Spec => []DataInv`, an invariant that
is inductive together with `IInv`:

    DataInv == HeldData /\ CachedData /\ RequestData

* `HeldData` says what a segment is for its holder (`Fits`). It has to say more
  than `HolderFaithful`: that the link is stored when the holder reads it, that
  its store lives and that an encoder has a complete segment, since the holder
  may put the segment into the cache.
* `CachedData` says that a cached segment is a complete copy and that its store
  lives *or* the flush that is running has still to look at it. `CacheFaithful`
  says nothing about the time of a flush and is not inductive.
* `RequestData` says the same of a request that has no segment yet: its store
  cannot go away while it waits.

The key matters in one place, the look-up of `RequestSegment`: the segment found
under the key of a link has that link. It is also why no writer gets a cached
segment: a link that is cached is stored, and nobody writes a stored link.

`SegmentPoolProofs` has the lemmas: what removal, head and tail insertion do to
a list without duplicates (`RemoveFromList`, `AddAtHead`, `AddAtTail`,
`LastOfList`), the fields every pool operation changes (the `...Fields` lemmas),
that each operation keeps `Consistent` under its precondition, and what it leaves
in the segments (the `...Content` lemmas). Its postconditions are predicates
(`Dequeued`, `Enqueued`, `Taken`, `Freed`, `TakenContent`, `FreedContent`), so that
the step lemmas of `ServerStreamBufferProofs`, one per action, need not look
into the operations.

### The stream

`ServerStreamProofs` proves of `ServerStream`, whose state is that of the stream
and of its buffer, for all `Sessions` (finitely many), `Segments`, numbers of
sequence numbers, references and read-ahead, any subset of the sessions
asynchronous, and whether or not encoders fail, loads are canceled, several
sessions append and opens read ahead:

* `TypeCorrect`: `Spec => []TypeOK`
* `OwnedOnce`: `Spec => []SegmentOwnership`
* `SingleOperation`: `Spec => []OneOperation`
* `CountIsSum`: `Spec => []ReferencesCounted`

under `~SharedAppend` (one session appends to a stream)

* `MappingHolds`: `Spec => []MappingStable`
* `StreamRefines`: `Spec => ImplementsTraceStream`

and under `~CancelLoads` (no open is closed before its data has arrived)

* `NothingLeaks`: `Spec => []NoLeakedReference`
* `DetachLeavesNothing`: `Spec => []DetachedClean`

The two conditions name the usage that the code needs: `MCStreamSharedAppend` and
`MCStreamCancel` are the counterexamples without them. One session appends to a
stream in the client library, and a load is only canceled by a session that opened
it asynchronously. The run checks the last two with writes that do not fail; the
theorems say that failing ones do no harm there.

`SingleOperation` has no condition. After a failed asynchronous read the code does
not finish the operation (`MCStreamDecodeFail`): the location keeps its segment
although nobody works on it, and an open of it never returns. `tasks` remembers
such a read, and the theorem says that this is the only way a location is left in
progress, that it stays so, and that no second read or write is ever added to it,
whoever opens, closes and detaches meanwhile.

`StreamAssumption` says that the bounds are natural numbers, that a link is a
sequence number and the key of the cache tells two of them apart, and that the
sessions are finitely many (the count of a location is a sum over them);
`LocationAssumption` says that `NoLoc`, the null pointer in `_segments`, is no
location.

The first four follow from `InductiveInvariant`: `Spec => []StreamAndPool`, where

    StreamAndPool == StreamInv /\ PoolInv
    StreamInv == BaseInv /\ LocInv /\ AppendInv /\ ThreadInv
    PoolInv == PoolGood(pool) /\ Own(Holds, Listed(pool))
               /\ \A q \in Places : Fits(q)

* `LocInv` says of each location (`LocGood`) how its count, its references, its
  two segments, its flags, the open list and the work items fit together. It
  depends on what the holder of `_openLock` is doing with the location (`Busy`):
  between the decision to load a segment and the return of `openSegment` the
  location has a segment and no reference, which nobody else may see.
* `ThreadInv` says what a call knows between two of its sections: which lock it
  has, that its location still exists and, in a read ahead, that the segments of
  the list which is left are not the one being opened.
* `AppendInv` says that the segment that is appended to is mapped and not yet
  written, which the next append relies on when it closes it without a check, and
  that no location has a number beyond the last one.
* `PoolInv` looks at the segments from the other side. A place is the `id` or the
  `sideId` of a location, or a call of append; the places that hold a segment and
  the lists share the segments without a rest (`Own`), and what a place holds has
  the link of that place and, if its data is needed, has it (`Fits`).
  `SegmentOwnership` counts the places of a segment and follows from `Own`.

Neither is inductive alone. `StreamInv` needs the pool to hand out only segments
that are on its lists, and `PoolInv` needs the flags of the location to tell which
of its segments a worker has.

The mapping follows from `ViewInv`, which adds to what a session was given the
references behind it: a session that opens a segment a second time has two while
the call lasts, so that losing one of them does not take away the first mapping. The lemmas `...Views` show for each action, at the same time, that the
step is one of `TraceStream` (`Refined`). The references follow from `LeakInv`,
which says who will release a reference: the session that has the segment mapped,
the call that is opening it, a detach that has still to visit it, or, of a load
that nobody has seen yet, the worker that completes it.

The lemmas at the beginning are about the operators the model is built from: sums
over the sessions (`SumOf`, by induction over the size of a finite set), the list
of segments to read ahead, the fields of a location and of a thread. There are
three lemmas for every action, one for each invariant; `...Good` for `StreamInv`,
`...Moves` for `PoolInv`, and `...Views` or `...Leaks`.

### The trace file

`TraceFileProofs` proves, for all `Threads`, `Streams`, `Segments`, capacities
and table sizes that satisfy `TraceFileAssumption`, with or without failing
writes, and under `~MapsMayFail`:

* `TypeCorrect`: `Spec => []TypeOK`, with the bound on the entries of a directory
* `Durable`: `Spec => []CommittedSurvives`
* `Damage`: `Spec => []OnlyLastTorn`
* `ZeroFramesFirst`: `Spec => []StreamsPrecedeSegments`
* `CleanStores`: `Spec => [](Fits => CleanIsConsistent)`
* `DirtyHolds`: `Spec => [](Fits /\ ~crashed => DirtyWhileWriting)`

`~MapsMayFail` is needed: `MCTraceMap` shows a lost frame without it. The theorems
follow from `Inductive`: `Spec => []IInv`, where

    IInv == TypeOK /\ LockInv /\ WorkInv /\ DirInv /\ EntryInv /\ ReturnInv

* `LockInv`: a thread between the lock and its release is the only one there.
* `WorkInv`: the space of a frame belongs to one thread until it is committed, and
  how much of it is written follows from where the thread is. So a frame is
  complete before it gets an entry, whatever the other threads do.
* `DirInv`: a directory with entries can be reached over the links of all earlier
  ones, and the current directory is the last one, except while the next one is
  added; then the new one is still empty.
* `EntryInv`: every entry is readable, or it is torn and nothing follows it; a
  torn one exists only while its thread is between the two stores, or in a store
  that nobody will write any more.
* `ReturnInv`: what was returned is in a directory. With `DirInv` a reader gets
  there.

`ZeroFramesFirst` adds `StreamInv`, which `IInv` carries along: what is published
as a stream or worked on as a data frame has an entry for its zero frame, and so
has every entry of a data frame, before it. No step but `CopyHeader` adds an
entry (`NoEntry`), and it adds the last one.

`CleanStores` rests on `CountInv`, which says what the header counts while
threads work, until the process dies: the dirty flag is set as long as a thread
works; the number of directories lags behind by the one that is being entered in
the table, the number of frames by the one that is being accounted; all
directories are linked, except while one is added; every entry is readable,
except between its two stores. The counts are cardinalities, so the proof follows
how the set of the entries in use grows (`SlotTaken`, `SlotsStay`). `Fits` is
`header.directoryCount <= TableSize \/ Capacity <= TableSize`: the code compares
the count with the capacity of a directory, not with the length of the table
(`Simtrace3Store.cpp:362`), and behind the table it overwrites what follows in the
header, first the dirty flag (`MCTraceTable`).

### The free list

`ServerStreamBufferProofs` proves of `FreeList`, for any number of segments and
threads that satisfy `FreeListAssumption`:

* `ListTypes`: `ListSpec => []ListTypeOK` (no run lists it)
* `ListHolds`: `ListSpec => []NothingLost`
* `TakenSegmentIsFree`: `ListSpec => [](~aba => TakenIsFree)`, the assertion of
  `_dequeueFromFreeList`
* `ListRefines`: `ListSpec => ImplementsSet`

for any number of threads that take segments. The code takes them in every session
and worker thread, and nothing keeps ABA away (`MCFreeListTwo` shows what it does).
So the theorems say which interleavings are harmless: all but one. `aba` is a
history variable, as is `stale`, the set of the threads that have read the head
before another thread took a segment; no guard reads either. `aba` becomes true when
the compare-and-swap of a thread in `stale` succeeds, and until then nothing is lost,
whatever else happens between its read of the head, its read of the link and its
swap. `UntilABA` keeps TLC from exploring what follows, of which nothing is said.

`OnList` is what every set of segments contains that is closed under the links and
holds the head. The four lemmas about it say what the compare-and-swaps rely on:
it is such a set itself (`ReachableClosed`), the link of a segment elsewhere does not
matter (`LinkElsewhere`), a segment put before the head adds itself (`Pushed`), and
the segment behind the head has everything but the head behind it (`Popped`). The
last one is false for a list with a cycle, and no property of a run excludes one.
The invariant is

    ListInv == ListTypeOK /\ Intact /\ ListedFree /\ (\A t \in Callers : ThreadInv(t))
               /\ RankInv

`RankInv` says that the links go downhill: there is a number for each segment that
falls along the list. `ThreadInv` says that what a thread outside `stale` has read is
still so: the segment is on the list, and the successor it has read is its link,
because the others have only put segments before it. A thread that takes a segment
puts all the others that are in the loop into `stale`. `ListedFree` says that the
segments on the list are marked free.
Each lemma `...Keeps` shows for an action that it keeps the invariant and, at the same
time, that `OnList` and what the threads own stay, or that one segment moves; the
compare-and-swap may be ABA instead, and the invariant is `aba \/ ListInv`.
At the start, the set of segments that are not reached would have a smallest
member (`InitialReach`).

### The store manager

`ServerStoreManagerProofs` proves, for all sessions, paths, time stamps and
numbers of stores, and under `PersistentCache > 0`:

* `OneStore`: `Spec => []OneStorePerPath`
* `AttachedLives`: `Spec => []AttachedStoreLives`

The assumption is needed (`MCManagerNoCache`). The invariant is

    IInv == TypeOK /\ MapInv /\ PathInv /\ IdInv /\ HeldInv /\ AttachedStoreLives

`MapInv` says that a reference which has left the map is invalid, so that a
thread which still holds it searches again; it is what the flag `dormant` is for,
and what a manager without a cache does not have. `PathInv` says that the map
never has two valid references of a path, `IdInv` which store a reference can
have, and `HeldInv` that a session holds a reference of its own path. The lemmas
about the smallest and the largest number of a set (`Least`, `Largest`) are used
to show that the search and the eviction pick members of the sets they look at.

### The stream index

`StreamIndexProofs` proves, for any width of a sequence number, any capacity of a
segment, any cycle counts and readers of either direction, whether or not encoders
fail:

* `TypeCorrect`: `Spec => []TypeOK` (no run lists it)
* `ReaderSkipsNothing`: `Spec => []NothingSkipped`

and, under `~Ties`, if no two segments share a cycle count,

* `QueriesFind`: `Spec => []QueriesExact`
* `StoreReloads`: `Spec => []Reloads`

`~Ties` is needed for both: TLC refutes `QueriesExact` and `Reloads` without it (see
above). `StreamIndexAssumption` states with `Width \in Nat` that `2^Width` is a
positive number, a fact of arithmetic that the provers do not know. The invariant
has three layers:

    StreamInv == VectorInv /\ AppendInv /\ IndexTypes /\ FileTypes
    HandleInv == HandleTypes /\ (a handle that is valid or invalidated: HandleAt /\ AllGiven)
    QueryInv  == OrderInv /\ FileInv /\ TreeInv /\ StatInv

* `StreamInv` needs no condition on the cycle counts. The vector ends with the last
  segment, and only that one may be appended to; everything that is closed lies
  before `lastIndex`, so that the index of an entry stays in range and a new segment
  starts behind the others. In a store that was opened again, every location has
  its data.
* `HandleInv` gives the reader. Between the segment a handle was opened at and the
  one it is at, every location that exists can be read (`HandleAt`), and all entries
  between were given (`AllGiven`). It holds while the writer goes on: a stored
  segment never changes, a location that is stored was allocated before, and a new
  one is behind the last. A hole is never filled while there is a handle. An
  invalidated handle that goes forward stands at the end of its segment, so that a
  retry does not begin in the middle.
* `QueryInv` is about the order. `OrderInv`: of two locations the one with the
  smaller number ends before the other one starts, in entries and in cycles.
  `TreeInv`: a tree has the range of each segment that can be read, and no other.
  `StatInv`: the statistics end with the last entry that can be read. `FileInv`: the
  frames of the file are ordered by their numbers like the segments, and those that
  are loaded are a front of the file; so whatever order they were committed in, the
  check of `_addSegment` against both neighbours accepts each of them
  (`FitIsAccepted`), as it accepts each segment that an encoder completes.

No step lemma looks into the vector: `Changed(n, c)` says that location `n` becomes
`c` and no other one changes, each action is shown to be such a change, and each
part of the invariant is kept by it if `c` meets a condition of that part (`CellOK`,
`Fits`, `Added`).

### The worker pool

`StreamIndexProofs` proves of `WorkerPool`, for any workers and items, nested as
`PoolWorkAssumption` allows:

* `PoolTypes`: `PoolSpec => []PoolTypeOK` (no run lists it)
* `ClosedPoolIsDone`: `PoolSpec => []ClosedMeansDone`

`ClosedPoolIsDone` does not depend on `ClosedEarly`: a `close` that comes too early
may not return (`MCPoolClose`), but when it returns nothing was left behind. The
invariant is

    PoolInv == PoolTypeOK /\ ClosingInv /\ \A w \in Workers : WorkerInv(w)

`ClosingInv` follows the order in which `close` goes on. It blocks the queue first,
so that nothing is added any more. The event of emptiness is signaled only when the
blocked queue is empty, and then the queue stays empty through the steps that stop,
wake and join the workers; when `close` is through, all of them have finished.
`WorkerInv` says that a worker executes items exactly while its stack has one, so
that one that has finished left no item unfinished.

### Sessions

`SessionsProofs` proves, for all client threads, finitely many connections and any
number of sessions, whether or not the client may be killed and the server may go
down (`SessionsAssumption`; `"closer"`, which stands for the thread of
`SessionManager::close` as holder of a lock, is not a connection):

* `TypeCorrect`: `Spec => []TypeOK`, with the bound on the count of a session; no
  run lists it
* `RefsCountWorkers`: `Spec => []RefsAreWorkers`
* `DetachNeverThrows`: `Spec => []DetachAccepted`
* `NoFreedSessionUsed`: `Spec => []NoUseAfterFree`
* `AttachedLives`: `Spec => []AttachedSessionLives`

The invariant has three layers, each kept with the help of those below it:

    SessionsInv == ServerInv /\ ClientInv /\ QInv /\ Dead

* `ServerInv` (`ServerHolds`) is about the server alone, whatever the client
  does. A session has and counts exactly the workers that are part of it, and
  the last one holds its lock until it has closed it; a worker that detaches has
  finished, and what `ThreadBase::stop` writes over its state is not seen, since
  the closer holds the lock of the session meanwhile.
* `ClientInv` (`ClientHolds`) ties each thread of the client to a connection of
  its own, to what is on it (at most a request or an answer), and to the worker
  at its other end, which works for the session of the thread. `Rules` says which
  places of the program exclude each other, for the locks of the client.
* `QInv` holds until the client is killed, the server goes down or a worker drops
  a connection whose client lives (`Quiet`): a connection stands until its thread
  has left, only the creating and closing of a store fail, both sides agree whether
  there is a store unless the server could not close it (`Agreed`), and a session
  that a thread of the server has looked up without a lock is not freed. The reason
  is on the client: a thread attaches while another one, whose worker counts, stays
  in the session (`Opening`), and the last thread leaves alone. `MCSessionsFree`
  shows what happens when a worker drops a connection in between: nothing on the
  server holds the session while a request is attaching to it.

So `NoFreedSessionUsed` says what the look-up without a lock relies on, and the
three exceptions are the ways in which the server stops to rely on its clients.
`AttachedLives` is unconditional where it speaks of the session and the worker of
a thread whose connection stands, also after a connection of another thread was
dropped; only the agreement on the store has the exceptions.

### Requests and the signal

`RpcProofs` proves, for any connections, calls, sizes and faults:

* `OnlyRacesKill`: `Spec => []KilledByRace`

Nobody is safe from the signal: the server has a worker for each connection, a
client process a port for each of its threads, and `MCRpcSignal` shows what a second
thread does. The theorem says that this is all it takes and that it does take this.
`raced` is a history variable, the processes in which a thread has set the signal
back between the `ignoreSignal` and the last `::send` or `::recv` of another one; a
process that the signal ends is one of them. The invariant (`SignalInv`) is that, in
a process that has not raced, an end ignores the signal as long as it moves data.
No run lists `KilledByRace`: with one connection there is no race, and with two its
instances have millions of states. TLC agreed with it, for two threads of one client
and pieces of size one, before it was proved.

It proves, for the same constants, `TypeCorrect`: `Spec => []TypeOK` (no run lists
it), and for `Faults \subseteq {"death", "reject", "handler"}`:

* `Conversation`: `Spec => []ConvInv`
* `StayInStep`: `Spec => []InStep`

`InStep` speaks of the messages that were read; nothing in it says why bytes that
are cut at any place are put together again. `ConvInv` says for every connection:

* `FlowInv`: what an end has read of a message (`Taken`), what is on its way to it
  (`wire`) and what the other end has still to send (`Unsent`) are, one behind the
  other, the front of the message that was sent last; it is the whole of it unless
  an end has gone.
* `IoInv`, `FailInv`: how much an end has read and has still to read add up to a
  header, or to the payload the header announces; a transfer fails only if the
  other end is gone and has left nothing.
* `TurnInv`: if there is something on its way to the client, it belongs to the
  client's current call, and nothing is on its way to the server; in an idle
  connection nothing is under way at all.
* `PlaceInv`, `MessageInv`: an end that has closed its endpoint has stopped; a
  message of which the header was read is the one that was sent.

A step of a transfer moves a part of a sequence from one of the three places to
the next (`Moved`, with the lemmas `Taking` and `Giving`). An end that has read as
many pieces as a message has finds the other two places empty (`Arrived`,
`AllThere`), and only then may it send. Nothing is said of `"memory"` and
`"handles"`, since `InStep` fails with them (see above). TLC checked `ConvInv` with
the bounds of `MCRpc` before it was proved. `RpcAssumption` states that `2^SeqBits`
is a positive number, a fact of arithmetic that the provers do not know.

### Only model-checked

All liveness: `OpenReturns`, `DetachReturns`, `CommitEnds`, `CallReturns`,
`SessionEnds`, `CallEnds`, `WorkIsDone`. Liveness under fairness, `ENABLED` and
induction over recursive definitions are out of the prover's reach and stay with
TLC. `WaitContext`, whose run refutes a comment, has no theorem either. Every safety
property of a passing run has one.

## What is not modelled

* The contexts of the memory encoder: an encoder whose work items append to and
  read other streams. It would need several streams over one buffer and one pool,
  and `ServerStream` with a single stream is already at the limit of what can be
  enumerated. The generic encoders and compression are data.
* `StreamMultiplexer` and dynamic streams: a sequential merge in the client with
  no state that the server shares. The tracking of handles when a client session
  closes is left out with them.
* Reverse read-ahead of `ServerStream`; queries over real time, which work as
  those over cycle counts; the errors and `reset` of `WaitContext`.
* `WorkerPool`: failure to create a worker, `close(dropQueue = true)`, which has
  no caller. `IdAllocator`: the reuse of retired ids.
* Start-up of the server, options, configuration, the settings of a session;
  names and addresses of channels, and the Windows transports.
* Attributes of frames and data pools of `Simtrace3Store`; enumeration of stores
  and streams, which changes no state.
* Hashing, compression, logging, clocks, memory segments, the .NET bindings,
  samples, tests and vendored code: data or wrappers of the operating system.
  The vendored libraries (farmhash, LZMA, libconfig, the option parser) are a
  third of the lines of the tree.

## What is left

* A second stream in `ServerStream`, and on top of it the contexts of the memory
  encoder.
* Theorems about queries with cycle counts that two segments share: what a tree
  that dropped a range still finds.
