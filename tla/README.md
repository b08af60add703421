# PJLIB for Zephyr: TLA+ models and proofs

The repository ports PJLIB, the base library of PJSIP, to Zephyr. This directory
holds TLA+ models of the stateful parts of PJLIB as the port builds them, the
TLC configurations that check them on small instances, and theorems about them
checked by TLAPS. Everything is written from the C sources in
`src/pjproject/pjlib/src/pj`; `PROJECT.json` maps each definition to its lines.

The configuration modelled is the one of the port's CMake file and
`config_site.h`: threads on, the select ioqueue with safe unregistration,
callbacks without the key's lock, timer entries copied into the heap, group lock
debugging off.

## The system

| Part | State | Operations | What makes it hard |
| --- | --- | --- | --- |
| thread-local table (`os_core_unix.c`, Zephyr only) | key mask, a generation per key, a slot per thread | alloc, free, set, get, clear thread | keys and slots are reused while stale values are still in them |
| group lock (`lock.c`) | list of locks, owner, reference count, destroy handlers | acquire, try, release, add/dec ref, chain, unchain, handlers | the list changes while other threads wait inside a walk over it; the last reference destroys it |
| timer heap (`timer.c`) | heap array, id array that is also the free list, copies of the entries | schedule, cancel, poll, growth | callbacks run unlocked; a slot, an id and a reference per timer must agree; growth may fail |
| ioqueue operations (`ioqueue_common_abs.c`, `ioqueue_select.c`) | pending lists, `fd_set` bits, callback threads, callback queues | recv, send, accept, connect, post, clear, unregister, poll and dispatch | several pollers, callbacks that call back in, unregistration under all of that |
| ioqueue keys (`ioqueue_select.c`) | free, active and closing lists, reference counts, group lock references | register, unregister, poll, recycle | a key must not be recycled under a poller |
| active sockets (`activesock.c`) | read and accept operations, one send position, over one key | start read, send, accept, connect, close, completion handlers | handlers loop and call the ioqueue while another thread closes; partial sends and leftover data carry over from call to call |
| threads and lifecycle (`os_core_unix.c`, `log.c`) | init counter, atexit list, thread keys and descriptors | init, shutdown, create, register, unregister, end | a start fails half way; threads outlive a shutdown; native ids are reused |
| exceptions (`except.c`) | list of handlers per thread, key of the list, exception ids | try, throw, catch, end, id alloc and free, clean-up | the key is allocated at first use without a lock |
| events, barriers (`os_core_unix.c`) | state, counters, generation, sleeping threads | wait, trywait, set, pulse, reset; barrier wait | spurious wake-ups, latecomers, a fast thread that comes round again |
| pools, caching pool (`pool.c`, `pool_caching.c`) | block lists, free lists by size, capacity | create, alloc, reset, release, destroy | alignment gaps, growth while in use, books that must balance |
| FIFO buffer (`fifobuf.c`) | two pointers and a flag | init, alloc, free, available size | `uend = ubegin` means empty or full; skipped ends |

The parts meet in a few places. The timer heap and the ioqueue hold references
on group locks; the ioqueue's keys may use a group lock as their lock; exceptions,
logging and thread records live in the thread-local table; active sockets are
built on ioqueue operations. Each of these meetings is in a model: the reference
counts of group locks in `TimerSet` and `IoqueueKeys`, lifecycle, exceptions and
thread-local table composed in `Lifecycle`, and `ActiveSock` over a key that behaves
as `IoqueueOps` has it. Strings, formatting, files, addresses, error texts
and the socket calls are inputs or are left out; `PROJECT.json` lists each with
the reason.

## The modules

**`ThreadLocal`, `ZephyrTls`.** `ThreadLocal` is the promise: a cell per thread and
live key, which only its owner changes and which is NULL when the key's life
begins. `ZephyrTls` is the table with its generations and slots. Every function
runs under one spinlock, so each is one action. `epoch` only bounds behaviours.

**`GrpLock`.** A mutex is its owner and count. Acquire and release walk
`lock_list` one item per step (`AcquireItem`, `ReleaseItem`), with the item in
hand in `pc[t].lck`, as the C loops do. What the caller must respect is in
`MayUse` and in `Worthwhile`: a thread uses the lock only with a reference, and a
lock is not chained twice. `LockExternal` is another user of a chained lock.

**`TimerSet`, `TimerHeap`.** `TimerSet` is the promise: running entries, the
earliest expired one fires once, and a group lock reference follows the timer.
`TimerHeap` has the arrays (`ht.heap`, `ht.ids`, `dups`), with the reheap
functions as recursive operators. `ScheduleCall` reads the clock before the lock
is taken, as the code does; the rest of the call is one step under the lock. A
poll is `PollBegin`, the callback with the heap unlocked, `CallbackReturns` and
`PollContinue`. Callbacks may schedule and cancel. A failed growth keeps the id it took
(`leaked`); a later schedule can then pop the free list one past `timer_ids`. That read is
undefined: the model takes the step, marks the list `Lost`, and lets no thread into the heap again.

**`IoqueueOps`.** One key. A thread is a stack of frames, so a callback can call
recv, send, unregister and so on and return to where the dispatcher was. A
section under the key's lock is one step; the unlock before a callback, and the
time between select() and dispatch, are where other threads come in. `app` is the
application: which functions it calls, with which operations, on which kind of
key. The socket (`sock`) is ready or not. `owed` and `twice` are history.

**`IoqueueKeys`.** All keys, without what happens inside a dispatch. An event
carries the registration it was collected for, which is how recycling under a
poller would show. `FreeTime` is the passing of `PJ_IOQUEUE_KEY_FREE_DELAY`.

**`ActiveSock`.** One active socket, cut at every call its functions make: into the
ioqueue, into the application, and between a test of `shutdown` and what follows.
`app` is the application (stream or datagram, whole-data sends or plain, listener,
number of closers, with or without concurrency); its callbacks may leave any remainder and may
stop the reading or accepting. A completed write that a thread has not yet reported finds no
callback once `pj_ioqueue_unregister` has cleared it (`CallbacksCleared`, `WriteNotCalled`). A read operation keeps the buffer
with the bytes left over by the application; bytes are numbered, so that a lost, repeated
or swapped one shows. `consumed`, `late`, `outcome` and the like are history. `pj_activesock_sendto` is
the send without whole data.

**`Exceptions`, `Lifecycle`.** `Exceptions` extends `ZephyrTls`: the handlers of a
thread are a linked list whose head is in the thread-local table, and push, throw and
pop are separate reads and writes of it. `Lifecycle` extends `Exceptions` by
`pj_init` with its failures, nested starts, `pj_shutdown` with the atexit functions,
and the threads. A plan bounds a behaviour (nesting, lives of threads, starts,
failures). The application shuts down after its workers ended, with no `PJ_TRY` open.

**`Event`, `Barrier`.** The mutex makes each call one step, cut where
`pthread_cond_wait` sleeps. `Signal`, `Broadcast` and the spurious wake-ups are the
condition variable. The barrier is the one built without `_POSIX_BARRIERS`.

**`CachingPool`.** A pool is its list of blocks; a block has a start address that
decides the alignment gap. The factory has the used list and one free list per size
class. **`FifoBuf`** has pointers as offsets; `live` is the history of blocks.

**`MC*`** give the modules finite constants. `MCObjects` runs the small objects side by
side: they share no state, so a behaviour exercises one of them. **`*Proofs`** hold the theorems.

## The runs

| Run | Result | Shows |
| --- | --- | --- |
| `tls_cells` | pass | the table implements the cells (`IsolatedCells`); one slot per thread |
| `grplock` | pass | with locks chained only behind the group lock's own: a thread inside holds every chained lock as often as it acquired; nothing unlocked that is not owned; no use after destruction; handlers once and in order; every call returns |
| `grplock_chain_before` | violation | a lock chained in front of the lock a thread waits for is not acquired by that thread, although its release unlocks it |
| `timer_refines_set` | pass | until the free list is popped past its array: the heap implements the timer set, references included; every timer ends; a failed growth leaves what is in the heap cancellable and the rest of the free list exact |
| `timer_structure` | pass | heap order, and slots and free list in one array, with six nodes, removals from the middle and growth |
| `ioqueue_ops` | pass | no operation is called back twice; callbacks of a direction do not overlap; unregistration answers every write (without concurrency, and unless its wait times out) |
| `ioqueue_live` | pass | without concurrency, reads are served and writes end on keys that are not cleared; clear and unregister return |
| `ioqueue_concurrent_drain` | violation | with concurrency allowed, unregistration can clear the callbacks under a thread that has dequeued a write and not yet called it back |
| `activesock` | pass | stream data arrives in order, once and complete, datagrams stay whole, and the end of the stream is real; whole-data sends report what is on the wire, each once; the key is unregistered once and at most one read per operation is reported after that; no connection is lost; sends are answered (with concurrency, while the socket is open) and data is read |
| `activesock_overlapping_sends` | violation | two sends of one whole-data socket overlap and the second is reported complete with bytes unsent |
| `objects` | pass | a throw reaches the innermost handler of its own thread; threads are who the library says, their slots and keys are accounted for across failed starts and restarts; an event has no release left while its waiters sleep; the barrier keeps its threads in step and lets each round end; pool chunks do not overlap, growth suffices, the factory's books balance; FIFO blocks stay apart |
| `ioqueue_keys` | pass | count of keys and references to group locks exact, no event of a recycled key, unregistered keys come back |

Every property of a passing run has a mutant, a small change of one mapped
definition of the kind a programmer could make, that TLC finds with it. Type
invariants are not run: they are proved where a proof needs them. So are a key's
reference count, the event's counters, and that FIFO blocks can be freed and the
available size is exact (see The proofs).

### Limits of the passing runs

Some passing runs leave out cases in which their properties do not hold. They
must be read with these limits:

- `grplock` calls `pj_grp_lock_chain_lock` with positive positions only. With
  position 0, `InsideHoldsChainedLocks` fails (`grplock_chain_before`), and so does
  `UnlocksOnlyOwned`. `NoUseAfterDestroy` and `HandlersOnDestroy` are proved for
  any position; whether every call still returns is open.
- Concurrency is allowed by default (`PJ_IOQUEUE_DEFAULT_ALLOW_CONCURRENCY`).
  `ioqueue_ops` checks that nothing is called back twice in that mode for reads and accepts
  with unregistration, for sends without it, and for connect with posts. Sending
  and unregistering in that mode is the case in which `WritesAnswered` fails
  (`ioqueue_concurrent_drain`). Liveness is checked without concurrency only.
- `CallbacksDoNotOverlap` is per direction. A read and a write callback of one
  key do overlap, also without concurrency, although `include/pj/ioqueue.h:580-582` says that
  with concurrency disabled "only one thread can call the key's callback at one time".
- `ioqueue_keys` assumes that no thread stays longer than the free delay between
  giving back a key's reference and reading its group lock (`Slow = FALSE`).
- `activesock`: `WholeDataSent` is checked for applications that have one send under
  way at a time (see `activesock_overlapping_sends`). Streams have one read operation:
  with several (`async_count > 1`) the code itself reorders the data. After a remainder
  that fills the buffer the next read has no room, and the code takes its zero bytes for the
  end of the stream: `DataIntact` allows `PJ_EEOF` then, and `DataDelivered` claims nothing of
  an application that leaves the buffer full or stops reading. With concurrency a
  close clears the key's callbacks under a thread that has completed a write and not yet
  reported it (`ioqueue_concurrent_drain` shows it for the ioqueue): `SendsAnswered`, and in
  `SendsAnsweredOnce` that a closed socket owes nothing, are not claimed of that case. The wait of
  unregistration that times out is in `IoqueueOps`, not here.
- A connection accepted just as the socket shuts down is dropped without being closed
  (`activesock.c:881`); `ConnectionsAccounted` counts it apart.
- `objects`: after two threads first used exceptions at the same moment
  (`except.c:78`) a handler may be missed; `InnermostHandler` then claims only that no
  handler of another thread is found. `include/pj/except.h:56` calls the mechanism
  "completely thread safe", which does not hold of its first use. A thread that finds every
  thread-local key taken stops at the assertion of `except.c:80`; a build without assertions would go
  on with key -1. What a failed `pj_init` leaks (a key, an exception id) is counted
  apart in `IdsAccounted`.
- The properties of the timer heap end where a schedule pops the free list past
  `timer_ids` (`timer.c:225`), which needs an earlier failed growth. `timer_refines_set`
  reaches that state; what the code does from there on is undefined.
- `NoReleaseStranded` does not say who gets a release (see below, events).
- Sizes are numbers without a width: the sum at `pool.c:140` and, on 32 bits, `size + SZ` at
  `fifobuf.c:115` and `:144` can wrap for requests near the end of the range. Pools are checked
  with one size of chunk. The loop of the barrier also ends when `pthread_cond_wait` fails
  (`os_core_unix.c:2591`); the models have no such failure.

### Bounds

`tls_cells`: three threads for two slots, so that the table is full, and each key
changes hands three times, below the counter's modulus of four. `grplock`: two
threads, two external locks and two positions, so that a lock is inserted between
two others, and nesting of two. Three threads were not tried. `timer_refines_set`:
two entries, two threads, an initial array of one, so that growth happens.
`timer_structure`: six entries, the fewest for which the node moved by a removal
has to rise; one thread, and cancellations only while three or more run.
`ioqueue_ops`: three threads, two operations per direction for keys with one kind
of operation, writes of two parts. The application calls with fewer than four
frames on the stack: a poll, its drain, the callback and one call from it.
`ioqueue_live`: two threads, one-part writes. `ioqueue_keys`: two keys, two
threads, two registrations, two events in a poll. `activesock`: twelve applications,
buffers of two bytes, messages of three, two immediate reads (`MaxLoop`), two identical
errors (`MaxErrors`), two connections, one or two closers: a message does not fit the
buffer, a message may go out in three parts, and every limit is met.
`objects`: three threads, five thread-local keys, two slots and four plans; three
threads at the event; three threads, three rounds and a generation counter of one bit
at the barrier, so that it wraps; two pools with three size classes; FIFO buffers of
five capacities with a size word of two and blocks of 0 to 7 bytes, so that a buffer
is filled exactly, and one byte more or less. Bounds that cut behaviours off
(`MaxEpoch`, `MaxDepth`, `MaxTime`, `MaxRegs`, `MaxData`) are constants of the
modules and appear in guards.

Deadlock checking is off where a system may stop: when the group lock is
destroyed, when the bounded structure run has used its operations, when an
ioqueue key is unregistered or an active socket closed, and when a plan is used up.

### Fairness

Threads inside a library function go on (weak fairness; strong where they wait
for a mutex, which another thread may take again and again). Threads keep polling
the timer heap and the ioqueue, callbacks return, and time passes. In `ioqueue_live`
a trylock does not fail for ever, and the waits that count to 100 end. In
`grplock`, `EveryCallReturns` also assumes that holders let go. In `activesock`
threads keep polling, application callbacks return and the peer reads what was sent. In
`objects` a thread woken at the barrier gets its mutex in the end. None of it is
assumed for safety properties.

## The proofs

| Module | Theorems |
| --- | --- |
| `ZephyrTlsProofs` | `TypeCorrect`, `SlotsUnique`, `GenerationNonZero`, `TableImplementsCells` |
| `GrpLockProofs` | `NeverDestroyedInUse`, `HandlersRunOnce` |
| `GrpLockChainProofs` | `InsideHoldsAll`, `WalksUnlockOwned` |
| `IoqueueKeysProofs` | `TypeCorrect`, `RefCountsExact`, `NoRecycledKeyDispatched`, `ClosingAssertionsHold`, `CountsExact`, `GroupReferencesExact` |
| `ActiveSockProofs` | `ClosedOnce`, `LateReadsBounded`, `NoConnectionLost` |
| `ActiveSockSendProofs` | `EverySendAnsweredOnce` |
| `SyncProofs` (timer set, event, barrier) | `TypeCorrect`, `ReferencesExact`; `ReleasesNotStranded`, `CountersExact`; `BarrierLockstep` |
| `FifoBufProofs` | `BlocksApart`, `OldestAlwaysFreeable`, `AvailableAlwaysExact` |

*Thread-local table.* For all numbers of keys, slots and threads. The refinement
`TableImplementsCells` assumes that no key changes hands as often as the
generation counter has values. It rests on one slot per thread and on
`StampsInPast`: a value is never stamped with a generation its key has yet to
reach. Without it a new generation could find an old value already carrying it.

*Timer set.* For finite sets of entries and threads (`FiniteTimers`), the group
lock's count is one, plus one per running timer and callback in progress. The
heap inherits it through its refinement, which TLC checks.

*Ioqueue keys.* For finite keys and threads, also with threads slower than the
free delay. `RefCountExact` is not inductive alone: after an unregistration has
begun, the registration's reference belongs to a thread, so `IInv` adds that
there is one such thread per key and that the key is still active and closing
(`DrainsAlone`). It also needs `EventsOfLiveKeys`, or a registration could meet
leftover events of its key, and finiteness of the collected events, for counting. `CountsExact`
follows with the same invariant: only a closing key loses its last reference.
`GroupReferencesExact` is proved for threads not slower than the free delay (`~Slow`): with
slower ones it is false. Beside `IInv` it needs `GroupsKept`: a thread that is to give back a
reference reads the group lock from a key that is neither free nor about to be, so that it is still
the one the reference was taken on.

*Group lock.* For finite sets of threads, any locks, positions and nesting. The
count is that of a set of tokens: one for the reference a thread took, one per
level of its nesting, one while it releases (`Tokens`). With it the invariant has what keeps the lock
alive for a thread inside a call (`Justified`): without that the last reference could
go while a thread waits. The list and the mutexes do not enter, so this holds with
locks chained in front as well.

The locks held are proved under the condition that no lock is chained in front
(`\A p \in Positions : p > 0`), which `grplock_chain_before` shows to be necessary. `ChainInv` says
for every thread and lock how often the thread has it (`Level`): its nesting, one more for the
items a walk has behind it (acquiring) or still before it (releasing, rolling back), and what it
took outside the group lock. It says as well that the mutexes agree with that (`Mutexes`),
and that a walking thread's item is still in the list (`Places`). The last is the hard part: a walk keeps a
pointer into a list that others change. The own mutex is the first item, so a thread past it
owns it, and only that thread can change the list; a thread in front of it has the first item, which
never goes.

*Active sockets.* For any number of closers and read operations and any application the
model allows. `ClosedOnce` needs that the key is taken under the lock by one closer;
`LateReadsBounded` that a read operation on a closing key is not begun again. `NoConnectionLost`,
for any finite set of accept operations (`IsFiniteSet(AcceptOps)`), counts the connections
that are between accept() and their callback. `EverySendAnsweredOnce` rests on where a send can be for each return value and number of
answers (`Phase`), on pending writes being in the list once (`WritesListed`), and on who is
still to take a write out of it: after unregistration a closer drains the list before it returns.

*Event.* For any finite, non-empty set of threads. The two properties are proved
together: a pulse can rely on `threads_waiting` only because it is exact.

*Barrier.* For any finite set of threads and any width of the generation. `RoundInv`: the
count is the number of threads in the present round, those carry the present generation,
and the others have entered as many rounds as they left.

*FIFO buffer.* For every capacity, size word and sizes. The ring (`Ring`) has the
older blocks at `ubegin` or above and the younger ones below it, each group in order of
age and the youngest ending at `uend`; the oldest lies at `ubegin`, or at 0 when
`ubegin` points at a skipped end. That case is why no-overlap alone is not inductive.

What is only model-checked, and why:

- All liveness. TLAPS has no rules for fairness here.
- The timer heap's arrays (`HeapOrdered`, `IndexConsistent`, `FailedGrowthContained`) and that the
  heap implements the timer set: the reheap functions are recursive operators.
- `BooksBalanced` and `WholeDataSent`: sums over sets of pools and a filtered sequence, which need
  induction over data.
- `DataIntact`, the ioqueue operations (`IoqueueOps`), lifecycle, exceptions and the other
  properties of pools: not proved so far.

## What the models say about the code

Three findings are runs of their own (`grplock_chain_before`,
`ioqueue_concurrent_drain`, `activesock_overlapping_sends`). Other places where the code may surprise
a caller are recorded as hazards, with the
assumption under which the checked properties hold:

- `post_completion` of one of several pending reads takes the key out of the read
  set (`ioqueue_common_abs.c:1603`), and the end of a connect does the same to
  queued writes (`:234`); the service of reads and writes is checked for
  applications that do not mix these.
- An operation queued while `clear_key` waits for a callback stays in its list
  without its bit (`:1730`); service is not claimed of an application
  that clears keys.
- A second poller that finds the socket full ends the write with would-block
  instead of keeping it queued (`:388`).
- The group lock is read from a key whose reference was given back
  (`ioqueue_select.c:607`, `:1143`); only the free delay makes that safe. With
  `Slow = TRUE`, `GroupRefsExact` fails.
- While keys wait in the closing list, the assertion of registration that the
  free list is not empty (`ioqueue_select.c:409`) can fail.
- When growth of the timer heap fails, the entry keeps the id it was given
  (`timer.c:522`): it looks scheduled until it is cancelled, and the id never returns to
  the free list. `timer.c:176` says that `timer_ids_freelist` points to an element "contained within
  the <timer_ids_> array"; once the ids left are used up it does not, and the next schedule
  reads past the array.
- A listener stops for good after enough identical errors in a row, and its
  accept loop, unlike the read loop, has no limit on immediate results.
- A read whose remainder fills the buffer is answered with `PJ_EEOF` (`activesock.c:641`), again
  and again, while the peer is still connected.
- In the shutdown path the answer of a partly sent message has the count of its last part only
  (`activesock.c:783`).
- A thread that comes late, or a trywait, can take a release of a manual pulse, so that a
  thread that was already waiting stays (`os_core_unix.c:2389`), although
  `include/pj/os.h:1146-1148` says that a pulse of a manual event "will release all waiting threads". A pulse on a set event
  that nobody waits for leaves it set, and a reset directly after a set cancels releases
  not yet taken.
- A failed `pj_init` undoes nothing; repeated failures use up the thread-local keys
  (`os_core_unix.c:256`). A foreign thread still registered at `pj_shutdown` can no longer unregister,
  and keeps its slot until it registers again. A worker that finds the table full runs
  without a descriptor.
- Destroying the caching pool leaves its counters as they were; it must be initialised
  again before use.

## Not modelled

- *Other libraries of the tree.* The repository carries all of PJPROJECT. PJSIP, PJMEDIA,
  PJNATH and the utilities are outside the port (`src/docs/PJLIB_ZEPHYR_PORT_PLAN.md`),
  and most of the tree's lines are theirs; the models cover PJLIB, and of it the parts with
  state that several calls or threads share.
- *Hash table, red-black tree, lists.* Sequential, no shared state; what they compute for
  all inputs needs induction that neither TLC nor the provers used here can give.
- *Strings, formatting, files, addresses, error texts, random numbers, GUIDs.* Pure
  functions or I/O.
- *Sockets and SSL.* System calls, seen as the nondeterministic socket of `IoqueueOps` and
  `ActiveSock`; SSL is configured out.
- *`pj_grp_lock_replace`, forced destruction of a group lock, destruction of the ioqueue, events and
  barriers.* The caller must be the only user; there is nothing to interleave with.
- *Log output and indentation, thread priorities, sleeping and joining.* They change no
  state of the library.
- *Pool on a caller's buffer, debugging pool.* The first is a pool without growth, the second is
  configured out.
