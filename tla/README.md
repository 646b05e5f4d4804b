# A TLA+ model of tRPC-Cpp

TLA+ modules for the parts of tRPC-Cpp whose correctness depends on the order in
which threads, fibers, timers and messages interleave, the TLC configurations
that check them on small instances, and proofs checked by TLAPS. Paths below are
relative to `src/trpc/` unless they start with `src/`.

`PROJECT.json` holds the index: the components, the runs with their properties,
the lines of code each definition models (`map`), for each property a plausible
bug that breaks it (`mutants`), the hazards and the theorems.

## 1. The system and its parts

tRPC-Cpp is an RPC framework in three layers.

* **Runtime** (`runtime/`). The *fiber* thread model runs many fibers on a few
  worker threads (M:N). Workers of a scheduling group share a run queue, sleep
  when it is empty and are woken by whoever makes a fiber ready. There are two
  schedulers, `v1` (ring buffer plus bit masks of sleeping and spinning workers)
  and `v2` (global queue, per-worker stealing queues, a queue of reactor fibers,
  and an event count for sleeping). On top of the scheduler are the blocking
  primitives of fibers (`fiber/detail/waitable.{h,cc}`): Mutex, ConditionVariable,
  Event, WaitableTimer, which plain pthreads may use as well. The *merge* and
  *separate* models use plain threads. The reactor and connections do the I/O.
* **Transport** (`transport/`): connectors, connection groups and call maps of
  clients; acceptors and connections of servers.
* **RPC** (`client/`, `server/`, `stream/`, `codec/`, `future/`, ...): proxies,
  services, streams, codecs, plugins.

How the modelled parts interact:

```
   users of streams           TrpcStream  -----  FlowControl
                                  |  messages of one connection
   stream job scheduler       StreamScheduler
                                  |  fibers, mutexes, condition variables
   blocking primitives        FiberCondVar --extends--> FiberMutex     FiberEvent
                                  |  Suspend / Resume                  (=> FifoLock)
   schedulers                 FiberScheduling (v1)        FiberSchedulingV2
                                  |                         |           |
   queues and sleeping        RunQueue               LocalQueue   PredicateNotifier
                                                                  (=> EventCount)
```

`=>` is a refinement. `FiberSchedulingV2` is built on `EventCount`, the abstract
specification that `PredicateNotifier` is shown to implement.

All components, modelled or not, are in `PROJECT.json`; section 8 says why the
others are left out and section 9 which of them come next.

## 2. The modules

Each specification module has one action per step of the code that other threads
can observe. A step is an atomic operation, a critical section of a lock that is
not held across steps, or the part of a handler between two such points. Locks
that are held across steps are variables. Definitions keep the names of the code.

| module | models | state | actions |
|---|---|---|---|
| `FiberMutex` | `Mutex` of `waitable.{h,cc}` | `count_`, `slow_path_lock_`, the chain of WaitBlocks, `is_post_`, the fibers' `scheduler_lock`, the futex words, a program point per agent | `TryLock`, `LockSlowPath`, `FetchAdd`, `AddWaiter`, `Suspend`, `FutexWaitReturns`, `FetchSub`, `WakeOne`, `ResumeFiber`, `SwitchToFiber`, `WakePthread` |
| `FifoLock` | what the mutex promises: first come, first served | a queue and who is inside | `Announce`, `Enter`, `AnnounceAndEnter`, `Leave` |
| `FiberCondVar` | `ConditionVariable` and the `AsyncWaker` of timed waits; extends `FiberMutex` | the chain of WaitBlocks of the condition variable, the timers, where each waiter and notifier is | the steps of `wait_until` from a fiber and from a pthread, `notify_one`, `notify_all`, the timer callback, the lock and unlock of the mutex in between |
| `FiberEvent` | `Event`, `OneshotTimedEvent`, `WaitableTimer` | `persistent_awakened_`, the chain, `event_set_guard`, futex words | the steps of `Wait` (fiber and pthread) and `Set` / `IdempotentSet` / `OnTimerExpired` |
| `RunQueue` | `scheduling/v1/run_queue.{h,cc}` | the nodes (`seq` and fiber), head and tail, the registers of each thread | `Push`, `BatchPush`, `Pop`, `Steal`, one shared-memory access per step |
| `FiberScheduling` | `scheduling/v1/scheduling_impl.cc` | the spinning and sleeping masks, each worker's `WaitSlot`, the queue, store buffers of pushers | the worker's loop (`AcquireFiber` in two accesses, spin, deep sleep), `QueueRunnableEntity`, `StartFibers`, `WakeUpOneWorker`, `WakeUpWorkers`, `Stop` |
| `PredicateNotifier` | `util/thread/predicate_notifier.h` | `state_` (stack, count of pre-waiters, epoch modulo `EpochMod`), the Waiter records | `PrepareWait`, `CommitWait`, `CancelWait`, `Notify` (all or one), `Park`, `Unpark` |
| `EventCount` | what the notifier promises | announced, sleeping and notified waiters | the same operations, each atomic |
| `LocalQueue` | `scheduling/v2/local_queue.cc` | `top_`, `bottom_`, the array | `Push`, `Pop` of the owner, `Steal` of thieves |
| `FiberSchedulingV2` | `scheduling/v2/scheduling_impl.cc` on `EventCount` | the three kinds of queue by their lengths, the workers' program points | `Schedule`, `WaitForFiber`, `ExploreTask`, `AcquireReactorFiber`, `StartFiber` (refused by a full queue) and `Resume` (waits for room) from outside, `StartLocal`, `StartOverflow` and `Yield` on a worker, `Stop` |
| `StreamScheduler` | `stream/fiber_stream_job_scheduler.cc`, `stream/trpc/trpc_stream_handler.cc` | the handler's map of streams and `mutex_`; per stream its two queues, `running_`, `terminate_`, `done_`, `stream_mutex_`, the Run fiber | `CreateStream`, `FindStream`, `PushMessage`, the steps of `Run`, of the stream's and the handler's `Stop` and `Join`, `RemoveStream` |
| `TrpcStream` | `stream/common_stream.cc`, `stream/trpc/trpc_stream.cc`, `trpc_client_stream.cc`, `trpc_server_stream.cc` | both ends of one stream (state, receive and send queues, error, EOF), the frames on their way, the users, a `plan` of what they write and of the faults to come | handlers and senders of INIT, DATA, FEEDBACK, CLOSE and RESET frames as functions from an end to its result; `Start`, `Read`, `Write`, `WriteDone`, `Finish`, timeouts in several steps, frames that cannot be decoded, loss of the connection |
| `FlowControl` | `stream/trpc/trpc_stream_flow_controller.h` and its use in `trpc_stream.cc` | window, consumed bytes, feedback on its way, the writer | `Write`, `Read`, `HandleFeedback`, `OnError`, `OnFinish` |
| `FiberMutexProof` | theorems about `FiberMutex` | | |

An `MC...` module gives the constants of its specification their values, with a
`.cfg` of the same name; a second `.cfg` (`MCFiberSchedulingV2Full`,
`MCFiberQueuesBatch`) is a second run. `MCFiberQueues` checks the two queues, which
have nothing in common, in one run: its initial states choose one of them and the
other does not move. Definitions named after another one with a suffix
(`FetchSubOffByOne`, `WakeOneLifo`, ...) are the mutants: they are used by no
specification, only put in the place of the definition that follows them.

Abstractions that hold throughout:

* A fiber, a message, a size, a key is a model value or a small number.
* Suspending a fiber is two steps, the decision to sleep and the release of
  `scheduler_lock` after the context switch; a resumer must get that lock. That is
  what keeps a wake-up from resuming a fiber that still runs.
* The loop in `FutexNotifier::Wait` hides spurious returns, so these are no steps;
  the mutants `FutexWaitSpurious` show what would happen without the loop.
* Atomic operations are sequentially consistent, with one exception:
  in `FiberScheduling` a pusher's store to the queue may become visible after its
  relaxed loads of the masks (`buffered`), since the code leaves that open.

## 3. The runs

Every passing run is exhaustive. The properties of `batch_push_full` and
`fiber_sched_v2_full` are violated (observations 1 and 4), all others hold.

| run | instance | what it shows |
|---|---|---|
| `fiber_mutex` | two fibers of one group, one of another, one pthread | `MutexInv` (the inductive invariant of section 6); `MutualExclusion`; `WakeOneFindsAWaiter`, the `TRPC_CHECK(wb)` of `unlock()`; `ImplementsFifoLock`, no agent overtakes one that counted itself in; `ChainedGetsMutex`, no wake-up is lost |
| `fiber_condvar` | a fiber waiting twice, the first time with a deadline; a pthread waiting once; a fiber and a pthread that notify, with or without the mutex | WaitBlocks are touched only while they live (`TouchedBlockIsAlive`), a fiber is resumed once per wait though notifier and timer race (`ResumedOnce`), a timeout is reported only if no notification was consumed (`TimeoutLosesNoNotify`), waits of fibers return (`FiberWaitReturns`) |
| `fiber_event` | two fibers, one pthread, three setters, two of them one-shot | `WaitReturns`, `NoReturnBeforeSet`, `BlocksAlive` |
| `fiber_queues` | `RunQueue`: ring of 4; one pusher, one batch pusher of 2, one popper, one thief; one entity that must not be stolen. `LocalQueue`: capacity 2, two thieves, 4 entities | `FirstInFirstOut`, `FilledNodeIsFree` (the `TRPC_CHECK_EQ`), `StealsNoLocal`, `BatchPushReturns`; `TakenOnce`, `NoneLost` |
| `batch_push_full` | `RunQueue`: ring of 2, batches of 2 | **violation** of `EveryBatchPushReturns`: see observation 4 |
| `fiber_sched` | 2 workers, at most one spinner, a pusher, a batch of two, Stop | the `TRPC_CHECK`s of the worker's loop (`ChecksHold`), `ReadyFiberRuns`, `StoppedLeaves` |
| `predicate_notifier` | 2 waiters, 2 notifiers with one task each, Notify of one or all | `NotifierInv`, `ImplementsEventCount`, `TasksGetDone`, `WaitersDecide`, across the overflow of the epoch |
| `fiber_sched_v2` | 2 workers, one of which may run a fiber that never ends; 0 or 1 reactor fibers; a global queue of 2, local ones of 1; Stop | the counts of thieves and actives (`SchedInv`), `GlobalFiberRuns`, `LocalFiberRuns`, `StoppedLeaves` |
| `fiber_sched_v2_full` | the same without reactors and endless fibers | **violation** of `PushedFiberRuns`: see observation 1 |
| `stream_scheduler` | two streams on one connection, one stopped by its user, 2 and 1 messages | `running_` means one Run fiber (`StreamInv`), `SilentAfterJoin`, `AcceptedIsTaken`, `JoinReturns` |
| `trpc_stream` | three plans: who writes how many messages, after which reads a FEEDBACK is due, and how many faults (a timeout, an undecodable frame, loss of the connection) there may be; every status | `InOrder`, `EofComplete`, `OkMeansServed`, `FrameOrder`, `FinishGetsResult` |
| `flow_control` | window 4, messages of 1, 3 and 5, five writes | `CreditConserved`, `WriteReturns` |

Some liveness properties are implications whose premise excludes behaviours in
which the code really can get stuck: `ReadyFiberRuns` (no delayed store),
`GlobalFiberRuns` (a queue that does not stay full), `BatchPushReturns` (batches
smaller than the ring, and not overtaken for ever: `head_seq_` stops moving),
`AcceptedIsTaken` and `JoinReturns` (no `LockCycle`). `StoppedLeaves` has an
exception in each scheduler: in v1 the queue need not be drained if every worker was
between its `Pop()` and its load of `stopped_` when the flag was set (`missed`), in
v2 a worker need not leave that waits for room in the full global queue. The models
contain those behaviours and section 7 describes them.
Runs with `CHECK_DEADLOCK FALSE` are of systems that may stop, because the bounded
work is done; `fiber_mutex` has no such end and checks deadlock.

## 4. Bounds, and why they suffice

* *Agents.* Every hand-over in these primitives involves at most an owner, one that
  is being woken and one that arrives. `fiber_mutex` has four agents so that all
  three and a queued one are there together, with fibers of the same and of
  another group (direct switch or queueing in `unlock()`) and a pthread (futex).
* *Waits* (`MaxWaits`). The second wait of a fiber lets a late timer callback or
  notifier of the first wait meet a new WaitBlock.
* *Ring sizes.* `RunQueue` wraps: five claims (`MaxSeq`) in a ring of four.
  `LocalQueue` with capacity 2 and four entities (`MaxPushed`) reuses each slot.
* *Epoch* (`EpochMod` = 32). It starts `2 * |Waiters|` below the overflow as in the
  constructor, and overflows within the run; the signed comparison is modelled.
* *Fibers made ready* (`MaxPushes`, `MaxStarts`). A lost wake-up needs one fiber and
  a worker on its way to sleep; the second shows that an earlier wake-up claimed by
  a worker that does not need it does not hide the later one; in `v2` four calls fill
  the global queue of two and the local one of one, and leave a call to be refused or
  to wait. In `v1` the queue is large enough never to fill, and `Stop` comes when at
  most one fiber was made ready (`MaxBeforeStop`) and no push is under way, as the
  `TRPC_DCHECK` of `QueueRunnableEntity` asks.
* *Threads that push.* `v1` has one pusher and one that calls `StartFibers`; a worker
  that makes a fiber ready takes the same steps as the pusher. `v2` has one pusher
  beside the two workers.
* *Two workers in `v2`* never meet the limit on thieves: `num_thieves_ > N / 2`
  (`scheduling_impl.cc:134`) needs a third one, and with three the state space is out
  of reach. That branch skips `ExploreTask` and joins the others at `PrepareWait`.
* *Spinners* (`kMaximumSpinners` = 1 with two workers; 2 in the code) so that the
  limit is reached with a worker left to sleep.
* *Streams and messages.* Two streams so that `Stop` of the handler is between two
  of them when something happens to either; two messages so that one is queued
  while the other is handled.
* *Plans* of `TrpcStream`. Each plan limits what the users write and the faults still
  to come, so that feedbacks, faults and messages in both directions occur, though
  not all of them in their largest number at once.
* *Window.* 4 with messages of 1, 3 and 5: exactly exhausted, overdrawn and larger
  than the window altogether.

## 5. Fairness

* Weak fairness for every step inside an operation: threads and workers are
  scheduled by the kernel, and fibers that run end or suspend (but for the `Hogs` of
  `FiberSchedulingV2`). In `FiberScheduling` it is one condition per thread: nothing
  is assumed of how long a worker spins.
* Calling an operation is never fair: no user owes a lock, a notification, a `Set`, a
  write or a `Stop`. The only timer that has to expire is that of a timed wait on a
  condition variable. Leaving a critical section is (a mutex whose owner keeps it for ever
  promises nothing), the reader of `FlowControl` reads, and the service of
  `TrpcStream` reads and returns.
* Strong fairness in one place, the spin lock `slow_path_lock_` and the
  compare-and-swap of the mutex: an agent that finds them free again and again gets
  them in the end.

## 6. What is proved

`FiberMutexProof` proves, for any sets of fibers and pthreads and any assignment of
fibers to groups, from `AgentsAssumption` alone (the two sets are disjoint and do
not contain the value that stands for nobody):

* `MutexInvariant`: `MutexSpec => []MutexInv`, type correctness included;
* `MutexIsExclusive`: `MutexSpec => []MutualExclusion`;
* `UnlockFindsWaiter`: `MutexSpec => []WakeOneFindsAWaiter`.

Neither property is inductive. When `unlock()` has decremented `count_` and found
waiters, nobody is in the critical section and nobody may enter it; a pthread whose
futex has been woken owns the mutex before it runs. `MutexInv` therefore speaks of
a *token*: the owner has it, then the `unlock()` that hands over, then the woken
agent. There is at most one (`OneToken`); the chain and the WaitBlock in
`unlock()`'s hands belong to distinct agents that sleep (`ChainSleeps`,
`TargetSleeps`); whoever is between the increment and `AddWaiter` holds
`slow_path_lock_` (`SlowPathLocked`); and `count_` is exactly the chain, plus the
agent about to be chained, plus the token, except while `unlock()` still has to pick
(`CountIsExact`). The last gives both theorems: the fast path needs `count_ = 0`,
hence no token; and `unlock()` past its decrement with `slow_path_lock_` free finds
`count_ > 0`, nobody adding and no token counted, hence a chain that is not empty.
`TypeStep` and `InvStep` go through the actions one by one.

Only model-checked: all liveness properties (fairness and ENABLED are outside the
prover), both refinements, and the invariants of the other modules. What `StackFrom`
of `PredicateNotifier` and the folds over sequences of `FlowControl` compute would
need induction over data, which is out of the prover's reach too.

## 7. Observations

Places where the model and a comment, an assertion or the evident intention of the
code differ. The first and the fourth are runs of their own. For the others the
properties of the passing runs are stated so that they hold of the code as it is. In
2, 3, 7, 8, 10, 11, 13, 14 and the first part of 9, lifting the restriction that is
named makes TLC produce the behaviour described; 5, 6, 12, 15 and the rest of 9 come
from reading the code and are restricted by no property.

1. **A full global queue counts as empty (v2).** `RunQueue::UnsafeSize`
   (`scheduling/v1/run_queue.cc:139`) returns 0 when the queue holds `capacity_`
   entities; the header says "The size of queue" (`run_queue.h:93`). In the
   run `fiber_sched_v2_full` both workers explore and find nothing; two `StartFiber`s
   then fill the queue, and their `Notify(false)` finds nobody waiting yet; both
   workers call `PrepareWait`, read a size of 0 (`v2/scheduling_impl.cc:148`), find
   the local queues empty and go to sleep. A push that waits for room (`Resume`,
   `:420`) notifies only after it has succeeded and cannot wake them. A later
   `StartFiber` from outside is refused, but its `Notify(false)` (`:291`) wakes one.
2. **Lost wake-up of a pthread in a condition variable.** `WaitUntilFromPthread`
   chains its WaitBlock (`waitable.cc:356`) before it reads the state of its futex
   (`:357`). A `notify_one` without the mutex in between has no effect.
   `Event::WaitFromPthread` has the order right and says why ("Must get state
   before AddWaiter.", `:451`). `FiberWaitReturns` is stated for fibers.
3. **Deadline of a pthread in a condition variable.** When the wait times out, the
   result of `TryRemoveWaiter` (`waitable.cc:361`) is ignored, so `wait_until` may
   return while a notifier still holds the popped WaitBlock (`:378`), which lives on
   the waiter's stack; compare "(so as not to induce use-after-free.)"
   (`waitable.h:38-40`). The run gives deadlines to fibers only.
4. **`BatchPush` of `capacity_` entities never returns** (`run_queue.cc:73-75`):
   the node behind the range is the first one of the range, and its `seq` is neither
   that of a free range nor that of an overrun, while the header says "Returns `false`
   on overrun." (`run_queue.h:61`). Run `batch_push_full`; `BatchPushReturns` is about
   smaller batches.
5. **`WakeUpWorkers` clears the bit after the one it means (v1).**
   `__builtin_ffsll` is one-based (`scheduling_impl.cc:577`; "Wake up workers with
   lowest indices.", `:572`). With workers 0, 1 and 2 asleep `WakeUpWorkers(2)`
   claims worker 1 only; with 0 and 2 asleep `WakeUpWorkers(1)` claims nobody.
   Modelled as it is (`BitsCleared`). When nobody is claimed some worker is not
   asleep and comes back to the queue, so the fibers run, but later than meant.
6. **A spinner that has already acquired a fiber can be claimed (v1)**
   (`scheduling_impl.cc:533`). The comment "This is okay though, as we'll try
   `AcquireFiber()` when we leave anyway" (`:205-206`) does not hold on that path
   (`:234`). The pushed fiber waits until a worker comes back to the queue although
   another one sleeps. `ReadyFiberRuns` only asks that it runs eventually.
7. **Relaxed loads of the masks (v1).** The loads at `scheduling_impl.cc:529` may be
   satisfied before the store that publishes the queue node is visible (the code
   asks "Is "relaxed" order sufficient here?", `:528`). The fiber is then queued and
   all workers sleep. `ReadyFiberRuns` is stated for behaviours without that delay.
8. **Opposite lock orders of streams and their handler.**
   `FiberStreamJobScheduler::Stop` (`fiber_stream_job_scheduler.cc:95`) removes the
   stream from the handler (`mutex_`) while it holds `stream_mutex_`;
   `TrpcStreamHandler::Stop` (`trpc_stream_handler.cc:84`) pushes to the stream
   (`stream_mutex_`) while it holds `mutex_`. `JoinReturns` and `AcceptedIsTaken`
   exclude it by `LockCycle`.
9. **Stream status.** An error that the service itself returns makes `Read` return
   queued messages together with that error (`common_stream.cc:167`), so a reader
   that stops at the first error misses them (`EofComplete` excepts that status).
   Messages in the send queue after `HandleClose` turn a finished stream into a
   failed one (`trpc_client_stream.cc:247` against the comment at `:155`). `Finish`
   without `WriteDone` does not tell the service (`trpc_client_stream.cc:126`
   against "an EOF will be sent to the server automatically", `stream.h:194`).
10. **A writer blocked by flow control when the stream ends.** `OnError` notifies
    without `flow_control_mutex_` (`trpc_stream.cc:74`), so it can miss a writer on
    its way to the wait; `OnFinish` (`common_stream.cc:368`) does not notify.
    `WriteReturns` therefore ends with the stream.
11. **The window grows.** A write that had to wait does not reduce the window
    afterwards (`trpc_stream.cc:65`), so each such write adds its size to what may
    be unread. `CreditConserved` keeps that surplus in `free`.
12. **v2 `Resume` ignores a refused push** (`scheduling_impl.cc:418`): the fiber is
    ready and in no queue. The model of `v2` has the refusal (`StartOverflow`) but
    counts fibers instead of naming them, so no property speaks of the one that is
    lost.
13. **`Stop` may leave a fiber queued (v1).** `AcquireFiber` pops
    (`scheduling_impl.cc:154`) and then loads `stopped_` (`:170`). If every worker has
    got nullptr, a fiber is pushed and `Stop` sets the flag before any of them loads
    it, all leave and the fiber stays in the queue. `StoppedLeaves` excepts it
    (`missed`).
14. **A fiber that yields waits for room in the global queue (v2).** Its own worker
    puts it back and retries while the queue is full (`scheduling_impl.cc:411`). If
    all the other workers do the same, or have left after `Stop`, nobody makes room.
    `StoppedLeaves` excepts such a worker.
15. **`Start` writes the status without its lock** when it times out
    (`common_stream.cc:229`), while the Run fiber may write or read it under the lock.
    The model lets either write come last and does not model a torn value.

## 8. What is not modelled

The reasons for each part are in `PROJECT.json`. In short:

* *I/O and external libraries*: sockets, epoll, io_uring, OpenSSL, nghttp2,
  serialization, compression.
* *Sequential or stateless code*: codecs, filters, configuration, plugins, admin,
  logging, naming lookups, the code generator.
* *Statistics*: percentile limiters, metrics, `tvar`.
* *Within the schedulers*: stealing between scheduling groups and a full run queue
  (v1: the retries of `QueueRunnableEntity` and `StartFibers`, and the refusal after
  two seconds); the allocation of stacks; memory orders other than the one delay
  named in section 2.
* *Within the primitives*: the destruction of an `Event` (only that of WaitBlocks is
  modelled); `WaitableTimer`, whose `wait` and `OnTimerExpired` repeat the code of
  `Event`, has no actions of its own.
* *Within streams*: the non-fiber mode and the asynchronous API; failures to encode a
  frame; the `default` branches of `HandleRecvMessage` and `HandleSendMessage`, which
  no message reaches; the response that `WriteDone` reads in a client-streaming call
  (`trpc_client_stream.cc:83-103`). `TrpcStreamHandler::Join` iterates over the map
  without the lock (`trpc_stream_handler.cc:110`); the model visits the streams that
  are there at the start, so an erase under the iterator is not seen.

## 9. Plan

The order of the work, each item with the question it answers:

1. *Synchronisation on top of the primitives*: latch, shared mutex, sequence lock,
   timed mutex, blocking bounded queue and buffer. Abstract specifications, and the
   code on top of `FiberMutex`'s promise (`FifoLock`) shown to implement them.
2. *Life of a fiber and timers*: start, join, suspend and resume with fiber
   identities in the `v2` scheduler (observation 12); `TimerWorker` with its
   cancellation against firing.
3. *Fiber client transport*: the sharded call map; a late answer against the timeout
   and against reuse of the request identifier; closing a connection with calls
   outstanding.
4. *Connections*: the write path and the clean-up of `FiberTcpConnection`; removal of
   a connection from the server's table against its use.
5. *Futures*: `SetValue` against `Then`, `WhenAll`, the asynchronous lock.
6. *Thread models and util*: the steal scheduler of the separate model, bounded MPMC
   and SPMC queues, hazard pointers; counters of the overload limiters.

Runs will be merged or replaced as this grows, so that each still answers one
question.

Proofs planned, in this order: `CreditConserved` of `FlowControl`; `SchedInv` of
`FiberSchedulingV2`; the invariants of `StreamScheduler`; `FirstInFirstOut` and
`FilledNodeIsFree` of `RunQueue`; `TakenOnce` and `NoneLost` of `LocalQueue`;
`ImplementsFifoLock` and `ImplementsEventCount`; `MutualExclusion` of the mutex
under the condition variable.
