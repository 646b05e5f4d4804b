-------------------------- MODULE FiberScheduling --------------------------
(***************************************************************************)
(* How a scheduling group of the v1 scheduler puts its workers to sleep    *)
(* and wakes them up (runtime/threadmodel/fiber/detail/scheduling/v1/      *)
(* scheduling_impl.cc).  All accesses are `relaxed`; a step is one of      *)
(* them.  Other groups to steal from are left out.                         *)
(*                                                                         *)
(* The run queue is the one of RunQueue: a push claims nodes and fills     *)
(* them later, one by one, and Pop returns nullptr while the first node is *)
(* not filled. It is never full here.                                      *)
(***************************************************************************)
EXTENDS Integers, Sequences, SequencesExt, FiniteSets, FiniteSetsExt

CONSTANTS N,           \* group_size_
          Pushers,     \* threads that start or resume fibers
          Batchers,    \* threads that call StartFibers
          Fibers,      \* numbers; which of them is started does not matter
          kMaximumSpinners, \* 2 in the code
          Batch,       \* how many fibers StartFibers gets
          NoFiber,     \* nullptr
          ShuttingDown, \* kSchedulingGroupShuttingDown
          MaxPushes,   \* bound: fibers made ready
          MaxBeforeStop \* bound: fibers made ready before a Stop()

Workers == 0..(N - 1)
Threads == Workers \cup Pushers \cup Batchers
Large == 1000  \* 0x4000'0000 of PersistentWake: no number of calls changes it

ASSUME SchedulingAssumption ==
    /\ N \in Nat \ {0} /\ Batch \in Nat \ {0}
    /\ kMaximumSpinners \in Nat \ {0}
    /\ Fibers \subseteq Nat /\ NoFiber # ShuttingDown
    /\ {NoFiber, ShuttingDown} \cap (Fibers \cup Threads) = {}

VARIABLES
    queue,    \* the nodes of run_queue_ from tail to head: the fiber, and
              \* the thread that has yet to fill the node, or NoFiber
    spinning, \* spinning_workers_
    sleeping, \* sleeping_workers_
    pending,  \* pending_spinner_wakeup_
    slot,     \* wait_slots_[i].wakeup_count_
    stopped,  \* stopped_
    toStop,   \* the wait slots Stop() has still to wake
    missed,   \* history: when Stop() was called every worker had got nullptr
              \* from the queue and not yet loaded stopped_
    pc,       \* where a worker is in Schedule(), a pusher in its call
    fiber,    \* the fiber a worker has acquired
    wk,       \* where a thread is in WakeUpOneWorker or WakeUpWorkers
    pick,     \* the workers it has loaded from a mask, and means to claim
    want,     \* WakeUpWorkers: the `n` that is left
    pushes    \* fibers made ready so far

vars == <<queue, spinning, sleeping, pending, slot, stopped, toStop, missed, pc,
          fiber, wk, pick, want, pushes>>

(* Where a worker is between Pop() and its load of stopped_.               *)
Looked == [acquire |-> "acquired", spin |-> "spun", afterspin |-> "afterspun",
           recheck |-> "rechecked", woken |-> "rewoken"]
WorkerPlaces == DOMAIN Looked \cup {Looked[l] : l \in DOMAIN Looked} \cup
    {"tryspin", "spinning", "endspin", "pend", "mark", "unmark", "wait", "asleep",
     "clear", "run", "left"}

SchedTypeOK ==
    /\ queue \in Seq([f : Fibers, by : Pushers \cup Batchers \cup {NoFiber}])
    /\ spinning \subseteq Workers
    /\ sleeping \subseteq Workers
    /\ pending \in BOOLEAN /\ stopped \in BOOLEAN
    /\ slot \in [Workers -> Nat]
    /\ toStop \subseteq Workers /\ missed \in BOOLEAN
    /\ \A w \in Workers : pc[w] \in WorkerPlaces
    /\ \A p \in Pushers \cup Batchers : pc[p] \in {"idle", "fill", "buffered", "wakeup"}
    /\ fiber \in [Workers -> Fibers \cup {NoFiber, ShuttingDown}]
    /\ wk \in [Threads -> {"no", "spin", "spinclaim", "deep", "deepclaim",
                           "wake", "spins", "all", "some", "someclaim"}]
    /\ pick \in [Threads -> SUBSET Workers] /\ want \in [Threads -> Nat]
    /\ pushes \in 0..MaxPushes

SchedInit ==
    /\ queue = <<>>
    /\ spinning = {} /\ sleeping = {}
    /\ pending = FALSE /\ stopped = FALSE
    /\ slot = [w \in Workers |-> 1]
    /\ toStop = {} /\ missed = FALSE
    /\ pc = [t \in Threads |-> IF t \in Workers THEN "acquire" ELSE "idle"]
    /\ fiber = [w \in Workers |-> NoFiber]
    /\ wk = [t \in Threads |-> "no"]
    /\ pick = [t \in Threads |-> {}]
    /\ want = [t \in Threads |-> 0]
    /\ pushes = 0

Go(t, l) == pc' = [pc EXCEPT ![t] = l]
Wk(t, l) == wk' = [wk EXCEPT ![t] = l]
At(t, l) == pc[t] = l /\ wk[t] = "no"

stopVars == <<stopped, toStop, missed>>
queueVars == <<queue, stopVars>>
maskVars == <<spinning, sleeping, pending, slot>>
wakeVars == <<wk, pick, want>>

(* The fibers that nobody has, so that somebody may make them ready.       *)
Queued == {queue[i].f : i \in DOMAIN queue}
Parked == {f \in Fibers : f \notin Queued /\ \A w \in Workers : fiber[w] # f}

(* run_queue_.Pop() gets the first fiber, or nullptr.                      *)
Popable == queue # <<>> /\ Head(queue).by = NoFiber
Pop(w) == queue' = Tail(queue) /\ fiber' = [fiber EXCEPT ![w] = Head(queue).f]

(* AcquireFiber(), two accesses: Pop(), and if it gets nullptr the load of *)
(* stopped_. Called at `at`, it goes to `found` with a fiber or the mark   *)
(* for the shutdown, or to `none`.                                         *)
AcquireFiber(w, at, found, none) ==
    \/ At(w, at) /\ Popable /\ Pop(w) /\ Go(w, found)
    \/ At(w, at) /\ ~Popable /\ Go(w, Looked[at]) /\ UNCHANGED <<queue, fiber>>
    \/ /\ At(w, Looked[at]) /\ stopped
       /\ fiber' = [fiber EXCEPT ![w] = ShuttingDown] /\ Go(w, found)
       /\ UNCHANGED queue
    \/ At(w, Looked[at]) /\ ~stopped /\ Go(w, none) /\ UNCHANGED <<queue, fiber>>
-----------------------------------------------------------------------------
(* Schedule(): acquire, spin, or sleep for a fiber, and run it.            *)
ScheduleAcquire(w) ==
    /\ AcquireFiber(w, "acquire", "run", "tryspin")
    /\ UNCHANGED <<maskVars, stopVars, wakeVars, pushes>>

(* Mutant: the bit is set by a fetch_or after the count was tested.        *)
TrySpinRacy(w) ==
    /\ At(w, "tryspin")
    /\ spinning' = spinning \cup {w} /\ Go(w, "spin")
    /\ UNCHANGED <<sleeping, pending, slot, queueVars, fiber, wakeVars, pushes>>

(* At most two workers spin; the others go to sleep at once.               *)
TrySpin(w) ==
    /\ At(w, "tryspin")
    /\ \/ /\ Cardinality(spinning) < kMaximumSpinners
          /\ spinning' = spinning \cup {w} /\ Go(w, "spin")
       \/ /\ Cardinality(spinning) >= kMaximumSpinners
          /\ Go(w, "mark") /\ UNCHANGED spinning
    /\ UNCHANGED <<sleeping, pending, slot, queueVars, fiber, wakeVars, pushes>>

SpinAcquire(w) ==
    /\ AcquireFiber(w, "spin", "endspin", "spinning")
    /\ UNCHANGED <<maskVars, stopVars, wakeVars, pushes>>

(* Between two attempts: serve a pending wake-up; go on until the cycles   *)
(* are spent or somebody has cleared our bit.                              *)
Spinning(w) ==
    /\ At(w, "spinning")
    /\ \/ /\ pending
          /\ pending' = FALSE /\ Wk(w, "deep") /\ UNCHANGED pc
       \/ w \in spinning /\ Go(w, "spin") /\ UNCHANGED <<pending, wk>>
       \/ Go(w, "endspin") /\ UNCHANGED <<pending, wk>>
    /\ UNCHANGED <<spinning, sleeping, slot, queueVars, fiber, pick, want, pushes>>

EndSpin(w) ==
    /\ At(w, "endspin")
    /\ spinning' = spinning \ {w}
    /\ Go(w, "afterspin")
    /\ UNCHANGED <<sleeping, pending, slot, queueVars, fiber, wakeVars, pushes>>

AfterSpin(w) ==
    /\ \/ At(w, "afterspin") /\ fiber[w] # NoFiber /\ Go(w, "pend") /\ UNCHANGED <<queue, fiber>>
       \/ fiber[w] = NoFiber /\ AcquireFiber(w, "afterspin", "pend", "mark")
    /\ UNCHANGED <<maskVars, stopVars, wakeVars, pushes>>

(* A spinner that leaves with work asks another to take its place.         *)
AskForSpinner(w) ==
    /\ At(w, "pend")
    /\ pending' = (pending \/ Cardinality(spinning) < kMaximumSpinners)
    /\ Go(w, "run")
    /\ UNCHANGED <<spinning, sleeping, slot, queueVars, fiber, wakeVars, pushes>>

(* Schedule() leaves its loop; or the fiber runs until it suspends or      *)
(* ends: Suspend() and Yield() try the queue before the master fiber.      *)
Run(w) ==
    /\ At(w, "run")
    /\ \/ fiber[w] = ShuttingDown /\ Go(w, "left") /\ UNCHANGED <<fiber, queue>>
       \/ fiber[w] # ShuttingDown /\ Popable /\ Pop(w) /\ UNCHANGED pc
       \/ /\ fiber[w] # ShuttingDown
          /\ fiber' = [fiber EXCEPT ![w] = NoFiber]
          /\ Go(w, "acquire") /\ UNCHANGED queue
    /\ UNCHANGED <<maskVars, stopVars, wakeVars, pushes>>
-----------------------------------------------------------------------------
(* WaitForFiber()                                                          *)
MarkSleeping(w) ==
    /\ At(w, "mark")
    /\ sleeping' = sleeping \cup {w}
    /\ Go(w, "recheck")
    /\ UNCHANGED <<spinning, pending, slot, queueVars, fiber, wakeVars, pushes>>

(* Mutant: the queue is not tested again after the bit is set.             *)
RecheckSkipped(w) ==
    /\ At(w, "recheck")
    /\ Go(w, "wait")
    /\ UNCHANGED <<maskVars, queueVars, fiber, wakeVars, pushes>>

Recheck(w) ==
    /\ AcquireFiber(w, "recheck", "unmark", "wait")
    /\ UNCHANGED <<maskVars, stopVars, wakeVars, pushes>>

(* If somebody has claimed us meanwhile, wake another worker for him.      *)
Unmark(w) ==
    /\ At(w, "unmark")
    /\ sleeping' = sleeping \ {w}
    /\ Wk(w, IF w \in sleeping THEN "no" ELSE "spin")
    /\ Go(w, "run")
    /\ UNCHANGED <<spinning, pending, slot, queueVars, fiber, pick, want, pushes>>

(* WaitSlot::Wait: fetch_sub, and the futex if the count was 1.            *)
SlotWait(w) ==
    /\ At(w, "wait")
    /\ slot' = [slot EXCEPT ![w] = IF @ = Large THEN @ ELSE @ - 1]
    /\ Go(w, IF slot[w] = 1 THEN "asleep" ELSE "woken")
    /\ UNCHANGED <<spinning, sleeping, pending, queueVars, fiber, wakeVars, pushes>>

SlotWoken(w) ==
    /\ At(w, "asleep") /\ slot[w] # 0
    /\ Go(w, "woken")
    /\ UNCHANGED <<maskVars, queueVars, fiber, wakeVars, pushes>>

Woken(w) ==
    /\ AcquireFiber(w, "woken", "clear", "clear")
    /\ UNCHANGED <<maskVars, stopVars, wakeVars, pushes>>

(* The deferred fetch_and clears the bit, whichever way the turn ends. (It *)
(* also follows Unmark, where nothing is left to clear.)                   *)
ClearSleeping(w) ==
    /\ At(w, "clear")
    /\ sleeping' = sleeping \ {w}
    /\ Go(w, IF fiber[w] = NoFiber THEN "mark" ELSE "run")
    /\ UNCHANGED <<spinning, pending, slot, queueVars, fiber, wakeVars, pushes>>
-----------------------------------------------------------------------------
(* WakeUpOneWorker: a spinning worker, else one in deep sleep.  A thread   *)
(* whose stores are buffered must write them out before it can fetch_and.  *)
Flushed(t) == \A i \in DOMAIN queue : queue[i].by # t

WakeUpOneSpinningWorker(t) ==
    /\ wk[t] = "spin"
    /\ \/ spinning = {} /\ Wk(t, "deep") /\ UNCHANGED pick
       \/ /\ spinning # {}
          /\ pick' = [pick EXCEPT ![t] = {Min(spinning)}] /\ Wk(t, "spinclaim")
    /\ UNCHANGED <<maskVars, queueVars, pc, fiber, want, pushes>>

ClaimSpinning(t) ==
    /\ wk[t] = "spinclaim" /\ Flushed(t)
    /\ spinning' = spinning \ pick[t]
    /\ pick' = [pick EXCEPT ![t] = {}]
    /\ Wk(t, IF pick[t] \subseteq spinning THEN "no" ELSE "spin")
    /\ UNCHANGED <<sleeping, pending, slot, queueVars, pc, fiber, want, pushes>>

WakeUpOneDeepSleepingWorker(t) ==
    /\ wk[t] = "deep"
    /\ \/ sleeping = {} /\ Wk(t, "no") /\ UNCHANGED pick
       \/ /\ sleeping # {}
          /\ pick' = [pick EXCEPT ![t] = {Min(sleeping)}] /\ Wk(t, "deepclaim")
    /\ UNCHANGED <<maskVars, queueVars, pc, fiber, want, pushes>>

ClaimSleeping(t) ==
    /\ wk[t] = "deepclaim" /\ Flushed(t)
    /\ sleeping' = sleeping \ pick[t]
    /\ Wk(t, IF pick[t] \subseteq sleeping THEN "wake" ELSE "deep")
    /\ pick' = IF pick[t] \subseteq sleeping THEN pick ELSE [pick EXCEPT ![t] = {}]
    /\ UNCHANGED <<spinning, pending, slot, queueVars, pc, fiber, want, pushes>>

(* WaitSlot::Wake, for one claimed worker after the other.                 *)
WakeSlot(t) ==
    /\ wk[t] = "wake"
    /\ LET w == Min(pick[t]) IN
         /\ slot' = [slot EXCEPT ![w] = IF @ = Large THEN @ ELSE @ + 1]
         /\ pick' = [pick EXCEPT ![t] = @ \ {w}]
         /\ Wk(t, IF pick[t] = {w} THEN "no" ELSE "wake")
    /\ UNCHANGED <<spinning, sleeping, pending, queueVars, pc, fiber, want, pushes>>
-----------------------------------------------------------------------------
(* WakeUpWorkers(n), n >= 2: all the spinners first.                       *)
ClaimAllSpinning(t) ==
    /\ wk[t] = "spins" /\ Flushed(t)
    /\ spinning' = {}
    /\ LET left == Batch - Cardinality(spinning) IN
         /\ want' = [want EXCEPT ![t] = left]
         /\ Wk(t, IF left >= N THEN "all" ELSE IF left >= 1 THEN "some" ELSE "no")
    /\ UNCHANGED <<sleeping, pending, slot, queueVars, pc, fiber, pick, pushes>>

ClaimAllSleeping(t) ==
    /\ wk[t] = "all"
    /\ sleeping' = {}
    /\ pick' = [pick EXCEPT ![t] = sleeping]
    /\ Wk(t, IF sleeping = {} THEN "no" ELSE "wake")
    /\ UNCHANGED <<spinning, pending, slot, queueVars, pc, fiber, want, pushes>>

(* The loop `mask_to &= ~(1 << __builtin_ffsll(mask_to))`: ffsll counts    *)
(* from one, so each turn clears the bit above the lowest one set.         *)
BitsCleared[k \in Nat, mask \in SUBSET Workers] ==
    IF k = 0 \/ mask = {} THEN mask
    ELSE BitsCleared[k - 1, mask \ {Min(mask) + 1}]

LoadSleepers(t) ==
    /\ wk[t] = "some"
    /\ pick' = [pick EXCEPT ![t] = sleeping]
    /\ Wk(t, IF sleeping = {} THEN "no" ELSE "someclaim")
    /\ UNCHANGED <<maskVars, queueVars, pc, fiber, want, pushes>>

(* The compare_exchange of the whole mask.  A loop that has run leaves the *)
(* unsigned `n` at its largest value.                                      *)
ClaimSome(t) ==
    /\ wk[t] = "someclaim"
    /\ LET all == Cardinality(pick[t]) <= want[t]
           to == IF all THEN {} ELSE BitsCleared[want[t], pick[t]]
       IN
         /\ want' = [want EXCEPT ![t] = IF all THEN @ ELSE Large]
         /\ \/ /\ sleeping = pick[t]
               /\ sleeping' = to
               /\ pick' = [pick EXCEPT ![t] = @ \ to]
               /\ Wk(t, IF pick[t] = to THEN "no" ELSE "wake")
            \/ /\ sleeping # pick[t]
               /\ pick' = [pick EXCEPT ![t] = {}]
               /\ Wk(t, "some") /\ UNCHANGED sleeping
    /\ UNCHANGED <<spinning, pending, slot, queueVars, pc, fiber, pushes>>
-----------------------------------------------------------------------------
(* QueueRunnableEntity and StartFibers: claim nodes, fill them, wake up.   *)
Claim(p, k) ==
    /\ At(p, "idle") /\ ~stopped
    /\ pushes + k <= MaxPushes /\ pushes' = pushes + k
    /\ Cardinality(Parked) >= k
    /\ queue' = queue \o [i \in 1..k |-> [f |-> SetToSortSeq(Parked, <)[i], by |-> p]]
    /\ Go(p, "fill")
    /\ UNCHANGED <<maskVars, stopVars, fiber, wakeVars>>

Push(p) == p \in Pushers /\ Claim(p, 1)
StartFibers(b) == b \in Batchers /\ Claim(b, Batch)

(* The first node that p has claimed gets its fiber. With a store buffer   *)
(* the wake-up may start before the store is visible.                      *)
FillNext(p) ==
    LET i == CHOOSE j \in DOMAIN queue :
                queue[j].by = p /\ \A k \in 1..(j - 1) : queue[k].by # p
    IN  queue' = [queue EXCEPT ![i].by = NoFiber]

Fill(p) ==
    /\ p \in Pushers /\ pc[p] \in {"fill", "buffered"}
    /\ FillNext(p)
    /\ Go(p, "wakeup")
    /\ Wk(p, IF pc[p] = "fill" THEN "spin" ELSE wk[p])
    /\ UNCHANGED <<maskVars, stopVars, fiber, pick, want, pushes>>

LoadsBeforeStore(p) ==
    /\ p \in Pushers /\ At(p, "fill")
    /\ Go(p, "buffered") /\ Wk(p, "spin")
    /\ UNCHANGED <<maskVars, queueVars, fiber, pick, want, pushes>>

BatchFill(b) ==
    /\ b \in Batchers /\ At(b, "fill")
    /\ IF Flushed(b) THEN Go(b, "wakeup") /\ Wk(b, "spins") /\ UNCHANGED queue
                     ELSE FillNext(b) /\ UNCHANGED <<pc, wk>>
    /\ UNCHANGED <<maskVars, stopVars, fiber, pick, want, pushes>>

PushReturns(p) ==
    /\ At(p, "wakeup")
    /\ Go(p, "idle")
    /\ UNCHANGED <<maskVars, queueVars, fiber, wakeVars, pushes>>

(* Stop(): the flag, then every wait slot. By then nobody starts fibers.   *)
Stop ==
    /\ ~stopped /\ \A p \in Pushers \cup Batchers : pc[p] = "idle"
    /\ pushes <= MaxBeforeStop
    /\ stopped' = TRUE /\ toStop' = Workers
    /\ missed' = \A w \in Workers : \E l \in DOMAIN Looked : pc[w] = Looked[l]
    /\ UNCHANGED <<queue, maskVars, pc, fiber, wakeVars, pushes>>

(* Mutant: the loop over the slots starts at one.                         *)
PersistentWakeFromOne ==
    /\ toStop # {}
    /\ slot' = [w \in Workers |-> IF w = Min(toStop) /\ w > 0 THEN Large ELSE slot[w]]
    /\ toStop' = toStop \ {Min(toStop)}
    /\ UNCHANGED <<queue, spinning, sleeping, pending, stopped, missed, pc, fiber, wakeVars, pushes>>

PersistentWake ==
    /\ toStop # {}
    /\ slot' = [slot EXCEPT ![Min(toStop)] = Large]
    /\ toStop' = toStop \ {Min(toStop)}
    /\ UNCHANGED <<queue, spinning, sleeping, pending, stopped, missed, pc, fiber, wakeVars, pushes>>
-----------------------------------------------------------------------------
WorkerStep(w) ==
    \/ ScheduleAcquire(w) \/ TrySpin(w) \/ SpinAcquire(w) \/ Spinning(w)
    \/ EndSpin(w) \/ AfterSpin(w) \/ AskForSpinner(w) \/ MarkSleeping(w)
    \/ Recheck(w) \/ Unmark(w) \/ SlotWait(w) \/ SlotWoken(w) \/ Woken(w) \/ ClearSleeping(w)
WakeStep(t) ==
    \/ WakeUpOneSpinningWorker(t) \/ ClaimSpinning(t)
    \/ WakeUpOneDeepSleepingWorker(t) \/ ClaimSleeping(t) \/ WakeSlot(t)
    \/ ClaimAllSpinning(t) \/ ClaimAllSleeping(t) \/ LoadSleepers(t) \/ ClaimSome(t)
PushStep(p) == Fill(p) \/ LoadsBeforeStore(p) \/ BatchFill(p) \/ PushReturns(p)

SchedNext ==
    \/ \E w \in Workers : WorkerStep(w) \/ Run(w)
    \/ \E t \in Threads : WakeStep(t)
    \/ \E p \in Pushers \cup Batchers : Push(p) \/ StartFibers(p) \/ PushStep(p)
    \/ Stop \/ PersistentWake

SchedSpec == SchedInit /\ [][SchedNext]_vars

(* Every thread keeps running, and a fiber that runs ends or suspends some *)
(* time. Nothing is assumed of how long a spinner spins.                   *)
ThreadStep(t) ==
    \/ t \in Workers /\ (WorkerStep(t) \/ Run(t))
    \/ t \in Pushers \cup Batchers /\ PushStep(t)
    \/ WakeStep(t)
SchedFairness ==
    /\ \A t \in Threads : WF_vars(ThreadStep(t))
    /\ WF_vars(PersistentWake)
FairSchedSpec == SchedSpec /\ SchedFairness
-----------------------------------------------------------------------------
(* Types; and the TRPC_CHECKs of the worker's loop hold. No more workers   *)
(* spin than allowed, which WakeUpWorkers relies on when it claims them    *)
(* all. The count of a WaitSlot is zero only while its worker sleeps, so a *)
(* worker back from Wait() sees a positive one. A worker that marks itself *)
(* as sleeping was not marked: one that spins or runs is no sleeper.       *)
ChecksHold ==
    /\ SchedTypeOK
    /\ Cardinality(spinning) <= kMaximumSpinners
    /\ \A w \in Workers : slot[w] = 0 => pc[w] = "asleep"
    /\ \A w \in sleeping : pc[w] \in {"recheck", "rechecked", "unmark", "wait", "asleep",
                                     "woken", "rewoken", "clear"}

(* No wake-up is lost: in a behaviour in which no store of a queue node is *)
(* delayed past the loads of the masks, a ready fiber is picked up, unless *)
(* the group is stopped.                                                   *)
ReadyFiberRuns == \A f \in Fibers :
    [](\A p \in Pushers : pc[p] # "buffered") => []<>(f \notin Queued \/ stopped)

(* After Stop() every worker leaves Schedule(). They have run every fiber  *)
(* of the queue unless every worker was, when the flag was set, between a  *)
(* Pop() that got nullptr and its load of the flag: a fiber pushed in the  *)
(* meantime then stays in the queue.                                       *)
StoppedLeaves ==
    []<>(stopped => /\ \A w \in Workers : pc[w] = "left"
                    /\ queue = <<>> \/ missed)
=============================================================================
