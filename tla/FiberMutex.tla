----------------------------- MODULE FiberMutex -----------------------------
(***************************************************************************)
(* `trpc::fiber::detail::Mutex`, the adaptive mutex that fibers and plain  *)
(* pthreads share (runtime/threadmodel/fiber/detail/waitable.{h,cc}).      *)
(*                                                                         *)
(* `count_` is the number of waiters plus the owner.  The fast path is one *)
(* compare-and-swap.  The slow path goes through `slow_path_lock_`, chains *)
(* a WaitBlock to `impl_` and sleeps; `unlock()` pops one WaitBlock and    *)
(* hands the mutex over without ever letting `count_` reach zero.          *)
(*                                                                         *)
(* One agent is one fiber or one pthread.  An agent has at most one        *)
(* WaitBlock on this mutex, so the block is named by its agent.            *)
(***************************************************************************)
EXTENDS Integers, Sequences

CONSTANTS Fibers,   \* agents that run with a fiber context
          Pthreads, \* agents that run without one
          Group,    \* the scheduling group of each fiber
          NoOne

Agents == Fibers \cup Pthreads

ASSUME AgentsAssumption == Fibers \cap Pthreads = {} /\ NoOne \notin Agents

VARIABLES
    count,        \* count_
    slowPathLock, \* holder of slow_path_lock_
    waiters,      \* impl_.waiters_: the agents chained, oldest first
    isPost,       \* is_post_
    pc,           \* where each agent is in lock() / unlock()
    target,       \* the WaitBlock unlock() got from WakeOne()
    post,         \* the agents whose unlock() has read is_post_ = true
    schedLock,    \* the fibers that hold their own scheduler_lock
    futex         \* the pthreads whose WaitBlock::futex has been woken

mutexVars == <<count, slowPathLock, waiters, isPost, pc, target, post,
               schedLock, futex>>

Go(a, l) == pc' = [pc EXCEPT ![a] = l]

(***************************************************************************)
(* "idle": outside; "cs": owns the mutex; the others are program points.   *)
(***************************************************************************)
Asleep == {"suspending", "parked", "waiting"}
Points == {"idle", "slow", "inc", "add", "cs", "wakeone", "wake"} \cup Asleep

MutexTypeOK ==
    /\ count \in Nat
    /\ slowPathLock \in Agents \cup {NoOne}
    /\ waiters \in Seq(Agents)
    /\ isPost \in BOOLEAN
    /\ pc \in [Agents -> Points]
    /\ target \in [Agents -> Agents \cup {NoOne}]
    /\ post \subseteq Agents
    /\ schedLock \subseteq Fibers
    /\ futex \subseteq Pthreads

MutexInit ==
    /\ count = 0
    /\ slowPathLock = NoOne
    /\ waiters = <<>>
    /\ isPost = FALSE
    /\ pc = [a \in Agents |-> "idle"]
    /\ target = [a \in Agents |-> NoOne]
    /\ post = {}
    /\ schedLock = {}
    /\ futex = {}
-----------------------------------------------------------------------------
(* lock(): the compare-and-swap of try_lock(), then the slow path.         *)
TryLock(a) ==
    /\ pc[a] = "idle"
    /\ \/ count = 0 /\ count' = 1 /\ Go(a, "cs")
       \/ count # 0 /\ count' = count /\ Go(a, "slow")
    /\ UNCHANGED <<slowPathLock, waiters, isPost, target, post, schedLock, futex>>

LockSlowPath(a) ==
    /\ pc[a] = "slow"
    /\ slowPathLock = NoOne
    /\ slowPathLock' = a
    /\ Go(a, "inc")
    /\ UNCHANGED <<count, waiters, isPost, target, post, schedLock, futex>>

(* Mutant: slow_path_lock_ is released before the waiter is chained.       *)
FetchAddUnlocks(a) ==
    /\ pc[a] = "inc"
    /\ count' = count + 1
    /\ slowPathLock' = NoOne
    /\ Go(a, IF count = 0 THEN "cs" ELSE "add")
    /\ UNCHANGED <<waiters, isPost, target, post, schedLock, futex>>

(* fetch_add tells the owner that we wait; it may have left in between.    *)
FetchAdd(a) ==
    /\ pc[a] = "inc"
    /\ count' = count + 1
    /\ \/ count = 0 /\ slowPathLock' = NoOne /\ Go(a, "cs")
       \/ count # 0 /\ UNCHANGED slowPathLock /\ Go(a, "add")
    /\ UNCHANGED <<waiters, isPost, target, post, schedLock, futex>>

(* AddWaiter and the unlock of slow_path_lock_.  A fiber takes its own     *)
(* scheduler_lock first and keeps it until Suspend() has switched away; a  *)
(* pthread reads the state of its fresh futex, still unwoken.              *)
AddWaiter(a) ==
    /\ pc[a] = "add"
    /\ waiters' = Append(waiters, a)
    /\ slowPathLock' = NoOne
    /\ \/ a \in Fibers /\ schedLock' = schedLock \cup {a}
          /\ Go(a, "suspending") /\ UNCHANGED futex
       \/ a \in Pthreads /\ futex' = futex \ {a}
          /\ Go(a, "waiting") /\ UNCHANGED schedLock
    /\ UNCHANGED <<count, isPost, target, post>>

Suspend(f) ==
    /\ f \in Fibers
    /\ pc[f] = "suspending"
    /\ schedLock' = schedLock \ {f}
    /\ Go(f, "parked")
    /\ UNCHANGED <<count, slowPathLock, waiters, isPost, target, post, futex>>

(* Mutant: a spurious return of the futex call is taken for a wake-up.     *)
FutexWaitSpurious(p) ==
    /\ pc[p] = "waiting"
    /\ Go(p, "cs")
    /\ UNCHANGED <<count, slowPathLock, waiters, isPost, target, post, schedLock, futex>>

(* futex.Wait returns only once the word differs from the state read.      *)
FutexWaitReturns(p) ==
    /\ pc[p] = "waiting"
    /\ p \in futex
    /\ Go(p, "cs")
    /\ UNCHANGED <<count, slowPathLock, waiters, isPost, target, post, schedLock, futex>>
-----------------------------------------------------------------------------
(* Mutant: a single waiter is overlooked.                                  *)
FetchSubOffByOne(a) ==
    /\ pc[a] = "cs"
    /\ post' = IF isPost THEN post \cup {a} ELSE post \ {a}
    /\ isPost' = FALSE
    /\ count' = count - 1
    /\ Go(a, IF count <= 2 THEN "idle" ELSE "wakeone")
    /\ UNCHANGED <<slowPathLock, waiters, target, schedLock, futex>>

(* unlock()                                                                *)
FetchSub(a) ==
    /\ pc[a] = "cs"
    /\ post' = IF isPost THEN post \cup {a} ELSE post \ {a}
    /\ isPost' = FALSE
    /\ count' = count - 1
    /\ Go(a, IF count = 1 THEN "idle" ELSE "wakeone")
    /\ UNCHANGED <<slowPathLock, waiters, target, schedLock, futex>>

(* Mutant: the youngest waiter is popped.                                  *)
WakeOneLifo(a) ==
    /\ pc[a] = "wakeone"
    /\ slowPathLock = NoOne
    /\ waiters # <<>>
    /\ target' = [target EXCEPT ![a] = waiters[Len(waiters)]]
    /\ waiters' = SubSeq(waiters, 1, Len(waiters) - 1)
    /\ Go(a, "wake")
    /\ UNCHANGED <<count, slowPathLock, isPost, post, schedLock, futex>>

(* WakeOne() under slow_path_lock_.  Nobody but unlock() satisfies a       *)
(* WaitBlock of a mutex, so the first of the chain is the one returned.    *)
WakeOne(a) ==
    /\ pc[a] = "wakeone"
    /\ slowPathLock = NoOne
    /\ waiters # <<>>            \* TRPC_CHECK(wb): see WakeOneFindsAWaiter
    /\ target' = [target EXCEPT ![a] = Head(waiters)]
    /\ waiters' = Tail(waiters)
    /\ Go(a, "wake")
    /\ UNCHANGED <<count, slowPathLock, isPost, post, schedLock, futex>>

(* Resume() takes the scheduler_lock of the fiber it wakes, so it waits    *)
(* until that fiber has completed Suspend().                               *)
WakeFiber(a, f) ==
    /\ pc[a] = "wake"
    /\ target[a] = f
    /\ f \in Fibers
    /\ f \notin schedLock
    /\ pc' = [pc EXCEPT ![a] = "idle", ![f] = "cs"]
    /\ target' = [target EXCEPT ![a] = NoOne]
    /\ UNCHANGED <<count, slowPathLock, waiters, isPost, post, schedLock, futex>>

(* The branch of unlock() that gives the caller's worker away.             *)
SwitchesTo(a, f) == a \in Fibers /\ a \notin post /\ Group[a] = Group[f]

(* Resume(to): `to` is made ready and queued, the caller runs on.          *)
ResumeFiber(a) ==
    \E f \in Fibers : ~SwitchesTo(a, f) /\ WakeFiber(a, f)

(* Resume(self, to): the caller's worker switches to `to` at once, which   *)
(* queues the caller with its scheduler_lock taken.                        *)
SwitchToFiber(a) ==
    \E f \in Fibers : SwitchesTo(a, f) /\ a \notin schedLock /\ WakeFiber(a, f)

(* Mutant: the futex word is not bumped, only a sleeper is woken.          *)
WakePthreadNoWord(a) ==
    /\ pc[a] = "wake"
    /\ target[a] \in Pthreads
    /\ target' = [target EXCEPT ![a] = NoOne]
    /\ Go(a, "idle")
    /\ UNCHANGED <<count, slowPathLock, waiters, isPost, post, schedLock, futex>>

WakePthread(a) ==
    /\ pc[a] = "wake"
    /\ target[a] \in Pthreads
    /\ futex' = futex \cup {target[a]}
    /\ target' = [target EXCEPT ![a] = NoOne]
    /\ Go(a, "idle")
    /\ UNCHANGED <<count, slowPathLock, waiters, isPost, post, schedLock>>
-----------------------------------------------------------------------------
LockStep(a) ==
    \/ LockSlowPath(a) \/ FetchAdd(a) \/ AddWaiter(a)
    \/ Suspend(a) \/ FutexWaitReturns(a)

UnlockStep(a) ==
    WakeOne(a) \/ ResumeFiber(a) \/ SwitchToFiber(a) \/ WakePthread(a)

Step(a) == TryLock(a) \/ LockStep(a) \/ FetchSub(a) \/ UnlockStep(a)

MutexNext == \E a \in Agents : Step(a)

(***************************************************************************)
(* Every agent keeps running once it is inside lock() or unlock(), and its *)
(* critical sections end; nobody is obliged to call lock() again.          *)
(***************************************************************************)
MutexFairness == \A a \in Agents :
    WF_mutexVars(LockStep(a) \/ FetchSub(a) \/ UnlockStep(a))

MutexSpec == MutexInit /\ [][MutexNext]_mutexVars
FairMutexSpec == MutexSpec /\ MutexFairness
-----------------------------------------------------------------------------
(* Two agents never own the mutex at once, however the fast path, the slow *)
(* path and the hand-over of unlock() interleave.                          *)
MutualExclusion == \A a, b \in Agents : pc[a] = "cs" /\ pc[b] = "cs" => a = b

(* TRPC_CHECK(wb) in unlock() never fails: when `was` > 1 there is a       *)
(* waiter in the chain by the time slow_path_lock_ is obtained.            *)
WakeOneFindsAWaiter == \A a \in Agents :
    pc[a] = "wakeone" /\ slowPathLock = NoOne => waiters # <<>>

(* The refinement: the abstract queue is the agent that has the mutex or   *)
(* has been picked for it, then the chain, then the agent that counted     *)
(* itself in and is about to be chained.                                   *)
Picked(a) ==
    \/ pc[a] = "cs"
    \/ a \in Pthreads /\ pc[a] = "waiting" /\ a \in futex
    \/ \E b \in Agents : pc[b] = "wake" /\ target[b] = a

OneOf(S) == IF S = {} THEN <<>> ELSE <<CHOOSE a \in S : TRUE>>

FifoQueue == OneOf({a \in Agents : Picked(a)}) \o waiters
                \o OneOf({a \in Agents : pc[a] = "add"})

Inside == IF \E a \in Agents : pc[a] = "cs"
          THEN CHOOSE a \in Agents : pc[a] = "cs" ELSE NoOne

Fifo == INSTANCE FifoLock WITH queue <- FifoQueue, inside <- Inside

(* The mutex is a first-come-first-served lock: nobody overtakes an agent  *)
(* that has counted itself in, neither by the fast path of try_lock() nor  *)
(* by the order in which unlock() picks waiters.                           *)
ImplementsFifoLock == Fifo!FifoSpec

(* A chained waiter eventually owns the mutex: no wake-up is lost between  *)
(* AddWaiter and the moment the waiter really sleeps.                      *)
ChainedGetsMutex == \A a \in Agents : pc[a] \in Asleep ~> pc[a] = "cs"
-----------------------------------------------------------------------------
(***************************************************************************)
(* The inductive invariant.  A token travels with the mutex: the owner has *)
(* it, an unlock() that must hand over keeps it, and a pthread whose futex *)
(* has been woken has it already.                                          *)
(***************************************************************************)
Token(a) ==
    \/ pc[a] \in {"cs", "wakeone", "wake"}
    \/ a \in Pthreads /\ pc[a] = "waiting" /\ a \in futex

OneToken == \A a, b \in Agents : Token(a) /\ Token(b) => a = b

SlowPathLocked ==
    \A a \in Agents : pc[a] \in {"inc", "add"} <=> slowPathLock = a

(* An agent that sleeps and has not been woken.                            *)
Sleeps(a) ==
    \/ a \in Fibers /\ pc[a] \in {"suspending", "parked"}
    \/ a \in Pthreads /\ pc[a] = "waiting" /\ a \notin futex

ChainSleeps ==
    /\ \A i \in 1..Len(waiters) : Sleeps(waiters[i])
    /\ \A i, j \in 1..Len(waiters) : waiters[i] = waiters[j] => i = j

TargetSleeps == \A a \in Agents : pc[a] = "wake" =>
    /\ target[a] \in Agents
    /\ Sleeps(target[a])
    /\ \A i \in 1..Len(waiters) : waiters[i] # target[a]

Adding == IF \E a \in Agents : pc[a] = "add" THEN 1 ELSE 0
Held == IF \E a \in Agents : Token(a) /\ pc[a] # "wakeone" THEN 1 ELSE 0

(* `count_` counts the waiters plus the owner, the one whose fetch_sub has *)
(* happened and who still has to pick a waiter excepted.                   *)
CountIsExact ==
    /\ count = Len(waiters) + Adding + Held
    /\ count > 0 => \E a \in Agents : Token(a)
    /\ \A a \in Agents : pc[a] = "wakeone" => count > 0

MutexInv ==
    /\ MutexTypeOK
    /\ OneToken
    /\ SlowPathLocked
    /\ ChainSleeps
    /\ TargetSleeps
    /\ CountIsExact
=============================================================================
