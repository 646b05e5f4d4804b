---------------------------- MODULE FiberCondVar ----------------------------
(***************************************************************************)
(* `trpc::fiber::detail::ConditionVariable` on top of the mutex of         *)
(* FiberMutex, with the AsyncWaker that ends a timed wait of a fiber       *)
(* (runtime/threadmodel/fiber/detail/waitable.{h,cc}).                     *)
(*                                                                         *)
(* A WaitBlock lives on its waiter's stack for one call of wait_until, so  *)
(* it is named by the agent and the number of the call.                    *)
(***************************************************************************)
EXTENDS FiberMutex, SequencesExt

CONSTANTS Waiting,      \* the agents that call wait / wait_until
          Notifying,    \* the agents that call notify_one / notify_all
          Timed,        \* the waits that have a deadline
          MaxWaits      \* bound: how often each of them waits

Waits == UNION {{a} \X (1..MaxWaits[a]) : a \in Waiting}

ASSUME CondVarAssumption ==
    /\ Waiting \subseteq Agents /\ Notifying \subseteq Agents
    /\ MaxWaits \in [Waiting -> Nat]
    /\ Timed \subseteq Waits

VARIABLES
    chain,     \* impl_.waiters_ of the condition variable
    satisfied, \* the fibers whose current WaitBlock is satisfied
    word,      \* the pthreads whose current WaitBlock's futex was woken
    stale,     \* ... and was so before GetState() read it
    wpc,       \* where each agent is in wait_until
    calls,     \* how many times it has called wait_until
    npc,       \* where each agent is in notify_one / notify_all
    popped,    \* the WaitBlock that a notifier got from WakeOne()
    timer,     \* the timer of each timed wait of a fiber
    awake,     \* the waits whose WaitCb::awake is set
    notified,  \* history: the waits satisfied by a notifier
    timedOut   \* history: the waits that returned false

cvVars == <<chain, satisfied, word, stale, wpc, calls, npc, popped, timer,
            awake, notified, timedOut>>
allVars == <<mutexVars, cvVars>>

Current(a) == <<a, calls[a]>>
NoWait == <<NoOne, 0>>

CvTypeOK ==
    /\ MutexTypeOK
    /\ chain \in Seq(Waiting) /\ IsInjective(chain)
    /\ satisfied \subseteq Fibers
    /\ word \subseteq Pthreads /\ stale \subseteq Pthreads
    /\ wpc \in [Agents -> {"none", "state", "unlock", "sleep", "remove",
                           "cleanup", "relock"}]
    /\ calls \in [Agents -> Nat]
    /\ npc \in [Agents -> {"none", "one", "all", "wakeone", "wakeall"}]
    /\ popped \in [Agents -> Waits \cup {NoWait}]
    /\ timer \in [Waits -> {"off", "armed", "running", "resuming"}]
    /\ awake \subseteq Waits
    /\ notified \subseteq Waits /\ timedOut \subseteq Waits

CvInit ==
    /\ MutexInit
    /\ chain = <<>>
    /\ satisfied = {} /\ word = {} /\ stale = {}
    /\ wpc = [a \in Agents |-> "none"]
    /\ calls = [a \in Agents |-> 0]
    /\ npc = [a \in Agents |-> "none"]
    /\ popped = [a \in Agents |-> NoWait]
    /\ timer = [w \in Waits |-> "off"]
    /\ awake = {} /\ notified = {} /\ timedOut = {}

GoWait(a, l) == wpc' = [wpc EXCEPT ![a] = l]
-----------------------------------------------------------------------------
(* wait_until                                                              *)

(* Mutant: the fiber does not call SetPost() before it unlocks.           *)
WaitUntilFromFiberNoPost(f) ==
    /\ f \in Fibers \cap Waiting /\ calls[f] < MaxWaits[f]
    /\ pc[f] = "cs" /\ wpc[f] = "none" /\ npc[f] = "none"
    /\ calls' = [calls EXCEPT ![f] = @ + 1]
    /\ schedLock' = schedLock \cup {f}
    /\ chain' = Append(chain, f)
    /\ satisfied' = satisfied \ {f}
    /\ timer' = [timer EXCEPT ![<<f, calls[f] + 1>>] =
                     IF <<f, calls[f] + 1>> \in Timed THEN "armed" ELSE "off"]
    /\ GoWait(f, "unlock")
    /\ UNCHANGED <<count, slowPathLock, waiters, isPost, pc, target, post, futex,
                   word, stale, npc, popped, awake, notified, timedOut>>

(* From a fiber: scheduler_lock, AddWaiter, the timer, SetPost(), all      *)
(* before the user's mutex is released.                                    *)
WaitUntilFromFiber(f) ==
    /\ f \in Fibers \cap Waiting /\ calls[f] < MaxWaits[f]
    /\ pc[f] = "cs" /\ wpc[f] = "none" /\ npc[f] = "none"
    /\ calls' = [calls EXCEPT ![f] = @ + 1]
    /\ schedLock' = schedLock \cup {f}
    /\ chain' = Append(chain, f)
    /\ satisfied' = satisfied \ {f}
    /\ timer' = [timer EXCEPT ![<<f, calls[f] + 1>>] =
                     IF <<f, calls[f] + 1>> \in Timed THEN "armed" ELSE "off"]
    /\ isPost' = TRUE
    /\ GoWait(f, "unlock")
    /\ UNCHANGED <<count, slowPathLock, waiters, pc, target, post, futex,
                   word, stale, npc, popped, awake, notified, timedOut>>

(* From a pthread: AddWaiter, and only then the state of the futex.        *)
WaitUntilFromPthread(p) ==
    /\ p \in Pthreads \cap Waiting /\ calls[p] < MaxWaits[p]
    /\ pc[p] = "cs" /\ wpc[p] = "none" /\ npc[p] = "none"
    /\ calls' = [calls EXCEPT ![p] = @ + 1]
    /\ chain' = Append(chain, p)
    /\ word' = word \ {p}
    /\ GoWait(p, "state")
    /\ UNCHANGED <<mutexVars, satisfied, stale, npc, popped, timer, awake,
                   notified, timedOut>>

GetState(p) ==
    /\ wpc[p] = "state"
    /\ stale' = IF p \in word THEN stale \cup {p} ELSE stale \ {p}
    /\ GoWait(p, "unlock")
    /\ UNCHANGED <<mutexVars, chain, satisfied, word, calls, npc, popped,
                   timer, awake, notified, timedOut>>

(* lock.unlock() has returned: Suspend() releases scheduler_lock once the  *)
(* fiber is switched out; a pthread calls futex.Wait.                      *)
Sleep(a) ==
    /\ wpc[a] = "unlock" /\ pc[a] = "idle"
    /\ schedLock' = schedLock \ {a}
    /\ GoWait(a, "sleep")
    /\ UNCHANGED <<count, slowPathLock, waiters, isPost, pc, target, post, futex,
                   chain, satisfied, word, stale, calls, npc, popped, timer,
                   awake, notified, timedOut>>

(* The word differs from the state read, or the deadline has passed.       *)
FutexReturns(p) ==
    /\ p \in Pthreads /\ wpc[p] = "sleep"
    /\ \/ p \in word \ stale /\ UNCHANGED timedOut
       \/ Current(p) \in Timed /\ timedOut' = timedOut \cup {Current(p)}
    /\ GoWait(p, "remove")
    /\ UNCHANGED <<mutexVars, chain, satisfied, word, stale, calls, npc, popped,
                   timer, awake, notified>>

(* A fiber still in the chain was not awakened by notify: it timed out.    *)
TryRemoveWaiter(a) ==
    /\ wpc[a] = "remove"
    /\ chain' = SelectSeq(chain, LAMBDA b : b # a)
    /\ timedOut' = IF a \in Fibers /\ Contains(chain, a)
                   THEN timedOut \cup {Current(a)} ELSE timedOut
    /\ GoWait(a, IF a \in Fibers /\ Current(a) \in Timed THEN "cleanup" ELSE "relock")
    /\ UNCHANGED <<mutexVars, satisfied, word, stale, calls, npc, popped, timer,
                   awake, notified>>

(* Mutant: Cleanup relies on RemoveTimer alone.                           *)
CleanupNotAwake(f) ==
    /\ wpc[f] = "cleanup"
    /\ timer' = [timer EXCEPT ![Current(f)] = IF @ = "armed" THEN "off" ELSE @]
    /\ GoWait(f, "relock")
    /\ UNCHANGED <<mutexVars, chain, satisfied, word, stale, calls, npc, popped,
                   awake, notified, timedOut>>

(* AsyncWaker::Cleanup: RemoveTimer takes the callback out unless it runs  *)
(* already; `awake` is set under WaitCb::lock, which a callback that has   *)
(* decided to resume us still holds.                                       *)
Cleanup(f) ==
    /\ wpc[f] = "cleanup"
    /\ timer[Current(f)] # "resuming"
    /\ timer' = [timer EXCEPT ![Current(f)] = IF @ = "armed" THEN "off" ELSE @]
    /\ awake' = awake \cup {Current(f)}
    /\ GoWait(f, "relock")
    /\ UNCHANGED <<mutexVars, chain, satisfied, word, stale, calls, npc, popped,
                   notified, timedOut>>

WaitReturns(a) ==
    /\ wpc[a] = "relock" /\ pc[a] = "cs"
    /\ GoWait(a, "none")
    /\ UNCHANGED <<mutexVars, chain, satisfied, word, stale, calls, npc, popped,
                   timer, awake, notified, timedOut>>
-----------------------------------------------------------------------------
(* Resume(f) wakes the fiber from whatever it sleeps on.                   *)
Resume(f) ==
    /\ f \notin schedLock
    /\ \/ /\ wpc[f] = "sleep"
          /\ GoWait(f, "remove") /\ UNCHANGED pc
       \/ /\ wpc[f] # "sleep" /\ pc[f] = "parked"
          /\ Go(f, "cs") /\ UNCHANGED wpc

(* The timer thread takes the callback out of its entry and runs it.       *)
TimerFires(w) ==
    /\ timer[w] = "armed"
    /\ timer' = [timer EXCEPT ![w] = "running"]
    /\ UNCHANGED <<mutexVars, chain, satisfied, word, stale, wpc, calls, npc,
                   popped, awake, notified, timedOut>>

(* Mutant: the callback does not look whether the wait is satisfied.      *)
TimerCallbackUnconditional(w) ==
    /\ timer[w] = "running"
    /\ \/ /\ w \in awake
          /\ timer' = [timer EXCEPT ![w] = "off"] /\ UNCHANGED satisfied
       \/ /\ w \notin awake
          /\ timer' = [timer EXCEPT ![w] = "resuming"]
          /\ satisfied' = satisfied \cup {w[1]}
    /\ UNCHANGED <<mutexVars, chain, word, stale, wpc, calls, npc, popped,
                   awake, notified, timedOut>>

(* timer_cb up to satisfied.exchange(true), under WaitCb::lock.            *)
TimerCallback(w) ==
    /\ timer[w] = "running"
    /\ \/ /\ w \in awake \/ w[1] \in satisfied
          /\ timer' = [timer EXCEPT ![w] = "off"] /\ UNCHANGED satisfied
       \/ /\ w \notin awake /\ w[1] \notin satisfied
          /\ timer' = [timer EXCEPT ![w] = "resuming"]
          /\ satisfied' = satisfied \cup {w[1]}
    /\ UNCHANGED <<mutexVars, chain, word, stale, wpc, calls, npc, popped,
                   awake, notified, timedOut>>

TimerResumes(w) ==
    /\ timer[w] = "resuming"
    /\ Resume(w[1])
    /\ timer' = [timer EXCEPT ![w] = "off"]
    /\ UNCHANGED <<count, slowPathLock, waiters, isPost, target, post, schedLock,
                   futex, chain, satisfied, word, stale, calls, npc, popped,
                   awake, notified, timedOut>>
-----------------------------------------------------------------------------
(* notify_one and notify_all                                               *)
(* A notifier may hold the mutex, as in ExitBarrier, or not.               *)
MayNotify(a) == a \in Notifying /\ wpc[a] = "none" /\ pc[a] \in {"cs", "idle"}

(* The position of the first block that WakeOne() does not skip.           *)
Wakeable(i) == chain[i] \in Pthreads \/ chain[i] \notin satisfied
FirstWakeable == CHOOSE i \in DOMAIN chain :
    Wakeable(i) /\ \A j \in 1..(i - 1) : ~Wakeable(j)

(* Mutant: the block stays in the chain, marked satisfied.                *)
CvWakeOneKeeps(a, next) ==
    /\ \/ /\ \E i \in DOMAIN chain : Wakeable(i)
          /\ LET w == chain[FirstWakeable] IN
               /\ chain' = SubSeq(chain, FirstWakeable, Len(chain))
               /\ satisfied' = IF w \in Fibers THEN satisfied \cup {w} ELSE satisfied
               /\ popped' = [popped EXCEPT ![a] = Current(w)]
               /\ notified' = notified \cup {Current(w)}
          /\ npc' = [npc EXCEPT ![a] = next]
       \/ /\ \A i \in DOMAIN chain : ~Wakeable(i)
          /\ chain' = <<>>
          /\ npc' = [npc EXCEPT ![a] = "none"]
          /\ UNCHANGED <<satisfied, popped, notified>>
    /\ UNCHANGED <<mutexVars, word, stale, wpc, calls, timer, awake, timedOut>>

(* Waitable::WakeOne(), under its lock_; `next` is where its caller goes.  *)
CvWakeOne(a, next) ==
    /\ \/ /\ \E i \in DOMAIN chain : Wakeable(i)
          /\ LET w == chain[FirstWakeable] IN
               /\ chain' = SubSeq(chain, FirstWakeable + 1, Len(chain))
               /\ satisfied' = IF w \in Fibers THEN satisfied \cup {w} ELSE satisfied
               /\ popped' = [popped EXCEPT ![a] = Current(w)]
               /\ notified' = notified \cup {Current(w)}
          /\ npc' = [npc EXCEPT ![a] = next]
       \/ /\ \A i \in DOMAIN chain : ~Wakeable(i)
          /\ chain' = <<>>
          /\ npc' = [npc EXCEPT ![a] = "none"]
          /\ UNCHANGED <<satisfied, popped, notified>>
    /\ UNCHANGED <<mutexVars, word, stale, wpc, calls, timer, awake, timedOut>>

NotifyOne(a) == MayNotify(a) /\ npc[a] = "none" /\ CvWakeOne(a, "wakeone")
NotifyAll(a) == MayNotify(a) /\ npc[a] = "none" /\ CvWakeOne(a, "wakeall")
NotifyAllAgain(a) == npc[a] = "all" /\ CvWakeOne(a, "wakeall")

(* Resume(wb->waiter) or wb->futex.Wake(1).                                *)
CvWake(a) ==
    /\ npc[a] \in {"wakeone", "wakeall"}
    /\ LET w == popped[a] IN
         \/ w[1] \in Fibers /\ Resume(w[1]) /\ UNCHANGED word
         \/ /\ w[1] \in Pthreads
            /\ word' = IF Current(w[1]) = w THEN word \cup {w[1]} ELSE word
            /\ UNCHANGED <<wpc, pc>>
    /\ npc' = [npc EXCEPT ![a] = IF npc[a] = "wakeall" THEN "all" ELSE "none"]
    /\ popped' = [popped EXCEPT ![a] = NoWait]
    /\ UNCHANGED <<count, slowPathLock, waiters, isPost, target, post, schedLock,
                   futex, chain, satisfied, stale, calls, timer, awake, notified,
                   timedOut>>
-----------------------------------------------------------------------------
(* The steps of the mutex that the agent's place in wait / notify allows.  *)
LockSteps(a) ==
    /\ \/ TryLock(a) /\ wpc[a] \in {"none", "relock"} /\ npc[a] = "none"
       \/ LockStep(a)
    /\ UNCHANGED cvVars
UnlockSteps(a) ==
    /\ \/ FetchSub(a) /\ wpc[a] \in {"none", "unlock"} /\ npc[a] = "none"
       \/ UnlockStep(a)
    /\ UNCHANGED cvVars

WaitStep(a) ==
    \/ GetState(a) \/ Sleep(a) \/ FutexReturns(a) \/ TryRemoveWaiter(a)
    \/ Cleanup(a) \/ WaitReturns(a)
NotifyStep(a) == NotifyAllAgain(a) \/ CvWake(a)
TimerStep(w) == TimerFires(w) \/ TimerCallback(w) \/ TimerResumes(w)

CvNext ==
    \/ \E a \in Agents :
        \/ LockSteps(a) \/ UnlockSteps(a)
        \/ WaitUntilFromFiber(a) \/ WaitUntilFromPthread(a) \/ WaitStep(a)
        \/ NotifyOne(a) \/ NotifyAll(a) \/ NotifyStep(a)
    \/ \E w \in Waits : TimerStep(w)

(* Agents inside an operation keep running; critical sections end; the     *)
(* timer thread serves its callbacks.  Spin locks let a waiter through if  *)
(* they are free again and again.                                          *)
CvFairness ==
    /\ \A a \in Agents :
        /\ WF_allVars(UnlockSteps(a)) /\ WF_allVars(WaitStep(a))
        /\ WF_allVars(NotifyStep(a))
        /\ SF_allVars(LockSteps(a) /\ (pc[a] # "idle" \/ wpc[a] = "relock"))
    /\ \A w \in Waits : WF_allVars(TimerStep(w))

CvSpec == CvInit /\ [][CvNext]_allVars
FairCvSpec == CvSpec /\ CvFairness
-----------------------------------------------------------------------------
(* A WaitBlock is a stack object: whoever holds a pointer to one (a        *)
(* notifier between WakeOne() and the wake-up, a callback of the timer)    *)
(* must be done with it before the waiter leaves wait_until.               *)
InWait(w) == Current(w[1]) = w /\ wpc[w[1]] \in {"state", "unlock", "sleep", "remove", "cleanup"}
TouchedBlockIsAlive ==
    /\ \A a \in Agents : popped[a] # NoWait => InWait(popped[a])
    /\ \A w \in Waits : timer[w] = "running" /\ w \notin awake => InWait(w)

(* Types; and a fiber is resumed once per wait: the timer and a notifier   *)
(* never both decide to wake it, nor do two notifiers.                     *)
Resuming(w) == {a \in Agents : popped[a] = w}
ResumedOnce ==
    /\ CvTypeOK
    /\ \A w \in Waits : w[1] \in Fibers =>
        /\ \A a, b \in Resuming(w) : a = b
        /\ timer[w] = "resuming" => Resuming(w) = {}
        /\ Resuming(w) # {} \/ timer[w] = "resuming" =>
               w = Current(w[1]) /\ wpc[w[1]] \in {"unlock", "sleep"}

(* A fiber whose wait_until returns false has consumed no notification.    *)
TimeoutLosesNoNotify == \A w \in timedOut : w[1] \in Fibers => w \notin notified

(* A wait of a fiber returns if it has a deadline, and if a notifier or    *)
(* the timer has taken the fiber out of the chain: the wake-up is not      *)
(* lost, whenever it comes. (Of a pthread this is not so: it reads the     *)
(* futex after it is in the chain.)                                        *)
FiberWaitReturns == \A a \in Waiting \cap Fibers :
    (wpc[a] # "none" /\ (Current(a) \in Timed \/ ~Contains(chain, a))) ~> wpc[a] = "none"
=============================================================================
