----------------------------- MODULE FiberEvent -----------------------------
(***************************************************************************)
(* `Event`, `OneshotTimedEvent` and `WaitableTimer` of                     *)
(* runtime/threadmodel/fiber/detail/waitable.{h,cc}: a Waitable that is    *)
(* awakened once and for good.  A setter is a caller of Event::Set(), a    *)
(* caller of OneshotTimedEvent::Set() or the callback of a timer.          *)
(***************************************************************************)
EXTENDS Naturals, Sequences, SequencesExt

CONSTANTS Fibers, Pthreads, \* the agents that call Wait()
          Setters,          \* the agents that set the event
          Oneshot           \* those that go through IdempotentSet()

Agents == Fibers \cup Pthreads

ASSUME EventAssumption ==
    Fibers \cap Pthreads = {} /\ Oneshot \subseteq Setters

VARIABLES
    awakened,  \* Waitable::persistent_awakened_
    waiters,   \* Waitable::waiters_
    guard,     \* Impl::event_set_guard
    schedLock, \* the fibers whose scheduler_lock is held
    word,      \* the pthreads whose WaitBlock's futex was woken
    stale,     \* ... before they called GetState()
    pc,        \* where a waiter is in Wait()
    spc,       \* where a setter is in Set()
    wbs        \* the setter's local list of WaitBlocks

vars == <<awakened, waiters, guard, schedLock, word, stale, pc, spc, wbs>>

(* Types; and once the event is set, nobody is chained any more.           *)
EventTypeOK ==
    /\ awakened \in BOOLEAN /\ guard \in BOOLEAN
    /\ waiters \in Seq(Agents) /\ IsInjective(waiters)
    /\ awakened => waiters = <<>>
    /\ schedLock \subseteq Fibers
    /\ word \subseteq Pthreads /\ stale \subseteq Pthreads
    /\ pc \in [Agents -> {"out", "add", "suspend", "asleep", "done"}]
    /\ spc \in [Setters -> {"out", "set", "wake", "done"}]
    /\ wbs \in [Setters -> Seq(Agents)]

EventInit ==
    /\ awakened = FALSE /\ guard = FALSE
    /\ waiters = <<>>
    /\ schedLock = {} /\ word = {} /\ stale = {}
    /\ pc = [a \in Agents |-> "out"]
    /\ spc = [s \in Setters |-> "out"]
    /\ wbs = [s \in Setters |-> <<>>]

Go(a, l) == pc' = [pc EXCEPT ![a] = l]
GoSet(s, l) == spc' = [spc EXCEPT ![s] = l]
-----------------------------------------------------------------------------
(* Wait(): a fiber takes its scheduler_lock, a pthread the futex's state.  *)
Wait(a) ==
    /\ pc[a] = "out"
    /\ schedLock' = schedLock \cup ({a} \cap Fibers)
    /\ stale' = stale \cup ({a} \cap word)
    /\ Go(a, "add")
    /\ UNCHANGED <<awakened, waiters, guard, word, spc, wbs>>

(* AddWaiter, under Waitable::lock_.                                       *)
AddWaiter(a) ==
    /\ pc[a] = "add"
    /\ \/ /\ awakened
          /\ schedLock' = schedLock \ {a}
          /\ Go(a, "done") /\ UNCHANGED waiters
       \/ /\ ~awakened
          /\ waiters' = Append(waiters, a) /\ UNCHANGED schedLock
          /\ Go(a, IF a \in Fibers THEN "suspend" ELSE "asleep")
    /\ UNCHANGED <<awakened, guard, word, stale, spc, wbs>>

(* Suspend() releases the scheduler_lock once the fiber is switched out.   *)
Suspend(f) ==
    /\ pc[f] = "suspend"
    /\ schedLock' = schedLock \ {f}
    /\ Go(f, "asleep")
    /\ UNCHANGED <<awakened, waiters, guard, word, stale, spc, wbs>>

(* Mutant: a spurious return of the futex ends the wait.                  *)
FutexWaitSpurious(p) ==
    /\ p \in Pthreads /\ pc[p] = "asleep"
    /\ Go(p, "done")
    /\ UNCHANGED <<awakened, waiters, guard, schedLock, word, stale, spc, wbs>>

FutexWaitReturns(p) ==
    /\ p \in Pthreads /\ pc[p] = "asleep"
    /\ p \in word \ stale
    /\ Go(p, "done")
    /\ UNCHANGED <<awakened, waiters, guard, schedLock, word, stale, spc, wbs>>
-----------------------------------------------------------------------------
(* OneshotTimedEvent::Set() and OnTimerExpired(): the guard lets one in.   *)
IdempotentSet(s) ==
    /\ s \in Oneshot /\ spc[s] = "out"
    /\ guard' = TRUE
    /\ GoSet(s, IF guard THEN "done" ELSE "set")
    /\ UNCHANGED <<awakened, waiters, schedLock, word, stale, pc, wbs>>

(* Mutant: the blocks are taken out one Set() too late.                    *)
SetPersistentAwakenedKeeps(s) ==
    /\ \/ spc[s] = "set"
       \/ spc[s] = "out" /\ s \notin Oneshot
    /\ awakened' = TRUE
    /\ wbs' = [wbs EXCEPT ![s] = waiters]
    /\ GoSet(s, "wake")
    /\ UNCHANGED <<waiters, guard, schedLock, word, stale, pc>>

(* SetPersistentAwakened(wbs), under Waitable::lock_.  No timer satisfies  *)
(* a WaitBlock of an event, so none is skipped.                            *)
SetPersistentAwakened(s) ==
    /\ \/ spc[s] = "set"
       \/ spc[s] = "out" /\ s \notin Oneshot
    /\ awakened' = TRUE
    /\ wbs' = [wbs EXCEPT ![s] = waiters] /\ waiters' = <<>>
    /\ GoSet(s, "wake")
    /\ UNCHANGED <<guard, schedLock, word, stale, pc>>

(* Mutant: the fiber is resumed without its scheduler_lock, so a fiber     *)
(* that has not switched out yet is not awakened.                          *)
WakeFrontUnlocked(s) ==
    /\ spc[s] = "wake" /\ wbs[s] # <<>>
    /\ LET w == Head(wbs[s]) IN
         \/ /\ w \in Fibers
            /\ IF pc[w] = "asleep" THEN Go(w, "done") ELSE UNCHANGED pc
            /\ UNCHANGED word
         \/ w \in Pthreads /\ word' = word \cup {w} /\ UNCHANGED pc
    /\ wbs' = [wbs EXCEPT ![s] = Tail(@)]
    /\ UNCHANGED <<awakened, waiters, guard, schedLock, stale, spc>>

(* One turn of the loop: pop_front, then Resume(waiter) or futex.Wake(1).  *)
WakeFront(s) ==
    /\ spc[s] = "wake" /\ wbs[s] # <<>>
    /\ LET w == Head(wbs[s]) IN
         \/ /\ w \in Fibers /\ w \notin schedLock
            /\ Go(w, "done") /\ UNCHANGED word
         \/ w \in Pthreads /\ word' = word \cup {w} /\ UNCHANGED pc
    /\ wbs' = [wbs EXCEPT ![s] = Tail(@)]
    /\ UNCHANGED <<awakened, waiters, guard, schedLock, stale, spc>>

SetReturns(s) ==
    /\ spc[s] = "wake" /\ wbs[s] = <<>>
    /\ GoSet(s, "done")
    /\ UNCHANGED <<awakened, waiters, guard, schedLock, word, stale, pc, wbs>>

WaitStep(a) == AddWaiter(a) \/ Suspend(a) \/ FutexWaitReturns(a)
SetStep(s) ==
    \/ IdempotentSet(s) \/ SetPersistentAwakened(s) \/ WakeFront(s) \/ SetReturns(s)

EventNext ==
    \/ \E a \in Agents : Wait(a) \/ WaitStep(a)
    \/ \E s \in Setters : SetStep(s)

(* Whoever is inside Wait() or Set() keeps running. Nobody has to call     *)
(* Set(), and no timer has to fire.                                        *)
EventFairness ==
    /\ \A a \in Agents : WF_vars(WaitStep(a))
    /\ \A s \in Setters : WF_vars(spc[s] # "out" /\ SetStep(s))
EventSpec == EventInit /\ [][EventNext]_vars /\ EventFairness
-----------------------------------------------------------------------------
(* Once the event is set every Wait() returns: it misses no waiter, whether *)
(* Wait() is called before, during or after the Set().                     *)
WaitReturns == \A a \in Agents : (awakened /\ pc[a] # "out") ~> pc[a] = "done"

(* Types; and no Wait() returns before the event is set.                   *)
NoReturnBeforeSet ==
    /\ EventTypeOK
    /\ \A a \in Agents : pc[a] = "done" => awakened

(* A WaitBlock in a setter's list belongs to a waiter that is still in     *)
(* Wait(), and to one list only: popping it touches live memory, and its   *)
(* fiber is resumed once.                                                  *)
BlocksAlive ==
    \A s \in Setters : \A i \in DOMAIN wbs[s] :
        LET w == wbs[s][i] IN
          /\ pc[w] \in {"suspend", "asleep"} /\ w \notin word
          /\ \A t \in Setters : \A j \in DOMAIN wbs[t] :
                 wbs[t][j] = w => s = t /\ i = j
=============================================================================
