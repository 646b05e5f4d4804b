------------------------- MODULE PredicateNotifier -------------------------
(***************************************************************************)
(* trpc::PredicateNotifier (util/thread/predicate_notifier.h), used as its *)
(* comment prescribes: waiters check a predicate (there is a task), call   *)
(* PrepareWait, check again, and then CancelWait or CommitWait; notifiers  *)
(* add a task and then call Notify.                                        *)
(*                                                                         *)
(* state_ is one atomic word: the top of the stack of sleeping waiters,    *)
(* the number of waiters that are preparing, and the epoch.                *)
(***************************************************************************)
EXTENDS Integers, Sequences, FiniteSets

CONSTANTS Waiters, Notifiers,
          Nobody,     \* kStackMask: the stack is empty; a null `next`
          EpochMod    \* 2^kEpochBits

Threads == Waiters \cup Notifiers

ASSUME NotifierAssumption ==
    /\ Nobody \notin Waiters
    /\ EpochMod \in Nat /\ EpochMod > 4 * Cardinality(Waiters)

VARIABLES
    state,    \* state_: [top, pre, epoch]
    next,     \* Waiter::next
    signaled, \* the waiters whose Waiter::state is kSignaled
    epoch,    \* the modification epoch of the waiter, from Waiter::epoch
    pc,
    reg,      \* the value of state_ a thread works from
    link,     \* Notify: the `wnext` it has read; Unpark: `w`
    all,      \* the notifiers that called Notify(true)
    tasks,    \* the predicate: tasks to do
    added     \* bound: the notifiers that have had their one task to add

vars == <<state, next, signaled, epoch, pc, reg, link, all, tasks, added>>

States == [top : Waiters \cup {Nobody}, pre : 0..Cardinality(Waiters), epoch : 0..(EpochMod - 1)]

NoState == [top |-> Nobody, pre |-> 0, epoch |-> 0]

NotifierTypeOK ==
    /\ state \in States
    /\ next \in [Waiters -> Waiters \cup {Nobody}]
    /\ signaled \subseteq Waiters
    /\ epoch \in [Waiters -> 0..(EpochMod - 1)]
    /\ reg \in [Threads -> States]
    /\ link \in [Notifiers -> Waiters \cup {Nobody}]
    /\ all \subseteq Notifiers
    /\ tasks \in Nat /\ added \subseteq Notifiers

(* The epoch starts close to its overflow, as in the constructor.          *)
NotifierInit ==
    /\ state = [top |-> Nobody, pre |-> 0,
                epoch |-> EpochMod - 1 - 2 * Cardinality(Waiters)]
    /\ next = [w \in Waiters |-> Nobody]
    /\ signaled = {}
    /\ epoch = [w \in Waiters |-> 0]
    /\ pc = [t \in Threads |-> "idle"]
    /\ reg = [t \in Threads |-> NoState]
    /\ link = [n \in Notifiers |-> Nobody]
    /\ all = {}
    /\ tasks = 0 /\ added = {}

Go(t, l) == pc' = [pc EXCEPT ![t] = l]
Load(t) == reg' = [reg EXCEPT ![t] = state]
Forget(t) == reg' = [reg EXCEPT ![t] = NoState]   \* the local is dead
Settle(w) == Forget(w) /\ epoch' = [epoch EXCEPT ![w] = 0]

(* int64_t((state & kEpochMask) - epoch): how far the epoch is ahead of    *)
(* the waiter's, as a signed number.                                       *)
Ahead(s, w) ==
    LET d == (s.epoch - epoch[w]) % EpochMod
    IN IF d >= EpochMod \div 2 THEN d - EpochMod ELSE d
Advance(s, k) == [s EXCEPT !.epoch = (@ + k) % EpochMod]
-----------------------------------------------------------------------------
(* A waiter.                                                               *)
TakeTask(w) ==
    /\ pc[w] = "idle" /\ tasks > 0
    /\ tasks' = tasks - 1
    /\ UNCHANGED <<state, next, signaled, epoch, pc, reg, link, all, added>>

LookFirst(w) ==
    /\ pc[w] = "idle" /\ tasks = 0
    /\ Go(w, "prepare")
    /\ UNCHANGED <<state, next, signaled, epoch, reg, link, all, tasks, added>>

PrepareWait(w) ==
    /\ pc[w] = "prepare"
    /\ epoch' = [epoch EXCEPT ![w] = (state.epoch + state.pre) % EpochMod]
    /\ state' = [state EXCEPT !.pre = @ + 1]
    /\ Go(w, "check")
    /\ UNCHANGED <<next, signaled, reg, link, all, tasks, added>>

(* Mutant: the predicate is not looked at again.                           *)
CheckSkipped(w) ==
    /\ pc[w] = "check"
    /\ Go(w, "commit")
    /\ Load(w)
    /\ UNCHANGED <<state, next, signaled, epoch, link, all, tasks, added>>

(* The second look at the predicate.                                       *)
Check(w) ==
    /\ pc[w] = "check"
    /\ Go(w, IF tasks > 0 THEN "cancel" ELSE "commit")
    /\ Load(w)
    /\ UNCHANGED <<state, next, signaled, epoch, link, all, tasks, added>>

(* Both loops: an earlier waiter has not decided on its fate, look again;  *)
(* or we have been notified already; or the compare_exchange.              *)
Retry(w) ==
    /\ pc[w] \in {"cancel", "commit"}
    /\ Ahead(reg[w], w) < 0 \/ (Ahead(reg[w], w) = 0 /\ reg[w] # state)
    /\ Load(w)
    /\ UNCHANGED <<state, next, signaled, epoch, pc, link, all, tasks, added>>

AlreadyNotified(w) ==
    /\ pc[w] \in {"cancel", "commit"}
    /\ Ahead(reg[w], w) > 0
    /\ Go(w, "idle") /\ Settle(w)
    /\ UNCHANGED <<state, next, signaled, link, all, tasks, added>>

(* Mutant: a waiter that cancels is still counted.                         *)
CancelWaitStillCounted(w) ==
    /\ pc[w] = "cancel"
    /\ Ahead(reg[w], w) = 0 /\ reg[w] = state
    /\ state' = Advance(state, 1)
    /\ Go(w, "idle") /\ Settle(w)
    /\ UNCHANGED <<next, signaled, link, all, tasks, added>>

CancelWait(w) ==
    /\ pc[w] = "cancel"
    /\ Ahead(reg[w], w) = 0 /\ reg[w] = state
    /\ state' = Advance([state EXCEPT !.pre = @ - 1], 1)
    /\ Go(w, "idle") /\ Settle(w)
    /\ UNCHANGED <<next, signaled, link, all, tasks, added>>

(* Mutant: the epoch does not advance when a waiter goes to sleep.         *)
CommitWaitSameEpoch(w) ==
    /\ pc[w] = "commit"
    /\ Ahead(reg[w], w) = 0 /\ reg[w] = state
    /\ state' = [state EXCEPT !.pre = @ - 1, !.top = w]
    /\ next' = [next EXCEPT ![w] = state.top]
    /\ signaled' = signaled \ {w}
    /\ Go(w, "park") /\ Settle(w)
    /\ UNCHANGED <<link, all, tasks, added>>

CommitWait(w) ==
    /\ pc[w] = "commit"
    /\ Ahead(reg[w], w) = 0 /\ reg[w] = state
    /\ state' = Advance([state EXCEPT !.pre = @ - 1, !.top = w], 1)
    /\ next' = [next EXCEPT ![w] = state.top]
    /\ signaled' = signaled \ {w}
    /\ Go(w, "park") /\ Settle(w)
    /\ UNCHANGED <<link, all, tasks, added>>

Park(w) ==
    /\ pc[w] = "park" /\ w \in signaled
    /\ Go(w, "idle")
    /\ UNCHANGED <<state, next, signaled, epoch, reg, link, all, tasks, added>>
-----------------------------------------------------------------------------
Return(n) ==
    /\ Go(n, "idle")
    /\ all' = all \ {n} /\ link' = [link EXCEPT ![n] = Nobody]

(* A notifier: the predicate first, then Notify. The notifiers are alike,  *)
(* so it does not matter in which order they come.                         *)
AddTask(n) ==
    /\ pc[n] = "idle" /\ n \notin added
    /\ n = CHOOSE m \in Notifiers : m \notin added
    /\ tasks' = tasks + 1 /\ added' = added \cup {n}
    /\ Go(n, "notify")
    /\ \E every \in BOOLEAN : all' = IF every THEN all \cup {n} ELSE all
    /\ UNCHANGED <<state, next, signaled, epoch, reg, link>>

LoadState(n) ==
    /\ pc[n] = "notify"
    /\ \/ state.top = Nobody /\ state.pre = 0 /\ Return(n) /\ UNCHANGED reg
       \/ /\ ~(state.top = Nobody /\ state.pre = 0)
          /\ Load(n)
          /\ Go(n, IF n \notin all /\ state.pre = 0 THEN "next" ELSE "cas")
          /\ UNCHANGED <<all, link>>
    /\ UNCHANGED <<state, next, signaled, epoch, tasks, added>>

(* Pop a sleeping waiter: its `next` is read after state_ was.             *)
ReadNext(n) ==
    /\ pc[n] = "next"
    /\ link' = [link EXCEPT ![n] = next[reg[n].top]]
    /\ Go(n, "cas")
    /\ UNCHANGED <<state, next, signaled, epoch, reg, all, tasks, added>>

(* Mutant: Notify(true) forgets the waiters that are preparing.            *)
NotifyCasSleepersOnly(n) ==
    /\ pc[n] = "cas"
    /\ LET s == reg[n]
           one == n \notin all
       IN
         \/ s # state /\ Go(n, "notify") /\ UNCHANGED <<state, next, link, all>>
         \/ /\ s = state
            /\ state' = IF ~one THEN [s EXCEPT !.top = Nobody]
                        ELSE IF s.pre > 0 THEN Advance([s EXCEPT !.pre = @ - 1], 1)
                        ELSE [s EXCEPT !.top = link[n]]
            /\ IF (one /\ s.pre > 0) \/ s.top = Nobody
               THEN Return(n)
               ELSE Go(n, "unpark") /\ link' = [link EXCEPT ![n] = s.top] /\ UNCHANGED all
            /\ next' = IF one /\ s.pre = 0 THEN [next EXCEPT ![s.top] = Nobody] ELSE next
    /\ Forget(n)
    /\ UNCHANGED <<signaled, epoch, tasks, added>>

(* The compare_exchange of Notify, and what follows it.                    *)
NotifyCas(n) ==
    /\ pc[n] = "cas"
    /\ LET s == reg[n]
           one == n \notin all
       IN
         \/ s # state /\ Go(n, "notify") /\ UNCHANGED <<state, next, link, all>>
         \/ /\ s = state
            /\ state' = IF ~one THEN Advance([s EXCEPT !.pre = 0, !.top = Nobody], s.pre)
                        ELSE IF s.pre > 0 THEN Advance([s EXCEPT !.pre = @ - 1], 1)
                        ELSE [s EXCEPT !.top = link[n]]
            /\ IF (one /\ s.pre > 0) \/ s.top = Nobody
               THEN Return(n)
               ELSE Go(n, "unpark") /\ link' = [link EXCEPT ![n] = s.top] /\ UNCHANGED all
            /\ next' = IF one /\ s.pre = 0 THEN [next EXCEPT ![s.top] = Nobody] ELSE next
    /\ Forget(n)
    /\ UNCHANGED <<signaled, epoch, tasks, added>>

(* Unpark: `next` is read before the waiter is signalled.                  *)
Unpark(n) ==
    /\ pc[n] = "unpark"
    /\ \/ /\ link[n] # Nobody
          /\ signaled' = signaled \cup {link[n]}
          /\ link' = [link EXCEPT ![n] = next[link[n]]] /\ UNCHANGED <<pc, all>>
       \/ link[n] = Nobody /\ Return(n) /\ UNCHANGED signaled
    /\ UNCHANGED <<state, next, epoch, reg, tasks, added>>
-----------------------------------------------------------------------------
WaiterStep(w) ==
    \/ TakeTask(w) \/ LookFirst(w) \/ PrepareWait(w) \/ Check(w) \/ Retry(w) \/ AlreadyNotified(w)
    \/ CancelWait(w) \/ CommitWait(w) \/ Park(w)
NotifierStep(n) == LoadState(n) \/ ReadNext(n) \/ NotifyCas(n) \/ Unpark(n)

NotifierNext ==
    \/ \E w \in Waiters : WaiterStep(w)
    \/ \E n \in Notifiers : AddTask(n) \/ NotifierStep(n)

NotifierSpec ==
    /\ NotifierInit /\ [][NotifierNext]_vars
    /\ \A w \in Waiters : WF_vars(WaiterStep(w))
    /\ \A n \in Notifiers : WF_vars(NotifierStep(n))
-----------------------------------------------------------------------------
(* The threads that the word says are preparing, in the order of their     *)
(* epochs, and the stack that starts at its top.                           *)
Undecided(w) == pc[w] \in {"check", "cancel", "commit"} /\ Ahead(state, w) <= 0
Preparing == [i \in 1..state.pre |->
    CHOOSE w \in Waiters : Undecided(w) /\ Ahead(state, w) = 1 - i]
StackFrom[w \in Waiters \cup {Nobody}, k \in 0..Cardinality(Waiters)] ==
    IF w = Nobody \/ k = 0 THEN <<>> ELSE <<w>> \o StackFrom[next[w], k - 1]
Sleeping == StackFrom[state.top, Cardinality(Waiters)]
Notified == {w \in Waiters :
    \/ pc[w] \in {"check", "cancel", "commit"} /\ Ahead(state, w) > 0
    \/ pc[w] = "park" /\ \A i \in DOMAIN Sleeping : Sleeping[i] # w}

EC == INSTANCE EventCount WITH preparing <- Preparing, sleeping <- Sleeping,
                               notified <- Notified

(* The word, the epochs and the linked stack implement the event count:    *)
(* each notification reaches the waiter it should, no waiter is dropped    *)
(* from the stack or counted twice, though the epoch wraps around.         *)
ImplementsEventCount == EC!EcSpec

(* Either the waiter sees the task or the notifier sees the waiter: all    *)
(* tasks get done.                                                         *)
TasksGetDone == []<>(tasks = 0)

(* No waiter stays between PrepareWait and its decision, waiting for an    *)
(* earlier one: again and again, all have decided.                         *)
WaitersDecide == []<>(\A w \in Waiters : pc[w] \notin {"cancel", "commit"})

(* Types; and the word counts the waiters that are preparing exactly.      *)
NotifierInv == NotifierTypeOK /\ state.pre = Cardinality({w \in Waiters : Undecided(w)})
=============================================================================
