------------------------- MODULE FiberSchedulingV2 -------------------------
(***************************************************************************)
(* The work-stealing scheduler of fibers (detail/scheduling/v2/            *)
(* scheduling_impl.cc): the loop of a worker, the counts of thieves and    *)
(* actives, and the queueing of fibers by workers and by other threads.    *)
(* The notifier is its promise, EventCount, which PredicateNotifier        *)
(* implements; a queue is the number of fibers in it, as LocalQueue and    *)
(* RunQueue justify.                                                       *)
(***************************************************************************)
EXTENDS EventCount, Integers, FiniteSets

CONSTANTS N,           \* group_size_
          Pushers,     \* threads that are not workers
          Capacity,    \* trpc_fiber_run_queue_size
          LocalCap,    \* the size of a local queue (1024)
          Reactors,    \* how many reactor fibers the group may have
          Hogs,        \* workers whose fibers need not end
          MaxStarts    \* bound: calls that make a fiber ready

Workers == 0..(N - 1)

ASSUME GroupAssumption ==
    /\ N \in Nat \ {0} /\ Waiters = Workers
    /\ Capacity \in Nat \ {0} /\ LocalCap \in Nat \ {0}
    /\ Reactors \subseteq Nat /\ Hogs \subseteq Workers

VARIABLES
    local,     \* local_queues_
    global,    \* global_queue_
    reactors,  \* fiber_reactor_queue_
    thieves,   \* num_thieves_
    actives,   \* num_actives_
    vtm,       \* vtm_: the victim of each worker
    stopped,   \* stopped_
    pc,
    probe,     \* num_steals of ExploreTask, `i` of the scan of the last thief
    got,       \* what WaitForFiber returns: "fiber", "reactor", "none"
    starts     \* calls that may still be made

queues == <<local, global, reactors>>
counts == <<thieves, actives>>
vars == <<ecVars, queues, counts, vtm, stopped, pc, probe, got, starts>>

SchedTypeOK ==
    /\ local \in [Workers -> 0..LocalCap] /\ global \in 0..Capacity
    /\ reactors \in Nat
    /\ thieves \in 0..N /\ actives \in 0..N
    /\ vtm \in [Workers -> Workers]
    /\ probe \in [Workers -> 0..N]

(* The workers have entered; the reactor fibers, if any, are ready.        *)
SchedInit ==
    /\ EcInit
    /\ local = [w \in Workers |-> 0] /\ global = 0 /\ reactors \in Reactors
    /\ thieves = 0 /\ actives = 0
    /\ vtm = [w \in Workers |-> w]
    /\ stopped = FALSE
    /\ pc = [a \in Workers \cup Pushers |-> IF a \in Workers THEN "wait" ELSE "idle"]
    /\ probe = [w \in Workers |-> 0]
    /\ got = [w \in Workers |-> "none"]
    /\ starts = MaxStarts

Go(a, l) == pc' = [pc EXCEPT ![a] = l]

(* Notify(false), Notify(true): nothing happens if nobody waits.           *)
Nobody == preparing = <<>> /\ sleeping = <<>>
NotifyIf(c) == IF c /\ ~Nobody THEN NotifyOne ELSE UNCHANGED ecVars

(* RunQueue::UnsafeSize: a full queue counts as an empty one.              *)
UnsafeSize == IF global >= Capacity THEN 0 ELSE global
-----------------------------------------------------------------------------
(* WaitForFiber.                                                           *)
BecomeThief(w) ==
    /\ pc[w] = "wait"
    /\ thieves' = thieves + 1
    /\ Go(w, IF thieves <= N \div 2 THEN "explore" ELSE "prepare")
    /\ probe' = [probe EXCEPT ![w] = 0]
    /\ UNCHANGED <<ecVars, queues, actives, vtm, stopped, got, starts>>

(* ExploreTask, one victim per step; the victim moves on unless it was the *)
(* last one.                                                               *)
ExploreTask(w) ==
    LET v == vtm[w]
        Found == Go(w, "found") /\ got' = [got EXCEPT ![w] = "fiber"] /\ UNCHANGED <<vtm, probe>>
    IN
    /\ pc[w] = "explore"
    /\ \/ local[v] > 0 /\ local' = [local EXCEPT ![v] = @ - 1] /\ Found /\ UNCHANGED global
       \/ v = w /\ local[v] = 0 /\ global > 0 /\ global' = global - 1 /\ Found /\ UNCHANGED local
       \/ /\ local[v] = 0 /\ (v = w => global = 0)
          /\ IF probe[w] + 1 > N \div 2
             THEN Go(w, "prepare") /\ probe' = [probe EXCEPT ![w] = 0] /\ UNCHANGED vtm
             ELSE /\ probe' = [probe EXCEPT ![w] = @ + 1]
                  /\ vtm' = [vtm EXCEPT ![w] = (v + 1) % N]
                  /\ UNCHANGED pc
          /\ UNCHANGED <<local, global, got>>
    /\ UNCHANGED <<ecVars, reactors, counts, stopped, starts>>

(* A thief that found a fiber; the last one wakes a successor.             *)
Found(w) ==
    /\ pc[w] = "found"
    /\ thieves' = thieves - 1
    /\ NotifyIf(thieves = 1)
    /\ Go(w, "activate") /\ probe' = [probe EXCEPT ![w] = 0]
    /\ UNCHANGED <<queues, actives, vtm, stopped, got, starts>>

Prepare(w) ==
    /\ pc[w] = "prepare"
    /\ PrepareWait(w)
    /\ Go(w, "check")
    /\ UNCHANGED <<queues, counts, vtm, stopped, probe, got, starts>>

(* Mutant: the global queue is not looked at after PrepareWait.            *)
CheckGlobalNot(w) ==
    /\ pc[w] = "check"
    /\ Go(w, IF stopped THEN "cancel_stop" ELSE "leave")
    /\ UNCHANGED <<ecVars, queues, counts, vtm, stopped, probe, got, starts>>

CheckGlobal(w) ==
    /\ pc[w] = "check"
    /\ Go(w, IF UnsafeSize > 0 THEN "cancel_pop" ELSE IF stopped THEN "cancel_stop" ELSE "leave")
    /\ UNCHANGED <<ecVars, queues, counts, vtm, stopped, probe, got, starts>>

(* CancelWait returns when the worker is the oldest, or notified.          *)
Cancelled(w) == CancelWait(w) \/ GoesOn(w)

CancelPop(w) ==
    /\ pc[w] = "cancel_pop"
    /\ Cancelled(w)
    /\ Go(w, "pop")
    /\ UNCHANGED <<queues, counts, vtm, stopped, probe, got, starts>>

(* Mutant: the worker does not step down when the pop fails.               *)
PopGlobalStaysThief(w) ==
    /\ pc[w] = "pop"
    /\ \/ /\ global > 0
          /\ global' = global - 1
          /\ Go(w, "found") /\ got' = [got EXCEPT ![w] = "fiber"]
          /\ UNCHANGED vtm
       \/ /\ global = 0
          /\ vtm' = [vtm EXCEPT ![w] = w]
          /\ Go(w, "wait")
          /\ UNCHANGED <<global, got>>
    /\ UNCHANGED <<ecVars, local, reactors, counts, stopped, probe, starts>>

PopGlobal(w) ==
    /\ pc[w] = "pop"
    /\ \/ /\ global > 0
          /\ global' = global - 1
          /\ Go(w, "found") /\ got' = [got EXCEPT ![w] = "fiber"]
          /\ UNCHANGED <<thieves, vtm>>
       \/ /\ global = 0
          /\ vtm' = [vtm EXCEPT ![w] = w]
          /\ thieves' = thieves - 1
          /\ Go(w, "wait")
          /\ UNCHANGED <<global, got>>
    /\ UNCHANGED <<ecVars, local, reactors, actives, stopped, probe, starts>>

CancelStop(w) ==
    /\ pc[w] = "cancel_stop"
    /\ Cancelled(w)
    /\ Go(w, "notify_stop")
    /\ UNCHANGED <<queues, counts, vtm, stopped, probe, got, starts>>

NotifyStop(w) ==
    /\ pc[w] = "notify_stop"
    /\ NotifyAll
    /\ thieves' = thieves - 1
    /\ Go(w, "left")
    /\ UNCHANGED <<queues, actives, vtm, stopped, probe, got, starts>>

(* The thief gives up; the last one must look once more.                   *)
Leave(w) ==
    /\ pc[w] = "leave"
    /\ thieves' = thieves - 1
    /\ Go(w, IF thieves = 1 THEN "last" ELSE "reactor")
    /\ UNCHANGED <<ecVars, queues, actives, vtm, stopped, probe, got, starts>>

(* Mutant: the last thief does not mind the active workers.                *)
LastThiefSleeps(w) ==
    /\ pc[w] = "last"
    /\ Go(w, "scan")
    /\ UNCHANGED <<ecVars, queues, counts, vtm, stopped, probe, got, starts>>

LastThief(w) ==
    /\ pc[w] = "last"
    /\ Go(w, IF actives > 0 THEN "cancel" ELSE "scan")
    /\ UNCHANGED <<ecVars, queues, counts, vtm, stopped, probe, got, starts>>

Scan(w) ==
    /\ pc[w] = "scan"
    /\ LET i == probe[w] IN
         IF i = N THEN Go(w, "reactor") /\ probe' = [probe EXCEPT ![w] = 0] /\ UNCHANGED vtm
         ELSE IF local[i] = 0 THEN probe' = [probe EXCEPT ![w] = @ + 1] /\ UNCHANGED <<pc, vtm>>
         ELSE /\ vtm' = [vtm EXCEPT ![w] = i]
              /\ Go(w, "cancel") /\ probe' = [probe EXCEPT ![w] = 0]
    /\ UNCHANGED <<ecVars, queues, counts, stopped, got, starts>>

(* AcquireReactorFiber.                                                    *)
AcquireReactorFiber(w) ==
    /\ pc[w] = "reactor"
    /\ IF reactors > 0
       THEN reactors' = reactors - 1 /\ got' = [got EXCEPT ![w] = "reactor"] /\ Go(w, "cancel")
       ELSE /\ IF stopped THEN got' = [got EXCEPT ![w] = "stop"] /\ Go(w, "cancel")
                          ELSE Go(w, "commit") /\ UNCHANGED got
            /\ UNCHANGED reactors
    /\ UNCHANGED <<ecVars, local, global, counts, vtm, stopped, probe, starts>>

Cancel(w) ==
    /\ pc[w] = "cancel"
    /\ Cancelled(w)
    /\ Go(w, CASE got[w] = "reactor" -> "run_reactor" [] got[w] = "stop" -> "left" [] OTHER -> "wait")
    /\ UNCHANGED <<queues, counts, vtm, stopped, probe, got, starts>>

Commit(w) ==
    /\ pc[w] = "commit"
    /\ \/ CommitWait(w) /\ Go(w, "asleep")
       \/ GoesOn(w) /\ Go(w, "wait")
    /\ UNCHANGED <<queues, counts, vtm, stopped, probe, got, starts>>

WakeUp(w) ==
    /\ pc[w] = "asleep"
    /\ GoesOn(w)
    /\ Go(w, "wait")
    /\ UNCHANGED <<queues, counts, vtm, stopped, probe, got, starts>>
-----------------------------------------------------------------------------
(* Schedule.                                                               *)
Activate(w) ==
    /\ pc[w] = "activate"
    /\ actives' = actives + 1
    /\ Go(w, IF actives = 0 THEN "any_thief" ELSE "run")
    /\ UNCHANGED <<ecVars, queues, thieves, vtm, stopped, probe, got, starts>>

AnyThief(w) ==
    /\ pc[w] = "any_thief"
    /\ NotifyIf(thieves = 0)
    /\ Go(w, "run")
    /\ UNCHANGED <<queues, counts, vtm, stopped, probe, got, starts>>

(* A fiber or the reactor starts a fiber, or makes one ready.              *)
StartLocal(w) ==
    /\ pc[w] \in {"run", "run_reactor"} /\ starts > 0 /\ ~stopped
    /\ local[w] < LocalCap
    /\ local' = [local EXCEPT ![w] = @ + 1]
    /\ starts' = starts - 1
    /\ UNCHANGED <<ecVars, global, reactors, counts, vtm, stopped, pc, probe, got>>

(* The local queue is full: PushToLocalQueue turns to the global one, and  *)
(* notifies if there was room; else the call fails.                        *)
StartOverflow(w) ==
    /\ pc[w] \in {"run", "run_reactor"} /\ starts > 0 /\ ~stopped
    /\ local[w] = LocalCap
    /\ \/ global < Capacity /\ global' = global + 1 /\ Go(w, "overflow")
       \/ global = Capacity /\ UNCHANGED <<global, pc>>
    /\ starts' = starts - 1
    /\ UNCHANGED <<ecVars, local, reactors, counts, vtm, stopped, probe, got>>

OverflowNotifies(w) ==
    /\ pc[w] = "overflow"
    /\ NotifyIf(TRUE)
    /\ Go(w, IF got[w] = "reactor" THEN "run_reactor" ELSE "run")
    /\ UNCHANGED <<queues, counts, vtm, stopped, probe, got, starts>>

(* The fiber ends or suspends; the next one is from the local queue.       *)
EndFiber(w) ==
    /\ pc[w] = "run"
    /\ Go(w, "ended")
    /\ UNCHANGED <<ecVars, queues, counts, vtm, stopped, probe, got, starts>>

NextFiber(w) ==
    /\ pc[w] = "ended"
    /\ \/ local[w] > 0 /\ local' = [local EXCEPT ![w] = @ - 1] /\ Go(w, "run") /\ UNCHANGED <<actives, got>>
       \/ /\ local[w] = 0
          /\ actives' = actives - 1
          /\ Go(w, "wait") /\ got' = [got EXCEPT ![w] = "none"]
          /\ UNCHANGED local
    /\ UNCHANGED <<ecVars, global, reactors, thieves, vtm, stopped, probe, starts>>

(* A fiber yields: the master fiber resumes it, into the global queue, for *)
(* which it waits as long as that is full, and goes on as after the end.   *)
Yield(w) ==
    /\ pc[w] = "run" /\ starts > 0 /\ ~stopped
    /\ starts' = starts - 1
    /\ Go(w, "yield")
    /\ UNCHANGED <<ecVars, queues, counts, vtm, stopped, probe, got>>

ResumeYielded(w) ==
    /\ pc[w] = "yield" /\ global < Capacity
    /\ global' = global + 1
    /\ Go(w, "yielded")
    /\ UNCHANGED <<ecVars, local, reactors, counts, vtm, stopped, probe, got, starts>>

YieldedNotifies(w) ==
    /\ pc[w] = "yielded"
    /\ NotifyIf(TRUE)
    /\ Go(w, "ended")
    /\ UNCHANGED <<queues, counts, vtm, stopped, probe, got, starts>>

(* The reactor yields: the master fiber resumes it, into its own queue; it *)
(* ends instead once it is stopped.                                        *)
YieldReactor(w) ==
    /\ pc[w] = "run_reactor"
    /\ got' = [got EXCEPT ![w] = "none"]
    /\ \/ ~stopped /\ reactors' = reactors + 1 /\ Go(w, "requeued")
       \/ stopped /\ Go(w, "wait") /\ UNCHANGED reactors
    /\ UNCHANGED <<ecVars, local, global, counts, vtm, stopped, probe, starts>>

ReactorNotifies(w) ==
    /\ pc[w] = "requeued"
    /\ NotifyIf(TRUE)
    /\ Go(w, "wait")
    /\ UNCHANGED <<queues, counts, vtm, stopped, probe, got, starts>>
-----------------------------------------------------------------------------
(* Other threads. StartFiber does not wait for room: a refused push makes  *)
(* it return false, after a Notify(false) all the same.                    *)
StartFiber(p) ==
    /\ pc[p] = "idle" /\ starts > 0 /\ ~stopped
    /\ \/ global < Capacity /\ global' = global + 1
       \/ global = Capacity /\ UNCHANGED global
    /\ starts' = starts - 1
    /\ Go(p, "notify")
    /\ UNCHANGED <<ecVars, local, reactors, counts, vtm, stopped, probe, got>>

(* Resume waits: it tries again and again, and notifies once it succeeds.  *)
Resume(p) ==
    /\ pc[p] = "idle" /\ starts > 0 /\ ~stopped
    /\ starts' = starts - 1
    /\ Go(p, "resume")
    /\ UNCHANGED <<ecVars, queues, counts, vtm, stopped, probe, got>>

PushGlobal(p) ==
    /\ pc[p] = "resume" /\ global < Capacity
    /\ global' = global + 1
    /\ Go(p, "notify")
    /\ UNCHANGED <<ecVars, local, reactors, counts, vtm, stopped, probe, got, starts>>

PushNotifies(p) ==
    /\ pc[p] = "notify"
    /\ NotifyIf(TRUE)
    /\ Go(p, "idle")
    /\ UNCHANGED <<queues, counts, vtm, stopped, probe, got, starts>>

(* Stop: the flag, then Notify(true); no fiber is started any more.        *)
SetStopped(p) ==
    /\ pc[p] = "idle" /\ starts = 0 /\ ~stopped
    /\ stopped' = TRUE
    /\ Go(p, "stop")
    /\ UNCHANGED <<ecVars, queues, counts, vtm, probe, got, starts>>

(* Mutant: Stop wakes a single worker.                                     *)
StopNotifiesOne(p) ==
    /\ pc[p] = "stop"
    /\ NotifyIf(TRUE)
    /\ Go(p, "left")
    /\ UNCHANGED <<queues, counts, vtm, stopped, probe, got, starts>>

StopNotifies(p) ==
    /\ pc[p] = "stop"
    /\ NotifyAll
    /\ Go(p, "left")
    /\ UNCHANGED <<queues, counts, vtm, stopped, probe, got, starts>>
-----------------------------------------------------------------------------
SchedulerStep(w) ==
    \/ BecomeThief(w) \/ ExploreTask(w) \/ Found(w) \/ Prepare(w) \/ CheckGlobal(w)
    \/ CancelPop(w) \/ PopGlobal(w) \/ CancelStop(w) \/ NotifyStop(w) \/ Leave(w)
    \/ LastThief(w) \/ Scan(w) \/ AcquireReactorFiber(w) \/ Cancel(w) \/ Commit(w)
    \/ WakeUp(w) \/ Activate(w) \/ AnyThief(w) \/ OverflowNotifies(w) \/ NextFiber(w)
    \/ ResumeYielded(w) \/ YieldedNotifies(w) \/ YieldReactor(w) \/ ReactorNotifies(w)
PusherStep(p) == PushGlobal(p) \/ PushNotifies(p) \/ StopNotifies(p)

SchedNext ==
    \/ \E w \in Workers : \/ SchedulerStep(w)
                          \/ StartLocal(w) \/ StartOverflow(w) \/ Yield(w) \/ EndFiber(w)
    \/ \E p \in Pushers : StartFiber(p) \/ Resume(p) \/ SetStopped(p) \/ PusherStep(p)

(* The workers are scheduled by the kernel; a fiber ends or suspends, but  *)
(* for those of the hogs.                                                  *)
SchedSpec ==
    /\ SchedInit /\ [][SchedNext]_vars
    /\ \A w \in Workers : WF_vars(SchedulerStep(w))
    /\ \A w \in Workers \ Hogs : WF_vars(EndFiber(w))
    /\ \A p \in Pushers : WF_vars(PusherStep(p))
-----------------------------------------------------------------------------
(* The fibers in the global queue get a worker, full as it may be.         *)
PushedFiberRuns == []<>(global = 0 \/ stopped)

(* Fibers in the global queue get a worker though all of them were about   *)
(* to sleep when they were pushed; only a queue that stays full may not be *)
(* served (UnsafeSize).                                                    *)
GlobalFiberRuns == []<>(global = 0 \/ global = Capacity \/ stopped)

(* A fiber in a local queue gets a worker even if the fiber that put it    *)
(* there never ends: pushing locally notifies nobody, the thieves must     *)
(* find it ("without notification", scheduling_impl.h).                    *)
LocalFiberRuns == \A w \in Workers : []<>(local[w] = 0 \/ stopped)

(* Stop() makes every worker leave that is not in a fiber for ever, nor    *)
(* waits for room in the global queue to put back a fiber that yielded:    *)
(* once the others have left, nobody makes room.                           *)
StoppedLeaves == \A p \in Pushers :
    []<>(pc[p] = "left" => \A w \in Workers \ Hogs :
                             pc[w] = "left" \/ (pc[w] = "yield" /\ global = Capacity))

(* The counts: as many thieves as workers look for work, as many actives   *)
(* as run fibers.                                                          *)
SchedInv ==
    /\ SchedTypeOK
    /\ thieves = Cardinality({w \in Workers : pc[w] \in
          {"explore", "found", "prepare", "check", "cancel_pop", "pop", "cancel_stop", "notify_stop", "leave"}})
    /\ actives = Cardinality({w \in Workers : got[w] = "fiber" /\ pc[w] \in
          {"any_thief", "run", "overflow", "yield", "yielded", "ended"}})
=============================================================================
