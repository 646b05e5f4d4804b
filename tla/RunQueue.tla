------------------------------ MODULE RunQueue ------------------------------
(***************************************************************************)
(* The bounded multi-producer multi-consumer ring buffer of ready fibers,  *)
(* runtime/threadmodel/fiber/detail/scheduling/v1/run_queue.{h,cc}.        *)
(*                                                                         *)
(* A step is one access to shared memory, except that a node is written    *)
(* together with the store of its `seq` that publishes it, and read        *)
(* together with the store that gives it back.                             *)
(***************************************************************************)
EXTENDS Integers, Sequences, SequencesExt, FiniteSets

CONSTANTS Pushers, Batchers, Poppers, Stealers, \* threads, by what they call
          Capacity,   \* capacity_, a power of two
          Load,       \* the entities each call of a pusher carries
          Entities,   \* the runnable entities
          Local,      \* those pushed with `instealable`
          None,       \* nullptr
          MaxSeq      \* bound: no push starts once so many are claimed

Agents == Pushers \cup Batchers \cup Poppers \cup Stealers

ASSUME QueueAssumption ==
    /\ Capacity \in Nat \ {0} /\ MaxSeq \in Nat
    /\ Load \in [Pushers \cup Batchers -> Seq(Entities)]
    /\ \A a \in Pushers : Len(Load[a]) = 1
    /\ Local \subseteq Entities /\ None \notin Entities

VARIABLES
    head, tail,  \* head_seq_, tail_seq_
    seq, fiber,  \* the fields of nodes_ (instealable: fiber \in Local)
    pc,          \* where each thread is in its call
    reg,         \* the head or tail it has loaded
    idx,         \* BatchPush: the node it checks or fills
    log          \* history: the entities in the order their nodes were claimed

vars == <<head, tail, seq, fiber, pc, reg, idx, log>>

Node(s) == s % Capacity

RunQueueTypeOK ==
    /\ head \in Nat /\ tail \in Nat /\ tail <= head /\ head <= tail + Capacity
    /\ seq \in [0..(Capacity - 1) -> Nat]
    /\ fiber \in [0..(Capacity - 1) -> Entities \cup {None}]
    /\ pc \in [Agents -> {"idle", "load", "read", "check", "cas", "fill",
                          "test", "take"}]
    /\ reg \in [Agents -> Nat] /\ idx \in [Agents -> Nat]
    /\ log \in Seq(Entities)

RunQueueInit ==
    /\ head = 0 /\ tail = 0
    /\ seq = [i \in 0..(Capacity - 1) |-> i]
    /\ fiber = [i \in 0..(Capacity - 1) |-> None]
    /\ pc = [a \in Agents |-> "idle"]
    /\ reg = [a \in Agents |-> 0] /\ idx = [a \in Agents |-> 0]
    /\ log = <<>>

(* The register of a thread that is not in a call is dead.                 *)
Go(a, l) ==
    /\ pc' = [pc EXCEPT ![a] = l]
    /\ reg' = IF l = "idle" THEN [reg EXCEPT ![a] = 0] ELSE reg
-----------------------------------------------------------------------------
(* Push and PushSlow; BatchPush is the same with a range of nodes.         *)
Call(a) ==
    /\ pc[a] = "idle"
    /\ a \in Pushers \cup Batchers => head < MaxSeq
    /\ pc' = [pc EXCEPT ![a] = "load"]
    /\ UNCHANGED <<head, tail, seq, fiber, reg, idx, log>>

(* The head to claim from.                                                 *)
LoadHead(a) ==
    /\ a \in Pushers \cup Batchers /\ pc[a] = "load"
    /\ reg' = [reg EXCEPT ![a] = head]
    /\ pc' = [pc EXCEPT ![a] = "read"]
    /\ UNCHANGED <<head, tail, seq, fiber, idx, log>>

(* nseq == head: the node is free.  nseq + capacity_ == head + 1: it holds *)
(* an entity of the turn before, overrun.  Otherwise head is out of date.  *)
ReadHeadNode(a) ==
    /\ a \in Pushers /\ pc[a] = "read"
    /\ LET nseq == seq[Node(reg[a])] IN
         Go(a, IF nseq = reg[a] THEN "cas"
               ELSE IF nseq + Capacity = reg[a] + 1 THEN "idle" ELSE "load")
    /\ UNCHANGED <<head, tail, seq, fiber, idx, log>>

(* Mutant: BatchPush retries on overrun.                                  *)
ReadEndNodeRetries(a) ==
    /\ a \in Batchers /\ pc[a] = "read"
    /\ LET end == reg[a] + Len(Load[a]) IN
         Go(a, IF seq[Node(end)] = end THEN "check" ELSE "load")
    /\ idx' = [idx EXCEPT ![a] = 0]
    /\ UNCHANGED <<head, tail, seq, fiber, log>>

(* BatchPush looks at the node behind its range first.                     *)
ReadEndNode(a) ==
    /\ a \in Batchers /\ pc[a] = "read"
    /\ LET end == reg[a] + Len(Load[a])  hseq == seq[Node(end)] IN
         Go(a, IF hseq = end THEN "check"
               ELSE IF hseq + Capacity = end + 1 THEN "idle" ELSE "load")
    /\ idx' = [idx EXCEPT ![a] = 0]
    /\ UNCHANGED <<head, tail, seq, fiber, log>>

(* Mutant: only the node behind the range is looked at.                    *)
CheckRangeSkipped(a) ==
    /\ pc[a] = "check"
    /\ Go(a, "cas") /\ UNCHANGED idx
    /\ UNCHANGED <<head, tail, seq, fiber, log>>

(* ... then at every node of it, for one that is not fully reset.          *)
CheckRange(a) ==
    /\ pc[a] = "check"
    /\ \/ /\ idx[a] < Len(Load[a])
          /\ seq[Node(reg[a] + idx[a])] + Capacity = reg[a] + idx[a] + 1
          /\ Go(a, "idle") /\ UNCHANGED idx
       \/ /\ idx[a] < Len(Load[a])
          /\ seq[Node(reg[a] + idx[a])] + Capacity # reg[a] + idx[a] + 1
          /\ idx' = [idx EXCEPT ![a] = @ + 1] /\ UNCHANGED <<pc, reg>>
       \/ idx[a] = Len(Load[a]) /\ Go(a, "cas") /\ UNCHANGED idx
    /\ UNCHANGED <<head, tail, seq, fiber, log>>

(* compare_exchange_weak on head_seq_ (a spurious failure, on machines that *)
(* have them, only repeats the loop).                                      *)
ClaimHead(a) ==
    /\ a \in Pushers \cup Batchers /\ pc[a] = "cas"
    /\ \/ /\ head = reg[a]
          /\ head' = head + Len(Load[a])
          /\ log' = log \o Load[a]
          /\ idx' = [idx EXCEPT ![a] = 0]
          /\ Go(a, "fill")
       \/ head # reg[a] /\ Go(a, "load") /\ UNCHANGED <<head, log, idx>>
    /\ UNCHANGED <<tail, seq, fiber>>

(* Publish one node; the call returns after the last one.                  *)
Fill(a) ==
    /\ pc[a] = "fill"
    /\ LET s == reg[a] + idx[a] IN
         /\ fiber' = [fiber EXCEPT ![Node(s)] = Load[a][idx[a] + 1]]
         /\ seq' = [seq EXCEPT ![Node(s)] = s + 1]
    /\ \/ /\ idx[a] + 1 < Len(Load[a])
          /\ idx' = [idx EXCEPT ![a] = @ + 1] /\ UNCHANGED <<pc, reg>>
       \/ /\ idx[a] + 1 = Len(Load[a])
          /\ idx' = [idx EXCEPT ![a] = 0]
          /\ Go(a, "idle")
    /\ UNCHANGED <<head, tail, log>>
-----------------------------------------------------------------------------
(* Pop and Steal: PopIf.                                                   *)
LoadTail(a) ==
    /\ a \in Poppers \cup Stealers /\ pc[a] = "load"
    /\ reg' = [reg EXCEPT ![a] = tail]
    /\ pc' = [pc EXCEPT ![a] = "read"]
    /\ UNCHANGED <<head, tail, seq, fiber, idx, log>>

(* nseq == tail + 1: filled.  nseq == tail or nseq + capacity_ == tail:    *)
(* not filled, nullptr is returned.  Otherwise tail is out of date.        *)
ReadTailNode(a) ==
    /\ a \in Poppers \cup Stealers /\ pc[a] = "read"
    /\ LET nseq == seq[Node(reg[a])] IN
         Go(a, IF nseq = reg[a] + 1 THEN IF a \in Stealers THEN "test" ELSE "cas"
               ELSE IF nseq = reg[a] \/ nseq + Capacity = reg[a] THEN "idle"
               ELSE "load")
    /\ UNCHANGED <<head, tail, seq, fiber, idx, log>>

(* Mutant: Steal does not look at `instealable`.                           *)
TestStealableSkipped(a) ==
    /\ pc[a] = "test"
    /\ Go(a, "cas")
    /\ UNCHANGED <<head, tail, seq, fiber, idx, log>>

(* Steal's predicate, on the node as it is now.                            *)
TestStealable(a) ==
    /\ pc[a] = "test"
    /\ Go(a, IF fiber[Node(reg[a])] \in Local THEN "idle" ELSE "cas")
    /\ UNCHANGED <<head, tail, seq, fiber, idx, log>>

(* Mutant: the node is given back as it is claimed, before it is read.     *)
ClaimTailReleases(a) ==
    /\ a \in Poppers \cup Stealers /\ pc[a] = "cas"
    /\ \/ /\ tail = reg[a] /\ tail' = tail + 1 /\ Go(a, "take")
          /\ seq' = [seq EXCEPT ![Node(reg[a])] = reg[a] + Capacity]
       \/ tail # reg[a] /\ Go(a, "load") /\ UNCHANGED <<tail, seq>>
    /\ UNCHANGED <<head, fiber, idx, log>>

ClaimTail(a) ==
    /\ a \in Poppers \cup Stealers /\ pc[a] = "cas"
    /\ \/ tail = reg[a] /\ tail' = tail + 1 /\ Go(a, "take")
       \/ tail # reg[a] /\ Go(a, "load") /\ UNCHANGED tail
    /\ UNCHANGED <<head, seq, fiber, idx, log>>

Take(a) ==
    /\ pc[a] = "take"
    /\ seq' = [seq EXCEPT ![Node(reg[a])] = reg[a] + Capacity]
    /\ Go(a, "idle")
    /\ UNCHANGED <<head, tail, fiber, idx, log>>
-----------------------------------------------------------------------------
PushStep(a) ==
    \/ LoadHead(a) \/ ReadHeadNode(a) \/ ReadEndNode(a) \/ CheckRange(a)
    \/ ClaimHead(a) \/ Fill(a)
PopStep(a) ==
    \/ LoadTail(a) \/ ReadTailNode(a) \/ TestStealable(a) \/ ClaimTail(a) \/ Take(a)

RunQueueNext == \E a \in Agents : Call(a) \/ PushStep(a) \/ PopStep(a)
RunQueueSpec == RunQueueInit /\ [][RunQueueNext]_vars
FairRunQueueSpec == RunQueueSpec /\ \A a \in Agents : WF_vars(PushStep(a) \/ PopStep(a))
-----------------------------------------------------------------------------
(* Types, and no more than Capacity entities; and first in, first out,     *)
(* each entity once: the caller of Pop or Steal that claimed the n-th node *)
(* finds the n-th entity claimed for in it, however late it reads the node *)
(* and whatever the pushers have done meanwhile.                           *)
FirstInFirstOut ==
    /\ RunQueueTypeOK
    /\ \A a \in Agents : pc[a] = "take" => fiber[Node(reg[a])] = log[reg[a] + 1]

(* A pusher writes only nodes that nobody fills, holds or reads: the       *)
(* TRPC_CHECK_EQ of BatchPush holds, for Push as well.                     *)
FilledNodeIsFree == \A a \in Agents : pc[a] = "fill" =>
    \A i \in idx[a]..(Len(Load[a]) - 1) : seq[Node(reg[a] + i)] = reg[a] + i

(* No entity bound to its scheduling group is stolen: the one tested is    *)
(* the one claimed, although other threads pop and push in between.        *)
StealsNoLocal == \A a \in Stealers : pc[a] = "take" => log[reg[a] + 1] \notin Local

(* Every call of BatchPush returns ("Returns `false` on overrun.",         *)
(* run_queue.h).                                                           *)
EveryBatchPushReturns == \A a \in Batchers : []<>(pc[a] = "idle")

(* A call of BatchPush returns if its batch is smaller than the ring and   *)
(* the others do not claim nodes for ever: whatever is in the ring and     *)
(* whoever is behind with filling or reading a node, it is pushed or the   *)
(* call returns false.                                                     *)
BatchPushReturns == \A a \in Batchers : Len(Load[a]) < Capacity =>
    []<>(pc[a] = "idle") \/ []<><<head' # head>>_head
=============================================================================
