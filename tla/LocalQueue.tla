----------------------------- MODULE LocalQueue -----------------------------
(***************************************************************************)
(* The local queue of a worker (detail/scheduling/v2/local_queue.cc): the  *)
(* owner pushes and pops at the bottom, thieves steal at the top. The      *)
(* atomic operations are steps; the fences of the code order them.         *)
(***************************************************************************)
EXTENDS Integers, FiniteSets

CONSTANTS Thieves,        \* the other workers
          LocalCapacity,  \* capacity_, a power of two
          MaxPushed       \* bound: entities ever pushed

ASSUME LocalQueueAssumption == LocalCapacity \in {2^k : k \in 0..10}

Nothing == 0
Runnables == 1..MaxPushed
Owner == "owner"
Workers == Thieves \cup {Owner}

VARIABLES
    bottom, top,   \* bottom_, top_
    runnables,     \* runnables_
    pushed,        \* entities pushed so far; they are numbered
    taken,         \* entities that Pop or Steal has returned
    twice,         \* those it has returned again
    lpc,
    b, t,          \* the locals of Pop and Steal
    entity         \* the entity read from the array

localVars == <<bottom, top, runnables, pushed, taken, twice, lpc, b, t, entity>>

LocalQueueInit ==
    /\ bottom = 1 /\ top = 1
    /\ runnables = [i \in 0..(LocalCapacity - 1) |-> Nothing]
    /\ pushed = 0 /\ taken = {} /\ twice = {}
    /\ lpc = [a \in Workers |-> "idle"]
    /\ b = [a \in Workers |-> 0] /\ t = [a \in Workers |-> 0]
    /\ entity = [a \in Workers |-> Nothing]

Slot(i) == i % LocalCapacity
Goes(a, l) == lpc' = [lpc EXCEPT ![a] = l]

(* The call returns; its locals are dead.                                  *)
Return(a, e) ==
    /\ Goes(a, "idle")
    /\ twice' = IF e \in taken THEN twice \cup {e} ELSE twice
    /\ taken' = taken \cup ({e} \ {Nothing})
    /\ b' = [b EXCEPT ![a] = 0] /\ t' = [t EXCEPT ![a] = 0]
    /\ entity' = [entity EXCEPT ![a] = Nothing]
-----------------------------------------------------------------------------
(* The owner. Push loads its own bottom_ and then top_.                    *)
PushBegin ==
    /\ lpc[Owner] = "idle" /\ pushed < MaxPushed
    /\ IF bottom >= top + LocalCapacity THEN UNCHANGED lpc ELSE Goes(Owner, "push")
    /\ UNCHANGED <<bottom, top, runnables, pushed, taken, twice, b, t, entity>>

PushEntity ==
    /\ lpc[Owner] = "push"
    /\ runnables' = [runnables EXCEPT ![Slot(bottom)] = pushed + 1]
    /\ pushed' = pushed + 1
    /\ Goes(Owner, "publish")
    /\ UNCHANGED <<bottom, top, taken, twice, b, t, entity>>

Publish ==
    /\ lpc[Owner] = "publish"
    /\ bottom' = bottom + 1
    /\ Goes(Owner, "idle")
    /\ UNCHANGED <<top, runnables, pushed, taken, twice, b, t, entity>>

(* Pop: an empty queue; else the bottom is claimed before top_ is read     *)
(* again, a full fence in between.                                         *)
PopBegin ==
    /\ lpc[Owner] = "idle" /\ top < bottom
    /\ b' = [b EXCEPT ![Owner] = bottom]
    /\ Goes(Owner, "claim")
    /\ UNCHANGED <<bottom, top, runnables, pushed, taken, twice, t, entity>>

PopClaim ==
    /\ lpc[Owner] = "claim"
    /\ bottom' = b[Owner] - 1
    /\ Goes(Owner, "claimed")
    /\ UNCHANGED <<top, runnables, pushed, taken, twice, b, t, entity>>

(* Mutant: the last entity is taken without a race for top_.               *)
PopReadUnraced ==
    /\ lpc[Owner] = "claimed"
    /\ LET newb == b[Owner] - 1 IN
         \/ top > newb /\ Goes(Owner, "restore") /\ UNCHANGED <<taken, twice, b, t, entity>>
         \/ top <= newb /\ Return(Owner, runnables[Slot(newb)])
    /\ UNCHANGED <<bottom, top, runnables, pushed>>

PopRead ==
    /\ lpc[Owner] = "claimed"
    /\ LET newb == b[Owner] - 1
           e == runnables[Slot(newb)]
       IN
         \/ top > newb /\ Goes(Owner, "restore") /\ UNCHANGED <<taken, twice, b, t, entity>>
         \/ top < newb /\ Return(Owner, e)
         \/ /\ top = newb
            /\ t' = [t EXCEPT ![Owner] = top] /\ entity' = [entity EXCEPT ![Owner] = e]
            /\ Goes(Owner, "race") /\ UNCHANGED <<taken, twice, b>>
    /\ UNCHANGED <<bottom, top, runnables, pushed>>

(* The race for the last entity.                                           *)
PopRace ==
    /\ lpc[Owner] = "race"
    /\ IF top = t[Owner] THEN top' = top + 1 /\ UNCHANGED entity
                         ELSE entity' = [entity EXCEPT ![Owner] = Nothing] /\ UNCHANGED top
    /\ Goes(Owner, "restore")
    /\ UNCHANGED <<bottom, runnables, pushed, taken, twice, b, t>>

(* Mutant: bottom_ stays where it is.                                      *)
PopRestoreNot ==
    /\ lpc[Owner] = "restore"
    /\ Return(Owner, entity[Owner])
    /\ UNCHANGED <<bottom, top, runnables, pushed>>

PopRestore ==
    /\ lpc[Owner] = "restore"
    /\ bottom' = b[Owner]
    /\ Return(Owner, entity[Owner])
    /\ UNCHANGED <<top, runnables, pushed>>
-----------------------------------------------------------------------------
(* A thief: top_ first, then bottom_, twice; after a lost race `t` is the  *)
(* new top_ and bottom_ is read again.                                     *)
StealBegin(a) ==
    /\ lpc[a] = "idle"
    /\ t' = [t EXCEPT ![a] = top]
    /\ Goes(a, "bottom")
    /\ UNCHANGED <<bottom, top, runnables, pushed, taken, twice, b, entity>>

StealBottom(a) ==
    /\ lpc[a] \in {"bottom", "check"}
    /\ \/ t[a] >= bottom /\ Return(a, Nothing)
       \/ /\ t[a] < bottom
          /\ Goes(a, IF lpc[a] = "bottom" THEN "check" ELSE "read")
          /\ UNCHANGED <<taken, twice, b, t, entity>>
    /\ UNCHANGED <<bottom, top, runnables, pushed>>

StealRead(a) ==
    /\ lpc[a] = "read"
    /\ entity' = [entity EXCEPT ![a] = runnables[Slot(t[a])]]
    /\ Goes(a, "steal")
    /\ UNCHANGED <<bottom, top, runnables, pushed, taken, twice, b, t>>

StealCas(a) ==
    /\ lpc[a] = "steal"
    /\ \/ top = t[a] /\ top' = top + 1 /\ Return(a, entity[a])
       \/ /\ top # t[a]
          /\ t' = [t EXCEPT ![a] = top] /\ Goes(a, "check")
          /\ UNCHANGED <<top, taken, twice, b, entity>>
    /\ UNCHANGED <<bottom, runnables, pushed>>
-----------------------------------------------------------------------------
LocalQueueNext ==
    \/ PushBegin \/ PushEntity \/ Publish \/ PopBegin \/ PopClaim \/ PopRead \/ PopRace \/ PopRestore
    \/ \E a \in Thieves : StealBegin(a) \/ StealBottom(a) \/ StealRead(a) \/ StealCas(a)

LocalQueueSpec == LocalQueueInit /\ [][LocalQueueNext]_localVars
-----------------------------------------------------------------------------
(* The entities between top and bottom.                                    *)
Queued == {runnables[Slot(i)] : i \in top..(bottom - 1)}

(* The owner's part of the queue: what it has claimed or not yet published.*)
InHand ==
    (IF lpc[Owner] \in {"claimed", "race"} /\ top <= b[Owner] - 1
       THEN {runnables[Slot(b[Owner] - 1)]} ELSE {})
    \cup (IF lpc[Owner] = "restore" THEN {entity[Owner]} \ {Nothing} ELSE {})
    \cup (IF lpc[Owner] = "publish" THEN {pushed} ELSE {})

(* Types; and the queue never holds more than its capacity, though bottom_ *)
(* is one too low while the owner pops.                                    *)
LocalQueueTypeOK ==
    /\ bottom \in 1..(MaxPushed + 1) /\ top \in 1..(MaxPushed + 1)
    /\ top <= bottom + 1 /\ bottom <= top + LocalCapacity
    /\ runnables \in [0..(LocalCapacity - 1) -> Runnables \cup {Nothing}]
    /\ taken \subseteq Runnables /\ pushed \in 0..MaxPushed

(* No fiber is handed to two workers, whatever the races between the owner *)
(* and the thieves: it would be resumed twice.                             *)
TakenOnce == twice = {}

(* Types; and no fiber is lost: each one pushed is queued, in the owner's  *)
(* hands or taken.                                                         *)
NoneLost == LocalQueueTypeOK /\ 1..pushed = Queued \cup InHand \cup taken
=============================================================================
