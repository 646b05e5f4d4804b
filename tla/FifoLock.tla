------------------------------ MODULE FifoLock ------------------------------
(***************************************************************************)
(* What the fiber mutex promises: agents get the lock in the order in      *)
(* which they announce themselves, one at a time.                          *)
(***************************************************************************)
EXTENDS Sequences

CONSTANTS Agents, NoOne

VARIABLES queue,  \* announced agents, in order; the first is next or inside
          inside  \* the agent that owns the lock

fifoVars == <<queue, inside>>

FifoInit == queue = <<>> /\ inside = NoOne

Announced(a) == \E i \in DOMAIN queue : queue[i] = a

Announce(a) ==
    /\ ~Announced(a)
    /\ queue' = Append(queue, a)
    /\ UNCHANGED inside

Enter(a) ==
    /\ queue # <<>> /\ Head(queue) = a
    /\ inside = NoOne
    /\ inside' = a
    /\ UNCHANGED queue

AnnounceAndEnter(a) ==
    /\ queue = <<>>
    /\ queue' = <<a>>
    /\ inside' = a

Leave(a) ==
    /\ inside = a
    /\ queue' = Tail(queue)
    /\ inside' = NoOne

FifoNext == \E a \in Agents :
    Announce(a) \/ Enter(a) \/ AnnounceAndEnter(a) \/ Leave(a)

FifoSpec == FifoInit /\ [][FifoNext]_fifoVars
=============================================================================
