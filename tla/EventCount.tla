----------------------------- MODULE EventCount -----------------------------
(***************************************************************************)
(* What PredicateNotifier promises (trpc/util/thread/predicate_notifier.h):*)
(* a waiter announces itself, may change its mind, or sleeps; a            *)
(* notification reaches the oldest waiter that is announced, else the one  *)
(* that fell asleep last.                                                  *)
(***************************************************************************)
EXTENDS Sequences, SequencesExt

CONSTANT Waiters
VARIABLES preparing, \* announced waiters, oldest first
          sleeping,  \* waiters asleep, the latest first
          notified   \* waiters that a notification has reached

ecVars == <<preparing, sleeping, notified>>

EcInit == preparing = <<>> /\ sleeping = <<>> /\ notified = {}

Busy == Range(preparing) \cup Range(sleeping) \cup notified

PrepareWait(w) ==
    /\ w \notin Busy
    /\ preparing' = Append(preparing, w)
    /\ UNCHANGED <<sleeping, notified>>

(* An announced waiter settles only when all earlier ones have.            *)
CommitWait(w) ==
    /\ preparing # <<>> /\ Head(preparing) = w
    /\ preparing' = Tail(preparing)
    /\ sleeping' = <<w>> \o sleeping
    /\ UNCHANGED notified

CancelWait(w) ==
    /\ preparing # <<>> /\ Head(preparing) = w
    /\ preparing' = Tail(preparing)
    /\ UNCHANGED <<sleeping, notified>>

(* A notified waiter goes on, whatever it was about to do.                 *)
GoesOn(w) ==
    /\ w \in notified
    /\ notified' = notified \ {w}
    /\ UNCHANGED <<preparing, sleeping>>

NotifyOne ==
    \/ /\ preparing # <<>>
       /\ notified' = notified \cup {Head(preparing)}
       /\ preparing' = Tail(preparing) /\ UNCHANGED sleeping
    \/ /\ preparing = <<>> /\ sleeping # <<>>
       /\ notified' = notified \cup {Head(sleeping)}
       /\ sleeping' = Tail(sleeping) /\ UNCHANGED preparing

NotifyAll ==
    /\ notified' = Busy
    /\ preparing' = <<>> /\ sleeping' = <<>>

EcNext ==
    \/ \E w \in Waiters : PrepareWait(w) \/ CommitWait(w) \/ CancelWait(w) \/ GoesOn(w)
    \/ NotifyOne \/ NotifyAll

EcSpec == EcInit /\ [][EcNext]_ecVars
=============================================================================
