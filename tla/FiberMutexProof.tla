--------------------------- MODULE FiberMutexProof ---------------------------
(***************************************************************************)
(* The fiber mutex is mutually exclusive and its TRPC_CHECK never fails,   *)
(* for any sets of fibers and pthreads.                                    *)
(***************************************************************************)
EXTENDS FiberMutex, TLAPS

(* The inductive invariant holds when nobody has touched the mutex yet.    *)
LEMMA InvInit == MutexInit => MutexInv
  <1> SUFFICES ASSUME MutexInit PROVE MutexInv
      OBVIOUS
  <1> USE DEF MutexInit
  <1>1. MutexTypeOK
    <2>1. isPost \in BOOLEAN
          OBVIOUS
    <2>2. "idle" \in Points
          BY DEF Points
    <2> QED BY <2>1, <2>2 DEF MutexTypeOK
  <1>2. OneToken /\ SlowPathLocked
        BY AgentsAssumption DEF OneToken, Token, SlowPathLocked, Agents
  <1>3. Len(waiters) = 0
        OBVIOUS
  <1>4. ChainSleeps /\ TargetSleeps
        BY <1>3 DEF ChainSleeps, TargetSleeps
  <1>5. Adding = 0 /\ Held = 0
        BY DEF Adding, Held, Token, Agents
  <1>6. CountIsExact
        BY <1>3, <1>5 DEF CountIsExact
  <1> QED BY <1>1, <1>2, <1>4, <1>6 DEF MutexInv

(* The two corrections of the count are 0 or 1.                            *)
LEMMA Bits == Adding \in {0, 1} /\ Held \in {0, 1}
  BY DEF Adding, Held

(* The owner is counted: unlock() never takes count_ below zero.           *)
LEMMA OwnerIsCounted ==
  ASSUME MutexInv, NEW a \in Agents, Token(a), pc[a] # "wakeone"
  PROVE  Held = 1 /\ count > 0
  <1>1. Held = 1
        BY DEF Held
  <1>2. Len(waiters) \in Nat
        BY DEF MutexInv, MutexTypeOK
  <1> QED BY <1>1, <1>2, Bits DEF MutexInv, CountIsExact

(* Types survive every step of lock() and unlock().                        *)
LEMMA TypeStep ==
  ASSUME MutexInv, NEW a \in Agents, Step(a)
  PROVE  MutexTypeOK'
  <1> USE DEF MutexInv, MutexTypeOK, Points, Go
  <1>1. CASE TryLock(a)
        BY <1>1 DEF TryLock
  <1>2. CASE LockSlowPath(a)
        BY <1>2 DEF LockSlowPath
  <1>3. CASE FetchAdd(a)
        BY <1>3 DEF FetchAdd
  <1>4. CASE AddWaiter(a)
        BY <1>4 DEF AddWaiter, Asleep
  <1>5. CASE Suspend(a)
        BY <1>5 DEF Suspend, Asleep
  <1>6. CASE FutexWaitReturns(a)
        BY <1>6 DEF FutexWaitReturns
  <1>7. CASE FetchSub(a)
    <2>1. count' \in Nat
          BY <1>7, OwnerIsCounted DEF FetchSub, Token
    <2>2. isPost' \in BOOLEAN
          BY <1>7 DEF FetchSub
    <2> QED BY <1>7, <2>1, <2>2 DEF FetchSub
  <1>8. CASE WakeOne(a)
        BY <1>8 DEF WakeOne
  <1>9. CASE \E f \in Fibers : WakeFiber(a, f)
        BY <1>9 DEF WakeFiber, Agents
  <1>10. CASE WakePthread(a)
        BY <1>10 DEF WakePthread
  <1> QED BY <1>1, <1>2, <1>3, <1>4, <1>5, <1>6, <1>7, <1>8, <1>9, <1>10
          DEF Step, LockStep, UnlockStep, ResumeFiber, SwitchToFiber

(* Every step of lock() and unlock() keeps the inductive invariant.        *)
LEMMA InvStep ==
  ASSUME MutexInv, NEW a \in Agents, Step(a)
  PROVE  MutexInv'
  <1>0. MutexTypeOK'
        BY TypeStep
  <1>t. /\ pc \in [Agents -> Points] /\ target \in [Agents -> Agents \cup {NoOne}]
        /\ waiters \in Seq(Agents) /\ count \in Nat /\ Len(waiters) \in Nat
        /\ Fibers \cap Pthreads = {} /\ NoOne \notin Agents
        /\ Agents = Fibers \cup Pthreads
        BY AgentsAssumption DEF MutexInv, MutexTypeOK, Agents
  <1>i. OneToken /\ SlowPathLocked /\ ChainSleeps /\ TargetSleeps /\ CountIsExact
        BY DEF MutexInv
  <1>z. count = 0 => \A b \in Agents : ~Token(b)
        BY OwnerIsCounted, <1>i DEF CountIsExact
  <1>1. CASE TryLock(a) /\ count = 0
    <2> USE <1>1, <1>t, <1>i DEF TryLock, Go
    <2>1. OneToken' /\ SlowPathLocked'
          BY <1>z DEF OneToken, Token, SlowPathLocked
    <2>2. ChainSleeps' /\ TargetSleeps'
          BY DEF ChainSleeps, TargetSleeps, Sleeps
    <2>3. Len(waiters) = 0 /\ Adding = 0 /\ Held = 0
          BY Bits DEF CountIsExact
    <2>4. Adding' = 0
          BY <2>3 DEF Adding
    <2>5. Held' = 1
          BY DEF Held, Token
    <2>6. CountIsExact'
          BY <2>3, <2>4, <2>5, <1>z DEF CountIsExact, Token
    <2> QED BY <1>0, <2>1, <2>2, <2>6 DEF MutexInv
  <1>2. CASE TryLock(a) /\ count # 0
    <2> USE <1>2, <1>t, <1>i DEF TryLock, Go
    <2>1. \A b \in Agents : (Token(b)' <=> Token(b)) /\ (Sleeps(b)' <=> Sleeps(b))
          BY DEF Token, Sleeps
    <2>2. OneToken' /\ SlowPathLocked'
          BY <2>1 DEF OneToken, SlowPathLocked
    <2>3. ChainSleeps' /\ TargetSleeps'
          BY <2>1 DEF ChainSleeps, TargetSleeps
    <2>4. Adding' = Adding /\ Held' = Held
          BY <2>1 DEF Adding, Held
    <2>5. CountIsExact'
          BY <2>1, <2>4 DEF CountIsExact
    <2> QED BY <1>0, <2>2, <2>3, <2>5 DEF MutexInv
  <1>3. CASE LockSlowPath(a)
    <2> USE <1>3, <1>t, <1>i DEF LockSlowPath, Go
    <2>1. \A b \in Agents : (Token(b)' <=> Token(b)) /\ (Sleeps(b)' <=> Sleeps(b))
          BY DEF Token, Sleeps
    <2>2. OneToken' /\ SlowPathLocked'
          BY <2>1 DEF OneToken, SlowPathLocked
    <2>3. ChainSleeps' /\ TargetSleeps'
          BY <2>1 DEF ChainSleeps, TargetSleeps
    <2>4. Adding' = Adding /\ Held' = Held
          BY <2>1 DEF Adding, Held
    <2>5. CountIsExact'
          BY <2>1, <2>4 DEF CountIsExact
    <2> QED BY <1>0, <2>2, <2>3, <2>5 DEF MutexInv
  <1>4. CASE FetchAdd(a) /\ count = 0
    <2> USE <1>4, <1>t, <1>i DEF FetchAdd, Go
    <2>1. OneToken' /\ SlowPathLocked'
          BY <1>z DEF OneToken, Token, SlowPathLocked
    <2>2. ChainSleeps' /\ TargetSleeps'
          BY DEF ChainSleeps, TargetSleeps, Sleeps
    <2>3. Len(waiters) = 0 /\ Adding = 0 /\ Held = 0
          BY Bits DEF CountIsExact
    <2>4. Adding' = 0
          BY <2>3 DEF Adding
    <2>5. Held' = 1
          BY DEF Held, Token
    <2>6. CountIsExact'
          BY <2>3, <2>4, <2>5, <1>z DEF CountIsExact, Token
    <2> QED BY <1>0, <2>1, <2>2, <2>6 DEF MutexInv
  <1>5. CASE FetchAdd(a) /\ count # 0
    <2> USE <1>5, <1>t, <1>i DEF FetchAdd, Go
    <2>1. \A b \in Agents : (Token(b)' <=> Token(b)) /\ (Sleeps(b)' <=> Sleeps(b))
          BY DEF Token, Sleeps
    <2>2. OneToken' /\ SlowPathLocked'
          BY <2>1 DEF OneToken, SlowPathLocked
    <2>3. ChainSleeps' /\ TargetSleeps'
          BY <2>1 DEF ChainSleeps, TargetSleeps
    <2>4. Adding = 0
          BY DEF Adding, SlowPathLocked
    <2>5. Adding' = 1 /\ Held' = Held
          BY <2>1 DEF Adding, Held
    <2>6. CountIsExact'
          BY <2>1, <2>4, <2>5 DEF CountIsExact, Held
    <2> QED BY <1>0, <2>2, <2>3, <2>6 DEF MutexInv
  <1>6. CASE AddWaiter(a)
    <2> USE <1>6, <1>t, <1>i DEF AddWaiter, Go
    <2>1. /\ \A b \in Agents : Token(b)' <=> Token(b)
          /\ \A b \in Agents : b # a => (Sleeps(b)' <=> Sleeps(b))
          /\ Sleeps(a)' /\ ~Sleeps(a)
          BY DEF Token, Sleeps
    <2>2. OneToken' /\ SlowPathLocked'
          BY <2>1 DEF OneToken, SlowPathLocked
    <2>3. /\ Len(waiters') = Len(waiters) + 1
          /\ \A i \in 1..Len(waiters) : waiters'[i] = waiters[i]
          /\ waiters'[Len(waiters) + 1] = a
          OBVIOUS
    <2>4. \A i \in 1..Len(waiters) : waiters[i] \in Agents /\ waiters[i] # a
          BY <2>1 DEF ChainSleeps
    <2>5. ChainSleeps'
      <3>1. \A i \in 1..Len(waiters') : i \in 1..Len(waiters) \/ i = Len(waiters) + 1
            BY <2>3
      <3> HIDE <1>6
      <3> QED BY <3>1, <2>1, <2>3, <2>4 DEF ChainSleeps
    <2>6. TargetSleeps'
      <3> SUFFICES ASSUME NEW b \in Agents, pc'[b] = "wake"
                   PROVE  /\ target'[b] \in Agents
                          /\ Sleeps(target[b])'
                          /\ \A i \in 1..Len(waiters') : waiters'[i] # target'[b]
          BY DEF TargetSleeps
      <3>1. pc[b] = "wake" /\ target'[b] = target[b]
            OBVIOUS
      <3>2. target[b] \in Agents /\ target[b] # a
            BY <3>1, <2>1 DEF TargetSleeps
      <3>3. \A i \in 1..Len(waiters') : i \in 1..Len(waiters) \/ i = Len(waiters) + 1
            BY <2>3
      <3> QED BY <3>1, <3>2, <3>3, <2>1, <2>3 DEF TargetSleeps
    <2>7. Adding = 1 /\ Adding' = 0 /\ Held' = Held
          BY <2>1 DEF Adding, Held, SlowPathLocked
    <2>8. CountIsExact'
          BY <2>1, <2>3, <2>7 DEF CountIsExact, Held
    <2> QED BY <1>0, <2>2, <2>5, <2>6, <2>8 DEF MutexInv
  <1>7. CASE Suspend(a)
    <2> USE <1>7, <1>t, <1>i DEF Suspend, Go
    <2>1. \A b \in Agents : (Token(b)' <=> Token(b)) /\ (Sleeps(b)' <=> Sleeps(b))
          BY DEF Token, Sleeps
    <2>2. OneToken' /\ SlowPathLocked'
          BY <2>1 DEF OneToken, SlowPathLocked
    <2>3. ChainSleeps' /\ TargetSleeps'
          BY <2>1 DEF ChainSleeps, TargetSleeps
    <2>4. Adding' = Adding /\ Held' = Held
          BY <2>1 DEF Adding, Held
    <2>5. CountIsExact'
          BY <2>1, <2>4 DEF CountIsExact
    <2> QED BY <1>0, <2>2, <2>3, <2>5 DEF MutexInv
  <1>8. CASE FutexWaitReturns(a)
    <2> USE <1>8, <1>t, <1>i DEF FutexWaitReturns, Go
    <2>1. a \in Pthreads /\ Token(a)
          BY DEF Token, MutexInv, MutexTypeOK
    <2>2. \A b \in Agents : (Token(b)' <=> Token(b)) /\ (Sleeps(b)' <=> Sleeps(b))
          BY <2>1 DEF Token, Sleeps
    <2>3. OneToken' /\ SlowPathLocked'
          BY <2>2 DEF OneToken, SlowPathLocked
    <2>4. ChainSleeps' /\ TargetSleeps'
          BY <2>2 DEF ChainSleeps, TargetSleeps
    <2>5. Adding' = Adding /\ Held' = Held
          BY <2>2 DEF Adding, Held
    <2>6. CountIsExact'
          BY <2>2, <2>5 DEF CountIsExact
    <2> QED BY <1>0, <2>3, <2>4, <2>6 DEF MutexInv
  <1>9. CASE FetchSub(a)
    <2> USE <1>9, <1>t, <1>i DEF FetchSub, Go
    <2>1. /\ Token(a) /\ \A b \in Agents : b # a => ~Token(b)
          /\ \A b \in Agents : Sleeps(b)' <=> Sleeps(b)
          /\ \A b \in Agents : b # a => ~Token(b)'
          BY DEF Token, Sleeps, OneToken
    <2>2. OneToken' /\ SlowPathLocked'
          BY <2>1 DEF OneToken, SlowPathLocked
    <2>3. ChainSleeps' /\ TargetSleeps'
          BY <2>1 DEF ChainSleeps, TargetSleeps
    <2>4. Held = 1 /\ count > 0
          BY <2>1, OwnerIsCounted
    <2>5. Adding' = Adding /\ Adding \in {0, 1}
          BY DEF Adding
    <2>6. Held' = 0
          BY <2>1 DEF Held, Token
    <2>7. count' > 0 <=> Token(a)'
          BY <2>4 DEF Token
    <2>8. count' = Len(waiters') + Adding' + Held'
          BY <2>4, <2>5, <2>6 DEF CountIsExact
    <2>9. \A b \in Agents : pc'[b] = "wakeone" => b = a
          BY <2>1 DEF Token
    <2>10. CountIsExact'
          BY <2>7, <2>8, <2>9 DEF CountIsExact, Token
    <2> QED BY <1>0, <2>2, <2>3, <2>10 DEF MutexInv
  <1>10. CASE WakeOne(a)
    <2> USE <1>10, <1>t, <1>i DEF WakeOne, Go
    <2>1. /\ \A b \in Agents : Token(b)' <=> Token(b)
          /\ \A b \in Agents : Sleeps(b)' <=> Sleeps(b)
          BY DEF Token, Sleeps
    <2>2. Token(a) /\ \A b \in Agents : b # a => ~Token(b)
          BY DEF Token, OneToken
    <2>3. OneToken' /\ SlowPathLocked'
          BY <2>1 DEF OneToken, SlowPathLocked
    <2>4. /\ Len(waiters') = Len(waiters) - 1
          /\ \A i \in 1..Len(waiters') : i + 1 \in 1..Len(waiters) /\ waiters'[i] = waiters[i + 1]
          /\ 1 \in 1..Len(waiters) /\ target'[a] = waiters[1]
          /\ \A i \in 1..Len(waiters) : waiters[i] \in Agents
          OBVIOUS
    <2>5. ChainSleeps'
          BY <2>1, <2>4 DEF ChainSleeps
    <2>6. \A b \in Agents : pc'[b] = "wake" => b = a
          BY <2>2 DEF Token
    <2>7. Sleeps(target'[a]) /\ \A i \in 1..Len(waiters') : waiters'[i] # target'[a]
          BY <2>4 DEF ChainSleeps
    <2>8. TargetSleeps'
          BY <2>1, <2>4, <2>6, <2>7 DEF TargetSleeps
    <2>9. Adding' = Adding
          BY DEF Adding
    <2>10. Held = 0
          BY <2>2 DEF Held
    <2>11. Held' = 1
          BY <2>1, <2>2 DEF Held
    <2>12. count' = Len(waiters') + Adding' + Held'
          BY Bits, <2>4, <2>9, <2>10, <2>11 DEF CountIsExact
    <2>13. \A b \in Agents : pc'[b] # "wakeone"
          BY <2>2 DEF Token
    <2>14. count' > 0 => \E b \in Agents : Token(b)'
          BY <2>1, <2>2
    <2>15. CountIsExact'
          BY <2>12, <2>13, <2>14 DEF CountIsExact
    <2> QED BY <1>0, <2>3, <2>5, <2>8, <2>15 DEF MutexInv
  <1>11. CASE \E f \in Fibers : WakeFiber(a, f)
    <2> PICK f \in Fibers : WakeFiber(a, f)
        BY <1>11
    <2> USE <1>t, <1>i DEF WakeFiber, Go
    <2>1. /\ Token(a) /\ \A b \in Agents : b # a => ~Token(b)
          /\ Sleeps(f) /\ f # a /\ f \in Agents
          /\ \A i \in 1..Len(waiters) : waiters[i] # f
          BY DEF Token, OneToken, TargetSleeps, Sleeps
    <2>2. /\ Token(f)' /\ \A b \in Agents : b # f => ~Token(b)'
          /\ \A b \in Agents : b # f => (Sleeps(b)' <=> Sleeps(b))
          BY <2>1 DEF Token, Sleeps
    <2>3. OneToken' /\ SlowPathLocked'
          BY <2>1, <2>2 DEF OneToken, SlowPathLocked, Sleeps
    <2>4. ChainSleeps'
          BY <2>1, <2>2 DEF ChainSleeps
    <2>5. TargetSleeps'
          BY <2>2 DEF TargetSleeps, Token
    <2>6. Adding' = Adding
          BY <2>1 DEF Adding, Sleeps
    <2>7. Held = 1 /\ Held' = 1
          BY <2>1, <2>2 DEF Held, Token
    <2>8. CountIsExact'
          BY <2>2, <2>6, <2>7 DEF CountIsExact, Token
    <2> QED BY <1>0, <2>3, <2>4, <2>5, <2>8 DEF MutexInv
  <1>12. CASE WakePthread(a)
    <2> PICK p \in Pthreads : p = target[a]
        BY <1>12 DEF WakePthread
    <2> USE <1>12, <1>t, <1>i DEF WakePthread, Go
    <2>1. /\ Token(a) /\ \A b \in Agents : b # a => ~Token(b)
          /\ Sleeps(p) /\ p # a /\ p \in Agents
          /\ \A i \in 1..Len(waiters) : waiters[i] # p
          BY DEF Token, OneToken, TargetSleeps, Sleeps
    <2>2. /\ Token(p)' /\ \A b \in Agents : b # p => ~Token(b)'
          /\ \A b \in Agents : b # p => (Sleeps(b)' <=> Sleeps(b))
          BY <2>1 DEF Token, Sleeps
    <2>3. OneToken' /\ SlowPathLocked'
          BY <2>1, <2>2 DEF OneToken, SlowPathLocked, Sleeps
    <2>4. ChainSleeps'
          BY <2>1, <2>2 DEF ChainSleeps
    <2>5. TargetSleeps'
          BY <2>1, <2>2 DEF TargetSleeps, Token
    <2>6. Adding' = Adding
          BY <2>1 DEF Adding, Sleeps
    <2>7. Held = 1 /\ Held' = 1
          BY <2>1, <2>2 DEF Held, Token, Sleeps
    <2>8. CountIsExact'
          BY <2>1, <2>2, <2>6, <2>7 DEF CountIsExact, Token, Sleeps
    <2> QED BY <1>0, <2>3, <2>4, <2>5, <2>8 DEF MutexInv
  <1> QED
      BY <1>1, <1>2, <1>3, <1>4, <1>5, <1>6, <1>7, <1>8, <1>9, <1>10, <1>11, <1>12
      DEF Step, LockStep, UnlockStep, ResumeFiber, SwitchToFiber

(* The invariant that carries the proof holds in every reachable state.    *)
THEOREM MutexInvariant == MutexSpec => []MutexInv
  <1>1. MutexInv /\ [MutexNext]_mutexVars => MutexInv'
    <2> SUFFICES ASSUME MutexInv, [MutexNext]_mutexVars PROVE MutexInv'
        OBVIOUS
    <2>1. CASE MutexNext
          BY <2>1, InvStep DEF MutexNext
    <2>2. CASE UNCHANGED mutexVars
      <3> USE <2>2 DEF mutexVars, MutexInv
      <3>1. MutexTypeOK'
            BY DEF MutexTypeOK
      <3>2. OneToken' /\ SlowPathLocked'
            BY DEF OneToken, Token, SlowPathLocked
      <3>3. ChainSleeps' /\ TargetSleeps'
            BY DEF ChainSleeps, Sleeps, TargetSleeps
      <3>4. Adding' = Adding /\ Held' = Held
            BY DEF Adding, Held, Token
      <3>5. CountIsExact'
            BY <3>4 DEF CountIsExact, Token
      <3> QED BY <3>1, <3>2, <3>3, <3>5
    <2> QED BY <2>1, <2>2
  <1> QED BY <1>1, InvInit, PTL DEF MutexSpec

(* lock() admits one agent at a time, whatever the numbers of fibers and   *)
(* pthreads that contend.                                                  *)
THEOREM MutexIsExclusive == MutexSpec => []MutualExclusion
  <1>1. MutexInv => MutualExclusion
        BY DEF MutexInv, OneToken, Token, MutualExclusion
  <1> QED BY <1>1, MutexInvariant, PTL

(* The TRPC_CHECK(wb) of unlock() never fails.                             *)
THEOREM UnlockFindsWaiter == MutexSpec => []WakeOneFindsAWaiter
  <1>1. MutexInv => WakeOneFindsAWaiter
    <2> SUFFICES ASSUME MutexInv, NEW a \in Agents, pc[a] = "wakeone",
                        slowPathLock = NoOne
                 PROVE  waiters # <<>>
        BY DEF WakeOneFindsAWaiter
    <2>1. Held = 0
          BY DEF MutexInv, OneToken, Token, Held
    <2>2. Adding = 0
          BY AgentsAssumption DEF MutexInv, SlowPathLocked, Adding
    <2>3. Len(waiters) > 0
          BY <2>1, <2>2 DEF MutexInv, CountIsExact, MutexTypeOK
    <2> QED BY <2>3
  <1> QED BY <1>1, MutexInvariant, PTL
=============================================================================
