--------------------------- MODULE TsQueueProofs ---------------------------
(***************************************************************************)
(* What holds of tsqueue and its two mutexes for every set of producers,   *)
(* every set of messages and every bound of the queue.                     *)
(***************************************************************************)
EXTENDS TsQueue, TLAPS

\* Every step keeps the variables in their types and the mutexes with the threads
\* that the code gives them to: no step takes one that another thread holds.
LEMMA TypeOKNext ==
  ASSUME TypeOK, [Next]_vars
  PROVE  TypeOK'
<1> USE TsQueueAssumption DEF TypeOK, MainPoints
<1>1. ASSUME NEW p \in Producers, NEW m \in Messages, PushLock(p, m)
      PROVE  TypeOK'
  BY <1>1 DEF PushLock
<1>2. ASSUME NEW p \in Producers, PushNotify(p)
      PROVE  TypeOK'
  BY <1>2 DEF PushNotify
<1>3. ASSUME NEW p \in Producers, PushUnlock(p)
      PROVE  TypeOK'
  BY <1>3 DEF PushUnlock
<1>4. ASSUME Wait
      PROVE  TypeOK'
  <2>1. CASE WaitEmpty
    BY <2>1 DEF WaitEmpty
  <2>2. CASE WaitLock
    BY <2>2 DEF WaitLock
  <2>3. CASE WaitBlock
    BY <2>3 DEF WaitBlock
  <2>4. CASE WaitRelock
    BY <2>4 DEF WaitRelock
  <2>5. CASE WaitLeave
    BY <2>5 DEF WaitLeave
  <2> QED BY <1>4, <2>1, <2>2, <2>3, <2>4, <2>5 DEF Wait
<1>5. CASE More
  BY <1>5 DEF More
<1>6. CASE PopFront
  <2>1. Head(deqQueue) \in Messages /\ Tail(deqQueue) \in Seq(Messages)
    BY <1>6 DEF PopFront
  <2> QED BY <1>6, <2>1 DEF PopFront
<1>7. CASE Handled
  BY <1>7 DEF Handled
<1>8. CASE SpuriousWake
  BY <1>8 DEF SpuriousWake
<1>9. CASE UNCHANGED vars
  BY <1>9 DEF vars
<1> QED
  BY <1>1, <1>2, <1>3, <1>4, <1>5, <1>6, <1>7, <1>8, <1>9
  DEF Next, Push, PushStep, Update

\* Each of the two mutexes of a queue is held by exactly the thread that is in
\* the critical section it guards, whatever the number of pushing threads.
THEOREM MutexesHeld == Spec => []TypeOK
<1>1. Init => TypeOK
  BY TsQueueAssumption DEF Init, TypeOK, MainPoints
<1>2. TypeOK /\ [Next]_vars => TypeOK'
  BY TypeOKNext
<1> QED BY <1>1, <1>2, PTL DEF Spec

\* Only the main thread takes messages out, and it pops right after it has seen
\* one: what empty() told it is still true although it holds no lock in between.
THEOREM PopsFindMessages == Spec => []NeverPopsEmpty
<1>1. Init => NeverPopsEmpty
  BY DEF Init, NeverPopsEmpty
<1>2. ASSUME TypeOK, NeverPopsEmpty, [Next]_vars
      PROVE  NeverPopsEmpty'
  <2>1. ASSUME NEW p \in Producers, NEW m \in Messages, PushLock(p, m)
        PROVE  deqQueue' # <<>>
    BY <2>1 DEF PushLock, TypeOK
  <2>2. CASE \E p \in Producers : PushStep(p)
    BY <1>2, <2>2 DEF PushStep, PushNotify, PushUnlock, NeverPopsEmpty
  <2>3. CASE Update \/ SpuriousWake \/ UNCHANGED vars
    BY <1>2, <2>3 DEF Update, Wait, WaitEmpty, WaitLock, WaitBlock, WaitRelock,
       WaitLeave, More, PopFront, Handled, SpuriousWake, vars, NeverPopsEmpty
  <2> QED BY <1>2, <2>1, <2>2, <2>3 DEF Next, Push, NeverPopsEmpty
<1> QED BY <1>1, <1>2, MutexesHeld, PTL DEF Spec

\* push_back waits for muxBlocking under muxQueue; the main thread never wants
\* muxQueue while it holds muxBlocking, so that the two cannot wait for each other.
THEOREM LocksOrdered == Spec => []NoLockCycle
<1>1. TypeOK => NoLockCycle
  BY DEF TypeOK, NoLockCycle
<1> QED BY <1>1, MutexesHeld, PTL
=============================================================================
