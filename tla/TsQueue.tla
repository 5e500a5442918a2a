------------------------------ MODULE TsQueue ------------------------------
(***************************************************************************)
(* tsqueue (net_tsqueue.h) as the server's incoming queue: producers (the  *)
(* asio thread) push_back complete messages, the main thread waits for     *)
(* one, then pops and handles messages until the queue is empty            *)
(* (server_interface::Update, called again for ever by main).              *)
(*                                                                         *)
(* A step is what one thread does between two points where another thread  *)
(* can matter: taking a mutex, releasing it, blocking on the condition     *)
(* variable.  push_back takes muxBlocking while it holds muxQueue.  wait() *)
(* calls empty(), which takes and releases muxQueue, and only then takes   *)
(* muxBlocking and blocks: its wait has no predicate.                      *)
(***************************************************************************)
EXTENDS Integers, Sequences, FiniteSets

CONSTANTS
  Producers,  \* the threads that push
  Main,       \* the thread that calls Update
  Messages,   \* complete messages
  Cap,        \* bound: messages queued before pushes stop (see Room)
  Nothing     \* no message; no thread

ASSUME TsQueueAssumption ==
  /\ Main \notin Producers
  /\ Nothing \notin Messages \cup Producers \cup {Main}
  /\ Cap \in Nat \ {0}

VARIABLES
  deqQueue,     \* the queued messages
  muxQueue,     \* the thread that holds muxQueue, or Nothing
  muxBlocking,  \* the thread that holds muxBlocking, or Nothing
  ppc,          \* a producer: "idle", to "notify", or to "unlock"
  mpc,          \* the main thread
  msg           \* the message OnMessage is handling, or Nothing

vars == <<deqQueue, muxQueue, muxBlocking, ppc, mpc, msg>>

\* wait(): "empty?", "lock", "block", "blocked", "relock", "leave";
\* Update's loop: "more?", "pop", "handle".
MainPoints == {"empty?", "lock", "block", "blocked", "relock", "leave",
               "more?", "pop", "handle"}

Init ==
  /\ deqQueue = <<>>
  /\ muxQueue = Nothing /\ muxBlocking = Nothing
  /\ ppc = [p \in Producers |-> "idle"]
  /\ mpc = "empty?"
  /\ msg = Nothing

-----------------------------------------------------------------------------
(* push_back                                                               *)

\* The bound on the queue: Cap messages, and one more to wake main from a sleep.
Room == Len(deqQueue) < Cap \/ (mpc = "blocked" /\ Len(deqQueue) = Cap)

PushLock(p, m) ==
  /\ ppc[p] = "idle" /\ muxQueue = Nothing
  /\ Room
  /\ muxQueue' = p
  /\ deqQueue' = Append(deqQueue, m)
  /\ ppc' = [ppc EXCEPT ![p] = "notify"]
  /\ UNCHANGED <<muxBlocking, mpc, msg>>

\* Mistake: the lock is taken, the notification forgotten.
PushNotifyNobody(p) ==
  /\ ppc[p] = "notify" /\ muxBlocking = Nothing
  /\ muxBlocking' = p
  /\ ppc' = [ppc EXCEPT ![p] = "unlock"]
  /\ UNCHANGED <<deqQueue, muxQueue, mpc, msg>>

\* lock muxBlocking and notify_one: the main thread is the only waiter.
PushNotify(p) ==
  /\ ppc[p] = "notify" /\ muxBlocking = Nothing
  /\ muxBlocking' = p
  /\ mpc' = IF mpc = "blocked" THEN "relock" ELSE mpc
  /\ ppc' = [ppc EXCEPT ![p] = "unlock"]
  /\ UNCHANGED <<deqQueue, muxQueue, msg>>

\* The destructors release muxBlocking, then muxQueue: what another thread does
\* between the two it can as well do after both.
PushUnlock(p) ==
  /\ ppc[p] = "unlock"
  /\ muxBlocking' = Nothing /\ muxQueue' = Nothing
  /\ ppc' = [ppc EXCEPT ![p] = "idle"]
  /\ UNCHANGED <<deqQueue, mpc, msg>>

-----------------------------------------------------------------------------
(* wait()                                                                  *)

\* while (empty())
WaitEmpty ==
  /\ mpc = "empty?" /\ muxQueue = Nothing
  /\ mpc' = IF deqQueue = <<>> THEN "lock" ELSE "more?"
  /\ UNCHANGED <<deqQueue, muxQueue, muxBlocking, ppc, msg>>

WaitLock ==
  /\ mpc = "lock" /\ muxBlocking = Nothing
  /\ muxBlocking' = Main
  /\ mpc' = "block"
  /\ UNCHANGED <<deqQueue, muxQueue, ppc, msg>>

\* cvBlocking.wait(ul) releases muxBlocking and blocks in one step.
WaitBlock ==
  /\ mpc = "block"
  /\ muxBlocking' = Nothing
  /\ mpc' = "blocked"
  /\ UNCHANGED <<deqQueue, muxQueue, ppc, msg>>

SpuriousWake ==
  /\ mpc = "blocked"
  /\ mpc' = "relock"
  /\ UNCHANGED <<deqQueue, muxQueue, muxBlocking, ppc, msg>>

\* A woken waiter takes muxBlocking before wait returns.
WaitRelock ==
  /\ mpc = "relock" /\ muxBlocking = Nothing
  /\ muxBlocking' = Main
  /\ mpc' = "leave"
  /\ UNCHANGED <<deqQueue, muxQueue, ppc, msg>>

\* Mistake: going back to look at the queue with muxBlocking still held.
WaitLeaveLocked ==
  /\ mpc = "leave"
  /\ mpc' = "empty?"
  /\ UNCHANGED <<deqQueue, muxQueue, muxBlocking, ppc, msg>>

WaitLeave ==
  /\ mpc = "leave"
  /\ muxBlocking' = Nothing
  /\ mpc' = "empty?"
  /\ UNCHANGED <<deqQueue, muxQueue, ppc, msg>>

-----------------------------------------------------------------------------
(* The loop of Update(-1, true).                                           *)

\* Mistake: one message is taken for granted.
MoreUnchecked ==
  /\ mpc = "more?" /\ muxQueue = Nothing
  /\ mpc' = "pop"
  /\ UNCHANGED <<deqQueue, muxQueue, muxBlocking, ppc, msg>>

\* !m_qMessagesIn.empty(): if it is, Update returns and main calls it again.
More ==
  /\ mpc = "more?" /\ muxQueue = Nothing
  /\ mpc' = IF deqQueue = <<>> THEN "empty?" ELSE "pop"
  /\ UNCHANGED <<deqQueue, muxQueue, muxBlocking, ppc, msg>>

PopFront ==
  /\ mpc = "pop" /\ muxQueue = Nothing
  /\ deqQueue # <<>>
  /\ msg' = Head(deqQueue)
  /\ deqQueue' = Tail(deqQueue)
  /\ mpc' = "handle"
  /\ UNCHANGED <<muxQueue, muxBlocking, ppc>>

\* OnMessage returns.
Handled ==
  /\ mpc = "handle"
  /\ msg' = Nothing
  /\ mpc' = "more?"
  /\ UNCHANGED <<deqQueue, muxQueue, muxBlocking, ppc>>

-----------------------------------------------------------------------------
PushStep(p) == PushNotify(p) \/ PushUnlock(p)
Push(p) == (\E m \in Messages : PushLock(p, m)) \/ PushStep(p)
Wait == WaitEmpty \/ WaitLock \/ WaitBlock \/ WaitRelock \/ WaitLeave
Update == Wait \/ More \/ PopFront \/ Handled

Next == (\E p \in Producers : Push(p)) \/ Update \/ SpuriousWake

Spec == Init /\ [][Next]_vars

\* Threads that can go on do, a push that has begun ends, and a mutex that is
\* free again and again is had in the end.  Nobody has to push, and there need
\* be no spurious wakeup.
FairSpec ==
  /\ Spec
  /\ SF_vars(Update)
  /\ \A p \in Producers : SF_vars(PushStep(p))

\* Clients that go on sending messages, besides.
BusySpec ==
  /\ FairSpec
  /\ \A p \in Producers : SF_vars(\E m \in Messages : PushLock(p, m))

-----------------------------------------------------------------------------
(* Properties.                                                             *)

\* Every variable has its type, and a thread holds muxQueue or muxBlocking
\* exactly at the points of push_back and wait where the code holds it.
TypeOK ==
  /\ deqQueue \in Seq(Messages)
  /\ ppc \in [Producers -> {"idle", "notify", "unlock"}]
  /\ mpc \in MainPoints
  /\ msg \in Messages \cup {Nothing}
  /\ muxQueue \in Producers \cup {Nothing}
  /\ muxBlocking \in Producers \cup {Main, Nothing}
  /\ \A p \in Producers : (muxQueue = p) = (ppc[p] # "idle")
  /\ \A p \in Producers : (muxBlocking = p) = (ppc[p] = "unlock")
  /\ (muxBlocking = Main) = (mpc \in {"block", "leave"})

\* The main thread asks whether the queue is empty and pops in two critical
\* sections; what it has seen still holds when it pops, since no other thread
\* takes messages out (net_server.h:245-248: front of an empty deque).
NeverPopsEmpty == mpc = "pop" => deqQueue # <<>>

\* A thread that holds one mutex and waits for the other is never waited for in
\* turn: push_back takes muxBlocking under muxQueue, so wait must never want
\* muxQueue under muxBlocking (net_tsqueue.h:110-114, 150-154).
NoLockCycle ==
  ~ /\ \E p \in Producers : muxQueue = p /\ ppc[p] = "notify"
    /\ muxBlocking = Main
    /\ mpc \in {"empty?", "more?", "pop"}

\* Every message in the queue is handled (net_server.h:239: "blocking wait until
\* a message is ready").
EveryMessageHandled ==
  \A m \in Messages : (\E k \in DOMAIN deqQueue : deqQueue[k] = m) ~> (msg = m)
=============================================================================
