--------------------------- MODULE RunScheduler ----------------------------
(***************************************************************************)
(* The run scheduler of CustomServer (SimpleServer.cpp).                   *)
(*                                                                         *)
(* Three kinds of threads share vq, active_runs, done_runs and mcluster    *)
(* under the mutex mu:                                                     *)
(*   - the main thread, which handles one message at a time (OnMessage):   *)
(*     it changes vq in a critical section and, after it has unlocked,     *)
(*     calls cond.notify_one();                                            *)
(*   - the thread of handle_runs, which waits on cond until the front run  *)
(*     can be allocated, moves it to active_runs, reserves its machines,   *)
(*     unlocks, and starts a detached thread for it;                       *)
(*   - one thread per started run (execute_run), which runs the command,   *)
(*     then returns the machines, retires the run and notifies.            *)
(* No critical section takes a second lock or blocks, so each is one step. *)
(* What happens outside of them is a step of its own: the notification of  *)
(* the main thread, the start of the run's thread, and the run's command,  *)
(* which takes as long as it likes.                                        *)
(***************************************************************************)
EXTENDS Cluster, VQueue

CONSTANTS
  DoneLimit,  \* done_runs is cut down when it holds more than this (5)
  MaxLive,    \* bound: runs queued or active before submissions stop
  MoveXids,   \* the ids that clients' move and remove messages carry
  NoRun       \* the value of the local arun when handle_runs holds no run

ASSUME SchedulerAssumption ==
  /\ DoneLimit \in Nat
  /\ MaxLive \in Nat
  /\ MoveXids \subseteq Xids
  /\ NoRun \notin Runs

VARIABLES
  vq,           \* the queue of submitted runs
  stored,       \* has the vector in vq ever had storage?
  active_runs,  \* started and not yet retired
  done_runs,    \* the last runs retired
  machines,     \* mcluster
  hpc,          \* handle_runs: "check" its predicate, "waiting", or "spawn"
  arun,         \* handle_runs: the run taken and not yet started
  executing,    \* the runs whose execute_run thread exists, oldest first
  mpc,          \* OnMessage: "idle", or about to "notify"
  alive         \* has the process survived?

shared == <<active_runs, done_runs, machines>>
vars == <<vq, stored, shared, hpc, arun, executing, mpc, alive>>

CanStart == vq # <<>> /\ CanAlloc(machines, vq[1])

\* Mistakes: execute_run forgets to notify, or never cuts done_runs down.
WokenNever == hpc
TrimDoneNever(d) == d

\* The effect of cond.notify_one() on its only waiter.
Woken == IF hpc = "waiting" THEN "check" ELSE hpc

Init ==
  /\ vq = <<>> /\ active_runs = <<>> /\ done_runs = <<>>
  /\ stored = FALSE
  /\ machines = InitMachines
  /\ hpc = "check" /\ arun = NoRun
  /\ executing = <<>>
  /\ mpc = "idle"
  /\ alive = TRUE

-----------------------------------------------------------------------------
(* The main thread: OnMessage.                                             *)

SendRun(r) ==
  /\ alive /\ mpc = "idle"
  /\ Len(vq) + Len(active_runs) < MaxLive
  /\ vq' = AddItem(vq, r)
  /\ stored' = TRUE
  /\ mpc' = "notify"
  /\ UNCHANGED <<shared, hpc, arun, executing, alive>>

MoveRunUp(x) ==
  /\ alive /\ mpc = "idle"
  /\ vq' = MvUp(vq, x)
  /\ mpc' = "notify"
  /\ UNCHANGED <<stored, shared, hpc, arun, executing, alive>>

MoveRunDown(x) ==
  /\ alive /\ mpc = "idle"
  /\ vq' = MvDn(vq, x)
  /\ mpc' = "notify"
  /\ UNCHANGED <<stored, shared, hpc, arun, executing, alive>>

\* On a vector that never had storage end()-1 is computed from a null pointer:
\* undefined.  An unsigned comparison finds null below it and iter_swap
\* dereferences null; a signed one does nothing, the case above.
MoveRunDownCrash(x) ==
  /\ alive /\ mpc = "idle"
  /\ ~stored
  /\ alive' = FALSE
  /\ UNCHANGED <<vq, stored, shared, hpc, arun, executing, mpc>>

RemoveRun(x) ==
  /\ alive /\ mpc = "idle"
  /\ vq' = RmItem(vq, x)
  /\ mpc' = "notify"
  /\ UNCHANGED <<stored, shared, hpc, arun, executing, alive>>

\* fread_T throws at a string that is no archive of a run, before or inside the
\* critical section and before vq is touched.  Nothing catches: the process ends.
OnMessageThrows ==
  /\ alive /\ mpc = "idle"
  /\ alive' = FALSE
  /\ UNCHANGED <<vq, stored, shared, hpc, arun, executing, mpc>>

\* cond.notify_one(), after the handler has unlocked mu.
Notify ==
  /\ alive /\ mpc = "notify"
  /\ hpc' = Woken
  /\ mpc' = "idle"
  /\ UNCHANGED <<vq, stored, shared, arun, executing, alive>>

-----------------------------------------------------------------------------
(* The thread of handle_runs.                                              *)

\* cond.wait(locker, pred): the predicate is false, so release mu and block.
HandleWait ==
  /\ alive /\ hpc = "check"
  /\ ~CanStart
  /\ hpc' = "waiting"
  /\ UNCHANGED <<vq, stored, shared, arun, executing, mpc, alive>>

\* A condition variable may also wake its waiter without a notification.
SpuriousWake ==
  /\ alive /\ hpc = "waiting"
  /\ hpc' = "check"
  /\ UNCHANGED <<vq, stored, shared, arun, executing, mpc, alive>>

HandleTake ==
  /\ alive /\ hpc = "check"
  /\ CanStart
  /\ arun' = vq[1]
  /\ vq' = PopFront(vq)
  /\ active_runs' = AddItem(active_runs, vq[1])
  /\ machines' = Alloc(machines, vq[1])
  /\ hpc' = "spawn"
  /\ UNCHANGED <<stored, done_runs, executing, mpc, alive>>

\* mu is unlocked; std::thread trun(&CustomServer::execute_run, this, arun).
HandleSpawn ==
  /\ alive /\ hpc = "spawn"
  /\ executing' = Append(executing, arun)
  /\ arun' = NoRun
  /\ hpc' = "check"
  /\ UNCHANGED <<vq, stored, shared, mpc, alive>>

-----------------------------------------------------------------------------
(* A thread of execute_run, when the run's command has returned.           *)

TrimDone(d) == IF Len(d) > DoneLimit THEN PopFront(d) ELSE d

Finish(i) ==
  /\ alive
  /\ machines' = Free(machines, executing[i])
  /\ active_runs' = RmItem(active_runs, executing[i].xid)
  /\ done_runs' = AddItem(TrimDone(done_runs), executing[i])
  /\ executing' = RemoveAt(executing, i)
  /\ hpc' = Woken
  /\ UNCHANGED <<vq, stored, arun, mpc, alive>>

-----------------------------------------------------------------------------
HandleRuns == HandleWait \/ HandleTake \/ HandleSpawn
ExecuteRun == \E i \in DOMAIN executing : Finish(i)

Next ==
  \/ \E r \in Runs : SendRun(r)
  \/ \E x \in MoveXids : MoveRunUp(x)
  \/ \E x \in MoveXids : MoveRunDown(x)
  \/ \E x \in MoveXids : MoveRunDownCrash(x)
  \/ \E x \in MoveXids : RemoveRun(x)
  \/ OnMessageThrows
  \/ Notify
  \/ HandleRuns
  \/ SpuriousWake
  \/ ExecuteRun

Spec == Init /\ [][Next]_vars

\* The threads keep running, and a run's command returns.  Nothing is assumed
\* of clients, nor of spurious wakeups.
FairSpec ==
  /\ Spec
  /\ WF_vars(Notify)
  /\ WF_vars(HandleRuns)
  /\ WF_vars(ExecuteRun)
-----------------------------------------------------------------------------
(* Properties.                                                             *)

\* The runs whose machines are reserved, oldest first.
Held == IF hpc = "spawn" THEN Append(executing, arun) ELSE executing

\* Every variable has its type; handle_runs holds a run exactly between taking
\* it and starting it; machines keep the names and sizes of the configuration;
\* done_runs holds one run more than its limit at most.
TypeOK ==
  /\ vq \in Seq(Runs) /\ active_runs \in Seq(Runs)
  /\ executing \in Seq(Runs)
  /\ done_runs \in Seq(Runs) /\ Len(done_runs) <= DoneLimit + 1
  /\ stored \in BOOLEAN /\ alive \in BOOLEAN
  /\ ~stored => vq = <<>>
  /\ machines \in [DOMAIN Config -> Machine]
  /\ \A i \in DOMAIN Config : /\ machines[i].name = Config[i].name
                              /\ machines[i].size = Config[i].size
  /\ hpc \in {"check", "waiting", "spawn"}
  /\ mpc \in {"idle", "notify"}
  /\ arun \in Runs \cup {NoRun}
  /\ (hpc = "spawn") = (arun # NoRun)

\* The two counters of every machine (m_res, m_free) stay the two parts of its
\* size, whatever clients ask for: alloc tests one of them and free the other.
CapacityRespected ==
  \A i \in DOMAIN machines :
    /\ machines[i].res + machines[i].free = machines[i].size
    /\ machines[i].res \in 0..machines[i].size

\* A machine's reserved cores are those asked for by the runs that hold them,
\* no more and no fewer: alloc and free pass over what they cannot do without a
\* word, so this says that they never have to (machine.h:48, 55; cluster.h:61).
ReservationsExact ==
  \A i \in DOMAIN machines :
    machines[i].res = TotalDemand(Held, machines[i].name)

\* The runs that execute at the same time never ask for more cores of a machine
\* than it has: can_alloc weighs a run against the machines alone, and it must
\* agree with what earlier runs still hold (SimpleServer.cpp:103-107).
NoOversubscription ==
  \A i \in DOMAIN Config : TotalDemand(Held, Config[i].name) <= Config[i].size

\* active_runs, the list clients are shown, has the extended ids of the runs that
\* hold machines, each as often: rm_item finds one to erase for every run that
\* ends, although two runs may carry one id (SimpleServer.cpp:128, run.h:122).
ActiveRunsExact ==
  \A x \in Xids : CountXid(active_runs, x) = CountXid(Held, x)

\* No lost wakeup: handle_runs never sleeps on a front run that could start
\* unless a notification for it is still to come (SimpleServer.cpp:103, 238).
NoMissedStart ==
  hpc = "waiting" /\ mpc = "idle" => ~CanStart

\* The scheduler implements the abstract one: runs start from the front of the
\* queue, and only beside runs that leave them the cores they ask for.
A == INSTANCE Allocation WITH queue <- vq, running <- Held
ImplementsAllocation == A!ASpec

\* A queue that is not empty gets its next run started (or is emptied by
\* clients, or the process dies): started runs end, return their machines and
\* wake handle_runs, whatever clients move in the meantime.
QueueKeepsMoving ==
  vq # <<>> ~> (hpc = "spawn" \/ vq = <<>> \/ ~alive)

\* A client's move or removal that changes the queue.
Rearrange ==
  /\ \E x \in MoveXids : MoveRunUp(x) \/ MoveRunDown(x) \/ RemoveRun(x)
  /\ vq' # vq

\* No run stays in the queue for ever, however many runs come after it, unless
\* clients rearrange the queue again and again: it starts, or a client removes
\* it (or the process dies).
EveryRunStarts ==
  \/ []<><<Rearrange>>_vars
  \/ \A r \in Runs :
       (\E k \in DOMAIN vq : vq[k] = r)
         ~> (arun = r \/ (\A k \in DOMAIN vq : vq[k] # r) \/ ~alive)

-----------------------------------------------------------------------------
(* What the documentation says, and requests outside of its idea of a run  *)
(* break.                                                                  *)

\* SimpleServer.cpp:123, "return the allocated machines": when no run holds
\* machines, none is reserved.
AllMachinesReturned ==
  Held = <<>> => \A i \in DOMAIN machines : machines[i].res = 0
=============================================================================
