------------------------- MODULE RunSchedulerProofs -------------------------
(***************************************************************************)
(* Theorems about the run scheduler, for every cluster, every set of runs  *)
(* and every bound.  Those about reservations assume what they need of the *)
(* runs that clients submit, and say so.                                   *)
(***************************************************************************)
EXTENDS RunScheduler, ClusterProofs

-----------------------------------------------------------------------------
(* The operations of vqueue.                                               *)

\* std::find ends at a run with the id, and only passes over all if none has it.
LEMMA FindFacts ==
  ASSUME NEW q \in Seq(Runs), NEW x
  PROVE  /\ Find(q, x) \in 1..Len(q)+1
         /\ Find(q, x) \in 1..Len(q) => q[Find(q, x)].xid = x
         /\ (\E j \in 1..Len(q) : q[j].xid = x) => Find(q, x) \in 1..Len(q)
<1> DEFINE n == Len(q)
           S == {k \in 1..n+1 : k \in DOMAIN q => q[k].xid = x}
<1>1. n \in Nat /\ DOMAIN q = 1..n
  OBVIOUS
<1> HIDE DEF n
<1>2. n+1 \in S /\ S \subseteq Nat
  BY <1>1
<1>3. PICK k \in S : \A j \in S : k <= j
  <2> HIDE DEF S
  <2> QED BY <1>2, NatMin
<1>4. \A j \in 1..k-1 : q[j].xid # x
  <2> TAKE j \in 1..k-1
  <2>1. j \in 1..n+1 /\ j \in DOMAIN q /\ ~(k <= j)
    BY <1>1
  <2> QED BY <1>3, <2>1
<1> DEFINE f == Find(q, x)
<1>5. /\ f \in 1..n+1
      /\ f \in DOMAIN q => q[f].xid = x
      /\ \A j \in 1..f-1 : q[j].xid # x
  BY <1>3, <1>4 DEF Find, n
<1> HIDE DEF f
<1>6. ASSUME NEW j \in 1..n, q[j].xid = x PROVE f \in 1..n
  <2> SUFFICES ASSUME f \notin 1..n PROVE FALSE
    OBVIOUS
  <2>1. j \in 1..f-1
    BY <1>1, <1>5
  <2> QED BY <1>5, <1>6, <2>1
<1>7. QED BY <1>1, <1>5, <1>6 DEF f, n

\* Moving and removing runs leaves a queue of runs, and an empty queue empty.
LEMMA QueueMoves ==
  ASSUME NEW q \in Seq(Runs), NEW x
  PROVE  /\ MvUp(q, x) \in Seq(Runs) /\ MvDn(q, x) \in Seq(Runs)
         /\ RmItem(q, x) \in Seq(Runs)
         /\ q = <<>> => MvUp(q, x) = <<>> /\ MvDn(q, x) = <<>> /\ RmItem(q, x) = <<>>
<1> DEFINE k == Find(q, x)
<1>1. k \in 1..Len(q)+1
  BY FindFacts
<1>2. \A i, j \in 1..Len(q) : Swap(q, i, j) \in Seq(Runs)
  BY DEF Swap
<1>3. MvUp(q, x) = (IF k \in 2..Len(q) THEN Swap(q, k-1, k) ELSE q)
      /\ MvDn(q, x) = (IF k < Len(q) THEN Swap(q, k, k+1) ELSE q)
      /\ RmItem(q, x) = (IF k \in DOMAIN q THEN RemoveAt(q, k) ELSE q)
  BY DEF MvUp, MvDn, RmItem
<1> HIDE DEF k
<1>4. MvUp(q, x) \in Seq(Runs)
  <2>1. k \in 2..Len(q) => k-1 \in 1..Len(q) /\ k \in 1..Len(q)
    BY <1>1
  <2> QED BY <1>2, <1>3, <2>1
<1>5. MvDn(q, x) \in Seq(Runs)
  <2>1. k < Len(q) => k \in 1..Len(q) /\ k+1 \in 1..Len(q)
    BY <1>1
  <2> QED BY <1>2, <1>3, <2>1
<1>6. RmItem(q, x) \in Seq(Runs)
  BY <1>3, RemoveAtDef
<1>7. q = <<>> => MvUp(q, x) = <<>> /\ MvDn(q, x) = <<>> /\ RmItem(q, x) = <<>>
  BY <1>1, <1>3
<1>8. QED BY <1>4, <1>5, <1>6, <1>7

\* So do adding a run and taking the front one.
LEMMA QueueTypes ==
  ASSUME NEW q \in Seq(Runs)
  PROVE  /\ \A r \in Runs : /\ AddItem(q, r) \in Seq(Runs)
                            /\ Len(AddItem(q, r)) = Len(q) + 1
         /\ q # <<>> => /\ q[1] \in Runs /\ PopFront(q) \in Seq(Runs)
                        /\ Len(PopFront(q)) = Len(q) - 1
BY DEF AddItem, PopFront

-----------------------------------------------------------------------------
(* Type correctness.                                                       *)

\* A machine starts with the name and size of the configuration and all cores free.
LEMMA InitMachinesFacts ==
  /\ InitMachines \in Machines
  /\ \A i \in DOMAIN Config : /\ InitMachines[i].name = Config[i].name
                              /\ InitMachines[i].size = Config[i].size
                              /\ InitMachines[i].res = 0
                              /\ Balanced(InitMachines[i])
<1>1. \A i \in DOMAIN Config : Config[i].name \in Names /\ Config[i].size \in Nat
  <2> DEFINE E == [name : Names, size : Nat]
  <2>1. Config \in Seq(E)
    BY ClusterAssumption
  <2>2. \A i \in DOMAIN Config : Config[i] \in E
    <3> HIDE DEF E
    <3> QED BY <2>1
  <2> QED BY <2>2
<1>2. QED BY <1>1 DEF InitMachines, MakeMachine, Machines, Machine, Balanced

\* The server starts in a state of the right types.
LEMMA TypeOKInit ==
  ASSUME Init PROVE TypeOK
<1>1. <<>> \in Seq(Runs) /\ Len(<<>>) = 0 /\ 0 <= DoneLimit + 1
  BY SchedulerAssumption
<1>2. machines \in Machines
      /\ \A i \in DOMAIN Config : /\ machines[i].name = Config[i].name
                                  /\ machines[i].size = Config[i].size
  BY InitMachinesFacts DEF Init
<1>3. QED BY <1>1, <1>2 DEF Init, TypeOK, Machines

\* What a run's thread leaves of done_runs respects the limit again.
LEMMA DoneRunsBound ==
  ASSUME NEW d \in Seq(Runs), Len(d) <= DoneLimit + 1, NEW r \in Runs
  PROVE  /\ AddItem(TrimDone(d), r) \in Seq(Runs)
         /\ Len(AddItem(TrimDone(d), r)) <= DoneLimit + 1
<1>1. DoneLimit \in Nat
  BY SchedulerAssumption
<1>2. TrimDone(d) \in Seq(Runs) /\ Len(TrimDone(d)) <= DoneLimit
  <2>1. CASE Len(d) > DoneLimit
    <3>1. d # <<>>
      BY <1>1, <2>1
    <3> QED BY <1>1, <2>1, <3>1, QueueTypes DEF TrimDone
  <2>2. CASE ~(Len(d) > DoneLimit)
    BY <1>1, <2>2 DEF TrimDone
  <2> QED BY <2>1, <2>2
<1>3. QED BY <1>1, <1>2, QueueTypes

\* Allocating or freeing a run leaves what TypeOK says of the machines.
LEMMA MachinesTypeOK ==
  ASSUME TypeOK, NEW r \in Runs, NEW ms,
         ms = Alloc(machines, r) \/ ms = Free(machines, r)
  PROVE  /\ ms \in [DOMAIN Config -> Machine]
         /\ \A i \in DOMAIN Config : /\ ms[i].name = Config[i].name
                                     /\ ms[i].size = Config[i].size
<1>1. machines \in Machines
  BY DEF TypeOK, Machines
<1>2. /\ ms \in Machines
      /\ \A i \in DOMAIN Config : /\ ms[i].name = machines[i].name
                                  /\ ms[i].size = machines[i].size
  BY <1>1, AllocKeeps, FreeKeeps
<1>3. QED BY <1>2 DEF TypeOK, Machines

\* Every handler, thread and wakeup keeps every variable in its type.
LEMMA TypeOKNext ==
  ASSUME TypeOK, [Next]_vars PROVE TypeOK'
<1> USE DEF TypeOK
<1>1. ASSUME NEW r \in Runs, SendRun(r) PROVE TypeOK'
  BY <1>1, QueueTypes DEF SendRun, shared
<1>2. ASSUME NEW x \in MoveXids, MoveRunUp(x) PROVE TypeOK'
  <2>1. vq' \in Seq(Runs) /\ (vq = <<>> => vq' = <<>>)
    BY <1>2, QueueMoves DEF MoveRunUp
  <2> QED BY <1>2, <2>1 DEF MoveRunUp, shared
<1>3. ASSUME NEW x \in MoveXids, MoveRunDown(x) PROVE TypeOK'
  <2>1. vq' \in Seq(Runs) /\ (vq = <<>> => vq' = <<>>)
    BY <1>3, QueueMoves DEF MoveRunDown
  <2> QED BY <1>3, <2>1 DEF MoveRunDown, shared
<1>4. ASSUME NEW x \in MoveXids, MoveRunDownCrash(x) PROVE TypeOK'
  BY <1>4 DEF MoveRunDownCrash, shared
<1>5. ASSUME NEW x \in MoveXids, RemoveRun(x) PROVE TypeOK'
  <2>1. vq' \in Seq(Runs) /\ (vq = <<>> => vq' = <<>>)
    BY <1>5, QueueMoves DEF RemoveRun
  <2> QED BY <1>5, <2>1 DEF RemoveRun, shared
<1>6. CASE Notify \/ OnMessageThrows
  BY <1>6 DEF Notify, OnMessageThrows, Woken, shared
<1>7. CASE HandleWait
  BY <1>7 DEF HandleWait, shared
<1>8. CASE HandleTake
  <2>1. vq # <<>> /\ vq[1] \in Runs /\ vq' \in Seq(Runs)
    BY <1>8, QueueTypes DEF HandleTake, CanStart
  <2>2. vq[1] # NoRun
    BY <2>1, SchedulerAssumption
  <2>3. active_runs' \in Seq(Runs)
    BY <1>8, <2>1, QueueTypes DEF HandleTake
  <2>4. /\ machines' \in [DOMAIN Config -> Machine]
        /\ \A i \in DOMAIN Config : /\ machines'[i].name = Config[i].name
                                    /\ machines'[i].size = Config[i].size
    BY <1>8, <2>1, MachinesTypeOK DEF HandleTake
  <2>5. stored
    BY <2>1
  <2> QED BY <1>8, <2>1, <2>2, <2>3, <2>4, <2>5 DEF HandleTake
<1>9. CASE HandleSpawn
  BY <1>9 DEF HandleSpawn, shared
<1>10. CASE SpuriousWake
  BY <1>10 DEF SpuriousWake, shared
<1>11. ASSUME NEW i \in DOMAIN executing, Finish(i) PROVE TypeOK'
  <2>1. executing[i] \in Runs /\ executing' \in Seq(Runs)
    BY <1>11, RemoveAtDef DEF Finish
  <2>2. active_runs' \in Seq(Runs)
    BY <1>11, QueueMoves DEF Finish
  <2>3. done_runs' \in Seq(Runs) /\ Len(done_runs') <= DoneLimit + 1
    BY <1>11, <2>1, DoneRunsBound DEF Finish
  <2>4. /\ machines' \in [DOMAIN Config -> Machine]
        /\ \A j \in DOMAIN Config : /\ machines'[j].name = Config[j].name
                                    /\ machines'[j].size = Config[j].size
    BY <1>11, <2>1, MachinesTypeOK DEF Finish
  <2> QED BY <1>11, <2>1, <2>2, <2>3, <2>4 DEF Finish, Woken
<1>12. CASE UNCHANGED vars
  BY <1>12 DEF vars, shared
<1>13. QED
  BY <1>1, <1>2, <1>3, <1>4, <1>5, <1>6, <1>7, <1>8, <1>9, <1>10, <1>11, <1>12
  DEF Next, HandleRuns, ExecuteRun

\* The scheduler's variables keep their types and handle_runs holds a run exactly
\* between taking and starting it, whatever clients submit and ask for.
THEOREM TypeCorrect == Spec => []TypeOK
<1>1. Init => TypeOK
  BY TypeOKInit
<1>2. TypeOK /\ [Next]_vars => TypeOK'
  BY TypeOKNext
<1>3. QED BY <1>1, <1>2, PTL DEF Spec

-----------------------------------------------------------------------------
(* No lost wakeup.                                                         *)

\* handle_runs never sleeps on a front run that could start unless OnMessage is
\* about to notify it: who changes the queue notifies after unlocking, and who
\* returns machines notifies before.
THEOREM NoLostWakeup == Spec => []NoMissedStart
<1>1. Init => NoMissedStart
  BY DEF Init, NoMissedStart
<1>2. ASSUME NoMissedStart, [Next]_vars PROVE NoMissedStart'
  <2> USE DEF NoMissedStart
  <2>1. ASSUME NEW r \in Runs, SendRun(r) PROVE NoMissedStart'
    BY <2>1 DEF SendRun
  <2>2. ASSUME NEW x \in MoveXids,
               MoveRunUp(x) \/ MoveRunDown(x) \/ RemoveRun(x)
        PROVE  NoMissedStart'
    BY <2>2 DEF MoveRunUp, MoveRunDown, RemoveRun
  <2>3. ASSUME NEW x \in MoveXids, MoveRunDownCrash(x) PROVE NoMissedStart'
    BY <1>2, <2>3 DEF MoveRunDownCrash, shared, CanStart
  <2>4. CASE Notify \/ OnMessageThrows
    BY <1>2, <2>4 DEF Notify, OnMessageThrows, Woken, shared, CanStart
  <2>5. CASE HandleWait
    BY <2>5 DEF HandleWait, shared, CanStart
  <2>6. CASE HandleTake \/ HandleSpawn \/ SpuriousWake
    BY <2>6 DEF HandleTake, HandleSpawn, SpuriousWake
  <2>7. ASSUME NEW i \in DOMAIN executing, Finish(i) PROVE NoMissedStart'
    BY <2>7 DEF Finish, Woken
  <2>8. CASE UNCHANGED vars
    BY <1>2, <2>8 DEF vars, shared, CanStart
  <2>9. QED
    BY <1>2, <2>1, <2>2, <2>3, <2>4, <2>5, <2>6, <2>7, <2>8
    DEF Next, HandleRuns, ExecuteRun
<1>3. QED BY <1>1, <1>2, PTL DEF Spec

-----------------------------------------------------------------------------
(* The accounting of cores.                                                *)

\* CapacityRespected, spoken machine by machine as ClusterProofs does.
LEMMA CapacityBalanced ==
  ASSUME TypeOK
  PROVE  /\ machines \in Machines /\ DOMAIN machines = DOMAIN Config
         /\ CapacityRespected = \A i \in DOMAIN Config : Balanced(machines[i])
BY DEF TypeOK, Machines, CapacityRespected, Balanced

\* Steps that leave the machines alone leave their counters balanced.
LEMMA CapacityNext ==
  ASSUME TypeOK, TypeOK', CapacityRespected, [Next]_vars,
         \A r \in Runs : NonNegative(r)
  PROVE  CapacityRespected'
<1> DEFINE Keeps(ms) == \A i \in DOMAIN Config : Balanced(ms[i])
<1>1. machines \in Machines /\ Keeps(machines)
  BY CapacityBalanced
<1>2. Keeps(machines') => CapacityRespected'
  BY DEF TypeOK, CapacityRespected, Balanced
<1>3. SUFFICES Keeps(machines')
  BY <1>2
<1>4. CASE machines' = machines
  BY <1>1, <1>4
<1>5. CASE HandleTake
  <2>1. vq[1] \in Runs /\ machines' = Alloc(machines, vq[1])
    BY <1>5, QueueTypes DEF HandleTake, CanStart, TypeOK
  <2> QED BY <1>1, <2>1, AllocKeeps
<1>6. ASSUME NEW i \in DOMAIN executing, Finish(i) PROVE Keeps(machines')
  <2>1. executing[i] \in Runs /\ machines' = Free(machines, executing[i])
    BY <1>6 DEF Finish, TypeOK
  <2> QED BY <1>1, <2>1, FreeKeeps
<1>7. machines' = machines \/ HandleTake \/ \E i \in DOMAIN executing : Finish(i)
  BY DEF Next, SendRun, MoveRunUp, MoveRunDown, MoveRunDownCrash, RemoveRun,
         OnMessageThrows, Notify, HandleRuns, HandleWait, HandleSpawn, SpuriousWake, ExecuteRun,
         vars, shared
<1>8. QED BY <1>4, <1>5, <1>6, <1>7

\* Nothing is reserved when the server starts.
LEMMA CapacityInit ==
  ASSUME Init PROVE CapacityRespected
<1>1. DOMAIN machines = DOMAIN Config /\ machines = InitMachines
  BY InitMachinesFacts DEF Init, Machines
<1>2. QED BY <1>1, InitMachinesFacts DEF CapacityRespected, Balanced

\* As long as no core count is negative, m_res and m_free stay the two parts of
\* every machine's size: also when a run names a machine twice, or one that the
\* cluster lacks.
THEOREM CapacityTheorem ==
  ASSUME \A r \in Runs : NonNegative(r)
  PROVE  Spec => []CapacityRespected
<1>1. Init => CapacityRespected
  BY CapacityInit
<1>2. TypeOK /\ TypeOK' /\ CapacityRespected /\ [Next]_vars => CapacityRespected'
  BY CapacityNext
<1>3. QED BY <1>1, <1>2, TypeCorrect, PTL DEF Spec

\* The runs that hold machines form a sequence of runs.
LEMMA HeldType ==
  ASSUME TypeOK PROVE Held \in Seq(Runs)
<1>1. hpc = "spawn" => arun \in Runs
  BY DEF TypeOK
<1>2. QED BY <1>1 DEF Held, TypeOK

\* What a step does to the runs that hold machines: HandleTake appends one, Finish
\* removes one, no other step touches them or the machines.
HeldGains(r) == Held' = Append(Held, r)
HeldLoses(j) == Held' = RemoveAt(Held, j)

\* handle_runs takes the front run: it holds its machines from now on.
LEMMA HeldTake ==
  ASSUME TypeOK, HandleTake
  PROVE  vq[1] \in Runs /\ HeldGains(vq[1])
<1>1. vq[1] \in Runs
  BY QueueTypes DEF HandleTake, CanStart, TypeOK
<1>2. QED BY <1>1 DEF HandleTake, Held, HeldGains

\* Removing an element of a sequence commutes with appending another one.
LEMMA RemoveAtAppend ==
  ASSUME NEW E, NEW q \in Seq(E), NEW e \in E, NEW i \in 1..Len(q)
  PROVE  RemoveAt(Append(q, e), i) = Append(RemoveAt(q, i), e)
<1> DEFINE a == Append(q, e)
           b == RemoveAt(q, i)
           u == RemoveAt(a, i)
           v == Append(b, e)
           n == Len(q)
<1>1. /\ a \in Seq(E) /\ Len(a) = n+1 /\ i \in 1..Len(a) /\ n \in Nat /\ i \in 1..n
      /\ \A k \in 1..n+1 : a[k] = IF k <= n THEN q[k] ELSE e
  OBVIOUS
<1>2. /\ b \in Seq(E) /\ Len(b) = n-1
      /\ \A k \in 1..n-1 : b[k] = IF k < i THEN q[k] ELSE q[k+1]
  BY RemoveAtDef
<1> HIDE DEF a, b, n
<1>3. /\ u \in Seq(E) /\ Len(u) = n
      /\ \A k \in 1..n : u[k] = IF k < i THEN a[k] ELSE a[k+1]
  <2>1. /\ u \in Seq(E) /\ Len(u) = Len(a) - 1
        /\ \A k \in 1..Len(a)-1 : u[k] = IF k < i THEN a[k] ELSE a[k+1]
    BY <1>1, RemoveAtDef
  <2>2. Len(a) - 1 = n
    BY <1>1
  <2> QED BY <2>1, <2>2
<1>4. /\ v \in Seq(E) /\ Len(v) = n
      /\ \A k \in 1..n : v[k] = IF k <= n-1 THEN b[k] ELSE e
  BY <1>1, <1>2
<1> HIDE DEF u, v
<1>5. \A k \in 1..n : u[k] = v[k]
  <2> TAKE k \in 1..n
  <2>1. k \in Int /\ k \in 1..n+1 /\ k+1 \in 1..n+1 /\ (k <= n-1 => k \in 1..n-1)
    BY <1>1
  <2>2. CASE k <= n-1
    <3>1. a[k] = q[k] /\ a[k+1] = q[k+1]
      BY <1>1, <2>1, <2>2
    <3> QED BY <1>2, <1>3, <1>4, <2>1, <2>2, <3>1
  <2>3. CASE ~(k <= n-1)
    <3>1. k = n /\ ~(k < i) /\ a[k+1] = e
      BY <1>1, <2>1, <2>3
    <3> QED BY <1>3, <1>4, <2>3, <3>1
  <2> QED BY <2>2, <2>3
<1>6. u = v
  BY <1>3, <1>4, <1>5, SeqEqual
<1>7. QED BY <1>6 DEF u, v, a, b

\* A run that ends no longer holds machines; no other run is concerned, not even
\* the one that handle_runs has taken and not yet started.
LEMMA HeldFinish ==
  ASSUME TypeOK, NEW i \in DOMAIN executing, Finish(i)
  PROVE  /\ executing[i] \in Runs
         /\ i \in 1..Len(Held) /\ Held[i] = executing[i] /\ HeldLoses(i)
<1>1. executing \in Seq(Runs) /\ i \in 1..Len(executing) /\ executing[i] \in Runs
  BY DEF TypeOK
<1>2. /\ executing' = RemoveAt(executing, i) /\ arun' = arun
      /\ (hpc' = "spawn") = (hpc = "spawn")
  BY DEF Finish, Woken
<1>3. CASE hpc = "spawn"
  <2>1. arun \in Runs /\ Held = Append(executing, arun)
        /\ Held' = Append(RemoveAt(executing, i), arun)
    BY <1>2, <1>3 DEF TypeOK, Held
  <2>2. RemoveAt(Held, i) = Append(RemoveAt(executing, i), arun)
    BY <1>1, <2>1, RemoveAtAppend
  <2> QED BY <1>1, <2>1, <2>2 DEF HeldLoses
<1>4. CASE hpc # "spawn"
  BY <1>1, <1>2, <1>4 DEF Held, HeldLoses
<1>5. QED BY <1>3, <1>4

\* No other step reserves or returns machines, or changes active_runs.
LEMMA HeldOther ==
  ASSUME TypeOK, [Next]_vars, ~HandleTake,
         ~ \E i \in DOMAIN executing : Finish(i)
  PROVE  Held' = Held /\ machines' = machines /\ active_runs' = active_runs
<1>1. ASSUME NEW r \in Runs, SendRun(r) PROVE Held' = Held
  BY <1>1 DEF SendRun, Held
<1>2. ASSUME NEW x \in MoveXids,
             \/ MoveRunUp(x) \/ MoveRunDown(x)
             \/ MoveRunDownCrash(x) \/ RemoveRun(x)
      PROVE  Held' = Held
  BY <1>2 DEF MoveRunUp, MoveRunDown, MoveRunDownCrash, RemoveRun, Held
<1>3. ASSUME OnMessageThrows \/ Notify \/ HandleWait \/ SpuriousWake
      PROVE  Held' = Held
  BY <1>3 DEF OnMessageThrows, Notify, HandleWait, SpuriousWake, Woken, Held
<1>4. ASSUME HandleSpawn PROVE Held' = Held
  BY <1>4 DEF HandleSpawn, Held
<1>5. ASSUME UNCHANGED vars PROVE Held' = Held
  BY <1>5 DEF vars, Held
<1>6. Held' = Held
  BY <1>1, <1>2, <1>3, <1>4, <1>5 DEF Next, HandleRuns, ExecuteRun
<1>7. machines' = machines /\ active_runs' = active_runs
  BY DEF Next, SendRun, MoveRunUp, MoveRunDown, MoveRunDownCrash, RemoveRun,
         OnMessageThrows, Notify, HandleRuns, HandleWait, HandleSpawn, SpuriousWake, ExecuteRun,
         vars, shared
<1>8. QED BY <1>6, <1>7

\* The inductive invariant of the accounting.  ReservationsExact alone is not
\* inductive: alloc reserves what is asked only if the second counter, m_free,
\* agrees with what can_alloc has read from the first.
Accounting == TypeOK /\ CapacityRespected /\ ReservationsExact

\* When the server starts nothing is reserved and nobody holds machines.
LEMMA ReservationsInit ==
  ASSUME Init PROVE ReservationsExact
<1>1. machines = InitMachines /\ DOMAIN machines = DOMAIN Config /\ Held = <<>>
  BY InitMachinesFacts DEF Init, Machines, Held
<1>2. \A i \in DOMAIN Config : TotalDemand(<<>>, machines[i].name) = 0
  <2>1. <<>> \in Seq(Runs)
    OBVIOUS
  <2> QED BY <2>1, TotalDemandFacts
<1>3. QED BY <1>1, <1>2, InitMachinesFacts DEF ReservationsExact

\* A queued run that passes can_alloc gets what it asks of every machine.
LEMMA ReservationsTake ==
  ASSUME Accounting, TypeOK', HandleTake, \A r \in Runs : WellFormed(r)
  PROVE  ReservationsExact'
<1> DEFINE r == vq[1]
<1>1. r \in Runs /\ Held' = Append(Held, r) /\ Held \in Seq(Runs)
  BY HeldTake, HeldType DEF Accounting, HeldGains
<1>2. machines' = Alloc(machines, r) /\ CanAlloc(machines, r)
  BY DEF HandleTake, CanStart
<1>3. machines \in Machines /\ DOMAIN machines' = DOMAIN Config
      /\ DOMAIN machines = DOMAIN Config
      /\ \A i \in DOMAIN Config : /\ Balanced(machines[i])
                                  /\ machines'[i].name = machines[i].name
  BY CapacityBalanced DEF Accounting, TypeOK
<1> HIDE DEF r
<1>4. ASSUME NEW i \in DOMAIN Config
      PROVE  machines'[i].res = TotalDemand(Held', machines'[i].name)
  <2> DEFINE n == machines[i].name
  <2>1. machines[i].res = TotalDemand(Held, n)
    BY <1>3 DEF Accounting, ReservationsExact
  <2>2. machines'[i].res = machines[i].res + Demand(r, n)
    BY <1>1, <1>2, <1>3, CanAllocDemand, AllocExact
  <2>3. TotalDemand(Held', n) = TotalDemand(Held, n) + Demand(r, n)
    BY <1>1, TotalDemandFacts
  <2> QED BY <1>3, <2>1, <2>2, <2>3
<1>5. QED BY <1>3, <1>4 DEF ReservationsExact

\* A run that ends gives back what it was given: it is still reserved.
LEMMA ReservationsFinish ==
  ASSUME Accounting, TypeOK', \A r \in Runs : WellFormed(r),
         NEW j \in DOMAIN executing, Finish(j)
  PROVE  ReservationsExact'
<1> DEFINE r == executing[j]
<1>1. /\ r \in Runs /\ Held \in Seq(Runs) /\ j \in 1..Len(Held)
      /\ Held[j] = r /\ Held' = RemoveAt(Held, j)
  BY HeldFinish, HeldType DEF Accounting, HeldLoses
<1>2. machines' = Free(machines, r)
  BY DEF Finish
<1>3. machines \in Machines /\ DOMAIN machines' = DOMAIN Config
      /\ DOMAIN machines = DOMAIN Config
      /\ \A i \in DOMAIN Config : /\ Balanced(machines[i])
                                  /\ machines'[i].name = machines[i].name
  BY CapacityBalanced DEF Accounting, TypeOK
<1> HIDE DEF r
<1>4. ASSUME NEW i \in DOMAIN Config
      PROVE  machines'[i].res = TotalDemand(Held', machines'[i].name)
  <2> DEFINE n == machines[i].name
  <2>1. machines[i].res = TotalDemand(Held, n)
    BY <1>3 DEF Accounting, ReservationsExact
  <2>2. Demand(r, n) <= TotalDemand(Held, n)
        /\ TotalDemand(Held', n) = TotalDemand(Held, n) - Demand(r, n)
    BY <1>1, TotalDemandFacts
  <2>3. machines'[i].res = machines[i].res - Demand(r, n)
    BY <1>1, <1>2, <1>3, <2>1, <2>2, FreeExact
  <2> QED BY <1>3, <2>1, <2>2, <2>3
<1>5. QED BY <1>3, <1>4 DEF ReservationsExact

\* Accounting is inductive when all runs are well-formed.
LEMMA AccountingNext ==
  ASSUME Accounting, [Next]_vars, \A r \in Runs : WellFormed(r)
  PROVE  Accounting'
<1>1. TypeOK'
  BY TypeOKNext DEF Accounting
<1>2. CapacityRespected'
  BY <1>1, CapacityNext DEF Accounting, WellFormed
<1>3. CASE HandleTake
  BY <1>1, <1>2, <1>3, ReservationsTake DEF Accounting
<1>4. CASE \E j \in DOMAIN executing : Finish(j)
  BY <1>1, <1>2, <1>4, ReservationsFinish DEF Accounting
<1>5. CASE ~HandleTake /\ ~ \E j \in DOMAIN executing : Finish(j)
  <2>1. Held' = Held /\ machines' = machines
    BY <1>5, HeldOther DEF Accounting
  <2> QED BY <1>1, <1>2, <2>1 DEF Accounting, ReservationsExact
<1>6. QED BY <1>3, <1>4, <1>5

\* With runs as README.md means them, a machine's reserved cores are at any time
\* those of the runs that hold machines: no core is lost or reserved twice,
\* whatever the order in which runs are queued, moved, removed, started and end.
THEOREM ReservationsTheorem ==
  ASSUME \A r \in Runs : WellFormed(r)
  PROVE  Spec => []ReservationsExact
<1>1. Init => Accounting
  BY TypeOKInit, CapacityInit, ReservationsInit DEF Accounting
<1>2. Accounting /\ [Next]_vars => Accounting'
  BY AccountingNext
<1>3. Accounting => ReservationsExact
  BY DEF Accounting
<1>4. QED BY <1>1, <1>2, <1>3, PTL DEF Spec

\* Then the runs that execute together fit into the cluster.
THEOREM NoOversubscriptionTheorem ==
  ASSUME \A r \in Runs : WellFormed(r)
  PROVE  Spec => []NoOversubscription
<1>1. \A r \in Runs : NonNegative(r)
  BY DEF WellFormed
<1>2. TypeOK /\ CapacityRespected /\ ReservationsExact => NoOversubscription
  <2> SUFFICES ASSUME TypeOK, CapacityRespected, ReservationsExact,
                      NEW i \in DOMAIN Config
               PROVE  TotalDemand(Held, Config[i].name) <= Config[i].size
    BY DEF NoOversubscription
  <2>1. /\ machines[i].name = Config[i].name /\ machines[i].size = Config[i].size
        /\ machines[i] \in Machine /\ DOMAIN machines = DOMAIN Config
    BY DEF TypeOK
  <2>2. machines[i].res \in 0..machines[i].size
    BY <2>1 DEF CapacityRespected
  <2>3. machines[i].res = TotalDemand(Held, machines[i].name)
    BY <2>1 DEF ReservationsExact
  <2> QED BY <2>1, <2>2, <2>3 DEF Machine
<1>3. QED
  BY <1>1, <1>2, TypeCorrect, CapacityTheorem, ReservationsTheorem, PTL

-----------------------------------------------------------------------------
(* The list of active runs.                                                *)

\* active_runs and the runs that hold machines gain and lose the same ids: the run
\* rm_item erases may be another one of that id, which the counts do not notice.
LEMMA ActiveRunsNext ==
  ASSUME TypeOK, ActiveRunsExact, [Next]_vars PROVE ActiveRunsExact'
<1>1. /\ Held \in Seq(Runs) /\ active_runs \in Seq(Runs)
      /\ \A x \in Xids : CountXid(active_runs, x) = CountXid(Held, x)
  BY HeldType DEF TypeOK, ActiveRunsExact
<1>2. CASE HandleTake
  <2>1. /\ vq[1] \in Runs /\ Held' = Append(Held, vq[1])
        /\ active_runs' = Append(active_runs, vq[1])
    BY <1>2, HeldTake DEF HandleTake, AddItem, HeldGains
  <2>2. \A x \in Xids :
          CountXid(Held', x) = CountXid(Held, x) + (IF vq[1].xid = x THEN 1 ELSE 0)
          /\ CountXid(active_runs', x)
               = CountXid(active_runs, x) + (IF vq[1].xid = x THEN 1 ELSE 0)
    BY <1>1, <2>1, CountXidFacts
  <2> QED BY <1>1, <2>2 DEF ActiveRunsExact
<1>3. ASSUME NEW j \in DOMAIN executing, Finish(j) PROVE ActiveRunsExact'
  <2> DEFINE y == executing[j].xid
             k == Find(active_runs, y)
  <2>1. /\ j \in 1..Len(Held) /\ Held[j].xid = y /\ Held' = RemoveAt(Held, j)
        /\ executing[j] \in Runs
    BY <1>3, HeldFinish DEF HeldLoses
  <2>2. y \in Xids
    BY <2>1, ClusterAssumption
  <2>3. active_runs' = RmItem(active_runs, y)
    BY <1>3 DEF Finish
  <2> HIDE DEF y
  <2>4. CountXid(Held, y) >= 1 /\ CountXid(Held, y) \in Nat
    BY <1>1, <2>1, CountXidFacts
  <2>5. CountXid(active_runs, y) # 0
    BY <1>1, <2>2, <2>4
  <2>6. \E i \in 1..Len(active_runs) : active_runs[i].xid = y
    BY <1>1, <2>5, CountXidFacts
  <2>7. k \in 1..Len(active_runs) /\ active_runs[k].xid = y
    BY <1>1, <2>6, FindFacts
  <2>8. active_runs' = RemoveAt(active_runs, k)
    BY <1>1, <2>3, <2>7 DEF RmItem
  <2> HIDE DEF k
  <2>9. \A x \in Xids :
          CountXid(Held', x) = CountXid(Held, x) - (IF y = x THEN 1 ELSE 0)
          /\ CountXid(active_runs', x)
               = CountXid(active_runs, x) - (IF y = x THEN 1 ELSE 0)
    BY <1>1, <2>1, <2>7, <2>8, CountXidFacts
  <2> QED BY <1>1, <2>9 DEF ActiveRunsExact
<1>4. CASE ~HandleTake /\ ~ \E j \in DOMAIN executing : Finish(j)
  <2>1. Held' = Held /\ active_runs' = active_runs
    BY <1>4, HeldOther
  <2> QED BY <2>1 DEF ActiveRunsExact
<1>5. QED BY <1>2, <1>3, <1>4

\* active_runs has the ids of the runs that hold machines, each as often, also
\* when clients submit several runs with one id.
THEOREM ActiveRunsTheorem == Spec => []ActiveRunsExact
<1>1. Init => ActiveRunsExact
  <2> SUFFICES ASSUME Init PROVE ActiveRunsExact
    OBVIOUS
  <2>1. Held = <<>> /\ active_runs = <<>>
    BY DEF Init, Held
  <2> QED BY <2>1 DEF ActiveRunsExact
<1>2. TypeOK /\ ActiveRunsExact /\ [Next]_vars => ActiveRunsExact'
  BY ActiveRunsNext
<1>3. QED BY <1>1, <1>2, TypeCorrect, PTL DEF Spec

-----------------------------------------------------------------------------
(* The scheduler implements Allocation.                                    *)

\* The operators that Allocation takes from Cluster and from the library are those
\* that RunScheduler takes from them.
LEMMA SameRemoveAt == \A q, i : A!RemoveAt(q, i) = RemoveAt(q, i)
BY DEF RemoveAt, A!RemoveAt

\* The same of what runs ask of machines.
LEMMA SameDemand ==
  /\ \A r, n : A!Demand(r, n) = Demand(r, n)
  /\ \A rs, n : A!TotalDemand(rs, n) = TotalDemand(rs, n)
<1>1. \A t : A!SumOf(t) = SumOf(t)
  BY DEF A!SumOf, SumOf, A!SumTrace, SumTrace
<1>2. \A r, n : A!Demand(r, n) = Demand(r, n)
  BY <1>1 DEF A!Demand, Demand, A!Demands, Demands
<1>3. \A rs, n : A!TotalDemand(rs, n) = TotalDemand(rs, n)
  BY <1>1, <1>2 DEF A!TotalDemand, TotalDemand
<1> QED BY <1>2, <1>3

\* A run that can_alloc lets start fits beside the runs that hold machines.
LEMMA StartFits ==
  ASSUME Accounting, HandleTake, \A r \in Runs : WellFormed(r)
  PROVE  A!Fits(vq[1], Held)
<1>1. vq[1] \in Runs /\ CanAlloc(machines, vq[1])
  BY HeldTake DEF Accounting, HandleTake, CanStart
<1>2. machines \in Machines /\ DOMAIN machines = DOMAIN Config
      /\ Held \in Seq(Runs)
      /\ \A i \in DOMAIN Config : /\ Balanced(machines[i])
                                  /\ machines[i].name = Config[i].name
                                  /\ machines[i].size = Config[i].size
                                  /\ machines[i] \in Machine
  BY CapacityBalanced, HeldType DEF Accounting, TypeOK
<1>3. ASSUME NEW i \in DOMAIN Config
      PROVE  TotalDemand(Held, Config[i].name) + Demand(vq[1], Config[i].name)
               <= Config[i].size
  <2> DEFINE n == Config[i].name
             d == Demand(vq[1], n)
  <2>1. machines[i].res = TotalDemand(Held, n)
    BY <1>2 DEF Accounting, ReservationsExact
  <2>2. d \in Nat /\ d <= machines[i].size - machines[i].res
    BY <1>1, <1>2, CanAllocDemand
  <2>3. machines[i].size \in Nat /\ machines[i].res \in Int
    BY <1>2 DEF Machine
  <2> HIDE DEF n, d
  <2>4. TotalDemand(Held, n) + d <= machines[i].size
    BY <2>1, <2>2, <2>3
  <2> QED BY <1>2, <2>4 DEF n, d
<1>4. QED BY <1>3, SameDemand DEF A!Fits

\* mvup exchanges two neighbours of the queue, or does nothing.
LEMMA MoveUpMaps ==
  ASSUME vq \in Seq(Runs), Held' = Held, NEW x, vq' = MvUp(vq, x)
  PROVE  vq' = vq \/ \E j \in 1..Len(vq)-1 : A!Exchange(j)
<1> DEFINE k == Find(vq, x)
<1>1. k \in 1..Len(vq)+1 /\ Len(vq) \in Nat
  BY FindFacts
<1>2. vq' = (IF k \in 2..Len(vq) THEN Swap(vq, k-1, k) ELSE vq)
  BY DEF MvUp
<1> HIDE DEF k
<1>3. ASSUME k \in 2..Len(vq) PROVE \E j \in 1..Len(vq)-1 : A!Exchange(j)
  <2> DEFINE j == k-1
  <2>1. j \in 1..Len(vq)-1 /\ j+1 = k
    BY <1>1, <1>3
  <2>2. vq' = [vq EXCEPT ![j] = vq[k], ![k] = vq[j]]
    BY <1>2, <1>3 DEF Swap
  <2> HIDE DEF j
  <2>3. A!Exchange(j)
    BY <2>1, <2>2 DEF A!Exchange
  <2> QED BY <2>1, <2>3
<1>4. QED BY <1>2, <1>3

\* So does mvdn.
LEMMA MoveDownMaps ==
  ASSUME vq \in Seq(Runs), Held' = Held, NEW x, vq' = MvDn(vq, x)
  PROVE  vq' = vq \/ \E j \in 1..Len(vq)-1 : A!Exchange(j)
<1> DEFINE k == Find(vq, x)
<1>1. k \in 1..Len(vq)+1 /\ Len(vq) \in Nat
  BY FindFacts
<1>2. vq' = (IF k < Len(vq) THEN Swap(vq, k, k+1) ELSE vq)
  BY DEF MvDn
<1> HIDE DEF k
<1>3. ASSUME k < Len(vq) PROVE \E j \in 1..Len(vq)-1 : A!Exchange(j)
  <2>1. k \in 1..Len(vq)-1
    BY <1>1, <1>3
  <2>2. A!Exchange(k)
    BY <1>2, <1>3 DEF A!Exchange, Swap
  <2> QED BY <2>1, <2>2
<1>4. QED BY <1>2, <1>3

\* rm_item withdraws one run from the queue, or does nothing.
LEMMA RemoveMaps ==
  ASSUME vq \in Seq(Runs), Held' = Held, NEW x, vq' = RmItem(vq, x)
  PROVE  vq' = vq \/ \E j \in 1..Len(vq) : A!Withdraw(j)
<1> DEFINE k == Find(vq, x)
<1>1. vq' = (IF k \in 1..Len(vq) THEN RemoveAt(vq, k) ELSE vq)
  BY DEF RmItem
<1> HIDE DEF k
<1>2. k \in 1..Len(vq) => A!Withdraw(k)
  BY <1>1, SameRemoveAt DEF A!Withdraw
<1>3. QED BY <1>1, <1>2

\* Every step of the scheduler is one of Allocation, or leaves its variables alone.
LEMMA StepMaps ==
  ASSUME Accounting, [Next]_vars, \A r \in Runs : WellFormed(r)
  PROVE  [A!ANext]_A!avars
<1> DEFINE Stutter == vq' = vq /\ Held' = Held
<1>1. TypeOK /\ vq \in Seq(Runs)
  BY DEF Accounting, TypeOK
<1>2. Stutter => [A!ANext]_A!avars
  BY DEF A!avars
<1>3. ASSUME HandleTake PROVE A!Start
  <2>1. A!Fits(vq[1], Held)
    BY <1>3, StartFits
  <2>2. Held' = Append(Held, vq[1]) /\ vq # <<>> /\ vq' = Tail(vq)
    BY <1>1, <1>3, HeldTake DEF HandleTake, CanStart, PopFront, HeldGains
  <2> QED BY <2>1, <2>2 DEF A!Start
<1>4. ASSUME NEW i \in DOMAIN executing, Finish(i)
      PROVE  \E j \in 1..Len(Held) : A!Complete(j)
  <2>1. i \in 1..Len(Held) /\ Held' = RemoveAt(Held, i) /\ vq' = vq
    BY <1>1, <1>4, HeldFinish DEF Finish, HeldLoses
  <2> QED BY <2>1, SameRemoveAt DEF A!Complete
<1>5. ASSUME ~HandleTake, ~ \E i \in DOMAIN executing : Finish(i)
      PROVE  [A!ANext]_A!avars
  <2>1. Held' = Held
    BY <1>1, <1>5, HeldOther
  <2>2. ASSUME NEW r \in Runs, SendRun(r) PROVE A!Submit(r)
    BY <2>1, <2>2 DEF SendRun, AddItem, A!Submit
  <2>3. ASSUME NEW x \in MoveXids, MoveRunUp(x)
        PROVE  vq' = vq \/ \E j \in 1..Len(vq)-1 : A!Exchange(j)
    BY <1>1, <2>1, <2>3, MoveUpMaps DEF MoveRunUp
  <2>4. ASSUME NEW x \in MoveXids, MoveRunDown(x)
        PROVE  vq' = vq \/ \E j \in 1..Len(vq)-1 : A!Exchange(j)
    BY <1>1, <2>1, <2>4, MoveDownMaps DEF MoveRunDown
  <2>5. ASSUME NEW x \in MoveXids, RemoveRun(x)
        PROVE  vq' = vq \/ \E j \in 1..Len(vq) : A!Withdraw(j)
    BY <1>1, <2>1, <2>5, RemoveMaps DEF RemoveRun
  <2>6. ASSUME \/ \E x \in MoveXids : MoveRunDownCrash(x)
               \/ OnMessageThrows \/ Notify
               \/ HandleWait \/ HandleSpawn \/ SpuriousWake
               \/ UNCHANGED vars
        PROVE  vq' = vq
    BY <2>6 DEF MoveRunDownCrash, OnMessageThrows, Notify, HandleWait, HandleSpawn,
                SpuriousWake, vars
  <2>7. \/ vq' = vq
        \/ \E r \in Runs : A!Submit(r)
        \/ \E j \in 1..Len(vq)-1 : A!Exchange(j)
        \/ \E j \in 1..Len(vq) : A!Withdraw(j)
    BY <1>5, <2>2, <2>3, <2>4, <2>5, <2>6 DEF Next, HandleRuns, ExecuteRun
  <2> QED BY <1>2, <2>1, <2>7 DEF A!ANext
<1>6. QED BY <1>3, <1>4, <1>5 DEF A!ANext

\* For every cluster and all well-formed runs the scheduler implements Allocation:
\* it starts runs from the front of the queue only, and only where they fit.
THEOREM Refinement ==
  ASSUME \A r \in Runs : WellFormed(r)
  PROVE  Spec => ImplementsAllocation
<1>1. Init => A!AInit
  BY DEF Init, Held, A!AInit
<1>2. Init => Accounting
  BY TypeOKInit, CapacityInit, ReservationsInit DEF Accounting
<1>3. Accounting /\ [Next]_vars => Accounting'
  BY AccountingNext
<1>4. Accounting /\ [Next]_vars => [A!ANext]_A!avars
  BY StepMaps
<1>5. QED
  BY <1>1, <1>2, <1>3, <1>4, PTL DEF Spec, ImplementsAllocation, A!ASpec
=============================================================================
