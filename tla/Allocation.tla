---------------------------- MODULE Allocation ----------------------------
(***************************************************************************)
(* What the scheduler promises: runs start in the order of the queue, the  *)
(* front run only when every machine still has the cores it asks for       *)
(* beside those of the runs that hold theirs.  There are no counters here: *)
(* what is in use is the sum of what the running runs asked for.           *)
(***************************************************************************)
EXTENDS Cluster, SequencesExt

VARIABLES
  queue,   \* submitted runs, the next to start first
  running  \* the runs that hold the machines they asked for

avars == <<queue, running>>

Fits(r, rs) ==
  \A i \in DOMAIN Config :
    TotalDemand(rs, Config[i].name) + Demand(r, Config[i].name)
      <= Config[i].size

AInit == queue = <<>> /\ running = <<>>

Submit(r) == queue' = Append(queue, r) /\ UNCHANGED running

\* A client may withdraw a queued run or let it change places with its
\* neighbour; a run that has started is out of reach.
Withdraw(j) == queue' = RemoveAt(queue, j) /\ UNCHANGED running

Exchange(j) ==
  /\ queue' = [queue EXCEPT ![j] = queue[j+1], ![j+1] = queue[j]]
  /\ UNCHANGED running

Start ==
  /\ queue # <<>>
  /\ Fits(queue[1], running)
  /\ running' = Append(running, queue[1])
  /\ queue' = Tail(queue)

Complete(j) == running' = RemoveAt(running, j) /\ UNCHANGED queue

ANext ==
  \/ \E r \in Runs : Submit(r)
  \/ \E j \in 1..Len(queue) : Withdraw(j)
  \/ \E j \in 1..Len(queue)-1 : Exchange(j)
  \/ Start
  \/ \E j \in 1..Len(running) : Complete(j)

ASpec == AInit /\ [][ANext]_avars
=============================================================================
