------------------------------ MODULE Cluster ------------------------------
(***************************************************************************)
(* The machines of the cluster and the accounting of their cores           *)
(* (machine.h, cluster.h), and the runs that ask for them (run.h).         *)
(*                                                                         *)
(* A machine keeps its reserved cores twice: m_res, and m_free as a second *)
(* counter that alloc and free update beside it.  cluster::can_alloc reads *)
(* the first (get_free() is m_size - m_res), machine::alloc the second.    *)
(*                                                                         *)
(* A run's identity is its extended id m_xid; the other strings it carries *)
(* do not influence scheduling and are left out.                           *)
(***************************************************************************)
EXTENDS SeqSums

CONSTANTS
  Names,   \* machine names, those of the cluster and any other a run may give
  Xids,    \* extended run ids, <user>_<id>
  Config,  \* cluster_machines.dat: the sequence of machines of the cluster
  Runs     \* the runs clients may submit

Request == [name : Names, size : Int]

\* Nothing in the code checks what a client asks for: a request may name a
\* machine twice, name one the cluster lacks, or carry any integer.
ASSUME ClusterAssumption ==
  /\ Config \in Seq([name : Names, size : Nat])
  /\ Runs \subseteq [xid : Xids, reqs : Seq(Request)]

Machine == [name : Names, size : Nat, res : Int, free : Int]

MakeMachine(name, size) ==
  [name |-> name, size |-> size, res |-> 0, free |-> size]

GetFree(m) == m.size - m.res

MachineAlloc(m, n) ==
  IF n <= m.free THEN [m EXCEPT !.res = @ + n, !.free = @ - n] ELSE m

\* Mistakes: returning cores to one of the two counters only, comparing with
\* the whole machine, refusing a run that fits exactly, and a loop that
\* ends one request early.
MachineFreeHalf(m, n) == IF n <= m.res THEN [m EXCEPT !.res = @ - n] ELSE m
CanAllocEmpty(ms, r) ==
  \A k \in DOMAIN r.reqs, i \in DOMAIN ms :
    r.reqs[k].name = ms[i].name => r.reqs[k].size <= ms[i].size
CanAllocStrict(ms, r) ==
  \A k \in DOMAIN r.reqs, i \in DOMAIN ms :
    r.reqs[k].name = ms[i].name => r.reqs[k].size < GetFree(ms[i])
FreeFirstOnly(ms, r) ==
  IF r.reqs = <<>> THEN ms
  ELSE LET q == r.reqs[1]
       IN  [i \in DOMAIN ms |->
              IF q.name = ms[i].name
                THEN [ms[i] EXCEPT !.res = @ - q.size, !.free = @ + q.size]
                ELSE ms[i]]

MachineFree(m, n) ==
  IF n <= m.res THEN [m EXCEPT !.res = @ - n, !.free = @ + n] ELSE m

-----------------------------------------------------------------------------
InitMachines ==
  [i \in DOMAIN Config |-> MakeMachine(Config[i].name, Config[i].size)]

\* Every request is compared with the cluster as it is, not as the run's
\* earlier requests would leave it; a name the cluster lacks is passed over.
CanAlloc(ms, r) ==
  \A k \in DOMAIN r.reqs, i \in DOMAIN ms :
    r.reqs[k].name = ms[i].name => r.reqs[k].size <= GetFree(ms[i])

AllocRequest(ms, q) ==
  [i \in DOMAIN ms |->
     IF q.name = ms[i].name THEN MachineAlloc(ms[i], q.size) ELSE ms[i]]

FreeRequest(ms, q) ==
  [i \in DOMAIN ms |->
     IF q.name = ms[i].name THEN MachineFree(ms[i], q.size) ELSE ms[i]]

\* The machines after each iteration of the loop over the run's requests.
AllocTrace(ms, reqs) ==
  LET after[k \in 0..Len(reqs)] ==
        IF k = 0 THEN ms ELSE AllocRequest(after[k-1], reqs[k])
  IN  after

FreeTrace(ms, reqs) ==
  LET after[k \in 0..Len(reqs)] ==
        IF k = 0 THEN ms ELSE FreeRequest(after[k-1], reqs[k])
  IN  after

Alloc(ms, r) == AllocTrace(ms, r.reqs)[Len(r.reqs)]
Free(ms, r)  == FreeTrace(ms, r.reqs)[Len(r.reqs)]

-----------------------------------------------------------------------------
(* What the accounting is measured against.                                *)

\* The cores run r asks of the machine named n, request by request, and in all.
Demands(r, n) ==
  [k \in DOMAIN r.reqs |->
     IF r.reqs[k].name = n THEN r.reqs[k].size ELSE 0]
Demand(r, n) == SumOf(Demands(r, n))

\* The cores the runs of the sequence rs ask of it together.
TotalDemand(rs, n) == SumOf([k \in DOMAIN rs |-> Demand(rs[k], n)])

\* How many runs of the sequence rs have the extended id x.
CountXid(rs, x) == SumOf([k \in DOMAIN rs |-> IF rs[k].xid = x THEN 1 ELSE 0])

NonNegative(r) == \A k \in DOMAIN r.reqs : r.reqs[k].size >= 0

\* A run as README.md means it: each machine named once, a core count each.
WellFormed(r) ==
  /\ NonNegative(r)
  /\ \A j, k \in DOMAIN r.reqs : r.reqs[j].name = r.reqs[k].name => j = k
=============================================================================
