--------------------------- MODULE ClusterProofs ---------------------------
(***************************************************************************)
(* What allocating and freeing a run does to the machines of a cluster,    *)
(* for every configuration and every run.                                  *)
(***************************************************************************)
EXTENDS Cluster, LoopLemmas

Machines == [DOMAIN Config -> Machine]

\* The two counters of a machine are the two parts of its size.
Balanced(m) == m.res + m.free = m.size /\ m.res \in 0..m.size

-----------------------------------------------------------------------------
(* One machine.                                                            *)

\* machine::alloc keeps name and size; with a count that is not negative it keeps
\* m_res and m_free the two parts of the size.
LEMMA MachineAllocType ==
  ASSUME NEW m \in Machine, NEW n \in Int
  PROVE  /\ MachineAlloc(m, n) \in Machine
         /\ MachineAlloc(m, n).name = m.name /\ MachineAlloc(m, n).size = m.size
         /\ Balanced(m) /\ n >= 0 => Balanced(MachineAlloc(m, n))
<1> DEFINE a == m.res + n
           b == m.free - n
           u == [m EXCEPT !.res = a, !.free = b]
<1>1. m.size \in Nat /\ m.res \in Int /\ m.free \in Int
  BY DEF Machine
<1>2. a \in Int /\ b \in Int
  BY <1>1
<1>3. /\ u \in Machine /\ u.name = m.name /\ u.size = m.size
      /\ u.res = a /\ u.free = b
  <2> HIDE DEF a, b
  <2> QED BY <1>2 DEF Machine
<1> HIDE DEF u
<1>4. CASE n <= m.free
  <2>1. MachineAlloc(m, n) = u
    BY <1>4 DEF MachineAlloc, u
  <2>2. Balanced(m) /\ n >= 0 => Balanced(u)
    BY <1>1, <1>3, <1>4 DEF Balanced
  <2> QED BY <1>3, <2>1, <2>2
<1>5. CASE ~(n <= m.free)
  <2>1. MachineAlloc(m, n) = m
    BY <1>5 DEF MachineAlloc
  <2> QED BY <2>1
<1>6. QED BY <1>4, <1>5

\* The same of machine::free.
LEMMA MachineFreeType ==
  ASSUME NEW m \in Machine, NEW n \in Int
  PROVE  /\ MachineFree(m, n) \in Machine
         /\ MachineFree(m, n).name = m.name /\ MachineFree(m, n).size = m.size
         /\ Balanced(m) /\ n >= 0 => Balanced(MachineFree(m, n))
<1> DEFINE a == m.res - n
           b == m.free + n
           u == [m EXCEPT !.res = a, !.free = b]
<1>1. m.size \in Nat /\ m.res \in Int /\ m.free \in Int
  BY DEF Machine
<1>2. a \in Int /\ b \in Int
  BY <1>1
<1>3. /\ u \in Machine /\ u.name = m.name /\ u.size = m.size
      /\ u.res = a /\ u.free = b
  <2> HIDE DEF a, b
  <2> QED BY <1>2 DEF Machine
<1> HIDE DEF u
<1>4. CASE n <= m.res
  <2>1. MachineFree(m, n) = u
    BY <1>4 DEF MachineFree, u
  <2>2. Balanced(m) /\ n >= 0 => Balanced(u)
    BY <1>1, <1>3, <1>4 DEF Balanced
  <2> QED BY <1>3, <2>1, <2>2
<1>5. CASE ~(n <= m.res)
  <2>1. MachineFree(m, n) = m
    BY <1>5 DEF MachineFree
  <2> QED BY <2>1
<1>6. QED BY <1>4, <1>5

-----------------------------------------------------------------------------
(* One request.                                                            *)

\* One iteration of the loop of cluster::alloc, machine by machine.
LEMMA AllocRequestType ==
  ASSUME NEW ms \in Machines, NEW q \in Request
  PROVE  /\ AllocRequest(ms, q) \in Machines
         /\ \A i \in DOMAIN Config :
              /\ AllocRequest(ms, q)[i].name = ms[i].name
              /\ AllocRequest(ms, q)[i].size = ms[i].size
              /\ Balanced(ms[i]) /\ q.size >= 0
                   => Balanced(AllocRequest(ms, q)[i])
<1>1. q.size \in Int /\ DOMAIN ms = DOMAIN Config
  BY DEF Request, Machines
<1>2. \A i \in DOMAIN Config : ms[i] \in Machine
  BY DEF Machines
<1>3. \A i \in DOMAIN Config :
        AllocRequest(ms, q)[i] =
          IF q.name = ms[i].name THEN MachineAlloc(ms[i], q.size) ELSE ms[i]
  BY <1>1 DEF AllocRequest
<1>4. \A i \in DOMAIN Config : AllocRequest(ms, q)[i] \in Machine
  BY <1>1, <1>2, <1>3, MachineAllocType
<1>5. AllocRequest(ms, q) \in Machines
  BY <1>1, <1>3, <1>4 DEF Machines, AllocRequest
<1>6. QED BY <1>1, <1>2, <1>3, <1>5, MachineAllocType

\* One iteration of the loop of cluster::free, machine by machine.
LEMMA FreeRequestType ==
  ASSUME NEW ms \in Machines, NEW q \in Request
  PROVE  /\ FreeRequest(ms, q) \in Machines
         /\ \A i \in DOMAIN Config :
              /\ FreeRequest(ms, q)[i].name = ms[i].name
              /\ FreeRequest(ms, q)[i].size = ms[i].size
              /\ Balanced(ms[i]) /\ q.size >= 0
                   => Balanced(FreeRequest(ms, q)[i])
<1>1. q.size \in Int /\ DOMAIN ms = DOMAIN Config
  BY DEF Request, Machines
<1>2. \A i \in DOMAIN Config : ms[i] \in Machine
  BY DEF Machines
<1>3. \A i \in DOMAIN Config :
        FreeRequest(ms, q)[i] =
          IF q.name = ms[i].name THEN MachineFree(ms[i], q.size) ELSE ms[i]
  BY <1>1 DEF FreeRequest
<1>4. \A i \in DOMAIN Config : FreeRequest(ms, q)[i] \in Machine
  BY <1>1, <1>2, <1>3, MachineFreeType
<1>5. FreeRequest(ms, q) \in Machines
  BY <1>1, <1>3, <1>4 DEF Machines, FreeRequest
<1>6. QED BY <1>1, <1>2, <1>3, <1>5, MachineFreeType

-----------------------------------------------------------------------------
(* The loops over a run's requests.                                        *)

\* AllocTrace is the function its definition describes: each iteration of
\* cluster::alloc starts from the machines the one before it left.
LEMMA AllocTraceDef ==
  ASSUME NEW ms \in Machines, NEW reqs \in Seq(Request)
  PROVE  /\ AllocTrace(ms, reqs) \in [0..Len(reqs) -> Machines]
         /\ AllocTrace(ms, reqs)[0] = ms
         /\ \A k \in 1..Len(reqs) :
              AllocTrace(ms, reqs)[k] =
                AllocRequest(AllocTrace(ms, reqs)[k-1], reqs[k])
<1> DEFINE n == Len(reqs)
           step == [p \in Machines \X (1..n) |-> AllocRequest(p[1], reqs[p[2]])]
           body(f) == [k \in 0..n |->
                         IF k = 0 THEN ms ELSE AllocRequest(f[k-1], reqs[k])]
           g == AllocTrace(ms, reqs)
<1>1. n \in Nat /\ \A k \in 1..n : reqs[k] \in Request
  OBVIOUS
<1> HIDE DEF n
<1>2. step \in [Machines \X (1..n) -> Machines]
  BY <1>1, AllocRequestType
<1>3. PICK f : Records(f, Machines, ms, n, step)
  <2> HIDE DEF step
  <2> QED BY <1>1, <1>2, RecursionExists
<1>4. \A k \in 1..n : f[k] = AllocRequest(f[k-1], reqs[k])
  <2> TAKE k \in 1..n
  <2>1. k-1 \in 0..n
    BY <1>1
  <2>2. <<f[k-1], k>> \in Machines \X (1..n)
    BY <1>3, <2>1 DEF Records
  <2> QED BY <1>3, <2>2 DEF Records
<1>5. f = body(f)
  BY <1>1, <1>3, <1>4 DEF Records
<1>6. g = body(g)
  BY <1>5 DEF AllocTrace, n
<1> HIDE DEF g
<1>7. g[0] = ms /\ \A k \in 1..n : g[k] = AllocRequest(g[k-1], reqs[k])
  <2>1. \A k \in 1..n : k \in 0..n /\ k # 0
    BY <1>1
  <2> QED BY <1>1, <1>6, <2>1
<1> DEFINE S == {k \in 0..n : g[k] \in Machines}
<1>8. 0 \in S
  BY <1>1, <1>7
<1>9. \A k \in 1..n : k-1 \in S => k \in S
  <2> TAKE k \in 1..n
  <2>1. k \in 0..n /\ g[k] = AllocRequest(g[k-1], reqs[k]) /\ reqs[k] \in Request
    BY <1>1, <1>7
  <2> QED BY <2>1, AllocRequestType
<1>10. 0..n \subseteq S
  <2> HIDE DEF S
  <2> QED BY <1>1, <1>8, <1>9, IntervalInd
<1>11. g \in [0..n -> Machines]
  BY <1>6, <1>10
<1>12. QED BY <1>7, <1>11 DEF g, n

\* The same of FreeTrace and cluster::free.
LEMMA FreeTraceDef ==
  ASSUME NEW ms \in Machines, NEW reqs \in Seq(Request)
  PROVE  /\ FreeTrace(ms, reqs) \in [0..Len(reqs) -> Machines]
         /\ FreeTrace(ms, reqs)[0] = ms
         /\ \A k \in 1..Len(reqs) :
              FreeTrace(ms, reqs)[k] =
                FreeRequest(FreeTrace(ms, reqs)[k-1], reqs[k])
<1> DEFINE n == Len(reqs)
           step == [p \in Machines \X (1..n) |-> FreeRequest(p[1], reqs[p[2]])]
           body(f) == [k \in 0..n |->
                         IF k = 0 THEN ms ELSE FreeRequest(f[k-1], reqs[k])]
           g == FreeTrace(ms, reqs)
<1>1. n \in Nat /\ \A k \in 1..n : reqs[k] \in Request
  OBVIOUS
<1> HIDE DEF n
<1>2. step \in [Machines \X (1..n) -> Machines]
  BY <1>1, FreeRequestType
<1>3. PICK f : Records(f, Machines, ms, n, step)
  <2> HIDE DEF step
  <2> QED BY <1>1, <1>2, RecursionExists
<1>4. \A k \in 1..n : f[k] = FreeRequest(f[k-1], reqs[k])
  <2> TAKE k \in 1..n
  <2>1. k-1 \in 0..n
    BY <1>1
  <2>2. <<f[k-1], k>> \in Machines \X (1..n)
    BY <1>3, <2>1 DEF Records
  <2> QED BY <1>3, <2>2 DEF Records
<1>5. f = body(f)
  BY <1>1, <1>3, <1>4 DEF Records
<1>6. g = body(g)
  BY <1>5 DEF FreeTrace, n
<1> HIDE DEF g
<1>7. g[0] = ms /\ \A k \in 1..n : g[k] = FreeRequest(g[k-1], reqs[k])
  <2>1. \A k \in 1..n : k \in 0..n /\ k # 0
    BY <1>1
  <2> QED BY <1>1, <1>6, <2>1
<1> DEFINE S == {k \in 0..n : g[k] \in Machines}
<1>8. 0 \in S
  BY <1>1, <1>7
<1>9. \A k \in 1..n : k-1 \in S => k \in S
  <2> TAKE k \in 1..n
  <2>1. k \in 0..n /\ g[k] = FreeRequest(g[k-1], reqs[k]) /\ reqs[k] \in Request
    BY <1>1, <1>7
  <2> QED BY <2>1, FreeRequestType
<1>10. 0..n \subseteq S
  <2> HIDE DEF S
  <2> QED BY <1>1, <1>8, <1>9, IntervalInd
<1>11. g \in [0..n -> Machines]
  BY <1>6, <1>10
<1>12. QED BY <1>7, <1>11 DEF g, n

\* Whatever a run asks for, its requests one after the other leave machines with
\* their names and sizes, and, unless a core count is negative, balanced ones balanced.
LEMMA AllocKeeps ==
  ASSUME NEW ms \in Machines, NEW r \in Runs
  PROVE  /\ Alloc(ms, r) \in Machines
         /\ \A i \in DOMAIN Config :
              /\ Alloc(ms, r)[i].name = ms[i].name
              /\ Alloc(ms, r)[i].size = ms[i].size
              /\ Balanced(ms[i]) /\ NonNegative(r) => Balanced(Alloc(ms, r)[i])
<1> DEFINE reqs == r.reqs
           n == Len(reqs)
           f == AllocTrace(ms, reqs)
           Kept(k) == \A i \in DOMAIN Config :
                        /\ f[k][i].name = ms[i].name
                        /\ f[k][i].size = ms[i].size
                        /\ Balanced(ms[i]) /\ NonNegative(r)
                             => Balanced(f[k][i])
           S == {k \in 0..n : Kept(k)}
<1>1. reqs \in Seq(Request)
  BY ClusterAssumption
<1>2. n \in Nat /\ \A k \in 1..n : reqs[k] \in Request
  BY <1>1
<1>3. \A k \in 1..n : NonNegative(r) => reqs[k].size >= 0
  BY <1>1 DEF NonNegative
<1>4. /\ f \in [0..n -> Machines] /\ f[0] = ms
      /\ \A k \in 1..n : f[k] = AllocRequest(f[k-1], reqs[k])
  BY <1>1, AllocTraceDef
<1>5. Alloc(ms, r) = f[n]
  BY DEF Alloc
<1> HIDE DEF f, n, reqs
<1>6. 0 \in S
  BY <1>2, <1>4
<1>7. \A k \in 1..n : k-1 \in S => k \in S
  <2> TAKE k \in 1..n
  <2> HAVE k-1 \in S
  <2>1. k \in 0..n /\ k-1 \in 0..n
    BY <1>2
  <2>2. f[k-1] \in Machines /\ f[k] = AllocRequest(f[k-1], reqs[k])
    BY <1>4, <2>1
  <2>3. Kept(k-1)
    OBVIOUS
  <2>4. Kept(k)
    BY <1>2, <1>3, <2>2, <2>3, AllocRequestType
  <2> QED BY <2>1, <2>4
<1>8. 0..n \subseteq S
  <2> HIDE DEF S
  <2> QED BY <1>2, <1>6, <1>7, IntervalInd
<1>9. n \in 0..n
  BY <1>2
<1>10. QED BY <1>4, <1>5, <1>8, <1>9

\* Whatever a run asks for, its requests one after the other leave machines with
\* their names and sizes, and, unless a core count is negative, balanced ones balanced.
LEMMA FreeKeeps ==
  ASSUME NEW ms \in Machines, NEW r \in Runs
  PROVE  /\ Free(ms, r) \in Machines
         /\ \A i \in DOMAIN Config :
              /\ Free(ms, r)[i].name = ms[i].name
              /\ Free(ms, r)[i].size = ms[i].size
              /\ Balanced(ms[i]) /\ NonNegative(r) => Balanced(Free(ms, r)[i])
<1> DEFINE reqs == r.reqs
           n == Len(reqs)
           f == FreeTrace(ms, reqs)
           Kept(k) == \A i \in DOMAIN Config :
                        /\ f[k][i].name = ms[i].name
                        /\ f[k][i].size = ms[i].size
                        /\ Balanced(ms[i]) /\ NonNegative(r)
                             => Balanced(f[k][i])
           S == {k \in 0..n : Kept(k)}
<1>1. reqs \in Seq(Request)
  BY ClusterAssumption
<1>2. n \in Nat /\ \A k \in 1..n : reqs[k] \in Request
  BY <1>1
<1>3. \A k \in 1..n : NonNegative(r) => reqs[k].size >= 0
  BY <1>1 DEF NonNegative
<1>4. /\ f \in [0..n -> Machines] /\ f[0] = ms
      /\ \A k \in 1..n : f[k] = FreeRequest(f[k-1], reqs[k])
  BY <1>1, FreeTraceDef
<1>5. Free(ms, r) = f[n]
  BY DEF Free
<1> HIDE DEF f, n, reqs
<1>6. 0 \in S
  BY <1>2, <1>4
<1>7. \A k \in 1..n : k-1 \in S => k \in S
  <2> TAKE k \in 1..n
  <2> HAVE k-1 \in S
  <2>1. k \in 0..n /\ k-1 \in 0..n
    BY <1>2
  <2>2. f[k-1] \in Machines /\ f[k] = FreeRequest(f[k-1], reqs[k])
    BY <1>4, <2>1
  <2>3. Kept(k-1)
    OBVIOUS
  <2>4. Kept(k)
    BY <1>2, <1>3, <2>2, <2>3, FreeRequestType
  <2> QED BY <2>1, <2>4
<1>8. 0..n \subseteq S
  <2> HIDE DEF S
  <2> QED BY <1>2, <1>6, <1>7, IntervalInd
<1>9. n \in 0..n
  BY <1>2
<1>10. QED BY <1>4, <1>5, <1>8, <1>9

-----------------------------------------------------------------------------
(* Well-formed runs: what a run asks of the machine named n is what its    *)
(* only request for n asks, or nothing.                                    *)

Unnamed(r, n) == \A k \in DOMAIN r.reqs : r.reqs[k].name # n

NamedAt(r, n, j) == \A k \in DOMAIN r.reqs : (k = j) = (r.reqs[k].name = n)

\* A well-formed run names a machine nowhere or in exactly one request.
LEMMA NamedOnce ==
  ASSUME NEW r, WellFormed(r), r.reqs \in Seq(Request), NEW n
  PROVE  Unnamed(r, n) \/ \E j \in 1..Len(r.reqs) : NamedAt(r, n, j)
BY DEF WellFormed, Unnamed, NamedAt

\* What a run asks of a machine, request by request, is a sequence of integers as
\* long as its requests.
LEMMA DemandsType ==
  ASSUME NEW r \in Runs, NEW n
  PROVE  /\ r.reqs \in Seq(Request)
         /\ Demands(r, n) \in Seq(Int) /\ Len(Demands(r, n)) = Len(r.reqs)
         /\ \A k \in 1..Len(r.reqs) :
              /\ r.reqs[k].size \in Int
              /\ Demands(r, n)[k] =
                   IF r.reqs[k].name = n THEN r.reqs[k].size ELSE 0
<1>1. r.reqs \in Seq(Request)
  BY ClusterAssumption
<1>2. \A k \in 1..Len(r.reqs) : r.reqs[k].size \in Int
  <2>1. \A k \in 1..Len(r.reqs) : r.reqs[k] \in Request
    BY <1>1
  <2> QED BY <2>1 DEF Request
<1>3. DOMAIN r.reqs = 1..Len(r.reqs) /\ Len(r.reqs) \in Nat
  BY <1>1
<1>4. Demands(r, n) \in [1..Len(r.reqs) -> Int]
  BY <1>2, <1>3 DEF Demands
<1>5. Demands(r, n) \in Seq(Int) /\ Len(Demands(r, n)) = Len(r.reqs)
  BY <1>3, <1>4
<1>6. QED BY <1>1, <1>2, <1>3, <1>5 DEF Demands

\* A run asks nothing of a machine it does not name.
LEMMA DemandUnnamed ==
  ASSUME NEW r \in Runs, NEW n, Unnamed(r, n)
  PROVE  Demand(r, n) = 0
<1>1. \A k \in 1..Len(Demands(r, n)) : Demands(r, n)[k] = 0
  BY DemandsType DEF Unnamed
<1>2. QED BY <1>1, DemandsType, SumOfZeros DEF Demand

\* A well-formed run asks of a machine it names what the one request says.
LEMMA DemandNamed ==
  ASSUME NEW r \in Runs, WellFormed(r), NEW n,
         NEW j \in DOMAIN r.reqs, NamedAt(r, n, j)
  PROVE  Demand(r, n) = r.reqs[j].size /\ r.reqs[j].size \in Int
         /\ r.reqs[j].size >= 0
<1>1. j \in 1..Len(Demands(r, n)) /\ Demands(r, n)[j] = r.reqs[j].size
  <2>1. j \in 1..Len(r.reqs) /\ r.reqs[j].name = n
    BY DemandsType DEF NamedAt
  <2> QED BY <2>1, DemandsType
<1>2. \A k \in 1..Len(Demands(r, n)) : k # j => Demands(r, n)[k] = 0
  BY DemandsType DEF NamedAt
<1>3. SumOf(Demands(r, n)) = Demands(r, n)[j]
  BY <1>1, <1>2, DemandsType, SumOfSingle
<1>4. QED BY <1>1, <1>3, DemandsType DEF Demand, WellFormed, NonNegative

\* A run that cannot be refused asks of no machine more than it has free.
LEMMA CanAllocDemand ==
  ASSUME NEW ms \in Machines, NEW r \in Runs, WellFormed(r), CanAlloc(ms, r),
         NEW i \in DOMAIN Config, Balanced(ms[i])
  PROVE  /\ Demand(r, ms[i].name) \in Nat
         /\ Demand(r, ms[i].name) <= ms[i].size - ms[i].res
         /\ Demand(r, ms[i].name) <= ms[i].free
<1>1. ms[i] \in Machine /\ DOMAIN ms = DOMAIN Config
  BY DEF Machines
<1>2. ms[i].size \in Nat /\ ms[i].res \in 0..ms[i].size /\ ms[i].free \in Int
      /\ ms[i].free = ms[i].size - ms[i].res
  BY <1>1 DEF Machine, Balanced
<1>3. CASE Unnamed(r, ms[i].name)
  BY <1>2, <1>3, DemandUnnamed
<1>4. CASE \E j \in 1..Len(r.reqs) : NamedAt(r, ms[i].name, j)
  <2>1. PICK j \in 1..Len(r.reqs) : NamedAt(r, ms[i].name, j)
    BY <1>4
  <2>2. j \in DOMAIN r.reqs
    BY DemandsType
  <2>3. Demand(r, ms[i].name) = r.reqs[j].size /\ r.reqs[j].size \in Nat
    BY <2>1, <2>2, DemandNamed
  <2>4. r.reqs[j].size <= GetFree(ms[i])
    BY <1>1, <2>1, <2>2 DEF CanAlloc, NamedAt
  <2> QED BY <1>2, <2>3, <2>4 DEF GetFree
<1>5. QED BY <1>3, <1>4, NamedOnce, DemandsType

\* A well-formed run that a machine has room for gets exactly what it asks of it.
LEMMA AllocExact ==
  ASSUME NEW ms \in Machines, NEW r \in Runs, WellFormed(r),
         NEW i \in DOMAIN Config, Balanced(ms[i]),
         Demand(r, ms[i].name) <= ms[i].free
  PROVE  /\ Alloc(ms, r)[i].res = ms[i].res + Demand(r, ms[i].name)
         /\ Alloc(ms, r)[i].free = ms[i].free - Demand(r, ms[i].name)
<1> DEFINE reqs == r.reqs
           n == Len(reqs)
           f == AllocTrace(ms, reqs)
           m == ms[i]
<1>1. reqs \in Seq(Request) /\ n \in Nat
  BY ClusterAssumption
<1>2. /\ f \in [0..n -> Machines] /\ f[0] = ms
      /\ \A k \in 1..n : f[k] = AllocRequest(f[k-1], reqs[k])
  BY <1>1, AllocTraceDef
<1>3. Alloc(ms, r) = f[n] /\ n \in 0..n
  BY <1>1 DEF Alloc
<1>4. m \in Machine /\ m.res \in Int /\ m.free \in Int
  BY DEF Machines, Machine
<1> HIDE DEF f, n
<1>5. \A k \in 1..n :
        f[k][i] = IF reqs[k].name = f[k-1][i].name
                    THEN MachineAlloc(f[k-1][i], reqs[k].size) ELSE f[k-1][i]
  <2> TAKE k \in 1..n
  <2>1. k-1 \in 0..n
    BY <1>1
  <2>2. DOMAIN f[k-1] = DOMAIN Config /\ f[k] = AllocRequest(f[k-1], reqs[k])
    BY <1>2, <2>1 DEF Machines
  <2> QED BY <2>2 DEF AllocRequest
<1>6. CASE Unnamed(r, m.name)
  <2> DEFINE S == {k \in 0..n : f[k][i] = m}
  <2>1. 0 \in S
    BY <1>1, <1>2
  <2>2. \A k \in 1..n : k-1 \in S => k \in S
    <3> TAKE k \in 1..n
    <3> HAVE k-1 \in S
    <3>1. k \in 0..n /\ reqs[k].name # m.name /\ f[k-1][i] = m
      BY <1>1, <1>6 DEF Unnamed, n
    <3> QED BY <1>5, <3>1
  <2>3. 0..n \subseteq S
    <3> HIDE DEF S
    <3> QED BY <1>1, <2>1, <2>2, IntervalInd
  <2>4. f[n][i] = m
    BY <1>3, <2>3
  <2>5. Demand(r, m.name) = 0
    BY <1>6, DemandUnnamed
  <2> QED BY <1>3, <1>4, <2>4, <2>5
<1>7. CASE \E j \in 1..n : NamedAt(r, m.name, j)
  <2>1. PICK j \in 1..n : NamedAt(r, m.name, j)
    BY <1>7
  <2>2. j \in DOMAIN r.reqs /\ j \in Int
    BY <1>1, <2>1 DEF n
  <2> DEFINE d == reqs[j].size
             u == MachineAlloc(m, d)
             S == {k \in 0..n : f[k][i] = IF k < j THEN m ELSE u}
  <2>3. Demand(r, m.name) = d /\ d \in Int /\ d >= 0
    BY <2>1, <2>2, DemandNamed
  <2>4. u.name = m.name /\ u.res = m.res + d /\ u.free = m.free - d
    BY <1>4, <2>3 DEF MachineAlloc, Machine
  <2> HIDE DEF u, d
  <2>5. 0 \in S
    BY <1>1, <1>2, <2>1
  <2>6. \A k \in 1..n : k-1 \in S => k \in S
    <3> TAKE k \in 1..n
    <3> HAVE k-1 \in S
    <3>1. k \in 0..n /\ k \in Int /\ (k < j => k-1 < j)
          /\ (k > j => ~(k-1 < j) /\ ~(k < j))
          /\ (k = j => k-1 < j /\ ~(k < j))
      BY <1>1, <2>2
    <3>2. f[k-1][i] = IF k-1 < j THEN m ELSE u
      OBVIOUS
    <3>3. k \in DOMAIN r.reqs
      BY <1>1 DEF n
    <3>4. (k = j) = (reqs[k].name = m.name)
      BY <2>1, <3>3 DEF NamedAt
    <3>5. CASE k < j
      BY <1>5, <2>2, <3>1, <3>2, <3>4, <3>5
    <3>6. CASE k = j
      <4>1. f[k][i] = u
        BY <1>5, <3>1, <3>2, <3>4, <3>6 DEF u, d
      <4> QED BY <3>1, <3>6, <4>1
    <3>7. CASE k > j
      <4>1. f[k][i] = u
        BY <1>5, <2>2, <2>4, <3>1, <3>2, <3>4, <3>7
      <4> QED BY <3>1, <3>7, <4>1
    <3> QED BY <2>2, <3>1, <3>5, <3>6, <3>7
  <2>7. 0..n \subseteq S
    <3> HIDE DEF S
    <3> QED BY <1>1, <2>5, <2>6, IntervalInd
  <2>8. f[n][i] = u
    <3>1. n \in S /\ ~(n < j)
      BY <1>1, <1>3, <2>7
    <3> QED BY <3>1
  <2> QED BY <1>3, <2>3, <2>4, <2>8
<1>8. Unnamed(r, m.name) \/ \E j \in 1..n : NamedAt(r, m.name, j)
  <2> HIDE DEF m
  <2> QED BY <1>1, NamedOnce DEF n
<1>9. QED BY <1>6, <1>7, <1>8

\* A well-formed run gives back exactly what it asks, where that much is reserved.
LEMMA FreeExact ==
  ASSUME NEW ms \in Machines, NEW r \in Runs, WellFormed(r),
         NEW i \in DOMAIN Config, Balanced(ms[i]),
         Demand(r, ms[i].name) <= ms[i].res
  PROVE  /\ Free(ms, r)[i].res = ms[i].res - Demand(r, ms[i].name)
         /\ Free(ms, r)[i].free = ms[i].free + Demand(r, ms[i].name)
<1> DEFINE reqs == r.reqs
           n == Len(reqs)
           f == FreeTrace(ms, reqs)
           m == ms[i]
<1>1. reqs \in Seq(Request) /\ n \in Nat
  BY ClusterAssumption
<1>2. /\ f \in [0..n -> Machines] /\ f[0] = ms
      /\ \A k \in 1..n : f[k] = FreeRequest(f[k-1], reqs[k])
  BY <1>1, FreeTraceDef
<1>3. Free(ms, r) = f[n] /\ n \in 0..n
  BY <1>1 DEF Free
<1>4. m \in Machine /\ m.res \in Int /\ m.free \in Int
  BY DEF Machines, Machine
<1> HIDE DEF f, n
<1>5. \A k \in 1..n :
        f[k][i] = IF reqs[k].name = f[k-1][i].name
                    THEN MachineFree(f[k-1][i], reqs[k].size) ELSE f[k-1][i]
  <2> TAKE k \in 1..n
  <2>1. k-1 \in 0..n
    BY <1>1
  <2>2. DOMAIN f[k-1] = DOMAIN Config /\ f[k] = FreeRequest(f[k-1], reqs[k])
    BY <1>2, <2>1 DEF Machines
  <2> QED BY <2>2 DEF FreeRequest
<1>6. CASE Unnamed(r, m.name)
  <2> DEFINE S == {k \in 0..n : f[k][i] = m}
  <2>1. 0 \in S
    BY <1>1, <1>2
  <2>2. \A k \in 1..n : k-1 \in S => k \in S
    <3> TAKE k \in 1..n
    <3> HAVE k-1 \in S
    <3>1. k \in 0..n /\ reqs[k].name # m.name /\ f[k-1][i] = m
      BY <1>1, <1>6 DEF Unnamed, n
    <3> QED BY <1>5, <3>1
  <2>3. 0..n \subseteq S
    <3> HIDE DEF S
    <3> QED BY <1>1, <2>1, <2>2, IntervalInd
  <2>4. f[n][i] = m
    BY <1>3, <2>3
  <2>5. Demand(r, m.name) = 0
    BY <1>6, DemandUnnamed
  <2> QED BY <1>3, <1>4, <2>4, <2>5
<1>7. CASE \E j \in 1..n : NamedAt(r, m.name, j)
  <2>1. PICK j \in 1..n : NamedAt(r, m.name, j)
    BY <1>7
  <2>2. j \in DOMAIN r.reqs /\ j \in Int
    BY <1>1, <2>1 DEF n
  <2> DEFINE d == reqs[j].size
             u == MachineFree(m, d)
             S == {k \in 0..n : f[k][i] = IF k < j THEN m ELSE u}
  <2>3. Demand(r, m.name) = d /\ d \in Int /\ d >= 0
    BY <2>1, <2>2, DemandNamed
  <2>4. u.name = m.name /\ u.res = m.res - d /\ u.free = m.free + d
    BY <1>4, <2>3 DEF MachineFree, Machine
  <2> HIDE DEF u, d
  <2>5. 0 \in S
    BY <1>1, <1>2, <2>1
  <2>6. \A k \in 1..n : k-1 \in S => k \in S
    <3> TAKE k \in 1..n
    <3> HAVE k-1 \in S
    <3>1. k \in 0..n /\ k \in Int /\ (k < j => k-1 < j)
          /\ (k > j => ~(k-1 < j) /\ ~(k < j))
          /\ (k = j => k-1 < j /\ ~(k < j))
      BY <1>1, <2>2
    <3>2. f[k-1][i] = IF k-1 < j THEN m ELSE u
      OBVIOUS
    <3>3. k \in DOMAIN r.reqs
      BY <1>1 DEF n
    <3>4. (k = j) = (reqs[k].name = m.name)
      BY <2>1, <3>3 DEF NamedAt
    <3>5. CASE k < j
      BY <1>5, <2>2, <3>1, <3>2, <3>4, <3>5
    <3>6. CASE k = j
      <4>1. f[k][i] = u
        BY <1>5, <3>1, <3>2, <3>4, <3>6 DEF u, d
      <4> QED BY <3>1, <3>6, <4>1
    <3>7. CASE k > j
      <4>1. f[k][i] = u
        BY <1>5, <2>2, <2>4, <3>1, <3>2, <3>4, <3>7
      <4> QED BY <3>1, <3>7, <4>1
    <3> QED BY <2>2, <3>1, <3>5, <3>6, <3>7
  <2>7. 0..n \subseteq S
    <3> HIDE DEF S
    <3> QED BY <1>1, <2>5, <2>6, IntervalInd
  <2>8. f[n][i] = u
    <3>1. n \in S /\ ~(n < j)
      BY <1>1, <1>3, <2>7
    <3> QED BY <3>1
  <2> QED BY <1>3, <2>3, <2>4, <2>8
<1>8. Unnamed(r, m.name) \/ \E j \in 1..n : NamedAt(r, m.name, j)
  <2> HIDE DEF m
  <2> QED BY <1>1, NamedOnce DEF n
<1>9. QED BY <1>6, <1>7, <1>8

-----------------------------------------------------------------------------
(* Sums over sequences of runs.                                            *)

\* The sum of what the function h says of the runs of rs.
MapSum(rs, h) == SumOf([k \in DOMAIN rs |-> h[rs[k]]])

\* A sum over a sequence of runs is an integer, and zero over no runs.
LEMMA MapSumType ==
  ASSUME NEW h \in [Runs -> Int], NEW rs \in Seq(Runs)
  PROVE  /\ [k \in DOMAIN rs |-> h[rs[k]]] \in Seq(Int)
         /\ Len([k \in DOMAIN rs |-> h[rs[k]]]) = Len(rs)
         /\ MapSum(rs, h) \in Int
         /\ rs = <<>> => MapSum(rs, h) = 0
<1> DEFINE t == [k \in DOMAIN rs |-> h[rs[k]]]
<1>1. Len(rs) \in Nat /\ DOMAIN rs = 1..Len(rs)
      /\ \A k \in 1..Len(rs) : rs[k] \in Runs
  OBVIOUS
<1>2. t \in [1..Len(rs) -> Int]
  BY <1>1
<1>3. t \in Seq(Int) /\ Len(t) = Len(rs)
  BY <1>1, <1>2
<1>4. rs = <<>> => t = <<>>
  BY <1>1, <1>3
<1> HIDE DEF t
<1>5. SumOf(t) \in Int /\ (t = <<>> => SumOf(t) = 0)
  BY <1>3, SumOfInt
<1>6. QED BY <1>3, <1>4, <1>5 DEF MapSum, t

\* One more run adds its own value to the sum.
LEMMA MapSumAppend ==
  ASSUME NEW h \in [Runs -> Int], NEW rs \in Seq(Runs), NEW r \in Runs
  PROVE  MapSum(Append(rs, r), h) = MapSum(rs, h) + h[r]
<1> DEFINE t == [k \in DOMAIN rs |-> h[rs[k]]]
           u == [k \in DOMAIN Append(rs, r) |-> h[Append(rs, r)[k]]]
<1>1. /\ Append(rs, r) \in Seq(Runs) /\ Len(Append(rs, r)) = Len(rs) + 1
      /\ \A k \in 1..Len(rs) + 1 :
           Append(rs, r)[k] = IF k <= Len(rs) THEN rs[k] ELSE r
  OBVIOUS
<1>2. t \in Seq(Int) /\ Len(t) = Len(rs) /\ h[r] \in Int
  BY MapSumType
<1>3. u \in Seq(Int) /\ Len(u) = Len(rs) + 1
  <2> DEFINE a == Append(rs, r)
  <2>1. a \in Seq(Runs)
    OBVIOUS
  <2> HIDE DEF a
  <2>2. [k \in DOMAIN a |-> h[a[k]]] \in Seq(Int)
        /\ Len([k \in DOMAIN a |-> h[a[k]]]) = Len(a)
    BY <2>1, MapSumType
  <2> QED BY <1>1, <2>2 DEF a
<1>4. \A k \in 1..Len(rs)+1 : u[k] = IF k <= Len(rs) THEN t[k] ELSE h[r]
  BY <1>1
<1>5. u = Append(t, h[r])
  <2>1. Append(t, h[r]) \in Seq(Int) /\ Len(Append(t, h[r])) = Len(rs) + 1
        /\ \A k \in 1..Len(rs)+1 :
             Append(t, h[r])[k] = IF k <= Len(rs) THEN t[k] ELSE h[r]
    <3> HIDE DEF t
    <3> QED BY <1>2
  <2>2. \A k \in 1..Len(u) : u[k] = Append(t, h[r])[k]
    <3> HIDE DEF t, u
    <3> QED BY <1>3, <1>4, <2>1
  <2> DEFINE v == Append(t, h[r])
             E == Int
  <2>3. u \in Seq(E) /\ v \in Seq(E) /\ Len(u) = Len(v)
    <3> HIDE DEF t, u
    <3> QED BY <1>3, <2>1
  <2>4. \A k \in 1..Len(u) : u[k] = v[k]
    BY <2>2
  <2> HIDE DEF t, u, v, E
  <2>5. u = v
    BY <2>3, <2>4, SeqEqual
  <2> QED BY <2>5 DEF v
<1>6. SumOf(Append(t, h[r])) = SumOf(t) + h[r]
  <2> HIDE DEF t
  <2> QED BY <1>2, SumOfAppend
<1>7. QED BY <1>5, <1>6 DEF MapSum

\* Taking a run out of the sequence subtracts its value, wherever it stood.
LEMMA MapSumRemoveAt ==
  ASSUME NEW h \in [Runs -> Int], NEW rs \in Seq(Runs), NEW i \in 1..Len(rs)
  PROVE  MapSum(RemoveAt(rs, i), h) = MapSum(rs, h) - h[rs[i]]
<1> DEFINE q == RemoveAt(rs, i)
           t == [k \in DOMAIN rs |-> h[rs[k]]]
           u == [k \in DOMAIN q |-> h[q[k]]]
<1>1. /\ q \in Seq(Runs) /\ Len(q) = Len(rs) - 1
      /\ \A k \in 1..Len(rs)-1 : q[k] = IF k < i THEN rs[k] ELSE rs[k+1]
  BY RemoveAtDef
<1>2. t \in Seq(Int) /\ Len(t) = Len(rs)
  BY MapSumType
<1>3. t[i] = h[rs[i]] /\ Len(rs) \in Nat
  OBVIOUS
<1> HIDE DEF q
<1>4. u \in Seq(Int) /\ Len(u) = Len(q)
  BY <1>1, MapSumType
<1>5. \A k \in 1..Len(rs)-1 : u[k] = IF k < i THEN t[k] ELSE t[k+1]
  <2> TAKE k \in 1..Len(rs)-1
  <2>1. k \in DOMAIN q /\ k \in DOMAIN rs /\ k+1 \in DOMAIN rs
    BY <1>1
  <2>2. u[k] = h[q[k]] /\ t[k] = h[rs[k]] /\ t[k+1] = h[rs[k+1]]
    BY <2>1
  <2> QED BY <1>1, <2>2
<1> HIDE DEF t, u
<1>6. /\ RemoveAt(t, i) \in Seq(Int) /\ Len(RemoveAt(t, i)) = Len(rs) - 1
      /\ \A k \in 1..Len(rs)-1 :
           RemoveAt(t, i)[k] = IF k < i THEN t[k] ELSE t[k+1]
  BY <1>2, RemoveAtInt
<1>7. u = RemoveAt(t, i)
  <2>1. \A k \in 1..Len(u) : u[k] = RemoveAt(t, i)[k]
    BY <1>1, <1>4, <1>5, <1>6
  <2> DEFINE v == RemoveAt(t, i)
  <2>2. v \in Seq(Int) /\ Len(v) = Len(u) /\ \A k \in 1..Len(u) : u[k] = v[k]
    BY <1>1, <1>4, <1>6, <2>1
  <2>3. u = v
    <3> DEFINE E == Int
    <3>1. u \in Seq(E) /\ v \in Seq(E)
      BY <1>4, <2>2
    <3> HIDE DEF v, E
    <3> QED BY <2>2, <3>1, SeqEqual
  <2> QED BY <2>3
<1>8. SumOf(RemoveAt(t, i)) = SumOf(t) - t[i]
  BY <1>2, SumOfRemoveAt
<1>9. QED BY <1>3, <1>7, <1>8 DEF MapSum, t, u, q

\* Where no value is negative, neither is the sum, and no value exceeds it.
LEMMA MapSumNat ==
  ASSUME NEW h \in [Runs -> Int], NEW rs \in Seq(Runs),
         \A r \in Runs : h[r] >= 0
  PROVE  /\ MapSum(rs, h) \in Nat
         /\ \A i \in 1..Len(rs) : h[rs[i]] <= MapSum(rs, h)
<1> DEFINE t == [k \in DOMAIN rs |-> h[rs[k]]]
<1>1. t \in Seq(Int) /\ Len(t) = Len(rs)
  BY MapSumType
<1>2. \A k \in 1..Len(t) : t[k] = h[rs[k]] /\ t[k] >= 0
  BY <1>1
<1> HIDE DEF t
<1>3. SumOf(t) \in Nat
  BY <1>1, <1>2, SumOfNat
<1>4. \A i \in 1..Len(t) : t[i] <= SumOf(t)
  BY <1>1, <1>2, ElementAtMostSum
<1>5. MapSum(rs, h) = SumOf(t)
  BY DEF MapSum, t
<1>6. QED BY <1>1, <1>2, <1>3, <1>4, <1>5

-----------------------------------------------------------------------------
(* The cores a sequence of runs asks for, and the ids it has.              *)

\* What a run asks of a machine is an integer, never negative if the run is well-formed.
LEMMA DemandInt ==
  ASSUME NEW r \in Runs, NEW n
  PROVE  /\ Demand(r, n) \in Int
         /\ WellFormed(r) => Demand(r, n) >= 0
<1>1. Demand(r, n) \in Int
  BY DemandsType, SumOfInt DEF Demand
<1>2. ASSUME WellFormed(r) PROVE Demand(r, n) >= 0
  <2>1. \A k \in 1..Len(Demands(r, n)) : Demands(r, n)[k] >= 0
    BY <1>2, DemandsType DEF WellFormed, NonNegative
  <2> QED BY <2>1, DemandsType, SumOfNat DEF Demand
<1>3. QED BY <1>1, <1>2

DemandOf(n) == [r \in Runs |-> Demand(r, n)]

\* TotalDemand is such a sum.
LEMMA TotalDemandMap ==
  ASSUME NEW n
  PROVE  /\ DemandOf(n) \in [Runs -> Int]
         /\ \A r \in Runs : DemandOf(n)[r] = Demand(r, n)
         /\ \A rs \in Seq(Runs) : TotalDemand(rs, n) = MapSum(rs, DemandOf(n))
<1>1. DemandOf(n) \in [Runs -> Int] /\ \A r \in Runs : DemandOf(n)[r] = Demand(r, n)
  BY DemandInt DEF DemandOf
<1>2. ASSUME NEW rs \in Seq(Runs)
      PROVE  TotalDemand(rs, n) = MapSum(rs, DemandOf(n))
  <2>1. \A k \in DOMAIN rs : rs[k] \in Runs
    OBVIOUS
  <2>2. [k \in DOMAIN rs |-> Demand(rs[k], n)] = [k \in DOMAIN rs |-> DemandOf(n)[rs[k]]]
    BY <1>1, <2>1
  <2> QED BY <2>2 DEF TotalDemand, MapSum
<1>3. QED BY <1>1, <1>2

\* What a run adds to the demand when it joins and takes from it when it leaves;
\* no run of a sequence of well-formed ones asks for more than all of them.
LEMMA TotalDemandFacts ==
  ASSUME NEW n, NEW rs \in Seq(Runs)
  PROVE  /\ TotalDemand(rs, n) \in Int
         /\ rs = <<>> => TotalDemand(rs, n) = 0
         /\ \A r \in Runs :
              TotalDemand(Append(rs, r), n) = TotalDemand(rs, n) + Demand(r, n)
         /\ \A i \in 1..Len(rs) :
              TotalDemand(RemoveAt(rs, i), n)
                = TotalDemand(rs, n) - Demand(rs[i], n)
         /\ (\A r \in Runs : WellFormed(r)) =>
              \A i \in 1..Len(rs) :
                Demand(rs[i], n) >= 0 /\ Demand(rs[i], n) <= TotalDemand(rs, n)
<1> DEFINE h == DemandOf(n)
<1>1. /\ h \in [Runs -> Int] /\ \A r \in Runs : h[r] = Demand(r, n)
      /\ \A u \in Seq(Runs) : TotalDemand(u, n) = MapSum(u, h)
  BY TotalDemandMap
<1>2. \A i \in 1..Len(rs) : rs[i] \in Runs /\ RemoveAt(rs, i) \in Seq(Runs)
  BY RemoveAtDef
<1>3. \A r \in Runs : Append(rs, r) \in Seq(Runs)
  OBVIOUS
<1> HIDE DEF h
<1>4. TotalDemand(rs, n) \in Int /\ (rs = <<>> => TotalDemand(rs, n) = 0)
  BY <1>1, MapSumType
<1>5. \A r \in Runs :
        TotalDemand(Append(rs, r), n) = TotalDemand(rs, n) + Demand(r, n)
  BY <1>1, <1>3, MapSumAppend
<1>6. \A i \in 1..Len(rs) :
        TotalDemand(RemoveAt(rs, i), n) = TotalDemand(rs, n) - Demand(rs[i], n)
  BY <1>1, <1>2, MapSumRemoveAt
<1>7. ASSUME \A r \in Runs : WellFormed(r)
      PROVE  \A i \in 1..Len(rs) :
               Demand(rs[i], n) >= 0 /\ Demand(rs[i], n) <= TotalDemand(rs, n)
  <2>1. \A r \in Runs : h[r] >= 0
    BY <1>1, <1>7, DemandInt
  <2>2. \A i \in 1..Len(rs) : h[rs[i]] <= MapSum(rs, h)
    BY <1>1, <2>1, MapSumNat
  <2> QED BY <1>1, <1>2, <2>1, <2>2
<1>8. QED BY <1>4, <1>5, <1>6, <1>7

HasXid(x) == [r \in Runs |-> IF r.xid = x THEN 1 ELSE 0]

\* The same for the number of runs with an id; where that is not zero, some run has it.
LEMMA CountXidFacts ==
  ASSUME NEW x, NEW rs \in Seq(Runs)
  PROVE  /\ CountXid(rs, x) \in Nat
         /\ rs = <<>> => CountXid(rs, x) = 0
         /\ \A r \in Runs :
              CountXid(Append(rs, r), x)
                = CountXid(rs, x) + (IF r.xid = x THEN 1 ELSE 0)
         /\ \A i \in 1..Len(rs) :
              CountXid(RemoveAt(rs, i), x)
                = CountXid(rs, x) - (IF rs[i].xid = x THEN 1 ELSE 0)
         /\ \A i \in 1..Len(rs) : rs[i].xid = x => CountXid(rs, x) >= 1
         /\ CountXid(rs, x) # 0 => \E i \in 1..Len(rs) : rs[i].xid = x
<1> DEFINE h == HasXid(x)
<1>1. /\ h \in [Runs -> Int]
      /\ \A r \in Runs : h[r] = (IF r.xid = x THEN 1 ELSE 0) /\ h[r] >= 0
  BY DEF HasXid
<1>2. \A u \in Seq(Runs) : CountXid(u, x) = MapSum(u, h)
  <2> TAKE u \in Seq(Runs)
  <2>1. \A k \in DOMAIN u : u[k] \in Runs
    OBVIOUS
  <2>2. [k \in DOMAIN u |-> IF u[k].xid = x THEN 1 ELSE 0] = [k \in DOMAIN u |-> h[u[k]]]
    BY <1>1, <2>1
  <2> QED BY <2>2 DEF CountXid, MapSum
<1>3. \A i \in 1..Len(rs) : rs[i] \in Runs /\ RemoveAt(rs, i) \in Seq(Runs)
  BY RemoveAtDef
<1>4. \A r \in Runs : Append(rs, r) \in Seq(Runs)
  OBVIOUS
<1> HIDE DEF h
<1>5. CountXid(rs, x) \in Nat /\ (rs = <<>> => CountXid(rs, x) = 0)
  BY <1>1, <1>2, MapSumType, MapSumNat
<1>6. \A r \in Runs :
        CountXid(Append(rs, r), x) = CountXid(rs, x) + (IF r.xid = x THEN 1 ELSE 0)
  BY <1>1, <1>2, <1>4, MapSumAppend
<1>7. \A i \in 1..Len(rs) :
        CountXid(RemoveAt(rs, i), x) = CountXid(rs, x) - (IF rs[i].xid = x THEN 1 ELSE 0)
  BY <1>1, <1>2, <1>3, MapSumRemoveAt
<1>8. \A i \in 1..Len(rs) : rs[i].xid = x => CountXid(rs, x) >= 1
  BY <1>1, <1>2, <1>3, MapSumNat
<1>9. ASSUME \A i \in 1..Len(rs) : rs[i].xid # x PROVE CountXid(rs, x) = 0
  <2> DEFINE t == [k \in DOMAIN rs |-> h[rs[k]]]
  <2>1. t \in Seq(Int) /\ Len(t) = Len(rs)
    BY <1>1, MapSumType
  <2>2. \A k \in 1..Len(t) : t[k] = 0
    BY <1>1, <1>3, <1>9, <2>1
  <2>3. SumOf(t) = 0
    <3> HIDE DEF t
    <3> QED BY <2>1, <2>2, SumOfZeros
  <2> QED BY <1>2, <2>3 DEF MapSum
<1>10. QED BY <1>5, <1>6, <1>7, <1>8, <1>9
=============================================================================
