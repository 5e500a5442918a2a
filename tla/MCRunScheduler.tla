-------------------------- MODULE MCRunScheduler ---------------------------
(***************************************************************************)
(* Small clusters and small sets of runs for checking RunScheduler.        *)
(***************************************************************************)
EXTENDS RunScheduler

\* "gpu" is a machine the cluster does not have.
MCNames == {"thor", "c22", "gpu"}
MCXids  == {"u1", "u2", "u3"}

ARun(x, reqs) == [xid |-> x, reqs |-> reqs]
Cores(n, s)   == [name |-> n, size |-> s]

\* The whole of thor is 2 cores, so that full and u1 exclude each other.
MCConfig  == <<Cores("thor", 2), Cores("c22", 1)>>
OneConfig == <<Cores("thor", 2)>>

One  == ARun("u1", <<Cores("thor", 1)>>)
Full == ARun("u2", <<Cores("thor", 2)>>)
Both == ARun("u3", <<Cores("thor", 1), Cores("c22", 1)>>)
\* RUN_ID defaults to 1: a user's second run easily has the id of the first.
Same == ARun("u1", <<Cores("c22", 1)>>)
\* A request that names a machine twice.
Twice == ARun("u3", <<Cores("thor", 1), Cores("thor", 1)>>)
\* One for a machine, or for more cores, than the cluster has.
Gpu  == ARun("u2", <<Cores("gpu", 1)>>)
Huge == ARun("u2", <<Cores("thor", 3)>>)

\* Well-formed: no machine is named twice.
GoodRuns  == {One, Full, Both, Same, Gpu}
TwiceRuns == {One, Full, Twice}
HugeRuns  == {One, Huge}

\* The clients' move and remove messages.
TwoXids == {"u1", "u2"}
=============================================================================
