------------------------------ MODULE VQueue -------------------------------
(***************************************************************************)
(* The operations of vqueue<run> (vq.h) on the vector it wraps.  Runs are  *)
(* compared by operator== of run.h, that is by their extended ids only, so *)
(* an operation names its run by the id x.                                 *)
(***************************************************************************)
EXTENDS Integers, SequencesExt

\* std::find: the index of the first run with id x, Len(q)+1 being end().
Find(q, x) ==
  CHOOSE k \in 1..Len(q)+1 :
    /\ k \in DOMAIN q => q[k].xid = x
    /\ \A j \in 1..k-1 : q[j].xid # x

\* iter_swap
Swap(q, j, k) == [q EXCEPT ![j] = q[k], ![k] = q[j]]

-----------------------------------------------------------------------------
(* Mistakes the runs are checked against: moving to the front instead of   *)
(* one up, never erasing the front, adding at the wrong end.               *)
MvUpToFront(q, x) ==
  LET k == Find(q, x)
  IN  IF k \in 2..Len(q) THEN Swap(q, 1, k) ELSE q
RmItemNotFront(q, x) ==
  LET k == Find(q, x)
  IN  IF k \in 2..Len(q) THEN RemoveAt(q, k) ELSE q
AddItemInFront(q, r) == <<r>> \o q
-----------------------------------------------------------------------------

\* Not found, or already the front: nothing moves.
MvUp(q, x) ==
  LET k == Find(q, x)
  IN  IF k \in 2..Len(q) THEN Swap(q, k-1, k) ELSE q

\* result < end()-1: found, and not the last one.  The comparison is only
\* defined for a vector that has storage (see MoveRunDown in RunScheduler).
MvDn(q, x) ==
  LET k == Find(q, x)
  IN  IF k < Len(q) THEN Swap(q, k, k+1) ELSE q

AddItem(q, r) == Append(q, r)

RmItem(q, x) ==
  LET k == Find(q, x)
  IN  IF k \in DOMAIN q THEN RemoveAt(q, k) ELSE q

PopFront(q) == Tail(q)
=============================================================================
