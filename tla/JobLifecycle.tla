---------------------------- MODULE JobLifecycle ----------------------------
(***************************************************************************)
(* What the shell promises about each child it forks, however the signals  *)
(* fall: the child is entered on the job list, or refused, before it can   *)
(* be reaped; it is reaped once; and its entry goes only after that.  The  *)
(* process ID may then be handed out again.                                *)
(***************************************************************************)
EXTENDS Naturals, FiniteSets

CONSTANTS Pids,      \* process IDs
          Capacity   \* jobs the list has room for

VARIABLE stage       \* how far each process ID is in its life

Stage == {"none", "forked", "listed", "refused", "reaped"}

In(s) == {p \in Pids : stage[p] = s}

Room == Cardinality(In("listed") \cup In("reaped")) < Capacity

Moves(p, from, to) == stage[p] = from /\ stage' = [stage EXCEPT ![p] = to]

\* One child at a time is in the making.
Fork(p) == In("forked") = {} /\ Moves(p, "none", "forked")

\* A child is refused only when the list is full.
List(p)   == Room /\ Moves(p, "forked", "listed")
Refuse(p) == ~ Room /\ Moves(p, "forked", "refused")

\* A child is reaped when the entry of the one reaped before is gone.
Reap(p) ==
  In("reaped") = {} /\ (Moves(p, "listed", "reaped") \/ Moves(p, "refused", "none"))

Delete(p) == Moves(p, "reaped", "none")

Init == stage = [p \in Pids |-> "none"]

Next == \E p \in Pids : Fork(p) \/ List(p) \/ Refuse(p) \/ Reap(p) \/ Delete(p)

Spec == Init /\ [][Next]_stage
=============================================================================
