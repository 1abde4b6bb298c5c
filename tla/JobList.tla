------------------------------- MODULE JobList -------------------------------
(***************************************************************************)
(* The job list used the way the shell uses it, without the signals: a     *)
(* job is added under a pid the list does not hold, and deleted by pid.    *)
(* What is at stake is the job ID: deletejob and addjob choose it by two   *)
(* different rules (largest ID in use plus one; wrap to 1 past MAXJOBS).   *)
(* An addjob on a full list changes nothing, a stuttering step here.       *)
(***************************************************************************)
EXTENDS JobTable, FiniteSets

CONSTANTS Pids,     \* process IDs
          MaxLive,  \* jobs on the list at any one time
          MaxJid    \* bound: no job is added once nextjid is past it

ASSUME JobListAssumption == Pids \subseteq Nat \ {0} /\ MaxLive \in Nat

vars == <<jobs, nextjid>>

Busy == {i \in Slot : jobs[i].pid # 0}

Add(p) ==
  /\ ~ Listed(p)
  /\ Cardinality(Busy) < MaxLive
  /\ nextjid <= MaxJid
  /\ \E s \in {"FG", "BG"} : addjob(p, s)

Delete(p) == Listed(p) /\ deletejob(p)

Init == initjobs

Next == \E p \in Pids : Add(p) \/ Delete(p)

Spec == Init /\ [][Next]_vars
-----------------------------------------------------------------------------
TypeOK == JobTableTypeOK

\* The ID that pid2jid announces for a job ("[2] (1234) ./myspin") is one
\* under which getjobjid finds that same job again, so that "fg %2" resumes
\* the job it was announced for (jobs.cc:108-132).
JidNamesJob ==
  \A p \in Pids : Listed(p) =>
    \A j \in pid2jid(p) : j >= 1 /\ \A i \in getjobjid(j) : jobs[i].pid = p
=============================================================================
