------------------------------ MODULE JobTable ------------------------------
(***************************************************************************)
(* The job list of the tiny shell (lab 5): the array jobs[MAXJOBS] and the *)
(* counter nextjid of jobs.cc, with one operator per routine.  The command *)
(* line text and the printing are left out.                                *)
(*                                                                         *)
(* Every routine scans the array upwards and stops at the first match, so  *)
(* a search is written as the set that holds the slot it returns; the set  *)
(* is empty where the code returns NULL.                                   *)
(***************************************************************************)
EXTENDS Naturals

CONSTANT MaxJobs   \* MAXJOBS, 16 in globals.h

ASSUME MaxJobsAssumption == MaxJobs \in Nat \ {0}

VARIABLES jobs,    \* the array of job_t
          nextjid  \* the next job ID to allocate

Slot     == 0 .. MaxJobs - 1
JobState == {"UNDEF", "FG", "BG", "ST"}
Job      == [pid : Nat, jid : Nat, state : JobState]

JobTableTypeOK == jobs \in [Slot -> Job] /\ nextjid \in Nat \ {0}
-----------------------------------------------------------------------------
\* clearjob
Cleared == [pid |-> 0, jid |-> 0, state |-> "UNDEF"]

initjobs == jobs = [i \in Slot |-> Cleared] /\ nextjid = 1

\* The slot an upward scan for a member of S stops at, as a set.
First(S) == {i \in S : \A k \in S : i <= k}

\* The largest job ID in table t, as a set; 0 when there is none.
maxjid(t) == {m \in {0} \cup {t[i].jid : i \in Slot} :
                 \A i \in Slot : t[i].jid <= m}

getjobpid(p) == First({i \in Slot : p >= 1 /\ jobs[i].pid = p})
getjobjid(j) == First({i \in Slot : j >= 1 /\ jobs[i].jid = j})

Listed(p) == \E i \in Slot : jobs[i].pid = p

pid2jid(p) == IF p >= 1 /\ Listed(p) THEN {jobs[i].jid : i \in getjobpid(p)}
                                     ELSE {0}

\* Seeded fault: a background job counts as well.
Foreground_AnyRunning == {i \in Slot : jobs[i].state \in {"FG", "BG"}}

Foreground == {i \in Slot : jobs[i].state = "FG"}

\* A slot in state FG whose pid is 0 makes fgpid answer 0 as well.
fgpid == IF Foreground = {} THEN {0} ELSE {jobs[i].pid : i \in First(Foreground)}
-----------------------------------------------------------------------------
\* Seeded fault: the test for a free slot is missing.
addjob_Overwrites(p, s) ==
  \E i \in First(Slot) :
    /\ p >= 1
    /\ jobs' = [jobs EXCEPT ![i] = [pid |-> p, jid |-> nextjid, state |-> s]]
    /\ nextjid' = IF nextjid + 1 > MaxJobs THEN 1 ELSE nextjid + 1

\* addjob, when it finds a free slot; the ID wraps past MAXJOBS ...
addjob(p, s) ==
  \E i \in First({i \in Slot : jobs[i].pid = 0}) :
    /\ p >= 1
    /\ jobs' = [jobs EXCEPT ![i] = [pid |-> p, jid |-> nextjid, state |-> s]]
    /\ nextjid' = IF nextjid + 1 > MaxJobs THEN 1 ELSE nextjid + 1

\* ... and when it refuses the job: "Tried to create too many jobs".
TableFull == \A i \in Slot : jobs[i].pid # 0

\* Seeded fault: the largest ID in use instead of the one above it.
deletejob_Largest(p) ==
  IF Listed(p)
    THEN \E i \in getjobpid(p) :
           LET t == [jobs EXCEPT ![i] = Cleared]
           IN  jobs' = t /\ \E m \in maxjid(t) : nextjid' = m
    ELSE UNCHANGED <<jobs, nextjid>>

\* Seeded fault: numbering restarts at 1 after every deletion.
deletejob_Restarts(p) ==
  IF Listed(p)
    THEN \E i \in getjobpid(p) :
           jobs' = [jobs EXCEPT ![i] = Cleared] /\ nextjid' = 1
    ELSE UNCHANGED <<jobs, nextjid>>

\* deletejob; without an entry for p it changes nothing.
deletejob(p) ==
  IF Listed(p)
    THEN \E i \in getjobpid(p) :
           LET t == [jobs EXCEPT ![i] = Cleared]
           IN  jobs' = t /\ \E m \in maxjid(t) : nextjid' = m + 1
    ELSE UNCHANGED <<jobs, nextjid>>
=============================================================================
