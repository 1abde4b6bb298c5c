--------------------------- MODULE JobListProofs ---------------------------
(***************************************************************************)
(* With at most three jobs on the list at a time, job IDs are unique, for  *)
(* every length of the list and every set of process IDs.  (JobListFour.cfg*)
(* shows that four are too many.)                                          *)
(***************************************************************************)
EXTENDS JobList, FiniteSetTheorems, TLAPS

\* nextjid is the largest ID in use plus one, as deletejob leaves it ...
Fresh == \E m \in maxjid(jobs) : nextjid = m + 1

\* ... or it wrapped, right after the two largest IDs were given out, and at
\* most the ID 1 was given out since ...
Wrapped ==
  \E u, v \in Busy :
    /\ jobs[v].jid = jobs[u].jid + 1 /\ jobs[v].jid >= MaxJobs
    /\ \/ nextjid = 1
       \/ nextjid = 2 /\ \E w \in Busy \ {u, v} : jobs[w].jid = 1

\* ... or there is one slot only, and it is taken.
Single == nextjid = 1 /\ MaxJobs = 1 /\ Busy = Slot

FreeIffNoJid == \A i \in Slot : jobs[i].pid = 0 <=> jobs[i].jid = 0

UniqueJid == \A i, k \in Busy : jobs[i].jid = jobs[k].jid => i = k

IInv == TypeOK /\ FreeIffNoJid /\ UniqueJid /\ (Fresh \/ Wrapped \/ Single)
-----------------------------------------------------------------------------
LEMMA ThreeBusy ==
  ASSUME NEW u \in Busy, NEW v \in Busy, NEW w \in Busy,
         u # v, u # w, v # w
  PROVE  Cardinality(Busy) \in Nat /\ Cardinality(Busy) >= 3
<1>1. IsFiniteSet(Busy)
  <2>1. IsFiniteSet(Slot)
    BY MaxJobsAssumption, FS_Interval DEF Slot
  <2>2. Busy \subseteq Slot
    BY DEF Busy
  <2> QED BY <2>1, <2>2, FS_Subset
<1>2. IsFiniteSet({u, v, w}) /\ Cardinality({u, v, w}) = 3
  <2>1. IsFiniteSet({}) /\ Cardinality({}) = 0
    BY FS_EmptySet
  <2>2. IsFiniteSet({u}) /\ Cardinality({u}) = 1
    BY FS_Singleton
  <2>3. IsFiniteSet({u, v}) /\ Cardinality({u, v}) = 2
    <3>1. {u} \cup {v} = {u, v}
      OBVIOUS
    <3> QED BY <2>2, <3>1, FS_AddElement
  <2>4. {u, v} \cup {w} = {u, v, w}
    OBVIOUS
  <2> QED BY <2>3, <2>4, FS_AddElement
<1>3. Cardinality({u, v, w}) <= Cardinality(Busy)
  BY <1>1, FS_Subset
<1> QED BY <1>1, <1>2, <1>3, FS_CardinalityType

LEMMA InitInv == Init => IInv
<1> SUFFICES ASSUME Init PROVE IInv
  OBVIOUS
<1> USE MaxJobsAssumption DEF Init, initjobs, Cleared
<1>1. TypeOK
  BY DEF TypeOK, JobTableTypeOK, Job, JobState
<1>2. 0 \in maxjid(jobs)
  BY DEF maxjid
<1> QED BY <1>1, <1>2 DEF IInv, Fresh, FreeIffNoJid, UniqueJid, Busy

\* The ID that addjob gives out is not in use when a slot is free.
LEMMA NextIsNew ==
  ASSUME IInv, MaxLive <= 3, Cardinality(Busy) < MaxLive,
         NEW i \in Slot, jobs[i].pid = 0, NEW k \in Busy
  PROVE  jobs[k].jid # nextjid
<1> USE MaxJobsAssumption
<1>1. \A b \in Busy : b \in Slot /\ jobs[b].pid # 0 /\ jobs[b].jid \in Nat \ {0}
  BY DEF IInv, TypeOK, JobTableTypeOK, FreeIffNoJid, Job, Busy
<1>2. CASE Fresh
  BY <1>1, <1>2 DEF Fresh, maxjid, IInv, TypeOK, JobTableTypeOK, Job
<1>3. CASE Wrapped
  <2>1. PICK u \in Busy, v \in Busy :
          /\ jobs[v].jid = jobs[u].jid + 1 /\ jobs[v].jid >= MaxJobs
          /\ \/ nextjid = 1
             \/ nextjid = 2 /\ \E w \in Busy \ {u, v} : jobs[w].jid = 1
    BY <1>3 DEF Wrapped
  <2>2. u # v
    BY <1>1, <2>1
  <2>3. ASSUME NEW w \in Busy PROVE w \in {u, v}
    <3> SUFFICES ASSUME w \notin {u, v} PROVE FALSE
      OBVIOUS
    <3>1. Cardinality(Busy) \in Nat /\ Cardinality(Busy) >= 3
      BY <2>2, ThreeBusy
    <3> QED BY <3>1, JobListAssumption
  <2>4. nextjid = 1 /\ k \in {u, v}
    BY <2>1, <2>3
  <2>5. MaxJobs >= 3
    BY <1>1, <2>2 DEF Slot
  <2> QED BY <1>1, <2>1, <2>4, <2>5
<1>4. CASE Single
  BY <1>4 DEF Single, Busy
<1> QED BY <1>2, <1>3, <1>4 DEF IInv

LEMMA AddInv ==
  ASSUME IInv, MaxLive <= 3, NEW p \in Pids, Add(p)
  PROVE  IInv'
<1> USE MaxJobsAssumption
<1>1. p \in Nat \ {0} /\ Cardinality(Busy) < MaxLive
  BY JobListAssumption DEF Add
<1>2. PICK s \in {"FG", "BG"}, i \in Slot :
        /\ jobs[i].pid = 0
        /\ jobs' = [jobs EXCEPT ![i] = [pid |-> p, jid |-> nextjid, state |-> s]]
        /\ nextjid' = IF nextjid + 1 > MaxJobs THEN 1 ELSE nextjid + 1
  BY DEF Add, addjob, First
<1>3. TypeOK'
  BY <1>1, <1>2 DEF IInv, TypeOK, JobTableTypeOK, Job, JobState
<1>4. Busy' = Busy \cup {i} /\ i \notin Busy
  BY <1>1, <1>2 DEF IInv, TypeOK, JobTableTypeOK, Job, Busy
<1>5. /\ jobs'[i].jid = nextjid /\ jobs'[i].pid = p
      /\ \A k \in Slot \ {i} : jobs'[k] = jobs[k]
      /\ nextjid \in Nat \ {0}
  BY <1>2 DEF IInv, TypeOK, JobTableTypeOK
<1>6. FreeIffNoJid'
  BY <1>1, <1>5 DEF IInv, FreeIffNoJid
<1>7. UniqueJid'
  <2>1. \A k \in Busy : jobs[k].jid # nextjid
    BY <1>1, <1>2, NextIsNew
  <2> QED BY <1>4, <1>5, <2>1 DEF IInv, UniqueJid, Busy
<1>8. (Fresh \/ Wrapped \/ Single)'
  <2>1. CASE Fresh
    <3>1. PICK m \in maxjid(jobs) : nextjid = m + 1
      BY <2>1 DEF Fresh
    <3>2. m \in Nat /\ \A k \in Slot : jobs[k].jid <= m /\ jobs[k].jid \in Nat
      BY <3>1 DEF maxjid, IInv, TypeOK, JobTableTypeOK, Job
    <3>3. CASE m + 2 <= MaxJobs
      <4>1. nextjid' = m + 2
        BY <1>2, <3>1, <3>2, <3>3
      <4>2. \A k \in Slot : jobs'[k].jid <= m + 1
        BY <1>5, <3>1, <3>2
      <4>3. m + 1 \in maxjid(jobs)'
        BY <1>5, <3>1, <4>2 DEF maxjid
      <4> QED BY <3>2, <4>1, <4>3 DEF Fresh
    <3>4. CASE m + 2 > MaxJobs /\ m = 0
      <4>1. nextjid' = 1 /\ MaxJobs = 1
        BY <1>2, <3>1, <3>4
      <4>2. Busy' = Slot
        BY <1>4, <4>1 DEF Slot, Busy
      <4> QED BY <4>1, <4>2 DEF Single
    <3>5. CASE m + 2 > MaxJobs /\ m # 0
      <4>1. PICK u \in Slot : jobs[u].jid = m
        BY <3>1, <3>5 DEF maxjid
      <4>2. u \in Busy /\ u # i
        BY <1>4, <3>2, <3>5, <4>1 DEF IInv, FreeIffNoJid, Busy
      <4>3. /\ jobs'[i].jid = jobs'[u].jid + 1 /\ jobs'[i].jid >= MaxJobs
            /\ nextjid' = 1
        BY <1>2, <1>5, <3>1, <3>2, <3>5, <4>1, <4>2
      <4> QED BY <1>4, <4>2, <4>3 DEF Wrapped
    <3> QED BY <3>2, <3>3, <3>4, <3>5
  <2>2. CASE Wrapped
    <3>1. PICK u \in Busy, v \in Busy :
            /\ jobs[v].jid = jobs[u].jid + 1 /\ jobs[v].jid >= MaxJobs
            /\ \/ nextjid = 1
               \/ nextjid = 2 /\ \E w \in Busy \ {u, v} : jobs[w].jid = 1
      BY <2>2 DEF Wrapped
    <3>2. \A b \in Busy : b \in Slot /\ b # i /\ jobs[b].jid \in Nat
      BY <1>4 DEF Busy, IInv, TypeOK, JobTableTypeOK, Job
    <3>3. u # v
      BY <3>1, <3>2
    <3>4. \A w \in Busy : w \in {u, v}
      <4> SUFFICES ASSUME NEW w \in Busy \ {u, v} PROVE FALSE
        OBVIOUS
      <4>1. Cardinality(Busy) \in Nat /\ Cardinality(Busy) >= 3
        BY <3>3, ThreeBusy
      <4> QED BY <1>1, <4>1, JobListAssumption
    <3>5. nextjid = 1 /\ MaxJobs >= 3
      BY <3>1, <3>2, <3>3, <3>4 DEF Slot
    <3>6. nextjid' = 2 /\ jobs'[i].jid = 1
      BY <1>2, <1>5, <3>5
    <3>7. /\ u \in Busy' /\ v \in Busy' /\ i \in Busy' \ {u, v}
          /\ jobs'[u] = jobs[u] /\ jobs'[v] = jobs[v]
      BY <1>4, <1>5, <3>2
    <3> QED BY <3>1, <3>6, <3>7 DEF Wrapped
  <2>3. CASE Single
    BY <1>4, <2>3 DEF Single
  <2> QED BY <2>1, <2>2, <2>3 DEF IInv
<1> QED BY <1>3, <1>6, <1>7, <1>8 DEF IInv

LEMMA DeleteInv ==
  ASSUME IInv, NEW p \in Pids, Delete(p)
  PROVE  IInv'
<1> USE MaxJobsAssumption
<1>1. PICK i \in Slot :
        /\ jobs' = [jobs EXCEPT ![i] = Cleared]
        /\ \E m \in maxjid(jobs') : nextjid' = m + 1
  BY DEF Delete, deletejob, getjobpid, First
<1>2. /\ jobs'[i] = Cleared
      /\ \A k \in Slot \ {i} : jobs'[k] = jobs[k]
  BY <1>1 DEF IInv, TypeOK, JobTableTypeOK
<1>3. \A k \in Slot : jobs'[k] \in Job
  BY <1>2 DEF IInv, TypeOK, JobTableTypeOK, Cleared, Job, JobState
<1>4. nextjid' \in Nat \ {0}
  BY <1>1, <1>3 DEF maxjid, Job
<1>5. TypeOK'
  BY <1>1, <1>3, <1>4 DEF IInv, TypeOK, JobTableTypeOK
<1>6. FreeIffNoJid' /\ UniqueJid'
  BY <1>2 DEF IInv, FreeIffNoJid, UniqueJid, Busy, Cleared
<1>7. Fresh'
  BY <1>1 DEF Fresh, maxjid
<1> QED BY <1>5, <1>6, <1>7 DEF IInv

LEMMA InvImplies == IInv => JidNamesJob
<1> SUFFICES ASSUME IInv, NEW p \in Pids, Listed(p), NEW j \in pid2jid(p)
             PROVE  j >= 1 /\ \A i \in getjobjid(j) : jobs[i].pid = p
  BY DEF JidNamesJob
<1>1. p >= 1 /\ p # 0
  BY JobListAssumption
<1>2. PICK k \in Slot : jobs[k].pid = p /\ j = jobs[k].jid
  BY <1>1 DEF pid2jid, getjobpid, First
<1>3. k \in Busy /\ j \in Nat \ {0}
  BY <1>1, <1>2 DEF Busy, IInv, FreeIffNoJid, TypeOK, JobTableTypeOK, Job
<1>4. ASSUME NEW i \in getjobjid(j) PROVE jobs[i].pid = p
  <2>1. i \in Slot /\ jobs[i].jid = j
    BY DEF getjobjid, First
  <2>2. i \in Busy
    BY <1>3, <2>1 DEF Busy, IInv, FreeIffNoJid
  <2> QED BY <1>2, <1>3, <2>1, <2>2 DEF IInv, UniqueJid
<1> QED BY <1>3, <1>4

LEMMA Invariance == ASSUME MaxLive <= 3 PROVE Spec => []IInv
<1>1. IInv /\ [Next]_vars => IInv'
  <2> SUFFICES ASSUME IInv, [Next]_vars PROVE IInv'
    OBVIOUS
  <2>1. CASE UNCHANGED vars
    BY <2>1 DEF vars, IInv, TypeOK, JobTableTypeOK, FreeIffNoJid, UniqueJid, Busy,
                Fresh, Wrapped, Single, maxjid
  <2>2. CASE Next
    BY <2>2, AddInv, DeleteInv DEF Next
  <2> QED BY <2>1, <2>2
<1> QED BY <1>1, InitInv, PTL DEF Spec

\* Types: in particular no ID is ever 0 or negative (jobs.cc).
THEOREM TypeCorrect == ASSUME MaxLive <= 3 PROVE Spec => []TypeOK
<1>1. IInv => TypeOK
  BY DEF IInv
<1> QED BY <1>1, Invariance, PTL

\* The ID a job was announced under finds that job, as long as the user keeps
\* at most three jobs (jobs.cc:42-132).
THEOREM IdsAreReliable == ASSUME MaxLive <= 3 PROVE Spec => []JidNamesJob
BY InvImplies, Invariance, PTL
=============================================================================
