---------------------------- MODULE ShellProofs ----------------------------
(***************************************************************************)
(* The safety properties of the shell, for every number of slots, set of   *)
(* process IDs, choice of commands and number of events.  Each follows     *)
(* from the inductive invariant IInv.                                      *)
(***************************************************************************)
EXTENDS Shell, FiniteSetTheorems, FunctionTheorems, TLAPS

\* SIGCHLD is blocked from before fork until after addjob, and main gets there
\* only when no handler is active: sigchld_handler is then not running.
Mask ==
  /\ "CHLD" \in blocked <=> pc \in {"fork", "add", "unblock"}
  /\ "CHLD" \in blocked => hpc["CHLD"] = "idle"

\* The child eval is about to list is unreaped and not listed yet.
Forked ==
  pc = "add" => /\ pid \in Pids /\ life[pid] # "none"
                /\ ~ Listed(pid) /\ pid \notin refused

RefusedUnlisted == \A p \in refused : life[p] # "none" /\ ~ Listed(p)

\* What the local pid of a handler names when it is used.
HandlerPids ==
  /\ hpc["CHLD"] \in {"stopped", "delete"} =>
       /\ hpid["CHLD"] \in Pids
       /\ hpc["CHLD"] = "delete" <=> life[hpid["CHLD"]] = "none"
  /\ \A k \in Key : hpc[k] = "kill" => hpid[k] \in Pids

IInv ==
  /\ TypeOK /\ Mask /\ Forked /\ RefusedUnlisted /\ HandlerPids
  /\ ChildAccounted /\ JobsAreChildren /\ NoLostChild
  /\ BackgroundSpared /\ CrashOnlyUnlisted
-----------------------------------------------------------------------------
(* What signals and deaths do to the children: none is forked or reaped,   *)
(* and a child that has something new to report makes SIGCHLD pending.     *)

Quiet ==
  /\ life'  \in [Pids -> {"none", "run", "stop", "zombie"}]
  /\ phase' \in [Pids -> {"forked", "grouped", "execd"}]
  /\ unseen' \subseteq Pids /\ intp' \subseteq Pids /\ pend' \subseteq Sig
  /\ \A p \in Pids : life'[p] = "none" <=> life[p] = "none"
  /\ \A p \in Pids : Reportable(p)' => Reportable(p) \/ "CHLD" \in pend'
  /\ "CHLD" \in pend => "CHLD" \in pend'

LEMMA NothingQuiet == ASSUME TypeOK, UNCHANGED kernel PROVE Quiet
BY DEF TypeOK, kernel, Quiet, Reportable

LEMMA EndsQuiet ==
  ASSUME TypeOK, NEW p \in Pids, life[p] # "none", Ends(p) PROVE Quiet
BY DEF TypeOK, Ends, Quiet, Reportable, Sig

LEMMA StopsQuiet ==
  ASSUME TypeOK, NEW p \in Pids, life[p] # "none", Stops(p) PROVE Quiet
BY DEF TypeOK, Stops, Quiet, Reportable, Sig

LEMMA ResumesQuiet ==
  ASSUME TypeOK, NEW p \in Pids, life[p] # "none", Resumes(p) PROVE Quiet
BY DEF TypeOK, Resumes, Quiet, Reportable, Sig

LEMMA SendINTQuiet == ASSUME TypeOK, NEW p, SendINT(p) PROVE Quiet
<1>1. CASE \E q \in InGroup(p) : life[q] = "run" /\ phase[q] = "execd"
  BY <1>1, EndsQuiet DEF SendINT, InGroup
<1>2. CASE /\ ~ \E q \in InGroup(p) : life[q] = "run" /\ phase[q] = "execd"
           /\ \E q \in InGroup(p) : life[q] = "stop" /\ phase[q] = "execd"
  BY <1>2 DEF SendINT, InGroup, TypeOK, Quiet, Reportable
<1> QED BY <1>1, <1>2, NothingQuiet DEF SendINT

LEMMA SendSTOPQuiet == ASSUME TypeOK, NEW p, SendSTOP(p) PROVE Quiet
<1>1. CASE \E q \in InGroup(p) : life[q] = "run"
  BY <1>1, StopsQuiet DEF SendSTOP, InGroup
<1> QED BY <1>1, NothingQuiet DEF SendSTOP

LEMMA SendCONTQuiet == ASSUME TypeOK, NEW p, SendCONT(p) PROVE Quiet
<1>1. CASE \E q \in InGroup(p) : life[q] = "stop"
  BY <1>1, EndsQuiet, ResumesQuiet DEF SendCONT, InGroup
<1> QED BY <1>1, NothingQuiet DEF SendCONT
-----------------------------------------------------------------------------
LEMMA ZeroSlot == 0 \in Slot
BY MaxJobsAssumption DEF Slot

LEMMA JobPids == IInv => \A i \in Slot : jobs[i].pid \in Pids \cup {0}
BY DEF IInv, JobsAreChildren, TypeOK, Sig

LEMMA InitInv == Init => IInv
<1> SUFFICES ASSUME Init PROVE IInv
  OBVIOUS
<1>1. TypeOK
  BY MaxJobsAssumption, ShellAssumption
     DEF Init, initjobs, Cleared, Slot, Job, JobState, JobTableTypeOK, TypeOK,
         MainPc, Command, ChldPc, KeyPc, Key, Sig
<1>2. Mask /\ Forked /\ RefusedUnlisted /\ HandlerPids
  BY DEF Init, Mask, Forked, RefusedUnlisted, HandlerPids, Key, Sig
<1>3. ChildAccounted /\ JobsAreChildren
  BY DEF Init, initjobs, Cleared, ChildAccounted, JobsAreChildren
<1>4. NoLostChild /\ BackgroundSpared /\ CrashOnlyUnlisted
  BY DEF Init, NoLostChild, Reportable, BackgroundSpared, CrashOnlyUnlisted, Key, Sig
<1> QED BY <1>1, <1>2, <1>3, <1>4 DEF IInv

\* A step of the children alone.
LEMMA QuietInv ==
  ASSUME IInv, Quiet, UNCHANGED <<table, mainv, handler, up, refused>>,
         events' \in 0 .. MaxEvents
  PROVE  IInv'
<1> USE DEF IInv, TypeOK, JobTableTypeOK, table, mainv, handler, Quiet, Listed
<1>1. TypeOK'
  OBVIOUS
<1>2. (Mask /\ Forked /\ RefusedUnlisted /\ HandlerPids)'
  BY DEF Mask, Forked, RefusedUnlisted, HandlerPids
<1>3. (ChildAccounted /\ JobsAreChildren)'
  BY DEF ChildAccounted, JobsAreChildren
<1>4. (NoLostChild /\ BackgroundSpared /\ CrashOnlyUnlisted)'
  BY DEF NoLostChild, BackgroundSpared, CrashOnlyUnlisted
<1> QED BY <1>1, <1>2, <1>3, <1>4

LEMMA MainInv == ASSUME IInv, MainStep PROVE IInv'
<1> USE MaxJobsAssumption, ShellAssumption
    DEF IInv, TypeOK, JobTableTypeOK, table, mainv, handler, kernel, MainAt, MainGoes,
        Prompt, Interrupted, Listed
<1>1. CASE EvalBlock
  <2>1. TypeOK'
    BY <1>1 DEF EvalBlock, MainPc, Command, ChldPc, KeyPc, Key, Sig
  <2>2. (Mask /\ Forked /\ RefusedUnlisted /\ HandlerPids)'
    BY <1>1 DEF EvalBlock, Mask, Forked, RefusedUnlisted, HandlerPids, ChldPc, Key, Sig
  <2>3. (ChildAccounted /\ JobsAreChildren)'
    BY <1>1 DEF EvalBlock, ChildAccounted, JobsAreChildren, Mask, Forked, HandlerPids
  <2>4. (NoLostChild /\ BackgroundSpared /\ CrashOnlyUnlisted)'
    BY <1>1 DEF EvalBlock, NoLostChild, Reportable, BackgroundSpared, CrashOnlyUnlisted, Key, Sig
  <2> QED BY <2>1, <2>2, <2>3, <2>4 DEF IInv
<1>2. ASSUME NEW p \in Pids, EvalFork(p) PROVE IInv'
  <2>1. TypeOK'
    BY <1>2 DEF EvalFork, MainPc, Command, ChldPc, KeyPc, Key, Sig
  <2>2. (Mask /\ Forked /\ RefusedUnlisted /\ HandlerPids)'
    BY <1>2 DEF EvalFork, JobsAreChildren, Mask, Forked, RefusedUnlisted, HandlerPids, ChldPc, Key, Sig
  <2>3. (ChildAccounted /\ JobsAreChildren)'
    BY <1>2 DEF EvalFork, ChildAccounted, JobsAreChildren, Mask, Forked, HandlerPids
  <2>4. (NoLostChild /\ BackgroundSpared /\ CrashOnlyUnlisted)'
    BY <1>2 DEF EvalFork, NoLostChild, Reportable, BackgroundSpared, CrashOnlyUnlisted, Key, Sig
  <2> QED BY <2>1, <2>2, <2>3, <2>4 DEF IInv
<1>3. CASE ForkFails
  <2>1. TypeOK'
    BY <1>3 DEF ForkFails, MainPc, Command, ChldPc, KeyPc, Key, Sig
  <2>2. (Mask /\ Forked /\ RefusedUnlisted /\ HandlerPids)'
    BY <1>3 DEF ForkFails, Mask, Forked, RefusedUnlisted, HandlerPids, ChldPc, Key, Sig
  <2>3. (ChildAccounted /\ JobsAreChildren)'
    BY <1>3 DEF ForkFails, ChildAccounted, JobsAreChildren, Mask, Forked, HandlerPids
  <2>4. (NoLostChild /\ BackgroundSpared /\ CrashOnlyUnlisted)'
    BY <1>3 DEF ForkFails, NoLostChild, Reportable, BackgroundSpared, CrashOnlyUnlisted, Key, Sig
  <2> QED BY <2>1, <2>2, <2>3, <2>4 DEF IInv
<1>4. CASE EvalAddjob
  <2>1. TypeOK'
    BY <1>4 DEF EvalAddjob, addjob, First, Job, JobState, MainPc, Command, ChldPc, KeyPc, Key, Sig
  <2>2. (Mask /\ Forked /\ RefusedUnlisted /\ HandlerPids)'
    BY <1>4 DEF EvalAddjob, addjob, First, Job, JobState, Mask, Forked, RefusedUnlisted, HandlerPids, ChldPc, Key, Sig
  <2>3. (ChildAccounted /\ JobsAreChildren)'
    BY <1>4 DEF EvalAddjob, addjob, First, Job, JobState, ChildAccounted, JobsAreChildren, Mask, Forked, HandlerPids
  <2>4. (NoLostChild /\ BackgroundSpared /\ CrashOnlyUnlisted)'
    BY <1>4 DEF EvalAddjob, addjob, First, Job, JobState, NoLostChild, Reportable, BackgroundSpared, CrashOnlyUnlisted, Key, Sig
  <2> QED BY <2>1, <2>2, <2>3, <2>4 DEF IInv
<1>5. CASE EvalAddjobRefused
  <2>1. TypeOK'
    BY <1>5 DEF EvalAddjobRefused, Forked, MainPc, Command, ChldPc, KeyPc, Key, Sig
  <2>2. (Mask /\ Forked /\ RefusedUnlisted /\ HandlerPids)'
    BY <1>5 DEF EvalAddjobRefused, Mask, Forked, RefusedUnlisted, HandlerPids, ChldPc, Key, Sig
  <2>3. (ChildAccounted /\ JobsAreChildren)'
    BY <1>5 DEF EvalAddjobRefused, ChildAccounted, JobsAreChildren, Mask, Forked, HandlerPids
  <2>4. (NoLostChild /\ BackgroundSpared /\ CrashOnlyUnlisted)'
    BY <1>5 DEF EvalAddjobRefused, NoLostChild, Reportable, BackgroundSpared, CrashOnlyUnlisted, Key, Sig
  <2> QED BY <2>1, <2>2, <2>3, <2>4 DEF IInv
<1>6. CASE EvalUnblock
  <2>1. TypeOK'
    <3>1. /\ pc' \in MainPc /\ command' \in Command /\ pid' \in Pids \cup {0}
          /\ slot' \in Slot /\ blocked' \subseteq Sig
      BY <1>6, ZeroSlot DEF EvalUnblock, MainPc, Command
    <3>2. /\ hpc' \in [Sig -> ChldPc \cup KeyPc] /\ hpc'["CHLD"] \in ChldPc
          /\ \A k \in Key : hpc'[k] \in KeyPc
          /\ below' \in [Sig -> SUBSET Sig] /\ pend' \subseteq Sig
      <4>1. CASE "CHLD" \in pend
        <5>1. /\ hpc' = [hpc EXCEPT !["CHLD"] = "wait"]
              /\ \E S \in SUBSET Sig : below' = [below EXCEPT !["CHLD"] = S]
              /\ pend' = pend \ {"CHLD"}
          BY <1>6, <4>1 DEF EvalUnblock, Enters, Entry
        <5> QED BY <5>1 DEF ChldPc, Key, Sig
      <4>2. CASE "CHLD" \notin pend
        BY <1>6, <4>2 DEF EvalUnblock
      <4> QED BY <4>1, <4>2
    <3> QED BY <1>6, <3>1, <3>2 DEF EvalUnblock
  <2>2. (Mask /\ Forked /\ RefusedUnlisted /\ HandlerPids)'
    BY <1>6 DEF EvalUnblock, Enters, Entry, Mask, Forked, RefusedUnlisted, HandlerPids, ChldPc, Key, Sig
  <2>3. (ChildAccounted /\ JobsAreChildren)'
    BY <1>6 DEF EvalUnblock, Enters, Entry, ChildAccounted, JobsAreChildren, Mask, Forked, HandlerPids
  <2>4. (NoLostChild /\ BackgroundSpared /\ CrashOnlyUnlisted)'
    BY <1>6 DEF EvalUnblock, Enters, Entry, NoLostChild, Reportable, BackgroundSpared, CrashOnlyUnlisted, Key, Sig
  <2> QED BY <2>1, <2>2, <2>3, <2>4 DEF IInv
<1>7. CASE Waitfg
  <2>1. TypeOK'
    BY <1>7, ZeroSlot DEF Waitfg, MainPc, Command, ChldPc, KeyPc, Key, Sig
  <2>2. (Mask /\ Forked /\ RefusedUnlisted /\ HandlerPids)'
    BY <1>7 DEF Waitfg, Mask, Forked, RefusedUnlisted, HandlerPids, ChldPc, Key, Sig
  <2>3. (ChildAccounted /\ JobsAreChildren)'
    BY <1>7 DEF Waitfg, ChildAccounted, JobsAreChildren, Mask, Forked, HandlerPids
  <2>4. (NoLostChild /\ BackgroundSpared /\ CrashOnlyUnlisted)'
    BY <1>7 DEF Waitfg, NoLostChild, Reportable, BackgroundSpared, CrashOnlyUnlisted, Key, Sig
  <2> QED BY <2>1, <2>2, <2>3, <2>4 DEF IInv
<1>8. CASE WaitfgReturns
  <2>1. TypeOK'
    BY <1>8, ZeroSlot DEF WaitfgReturns, MainPc, Command, ChldPc, KeyPc, Key, Sig
  <2>2. (Mask /\ Forked /\ RefusedUnlisted /\ HandlerPids)'
    BY <1>8 DEF WaitfgReturns, Mask, Forked, RefusedUnlisted, HandlerPids, ChldPc, Key, Sig
  <2>3. (ChildAccounted /\ JobsAreChildren)'
    BY <1>8 DEF WaitfgReturns, ChildAccounted, JobsAreChildren, Mask, Forked, HandlerPids
  <2>4. (NoLostChild /\ BackgroundSpared /\ CrashOnlyUnlisted)'
    BY <1>8 DEF WaitfgReturns, NoLostChild, Reportable, BackgroundSpared, CrashOnlyUnlisted, Key, Sig
  <2> QED BY <2>1, <2>2, <2>3, <2>4 DEF IInv
<1>9. CASE BgfgCont
  <2>0. Quiet
    BY <1>9, SendCONTQuiet DEF BgfgCont
  <2>1. TypeOK'
    BY <1>9, <2>0 DEF BgfgCont, Quiet, MainPc, Command, ChldPc, KeyPc, Key, Sig
  <2>2. (Mask /\ Forked /\ RefusedUnlisted /\ HandlerPids)'
    BY <1>9, <2>0 DEF BgfgCont, Quiet, Mask, Forked, RefusedUnlisted, HandlerPids, ChldPc, Key, Sig
  <2>3. (ChildAccounted /\ JobsAreChildren)'
    BY <1>9, <2>0 DEF BgfgCont, Quiet, ChildAccounted, JobsAreChildren, Mask, Forked, HandlerPids
  <2>4. (NoLostChild /\ BackgroundSpared /\ CrashOnlyUnlisted)'
    BY <1>9, <2>0 DEF BgfgCont, Quiet, NoLostChild, Reportable, BackgroundSpared, CrashOnlyUnlisted, Key, Sig
  <2> QED BY <2>1, <2>2, <2>3, <2>4 DEF IInv
<1>10. CASE BgfgMark
  <2>1. TypeOK'
    BY <1>10, ZeroSlot, JobPids DEF BgfgMark, Job, JobState, MainPc, Command, ChldPc, KeyPc, Key, Sig
  <2>2. (Mask /\ Forked /\ RefusedUnlisted /\ HandlerPids)'
    BY <1>10 DEF BgfgMark, Job, JobState, Mask, Forked, RefusedUnlisted, HandlerPids, ChldPc, Key, Sig
  <2>3. (ChildAccounted /\ JobsAreChildren)'
    BY <1>10 DEF BgfgMark, Job, JobState, ChildAccounted, JobsAreChildren, Mask, Forked, HandlerPids
  <2>4. (NoLostChild /\ BackgroundSpared /\ CrashOnlyUnlisted)'
    BY <1>10 DEF BgfgMark, Job, JobState, NoLostChild, Reportable, BackgroundSpared, CrashOnlyUnlisted, Key, Sig
  <2> QED BY <2>1, <2>2, <2>3, <2>4 DEF IInv
<1> QED BY <1>1, <1>2, <1>3, <1>4, <1>5, <1>6, <1>7, <1>8, <1>9, <1>10
        DEF MainStep

LEMMA HandlerInv == ASSUME IInv, HandlerStep PROVE IInv'
<1> USE MaxJobsAssumption, ShellAssumption
    DEF IInv, TypeOK, JobTableTypeOK, table, mainv, handler, kernel, HandlerAt, Goes,
        Returns, NextWaitpid, Listed
<1>1. ASSUME NEW p \in Pids, ChldWaitpid(p) PROVE IInv'
  <2>1. TypeOK'
    <3>1. UNCHANGED <<table, mainv, intp, pend, up, events, below>>
      BY <1>1 DEF ChldWaitpid
    <3>2. /\ hpc' \in [Sig -> ChldPc \cup KeyPc] /\ hpid' \in [Sig -> Pids \cup {0}]
          /\ hpc'["CHLD"] \in ChldPc /\ \A k \in Key : hpc'[k] \in KeyPc
      BY <1>1 DEF ChldWaitpid, ChldPc, KeyPc, Key, Sig
    <3>3. /\ life' \in [Pids -> {"none", "run", "stop", "zombie"}]
          /\ phase' \in [Pids -> {"forked", "grouped", "execd"}]
          /\ unseen' \subseteq Pids /\ refused' \subseteq Pids
      BY <1>1 DEF ChldWaitpid
    <3> QED BY <3>1, <3>2, <3>3
  <2>2. (Mask /\ Forked /\ RefusedUnlisted /\ HandlerPids)'
    <3>1. Mask'
      BY <1>1 DEF ChldWaitpid, Mask, Sig
    <3>2. Forked' /\ RefusedUnlisted'
      BY <1>1 DEF ChldWaitpid, Mask, Forked, RefusedUnlisted
    <3>3. HandlerPids'
      BY <1>1 DEF ChldWaitpid, Reportable, HandlerPids, Key, Sig
    <3> QED BY <3>1, <3>2, <3>3
  <2>3. (ChildAccounted /\ JobsAreChildren)'
    <3>1. ChildAccounted'
      BY <1>1 DEF ChldWaitpid, Reportable, ChildAccounted
    <3>2. jobs' = jobs /\ hpc["CHLD"] = "wait"
      BY <1>1 DEF ChldWaitpid
    <3>3. ASSUME NEW q \in Pids, life[q] # "none"
          PROVE  life'[q] # "none" \/ (hpc'["CHLD"] = "delete" /\ hpid'["CHLD"] = q)
      BY <1>1, <3>3 DEF ChldWaitpid, Sig
    <3>4. JobsAreChildren'
      BY <3>2, <3>3 DEF JobsAreChildren
    <3> QED BY <3>1, <3>4
  <2>4. (NoLostChild /\ BackgroundSpared /\ CrashOnlyUnlisted)'
    BY <1>1 DEF ChldWaitpid, Reportable, NoLostChild, Reportable, BackgroundSpared, CrashOnlyUnlisted, Key, Sig
  <2> QED BY <2>1, <2>2, <2>3, <2>4 DEF IInv
<1>2. CASE ChldReturns
  <2>1. TypeOK'
    BY <1>2 DEF ChldReturns, MainPc, Command, ChldPc, KeyPc, Key, Sig
  <2>2. (Mask /\ Forked /\ RefusedUnlisted /\ HandlerPids)'
    BY <1>2 DEF ChldReturns, Mask, Forked, RefusedUnlisted, HandlerPids, ChldPc, Key, Sig
  <2>3. (ChildAccounted /\ JobsAreChildren)'
    BY <1>2 DEF ChldReturns, ChildAccounted, JobsAreChildren, Mask, Forked, HandlerPids
  <2>4. (NoLostChild /\ BackgroundSpared /\ CrashOnlyUnlisted)'
    BY <1>2 DEF ChldReturns, NoLostChild, Reportable, BackgroundSpared, CrashOnlyUnlisted, Key, Sig
  <2> QED BY <2>1, <2>2, <2>3, <2>4 DEF IInv
<1>3. CASE ChldStopped
  <2>1. CASE ~ Listed(hpid["CHLD"])
    <3>1. TypeOK'
      BY <1>3, <2>1 DEF ChldStopped
    <3>2. (Mask /\ Forked /\ RefusedUnlisted /\ HandlerPids)'
      BY <1>3, <2>1 DEF ChldStopped, Mask, Forked, RefusedUnlisted, HandlerPids
    <3>3. (ChildAccounted /\ JobsAreChildren)'
      BY <1>3, <2>1 DEF ChldStopped, ChildAccounted, JobsAreChildren
    <3>4. (NoLostChild /\ BackgroundSpared)'
      BY <1>3, <2>1 DEF ChldStopped, NoLostChild, Reportable, BackgroundSpared
    <3>5. hpid["CHLD"] \in refused
      BY <1>3, <2>1 DEF ChldStopped, HandlerPids, ChildAccounted, Mask
    <3> QED BY <1>3, <2>1, <3>1, <3>2, <3>3, <3>4, <3>5
            DEF ChldStopped, CrashOnlyUnlisted
  <2>2. CASE Listed(hpid["CHLD"])
    <3>1. PICK i \in Slot : jobs' = [jobs EXCEPT ![i].state = "ST"]
      BY <1>3, <2>2 DEF ChldStopped, getjobpid, First
    <3>2. /\ \A k \in Slot : jobs'[k].pid = jobs[k].pid
          /\ \A k \in Slot : jobs'[k].state \in {"ST", jobs[k].state}
          /\ jobs' \in [Slot -> Job]
      BY <3>1 DEF Job, JobState
    <3>3. /\ UNCHANGED <<nextjid, mainv, kernel, refused, events, up>>
          /\ NextWaitpid /\ up = "up"
      BY <1>3, <2>2 DEF ChldStopped
    <3>4. TypeOK'
      BY <3>2, <3>3 DEF ChldPc, Key, Sig
    <3>5. (Mask /\ Forked /\ RefusedUnlisted /\ HandlerPids)'
      BY <1>3, <3>2, <3>3 DEF ChldStopped, Mask, Forked, RefusedUnlisted, HandlerPids, Key, Sig
    <3>6. (ChildAccounted /\ JobsAreChildren)'
      BY <1>3, <3>2, <3>3 DEF ChldStopped, ChildAccounted, JobsAreChildren, Sig
    <3>7. (NoLostChild /\ BackgroundSpared /\ CrashOnlyUnlisted)'
      BY <3>2, <3>3 DEF NoLostChild, Reportable, BackgroundSpared, CrashOnlyUnlisted, Key, Sig
    <3> QED BY <3>4, <3>5, <3>6, <3>7
  <2> QED BY <2>1, <2>2
<1>4. CASE ChldDelete
  <2>1. TypeOK'
    BY <1>4 DEF ChldDelete, deletejob, getjobpid, First, Cleared, maxjid, Job, JobState, MainPc, Command, ChldPc, KeyPc, Key, Sig
  <2>2. (Mask /\ Forked /\ RefusedUnlisted /\ HandlerPids)'
    BY <1>4 DEF ChldDelete, deletejob, getjobpid, First, Cleared, maxjid, Job, JobState, Mask, Forked, RefusedUnlisted, HandlerPids, ChldPc, Key, Sig
  <2>3. (ChildAccounted /\ JobsAreChildren)'
    BY <1>4 DEF ChldDelete, deletejob, getjobpid, First, Cleared, maxjid, Job, JobState, ChildAccounted, JobsAreChildren, Mask, Forked, HandlerPids
  <2>4. (NoLostChild /\ BackgroundSpared /\ CrashOnlyUnlisted)'
    BY <1>4 DEF ChldDelete, deletejob, getjobpid, First, Cleared, maxjid, Job, JobState, NoLostChild, Reportable, BackgroundSpared, CrashOnlyUnlisted, Key, Sig
  <2> QED BY <2>1, <2>2, <2>3, <2>4 DEF IInv
<1>5. ASSUME NEW k \in Key, KeyScan(k) PROVE IInv'
  <2>1. PICK p \in fgpid :
          IF p = 0 THEN Returns(k)
                   ELSE hpid' = [hpid EXCEPT ![k] = p] /\ Goes(k, "kill")
    BY <1>5 DEF KeyScan
  <2>2. p # 0 => p \in Pids /\ \E i \in Foreground : p = jobs[i].pid
    BY <2>1, JobPids DEF fgpid, First, Foreground
  <2>3. k \in Sig /\ k # "CHLD" /\ UNCHANGED <<table, mainv, kernel, up, refused, events>>
    BY <1>5 DEF KeyScan, Key, Sig
  <2>4. TypeOK'
    BY <2>1, <2>2, <2>3 DEF KeyPc, Key, Sig
  <2>5. (Mask /\ Forked /\ RefusedUnlisted /\ HandlerPids)'
    BY <2>1, <2>2, <2>3 DEF Mask, Forked, RefusedUnlisted, HandlerPids, Key, Sig
  <2>6. (ChildAccounted /\ JobsAreChildren)'
    BY <2>1, <2>3 DEF ChildAccounted, JobsAreChildren, Sig
  <2>7. (NoLostChild /\ CrashOnlyUnlisted)'
    BY <2>1, <2>3 DEF NoLostChild, Reportable, CrashOnlyUnlisted, Sig
  <2>8. BackgroundSpared'
    BY <2>1, <2>2, <2>3 DEF BackgroundSpared, JobsAreChildren, Foreground, Key, Sig
  <2> QED BY <2>4, <2>5, <2>6, <2>7, <2>8
<1>6. ASSUME NEW k \in Key, KeyKill(k) PROVE IInv'
  <2>0. Quiet
    BY <1>6, SendINTQuiet, SendSTOPQuiet DEF KeyKill
  <2>1. TypeOK'
    BY <1>6, <2>0 DEF KeyKill, Quiet, MainPc, Command, ChldPc, KeyPc, Key, Sig
  <2>2. /\ UNCHANGED <<table, mainv, refused, up>>
        /\ hpc' = [hpc EXCEPT ![k] = "idle"] /\ hpid' = [hpid EXCEPT ![k] = 0]
        /\ k \in Sig /\ k # "CHLD"
    BY <1>6 DEF KeyKill, Returns, Key, Sig
  <2>3. Mask' /\ Forked'
    BY <2>0, <2>2 DEF Quiet, Mask, Forked, Listed, Sig
  <2>4. RefusedUnlisted'
    BY <2>0, <2>2 DEF Quiet, RefusedUnlisted, Listed
  <2>5. HandlerPids'
    BY <2>0, <2>2 DEF Quiet, HandlerPids, Key, Sig
  <2>6. ChildAccounted' /\ JobsAreChildren'
    BY <2>0, <2>2 DEF Quiet, ChildAccounted, JobsAreChildren, HandlerPids, Listed, Sig
  <2>7. NoLostChild' /\ CrashOnlyUnlisted'
    BY <2>0, <2>2 DEF Quiet, NoLostChild, CrashOnlyUnlisted, Sig
  <2>8. BackgroundSpared'
    BY <2>0, <2>2 DEF BackgroundSpared, Key, Sig
  <2> QED BY <2>1, <2>3, <2>4, <2>5, <2>6, <2>7, <2>8 DEF IInv
<1> QED BY <1>1, <1>2, <1>3, <1>4, <1>5, <1>6
        DEF HandlerStep

LEMMA OtherInv ==
  ASSUME IInv,
         \/ Environment \/ Down \/ \E h \in Sig : Deliver(h)
         \/ \E p \in Pids : ChildStarts(p)
  PROVE  IInv'
<1> USE MaxJobsAssumption, ShellAssumption
    DEF IInv, TypeOK, JobTableTypeOK, table, mainv, handler, kernel, MainAt, Interrupted,
        Listed
<1>1. ASSUME NEW c \in Command, TypeProgram(c) PROVE IInv'
  <2>1. TypeOK'
    BY <1>1 DEF TypeProgram, MainPc, Command, ChldPc, KeyPc, Key, Sig
  <2>2. (Mask /\ Forked /\ RefusedUnlisted /\ HandlerPids)'
    BY <1>1 DEF TypeProgram, Mask, Forked, RefusedUnlisted, HandlerPids, ChldPc, Key, Sig
  <2>3. (ChildAccounted /\ JobsAreChildren)'
    BY <1>1 DEF TypeProgram, ChildAccounted, JobsAreChildren, Mask, Forked, HandlerPids
  <2>4. (NoLostChild /\ BackgroundSpared /\ CrashOnlyUnlisted)'
    BY <1>1 DEF TypeProgram, NoLostChild, Reportable, BackgroundSpared, CrashOnlyUnlisted, Key, Sig
  <2> QED BY <2>1, <2>2, <2>3, <2>4 DEF IInv
<1>2. ASSUME NEW c \in Command, Bgfg(c) PROVE IInv'
  <2>1. TypeOK'
    <3>1. slot' \in Slot
      BY <1>2 DEF Bgfg, getjobpid, getjobjid, First
    <3>2. /\ pc' = "cont" /\ command' = c
          /\ UNCHANGED <<table, pid, blocked, handler, kernel, up, refused, events>>
      BY <1>2 DEF Bgfg
    <3> QED BY <3>1, <3>2 DEF MainPc, Command
  <2>2. /\ pc = "read" /\ pc' = "cont"
        /\ UNCHANGED <<table, blocked, handler, kernel, up, refused>>
    BY <1>2 DEF Bgfg
  <2>3. (Mask /\ Forked /\ RefusedUnlisted /\ HandlerPids)'
    BY <2>2 DEF Mask, Forked, RefusedUnlisted, HandlerPids
  <2>4. (ChildAccounted /\ JobsAreChildren)'
    BY <2>2 DEF ChildAccounted, JobsAreChildren
  <2>5. (NoLostChild /\ BackgroundSpared /\ CrashOnlyUnlisted)'
    BY <2>2 DEF NoLostChild, Reportable, BackgroundSpared, CrashOnlyUnlisted
  <2> QED BY <2>1, <2>3, <2>4, <2>5 DEF IInv
<1>3. CASE Quit \/ Sigquit
  <2>1. up' = "exited" /\ UNCHANGED <<table, mainv, handler, kernel, refused, events>>
    BY <1>3 DEF Quit, Sigquit
  <2>2. TypeOK'
    BY <2>1
  <2>3. (Mask /\ Forked /\ RefusedUnlisted /\ HandlerPids)'
    BY <2>1 DEF Mask, Forked, RefusedUnlisted, HandlerPids
  <2>4. (ChildAccounted /\ JobsAreChildren)'
    BY <2>1 DEF ChildAccounted, JobsAreChildren
  <2>5. (NoLostChild /\ BackgroundSpared /\ CrashOnlyUnlisted)'
    BY <2>1 DEF NoLostChild, Reportable, BackgroundSpared, CrashOnlyUnlisted
  <2> QED BY <2>2, <2>3, <2>4, <2>5 DEF IInv
<1>4. ASSUME NEW k \in Key, Keystroke(k) PROVE IInv'
  <2>1. TypeOK'
    BY <1>4 DEF Event, Keystroke, MainPc, Command, ChldPc, KeyPc, Key, Sig
  <2>2. (Mask /\ Forked /\ RefusedUnlisted /\ HandlerPids)'
    BY <1>4 DEF Event, Keystroke, Mask, Forked, RefusedUnlisted, HandlerPids, ChldPc, Key, Sig
  <2>3. (ChildAccounted /\ JobsAreChildren)'
    BY <1>4 DEF Event, Keystroke, ChildAccounted, JobsAreChildren, Mask, Forked, HandlerPids
  <2>4. (NoLostChild /\ BackgroundSpared /\ CrashOnlyUnlisted)'
    BY <1>4 DEF Event, Keystroke, NoLostChild, Reportable, BackgroundSpared, CrashOnlyUnlisted, Key, Sig
  <2> QED BY <2>1, <2>2, <2>3, <2>4 DEF IInv
<1>5. CASE Down
  <2>1. TypeOK'
    BY <1>5 DEF Down, vars, MainPc, Command, ChldPc, KeyPc, Key, Sig
  <2>2. (Mask /\ Forked /\ RefusedUnlisted /\ HandlerPids)'
    BY <1>5 DEF Down, vars, Mask, Forked, RefusedUnlisted, HandlerPids, ChldPc, Key, Sig
  <2>3. (ChildAccounted /\ JobsAreChildren)'
    BY <1>5 DEF Down, vars, ChildAccounted, JobsAreChildren, Mask, Forked, HandlerPids
  <2>4. (NoLostChild /\ BackgroundSpared /\ CrashOnlyUnlisted)'
    BY <1>5 DEF Down, vars, NoLostChild, Reportable, BackgroundSpared, CrashOnlyUnlisted, Key, Sig
  <2> QED BY <2>1, <2>2, <2>3, <2>4 DEF IInv
<1>6. ASSUME NEW h \in Sig, Deliver(h) PROVE IInv'
  <2>1. TypeOK'
    BY <1>6 DEF Deliver, Enters, Entry, MainPc, Command, ChldPc, KeyPc, Key, Sig
  <2>2. (Mask /\ Forked /\ RefusedUnlisted /\ HandlerPids)'
    BY <1>6 DEF Deliver, Enters, Entry, Mask, Forked, RefusedUnlisted, HandlerPids, ChldPc, Key, Sig
  <2>3. (ChildAccounted /\ JobsAreChildren)'
    BY <1>6 DEF Deliver, Enters, Entry, ChildAccounted, JobsAreChildren, Mask, Forked, HandlerPids
  <2>4. (NoLostChild /\ BackgroundSpared /\ CrashOnlyUnlisted)'
    BY <1>6 DEF Deliver, Enters, Entry, NoLostChild, Reportable, BackgroundSpared, CrashOnlyUnlisted, Key, Sig
  <2> QED BY <2>1, <2>2, <2>3, <2>4 DEF IInv
<1>7. ASSUME NEW p \in Pids, ChildEnds(p) PROVE IInv'
  BY <1>7, EndsQuiet, QuietInv DEF ChildEnds
<1>8. ASSUME NEW p \in Pids, ChildStops(p) PROVE IInv'
  BY <1>8, StopsQuiet, QuietInv DEF ChildStops, Event
<1>9. ASSUME NEW p \in Pids, ChildContinued(p) PROVE IInv'
  BY <1>9, SendCONTQuiet, QuietInv DEF ChildContinued, Event
<1>10. ASSUME NEW p \in Pids, ChildStarts(p) PROVE IInv'
  <2>1. CASE ChildSetpgid(p) \/ ChildExecve(p)
    <3>1. Quiet
      BY <2>1 DEF ChildSetpgid, ChildExecve, Quiet, Reportable
    <3> QED BY <2>1, <3>1, QuietInv DEF ChildSetpgid, ChildExecve
  <2>2. CASE ChildExecveFails(p)
    BY <2>2, EndsQuiet, QuietInv DEF ChildExecveFails
  <2> QED BY <1>10, <2>1, <2>2 DEF ChildStarts
<1> QED BY <1>1, <1>2, <1>3, <1>4, <1>5, <1>6, <1>7, <1>8, <1>9, <1>10
        DEF Environment

LEMMA Invariance == Spec => []IInv
<1>1. IInv /\ [Next]_vars => IInv'
  <2> SUFFICES ASSUME IInv, [Next]_vars PROVE IInv'
    OBVIOUS
  <2>1. CASE UNCHANGED vars
    BY <2>1 DEF vars, table, mainv, handler, kernel, IInv, TypeOK, JobTableTypeOK,
                Mask, Forked, RefusedUnlisted, HandlerPids, ChildAccounted,
                JobsAreChildren, NoLostChild, BackgroundSpared, CrashOnlyUnlisted,
                Listed, Reportable
  <2>2. CASE Next
    BY <2>2, MainInv, HandlerInv, OtherInv DEF Next
  <2> QED BY <2>1, <2>2
<1> QED BY <1>1, InitInv, PTL DEF Spec

THEOREM TypeCorrect == Spec => []TypeOK
<1>1. IInv => TypeOK
  BY DEF IInv
<1> QED BY <1>1, Invariance, PTL

\* Every unreaped child is on the job list, refused, or about to be listed
\* (tsh.cc:172-193).
THEOREM EveryChildAccounted == Spec => []ChildAccounted
<1>1. IInv => ChildAccounted
  BY DEF IInv
<1> QED BY <1>1, Invariance, PTL

\* The list names only children, each once (tsh.cc:286-301).
THEOREM EveryJobIsChild == Spec => []JobsAreChildren
<1>1. IInv => JobsAreChildren
  BY DEF IInv
<1> QED BY <1>1, Invariance, PTL

\* A child with news is never forgotten (tsh.cc:286).
THEOREM NoChildForgotten == Spec => []NoLostChild
<1>1. IInv => NoLostChild
  BY DEF IInv
<1> QED BY <1>1, Invariance, PTL

\* ctrl-c and ctrl-z never hit a background job (tsh.cc:311-328).
THEOREM BackgroundNeverHit == Spec => []BackgroundSpared
<1>1. IInv => BackgroundSpared
  BY DEF IInv
<1> QED BY <1>1, Invariance, PTL

\* Only a child refused by addjob can crash the handler (tsh.cc:289-290).
THEOREM ListedChildrenDoNotCrash == Spec => []CrashOnlyUnlisted
<1>1. IInv => CrashOnlyUnlisted
  BY DEF IInv
<1> QED BY <1>1, Invariance, PTL
-----------------------------------------------------------------------------
(* Programs only: neither fg nor bg is typed.                              *)

ProgramsOnly == Typed \cap {"fg", "bg"} = {}

\* Main is not in do_bgfg.
InEval == command \in {"run_fg", "run_bg"} /\ pc \notin {"cont", "mark"}

\* The one job in state FG is the one eval has listed and waitfg waits for.
FgWaited ==
  \A i \in Slot : jobs[i].state = "FG" =>
    /\ jobs[i].pid = pid /\ pid # 0 /\ command = "run_fg"
    /\ pc \in {"unblock", "waitfg", "spin"}

\* A stop of the child eval is about to list has not been reported.
NewStopUnseen == pc = "add" /\ life[pid] = "stop" => pid \in unseen

PInv == InEval /\ FgWaited /\ NewStopUnseen /\ StopIsMarked

\* A stopped child whose stop waitpid has reported was one before.
StopsKept ==
  \A p \in Pids : life'[p] = "stop" /\ p \notin unseen' => life[p] = "stop" /\ p \notin unseen

LEMMA SignalsKeepStops ==
  ASSUME TypeOK, NEW p
  PROVE  /\ UNCHANGED kernel => StopsKept
         /\ Ends(p) => StopsKept
         /\ Stops(p) => StopsKept
         /\ SendINT(p) => StopsKept
         /\ SendSTOP(p) => StopsKept
         /\ SendCONT(p) => StopsKept
<1> USE DEF TypeOK, StopsKept
<1>1. UNCHANGED kernel => StopsKept
  BY DEF kernel
<1>2. Ends(p) => StopsKept
  BY DEF Ends
<1>3. Stops(p) => StopsKept
  BY DEF Stops
<1>4. Resumes(p) => StopsKept
  BY DEF Resumes
<1>5. (intp' = intp \cup {p} /\ UNCHANGED <<life, phase, unseen, pend>>) => StopsKept
  OBVIOUS
<1> QED
  BY <1>1, <1>2, <1>3, <1>4, <1>5, Zenon DEF SendINT, SendSTOP, SendCONT

\* A step that leaves the job list and main alone.
LEMMA KeepsPInv ==
  ASSUME PInv, StopsKept, UNCHANGED <<table, mainv, hpc, hpid>>, TypeOK, Forked
  PROVE  PInv'
BY DEF PInv, InEval, FgWaited, NewStopUnseen, StopIsMarked, StopsKept, table, mainv, Forked

LEMMA SameJobs ==
  ASSUME IInv, NEW i \in Slot, NEW k \in Slot, jobs[i].pid # 0, jobs[k].pid = jobs[i].pid
  PROVE  i = k
BY DEF IInv, JobsAreChildren

\* fgpid is the pid of the job in the foreground.
LEMMA FgpidFound ==
  ASSUME IInv, FgWaited, NEW i \in Slot, jobs[i].state = "FG"
  PROVE  pid \in fgpid
<1>1. Foreground = {i}
  BY SameJobs DEF Foreground, FgWaited
<1>2. i <= i
  BY MaxJobsAssumption DEF Slot
<1>3. First(Foreground) = {i}
  BY <1>1, <1>2 DEF First
<1> QED
  BY <1>1, <1>3 DEF fgpid, FgWaited

LEMMA MainKeepsPInv ==
  ASSUME ProgramsOnly, IInv, PInv, MainStep
  PROVE  PInv'
<1> USE DEF MainAt, MainGoes, table, mainv, handler, kernel
<1>1. TypeOK /\ Forked /\ Mask /\ InEval /\ FgWaited /\ NewStopUnseen /\ StopIsMarked
  BY DEF IInv, PInv
<1>2. \A p \in Pids : p # 0
  BY ShellAssumption
<1>3. CASE EvalBlock
  BY <1>1, <1>3 DEF EvalBlock, PInv, InEval, FgWaited, NewStopUnseen, StopIsMarked
<1>4. CASE \E p \in Pids : EvalFork(p)
  <2>1. PICK p \in Pids : EvalFork(p)
    BY <1>4
  <2> USE <1>1, <2>1 DEF EvalFork
  <2>2. (InEval /\ FgWaited)'
    BY DEF InEval, FgWaited
  <2>3. NewStopUnseen'
    BY DEF NewStopUnseen, TypeOK
  <2>4. StopIsMarked'
    BY DEF StopIsMarked, TypeOK
  <2> QED
    BY <2>2, <2>3, <2>4 DEF PInv
<1>5. CASE ForkFails
  BY <1>1, <1>5 DEF ForkFails, PInv, InEval, FgWaited, NewStopUnseen, StopIsMarked
<1>6. CASE EvalAddjob
  <2>1. PICK i \in Slot :
          /\ jobs' = [jobs EXCEPT ![i] =
                        [pid |-> pid, jid |-> nextjid,
                         state |-> IF command = "run_fg" THEN "FG" ELSE "BG"]]
          /\ pid >= 1
    BY <1>6 DEF EvalAddjob, addjob, First
  <2>2. /\ pc = "add" /\ pc' = "unblock" /\ hpc["CHLD"] = "idle"
        /\ UNCHANGED <<command, pid, hpc, hpid, life, unseen>>
    BY <1>6 DEF EvalAddjob, Interrupted, Sig
  <2>3. jobs \in [Slot -> Job] /\ pid \in Nat
    BY <1>1, ShellAssumption DEF TypeOK, JobTableTypeOK
  <2>4. /\ jobs'[i].pid = pid
        /\ jobs'[i].state = (IF command = "run_fg" THEN "FG" ELSE "BG")
        /\ \A k \in Slot : k # i => jobs'[k] = jobs[k]
    BY <2>1, <2>3
  <2>5. InEval'
    BY <1>1, <2>2 DEF InEval
  <2>6. FgWaited'
    BY <1>1, <2>1, <2>2, <2>3, <2>4 DEF FgWaited
  <2>7. NewStopUnseen'
    BY <2>2 DEF NewStopUnseen
  <2>8. StopIsMarked'
    BY <1>1, <2>2, <2>4 DEF StopIsMarked, NewStopUnseen
  <2> QED
    BY <2>5, <2>6, <2>7, <2>8 DEF PInv
<1>7. CASE EvalAddjobRefused
  BY <1>1, <1>7 DEF EvalAddjobRefused, PInv, InEval, FgWaited, NewStopUnseen, StopIsMarked
<1>8. CASE EvalUnblock
  <2>1. /\ pc = "unblock" /\ UNCHANGED <<jobs, life, unseen, hpid>>
        /\ hpc["CHLD"] = "idle"
        /\ IF command = "run_fg" THEN MainGoes("waitfg") ELSE Prompt
    BY <1>8 DEF EvalUnblock, Interrupted, Sig
  <2>2. (InEval /\ FgWaited /\ NewStopUnseen)'
    BY <1>1, <2>1 DEF Prompt, InEval, FgWaited, NewStopUnseen
  <2>3. StopIsMarked'
    BY <1>1, <2>1 DEF StopIsMarked
  <2> QED
    BY <2>2, <2>3 DEF PInv
<1>9. ASSUME \A i \in Slot : jobs[i].state # "FG",
             Prompt, UNCHANGED <<jobs, hpc, hpid, life, unseen>>
      PROVE  PInv'
  BY <1>1, <1>9 DEF Prompt, PInv, InEval, FgWaited, NewStopUnseen, StopIsMarked
<1>10. CASE Waitfg
  <2>1. CASE Listed(pid) /\ pid # 0
    BY <1>1, <1>10, <2>1 DEF Waitfg, PInv, InEval, FgWaited, NewStopUnseen, StopIsMarked
  <2>2. CASE ~ (Listed(pid) /\ pid # 0)
    <3>1. \A i \in Slot : jobs[i].state # "FG"
      BY <1>1, <2>2 DEF FgWaited, Listed
    <3> QED
      BY <1>9, <1>10, <2>2, <3>1 DEF Waitfg
  <2> QED
    BY <2>1, <2>2
<1>11. CASE WaitfgReturns
  <2>1. \A i \in Slot : jobs[i].state # "FG"
    BY <1>1, <1>11, FgpidFound DEF WaitfgReturns
  <2> QED
    BY <1>9, <1>11, <2>1 DEF WaitfgReturns
<1>12. CASE BgfgCont \/ BgfgMark
  BY <1>1, <1>12 DEF BgfgCont, BgfgMark, InEval
<1> QED
  BY <1>3, <1>4, <1>5, <1>6, <1>7, <1>8, <1>10, <1>11, <1>12 DEF MainStep

LEMMA HandlersKeepPInv ==
  ASSUME IInv, PInv, HandlerStep
  PROVE  PInv'
<1> USE DEF table, mainv, handler, kernel
<1>1. TypeOK /\ Forked /\ Mask /\ InEval /\ FgWaited /\ NewStopUnseen /\ StopIsMarked
  BY DEF IInv, PInv
<1>2. CASE \E p \in Pids : ChldWaitpid(p)
  <2>1. PICK p \in Pids : ChldWaitpid(p)
    BY <1>2
  <2>2. /\ hpc["CHLD"] = "wait" /\ hpid'["CHLD"] = p
        /\ hpc'["CHLD"] = (IF life[p] = "stop" THEN "stopped" ELSE "delete")
        /\ UNCHANGED <<jobs, mainv>>
    BY <1>1, <2>1 DEF ChldWaitpid, HandlerAt, Goes, TypeOK, Sig
  <2>3. \A q \in Pids : life'[q] = "stop" /\ q \notin unseen' =>
          life[q] = "stop" /\ (q \notin unseen \/ q = p)
    BY <1>1, <2>1 DEF ChldWaitpid, TypeOK
  <2>4. (InEval /\ FgWaited)'
    BY <1>1, <2>2 DEF InEval, FgWaited
  <2>5. NewStopUnseen'
    BY <1>1, <2>2 DEF NewStopUnseen, Mask
  <2>6. StopIsMarked'
    <3> SUFFICES ASSUME NEW i \in Slot, NEW q \in Pids, jobs[i].pid = q,
                        life'[q] = "stop", q \notin unseen'
                 PROVE  jobs[i].state = "ST" \/ (hpc'["CHLD"] = "stopped" /\ hpid'["CHLD"] = q)
      BY <2>2 DEF StopIsMarked
    <3>1. CASE q = p
      BY <2>2, <2>3, <3>1
    <3>2. CASE q # p
      BY <1>1, <2>2, <2>3, <3>2 DEF StopIsMarked
    <3> QED
      BY <3>1, <3>2
  <2> QED
    BY <2>4, <2>5, <2>6 DEF PInv
<1>3. CASE ChldReturns
  <2>1. hpc["CHLD"] = "wait" /\ UNCHANGED <<jobs, mainv, life, unseen>>
    BY <1>3 DEF ChldReturns, HandlerAt
  <2> QED
    BY <1>1, <2>1 DEF PInv, InEval, FgWaited, NewStopUnseen, StopIsMarked
<1>4. CASE ChldStopped
  <2>1. hpc["CHLD"] = "stopped" /\ UNCHANGED <<mainv, life, unseen>>
    BY <1>4 DEF ChldStopped, HandlerAt
  <2>2. CASE Listed(hpid["CHLD"])
    <3>1. PICK i \in Slot : /\ jobs[i].pid = hpid["CHLD"] /\ hpid["CHLD"] >= 1
                            /\ jobs' = [jobs EXCEPT ![i].state = "ST"]
      BY <1>4, <2>2 DEF ChldStopped, getjobpid, First
    <3>2. jobs \in [Slot -> Job]
      BY <1>1 DEF TypeOK, JobTableTypeOK
    <3>3. /\ jobs'[i].state = "ST" /\ jobs'[i].pid = jobs[i].pid
          /\ \A k \in Slot : k # i => jobs'[k] = jobs[k]
      BY <3>1, <3>2 DEF Job
    <3>4. (InEval /\ FgWaited /\ NewStopUnseen)'
      BY <1>1, <2>1, <3>3 DEF InEval, FgWaited, NewStopUnseen
    <3>5. StopIsMarked'
      <4> SUFFICES ASSUME NEW k \in Slot, NEW q \in Pids, jobs'[k].pid = q,
                          life[q] = "stop", q \notin unseen
                   PROVE  jobs'[k].state = "ST"
        BY <2>1 DEF StopIsMarked
      <4>1. CASE q = hpid["CHLD"]
        <5>1. jobs[k].pid = q /\ jobs[i].pid = q
          BY <3>1, <3>3, <4>1
        <5>2. q # 0
          BY ShellAssumption
        <5>3. i = k
          BY <5>1, <5>2, SameJobs
        <5> QED
          BY <3>3, <5>3
      <4>2. CASE q # hpid["CHLD"]
        BY <1>1, <3>1, <3>3, <4>2 DEF StopIsMarked
      <4> QED
        BY <4>1, <4>2
    <3> QED
      BY <3>4, <3>5 DEF PInv
  <2>3. CASE ~ Listed(hpid["CHLD"])
    BY <1>1, <1>4, <2>1, <2>3
       DEF ChldStopped, PInv, InEval, FgWaited, NewStopUnseen, StopIsMarked
  <2> QED
    BY <2>2, <2>3
<1>5. CASE ChldDelete
  <2>1. hpc["CHLD"] = "delete" /\ UNCHANGED <<mainv, life, unseen>>
    BY <1>5 DEF ChldDelete, HandlerAt
  <2>2. \A k \in Slot : jobs'[k] = jobs[k] \/ jobs'[k] = Cleared
    <3>1. jobs \in [Slot -> Job]
      BY <1>1 DEF TypeOK, JobTableTypeOK
    <3>2. CASE UNCHANGED jobs
      BY <3>2
    <3>3. CASE \E i \in Slot : jobs' = [jobs EXCEPT ![i] = Cleared]
      BY <3>1, <3>3
    <3> QED
      BY <1>5, <3>2, <3>3 DEF ChldDelete, deletejob, getjobpid, First
  <2>3. (InEval /\ FgWaited /\ NewStopUnseen)'
    BY <1>1, <2>1, <2>2 DEF Cleared, InEval, FgWaited, NewStopUnseen
  <2>4. StopIsMarked'
    <3> SUFFICES ASSUME NEW k \in Slot, NEW q \in Pids, jobs'[k].pid = q,
                        life[q] = "stop", q \notin unseen
                 PROVE  jobs'[k].state = "ST"
      BY <2>1 DEF StopIsMarked
    <3>1. q # 0
      BY ShellAssumption
    <3>2. jobs'[k] = jobs[k]
      BY <2>2, <3>1 DEF Cleared
    <3> QED
      BY <1>1, <2>1, <3>2 DEF StopIsMarked
  <2> QED
    BY <2>3, <2>4 DEF PInv
<1>6. CASE \E k \in Key : KeyScan(k) \/ KeyKill(k)
  <2>1. PICK k \in Key : KeyScan(k) \/ KeyKill(k)
    BY <1>6
  <2>2. k # "CHLD" /\ UNCHANGED <<jobs, mainv>>
    BY <2>1 DEF Key, KeyScan, KeyKill
  <2>3. hpc'["CHLD"] = hpc["CHLD"] /\ hpid'["CHLD"] = hpid["CHLD"]
    <3>1. hpc \in [Sig -> ChldPc \cup KeyPc] /\ hpid \in [Sig -> Pids \cup {0}] /\ "CHLD" \in Sig
      BY <1>1 DEF TypeOK, Sig
    <3>2. CASE KeyScan(k)
      BY <2>2, <3>1, <3>2 DEF KeyScan, Returns, Goes
    <3>3. CASE KeyKill(k)
      BY <2>2, <3>1, <3>3 DEF KeyKill, Returns
    <3> QED
      BY <2>1, <3>2, <3>3
  <2>4. StopsKept
    <3>1. CASE KeyScan(k)
      BY <1>1, <3>1, SignalsKeepStops DEF KeyScan
    <3>2. CASE KeyKill(k)
      <4>1. SendINT(hpid[k]) \/ SendSTOP(hpid[k])
        BY <3>2 DEF KeyKill
      <4> QED
        BY <1>1, <4>1, SignalsKeepStops
    <3> QED
      BY <2>1, <3>1, <3>2
  <2> QED
    BY <1>1, <2>2, <2>3, <2>4
       DEF PInv, InEval, FgWaited, NewStopUnseen, StopIsMarked, StopsKept, Forked
<1> QED
  BY <1>2, <1>3, <1>4, <1>5, <1>6 DEF HandlerStep

LEMMA OthersKeepPInv ==
  ASSUME ProgramsOnly, IInv, PInv,
         \/ Environment \/ Down \/ (\E h \in Sig : Deliver(h))
         \/ (\E p \in Pids : ChildStarts(p))
  PROVE  PInv'
<1> USE DEF table, mainv, handler
<1>1. TypeOK /\ Forked /\ InEval /\ FgWaited /\ NewStopUnseen /\ StopIsMarked
  BY DEF IInv, PInv
<1>2. CASE \E c \in Command : TypeProgram(c) \/ Bgfg(c)
  <2>1. PICK c \in Command : TypeProgram(c)
    BY <1>2 DEF Bgfg, ProgramsOnly
  <2>2. pc = "read" /\ pc' = "block" /\ command' \in {"run_fg", "run_bg"}
    BY <2>1 DEF TypeProgram, MainAt
  <2> QED
    BY <1>1, <2>1, <2>2
       DEF TypeProgram, kernel, PInv, InEval, FgWaited, NewStopUnseen, StopIsMarked
<1>3. CASE Quit \/ Sigquit \/ Down
  <2>1. UNCHANGED <<table, mainv, hpc, hpid>> /\ UNCHANGED kernel
    BY <1>3 DEF Quit, Sigquit, Down, vars
  <2> QED
    BY <1>1, <2>1, SignalsKeepStops, KeepsPInv
<1>4. CASE \E p \in Pids : ChildEnds(p) \/ ChildStops(p) \/ ChildContinued(p)
  <2>1. PICK p \in Pids : Ends(p) \/ Stops(p) \/ SendCONT(p)
    BY <1>4 DEF ChildEnds, ChildStops, ChildContinued
  <2>2. UNCHANGED <<table, mainv, hpc, hpid>>
    BY <1>4 DEF ChildEnds, ChildStops, ChildContinued
  <2> QED
    BY <1>1, <2>1, <2>2, SignalsKeepStops, KeepsPInv
<1>5. CASE \E k \in Key : Keystroke(k)
  <2>1. UNCHANGED <<table, mainv, hpc, hpid, life, unseen>>
    BY <1>5 DEF Keystroke
  <2> QED
    BY <1>1, <2>1, KeepsPInv DEF StopsKept
<1>6. CASE \E h \in Sig : Deliver(h)
  <2>1. PICK h \in Sig : Deliver(h)
    BY <1>6
  <2>2. UNCHANGED <<table, mainv, hpid, life, unseen>> /\ hpc[h] = "idle"
        /\ hpc' = [hpc EXCEPT ![h] = Entry(h)]
    BY <2>1 DEF Deliver, Enters
  <2>3. hpc["CHLD"] = "stopped" => hpc'["CHLD"] = "stopped"
    BY <1>1, <2>2 DEF TypeOK, Sig
  <2> QED
    BY <1>1, <2>2, <2>3 DEF PInv, InEval, FgWaited, NewStopUnseen, StopIsMarked
<1>7. CASE \E p \in Pids : ChildStarts(p)
  <2>1. PICK p \in Pids : ChildStarts(p)
    BY <1>7
  <2>2. UNCHANGED <<table, mainv, hpc, hpid>>
    BY <2>1 DEF ChildStarts, ChildSetpgid, ChildExecve, ChildExecveFails
  <2>3. StopsKept
    <3>1. CASE ChildExecveFails(p)
      BY <1>1, <3>1, SignalsKeepStops DEF ChildExecveFails
    <3>2. CASE ChildSetpgid(p) \/ ChildExecve(p)
      BY <3>2 DEF ChildSetpgid, ChildExecve, StopsKept
    <3> QED
      BY <2>1, <3>1, <3>2 DEF ChildStarts
  <2> QED
    BY <1>1, <2>2, <2>3, KeepsPInv
<1> QED
  BY <1>2, <1>3, <1>4, <1>5, <1>6, <1>7 DEF Environment

LEMMA ProgramsInvariance ==
  ASSUME ProgramsOnly
  PROVE  Spec => [](IInv /\ PInv)
<1>1. Init => PInv
  BY DEF Init, initjobs, Cleared, PInv, InEval, FgWaited, NewStopUnseen, StopIsMarked
<1>2. IInv /\ PInv /\ [Next]_vars => PInv'
  <2> SUFFICES ASSUME IInv, PInv, [Next]_vars
               PROVE  PInv'
    OBVIOUS
  <2>1. CASE UNCHANGED vars
    BY <2>1 DEF vars, table, mainv, handler, kernel, PInv, InEval, FgWaited,
                NewStopUnseen, StopIsMarked
  <2>2. CASE Next
    BY <2>2, MainKeepsPInv, HandlersKeepPInv, OthersKeepPInv DEF Next
  <2> QED
    BY <2>1, <2>2
<1> QED
  BY <1>1, <1>2, Invariance, PTL DEF Spec

\* With programs only, at most one job is in the foreground (jobs.h:21).
THEOREM OneInForeground ==
  ASSUME ProgramsOnly
  PROVE  Spec => []OneForeground
<1>1. IInv /\ PInv => OneForeground
  BY SameJobs DEF PInv, FgWaited, OneForeground, Foreground
<1> QED
  BY <1>1, ProgramsInvariance, PTL

\* With programs only, every stop that waitpid reported is on the list
\* (tsh.cc:288-293).
THEOREM StopsAreMarked ==
  ASSUME ProgramsOnly
  PROVE  Spec => []StopIsMarked
<1>1. PInv => StopIsMarked
  BY DEF PInv
<1> QED
  BY <1>1, ProgramsInvariance, PTL
-----------------------------------------------------------------------------
(* Every behaviour of the shell is a behaviour of JobLifecycle: each step  *)
(* moves one child one stage on, or leaves all stages alone.               *)

Listing == {i \in Slot : jobs[i].pid # 0}

\* The list holds as many jobs as slots are taken, so that the abstract room
\* is a free slot.
LEMMA RoomIsFreeSlot ==
  ASSUME IInv PROVE Lifecycle!Room <=> ~ TableFull
<1> DEFINE L == {p \in Pids : Listed(p)}
           f == [i \in Listing |-> jobs[i].pid]
<1>1. IsFiniteSet(Slot) /\ Cardinality(Slot) = MaxJobs
  BY MaxJobsAssumption, FS_Interval DEF Slot
<1>2. f \in Bijection(Listing, L)
  <2>1. \A i \in Listing : i \in Slot /\ jobs[i].pid \in L
    BY JobPids DEF Listing, Listed
  <2>2. \A i, k \in Listing : f[i] = f[k] => i = k
    BY <2>1 DEF IInv, JobsAreChildren, Listing
  <2>3. \A p \in L : \E i \in Listing : f[i] = p
    BY ShellAssumption DEF Listing, Listed
  <2> QED BY <2>1, <2>2, <2>3, Fun_IsBij
<1>3. IsFiniteSet(Listing) /\ Listing \subseteq Slot
  BY <1>1, FS_Subset DEF Listing
<1>4. Cardinality(L) = Cardinality(Listing)
  BY <1>2, <1>3, FS_Bijection DEF ExistsBijection
<1>5. Lifecycle!In("listed") \cup Lifecycle!In("reaped") = L
  BY DEF Lifecycle!In, StageOf
<1>6. Lifecycle!Room <=> Cardinality(Listing) < MaxJobs
  <2>1. Lifecycle!Cardinality(L) = Cardinality(L)
    BY DEF Lifecycle!Cardinality, Cardinality
  <2> HIDE DEF L
  <2> QED BY <1>4, <1>5, <2>1 DEF Lifecycle!Room
<1>7. TableFull <=> Listing = Slot
  BY DEF TableFull, Listing
<1> QED BY <1>1, <1>3, <1>6, <1>7, FS_Subset, FS_CardinalityType, MaxJobsAssumption

\* Most steps: nobody is forked, reaped, listed, refused or deleted.
SameStages ==
  /\ \A i \in Slot : jobs'[i].pid = jobs[i].pid
  /\ \A p \in Pids : life'[p] = "none" <=> life[p] = "none"
  /\ refused' = refused

LEMMA Stutters ==
  ASSUME SameStages
  PROVE  UNCHANGED [p \in Pids |-> StageOf(p)]
BY DEF SameStages, StageOf, Listed

LEMMA ForkMaps ==
  ASSUME IInv, NEW p \in Pids, EvalFork(p) PROVE Lifecycle!Fork(p)
<1>1. \A q \in Pids : StageOf(q) # "forked"
  BY DEF EvalFork, MainAt, IInv, ChildAccounted, StageOf
<1>2. ~ Listed(p) /\ p \notin refused /\ life[p] = "none"
  BY ShellAssumption
     DEF EvalFork, MainAt, Interrupted, IInv, JobsAreChildren, RefusedUnlisted,
         Listed, Sig
<1>3. \A q \in Pids : StageOf(q)' = IF q = p THEN "forked" ELSE StageOf(q)
  BY <1>2 DEF EvalFork, StageOf, Listed, table, IInv, TypeOK
<1> QED BY <1>1, <1>2, <1>3
        DEF Lifecycle!Fork, Lifecycle!In, Lifecycle!Moves, StageOf

LEMMA ListMaps ==
  ASSUME IInv, EvalAddjob PROVE Lifecycle!List(pid)
<1>1. pid \in Pids /\ life[pid] # "none" /\ ~ Listed(pid) /\ pid \notin refused
  BY DEF EvalAddjob, MainAt, IInv, Forked
<1>2. PICK i \in Slot : jobs[i].pid = 0 /\ \E s : jobs' = [jobs EXCEPT ![i] =
                          [pid |-> pid, jid |-> nextjid, state |-> s]]
  BY DEF EvalAddjob, addjob, First
<1>3. \A p \in Pids : Listed(p)' <=> p = pid \/ Listed(p)
  BY <1>2, ShellAssumption DEF Listed, IInv, TypeOK, JobTableTypeOK
<1>4. UNCHANGED <<life, refused>>
  BY DEF EvalAddjob, kernel
<1>5. \A q \in Pids : StageOf(q)' = IF q = pid THEN "listed" ELSE StageOf(q)
  BY <1>1, <1>3, <1>4 DEF StageOf
<1>6. Lifecycle!Room
  BY <1>2, RoomIsFreeSlot DEF TableFull
<1> QED BY <1>1, <1>5, <1>6 DEF Lifecycle!List, Lifecycle!Moves, StageOf

LEMMA RefuseMaps ==
  ASSUME IInv, EvalAddjobRefused PROVE Lifecycle!Refuse(pid)
<1>1. pid \in Pids /\ life[pid] # "none" /\ ~ Listed(pid) /\ pid \notin refused
  BY DEF EvalAddjobRefused, MainAt, IInv, Forked
<1>2. \A q \in Pids : StageOf(q)' = IF q = pid THEN "refused" ELSE StageOf(q)
  BY <1>1 DEF EvalAddjobRefused, StageOf, Listed, table, kernel
<1>3. ~ Lifecycle!Room
  BY RoomIsFreeSlot DEF EvalAddjobRefused
<1> QED BY <1>1, <1>2, <1>3 DEF Lifecycle!Refuse, Lifecycle!Moves, StageOf

LEMMA WaitpidMaps ==
  ASSUME IInv, NEW p \in Pids, ChldWaitpid(p)
  PROVE  SameStages \/ Lifecycle!Reap(p)
<1>1. CASE life[p] = "stop"
  BY <1>1 DEF ChldWaitpid, SameStages, table
<1>2. CASE life[p] # "stop"
  <2>1. life[p] # "none" /\ hpc["CHLD"] = "wait"
    BY <1>2 DEF ChldWaitpid, HandlerAt, Reportable
  <2>2. \A q \in Pids : StageOf(q) # "reaped"
    BY <2>1, ShellAssumption DEF StageOf, Listed, IInv, JobsAreChildren
  <2>3. Listed(p) \/ p \in refused
    BY <2>1 DEF IInv, ChildAccounted, Mask
  <2>4. p \in refused => ~ Listed(p)
    BY DEF IInv, RefusedUnlisted
  <2>5. life' = [life EXCEPT ![p] = "none"] /\ refused' = refused \ {p} /\ jobs' = jobs
    BY <1>2 DEF ChldWaitpid, table
  <2>6. \A q \in Pids : Listed(q)' = Listed(q)
    BY <2>5 DEF Listed
  <2>7. \A q \in Pids :
          StageOf(q)' = IF q = p THEN IF Listed(p) THEN "reaped" ELSE "none"
                                 ELSE StageOf(q)
    BY <2>4, <2>5, <2>6 DEF StageOf, IInv, TypeOK
  <2>8. CASE Listed(p)
    BY <2>1, <2>2, <2>7, <2>8
       DEF StageOf, Lifecycle!Reap, Lifecycle!In, Lifecycle!Moves
  <2>9. CASE ~ Listed(p)
    BY <2>2, <2>3, <2>7, <2>9
       DEF StageOf, Lifecycle!Reap, Lifecycle!In, Lifecycle!Moves
  <2> QED BY <2>8, <2>9
<1> QED BY <1>1, <1>2

LEMMA DeleteMaps ==
  ASSUME IInv, ChldDelete
  PROVE  SameStages \/ Lifecycle!Delete(hpid["CHLD"])
<1> DEFINE p == hpid["CHLD"]
<1>1. p \in Pids /\ life[p] = "none" /\ p \notin refused
  BY DEF ChldDelete, HandlerAt, IInv, HandlerPids, RefusedUnlisted
<1>2. UNCHANGED <<life, refused>>
  BY DEF ChldDelete, kernel
<1>3. CASE ~ Listed(p)
  BY <1>2, <1>3 DEF ChldDelete, deletejob, SameStages
<1>4. CASE Listed(p)
  <2>1. PICK i \in Slot : jobs[i].pid = p /\ jobs' = [jobs EXCEPT ![i] = Cleared]
    BY <1>4 DEF ChldDelete, deletejob, getjobpid, First
  <2>2. \A q \in Pids : Listed(q)' <=> q # p /\ Listed(q)
    BY <1>1, <2>1, ShellAssumption
       DEF Listed, Cleared, IInv, JobsAreChildren, TypeOK, JobTableTypeOK
  <2>3. \A q \in Pids : StageOf(q)' = IF q = p THEN "none" ELSE StageOf(q)
    BY <1>1, <1>2, <2>2 DEF StageOf
  <2> QED BY <1>1, <1>4, <2>3 DEF StageOf, Lifecycle!Delete, Lifecycle!Moves
<1> QED BY <1>3, <1>4

LEMMA OthersStutter ==
  ASSUME IInv,
         \/ EvalBlock \/ ForkFails \/ EvalUnblock \/ Waitfg \/ WaitfgReturns
         \/ BgfgCont \/ BgfgMark \/ ChldReturns \/ ChldStopped
         \/ \E k \in Key : KeyScan(k) \/ KeyKill(k)
         \/ Environment \/ Down \/ \E h \in Sig : Deliver(h)
         \/ \E p \in Pids : ChildStarts(p)
  PROVE  SameStages
<1> USE DEF SameStages, table, mainv, handler, kernel, Quiet
<1> TypeOK
  BY DEF IInv
<1>1. CASE EvalBlock \/ ForkFails \/ EvalUnblock \/ Waitfg \/ WaitfgReturns \/ ChldReturns
  BY <1>1 DEF EvalBlock, ForkFails, EvalUnblock, Waitfg, WaitfgReturns, ChldReturns
<1>2. CASE BgfgCont
  BY <1>2, SendCONTQuiet DEF BgfgCont
<1>3. CASE BgfgMark
  BY <1>3 DEF BgfgMark, TypeOK, JobTableTypeOK, Job
<1>4. CASE ChldStopped
  BY <1>4 DEF ChldStopped, getjobpid, First, TypeOK, JobTableTypeOK, Job
<1>5. ASSUME NEW k \in Key, KeyScan(k) \/ KeyKill(k) PROVE SameStages
  BY <1>5, SendINTQuiet, SendSTOPQuiet DEF KeyScan, KeyKill
<1>6. ASSUME NEW c \in Command, TypeProgram(c) \/ Bgfg(c) \/ Quit \/ Sigquit
      PROVE  SameStages
  BY <1>6 DEF TypeProgram, Bgfg, Quit, Sigquit
<1>7. ASSUME NEW p \in Pids, ChildEnds(p) \/ ChildStops(p) \/ ChildContinued(p)
      PROVE  SameStages
  BY <1>7, EndsQuiet, StopsQuiet, SendCONTQuiet
     DEF ChildEnds, ChildStops, ChildContinued
<1>8. ASSUME NEW k \in Key, Keystroke(k) PROVE SameStages
  BY <1>8 DEF Keystroke
<1>9. CASE Down
  BY <1>9 DEF Down, vars
<1>10. ASSUME NEW h \in Sig, Deliver(h) PROVE SameStages
  BY <1>10 DEF Deliver
<1>11. ASSUME NEW p \in Pids, ChildStarts(p) PROVE SameStages
  BY <1>11, EndsQuiet DEF ChildStarts, ChildSetpgid, ChildExecve, ChildExecveFails
<1>12. CASE Quit \/ Sigquit
  BY <1>12 DEF Quit, Sigquit
<1> QED BY <1>1, <1>2, <1>3, <1>4, <1>5, <1>6, <1>7, <1>8, <1>9, <1>10, <1>11, <1>12
        DEF Environment

\* The shell implements JobLifecycle (tsh.cc:158-304): no child is listed after
\* it was reaped, reaped before it was listed or refused, or deleted alive.
THEOREM ShellImplementsLifecycle == Spec => ImplementsLifecycle
<1> DEFINE stage == [p \in Pids |-> StageOf(p)]
<1>1. Init => Lifecycle!Init
  BY ShellAssumption
     DEF Init, initjobs, Cleared, Lifecycle!Init, StageOf, Listed
<1>2. IInv /\ [Next]_vars => [Lifecycle!Next]_stage
  <2> SUFFICES ASSUME IInv, [Next]_vars PROVE Lifecycle!Next \/ UNCHANGED stage
    OBVIOUS
  <2>1. ASSUME NEW p \in Pids, EvalFork(p) PROVE Lifecycle!Next
    BY <2>1, ForkMaps DEF Lifecycle!Next
  <2>2. CASE EvalAddjob
    BY <2>2, ListMaps DEF Lifecycle!Next, EvalAddjob, MainAt, IInv, Forked
  <2>3. CASE EvalAddjobRefused
    BY <2>3, RefuseMaps DEF Lifecycle!Next, EvalAddjobRefused, MainAt, IInv, Forked
  <2>4. ASSUME NEW p \in Pids, ChldWaitpid(p) PROVE Lifecycle!Next \/ UNCHANGED stage
    BY <2>4, WaitpidMaps, Stutters DEF Lifecycle!Next
  <2>5. CASE ChldDelete
    BY <2>5, DeleteMaps, Stutters
       DEF Lifecycle!Next, ChldDelete, HandlerAt, IInv, HandlerPids
  <2>6. CASE UNCHANGED vars
    <3>1. SameStages
      BY <2>6 DEF vars, table, kernel, SameStages
    <3> QED BY <3>1, Stutters
  <2>7. CASE SameStages
    BY <2>7, Stutters
  <2> QED BY <2>1, <2>2, <2>3, <2>4, <2>5, <2>6, <2>7, OthersStutter
          DEF Next, MainStep, HandlerStep
<1> QED BY <1>1, <1>2, Invariance, PTL DEF Spec, ImplementsLifecycle, Lifecycle!Spec
=============================================================================
