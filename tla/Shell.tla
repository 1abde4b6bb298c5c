------------------------------- MODULE Shell -------------------------------
(***************************************************************************)
(* The tiny shell of lab 5 (tsh.cc) and the kernel under it.               *)
(*                                                                         *)
(* One process, one thread: main runs the read/eval loop and is interrupted*)
(* by three signal handlers, which share the job list with it and with one *)
(* another.  A handler runs with its own signal blocked and no other, so   *)
(* handlers nest; code resumes when every handler above it has returned.   *)
(* The kernel forks, stops, continues and ends the children, and holds at  *)
(* most one pending instance of each signal.                               *)
(*                                                                         *)
(* A step is the code between two points where an interruption can be      *)
(* told apart: one routine of the job list, or one system call.            *)
(***************************************************************************)
EXTENDS JobTable, FiniteSets

CONSTANTS Pids,      \* process IDs the kernel can hand out
          Typed,     \* the commands typed: a subset of Command
          MaxJid,    \* bound: no program is started while nextjid is past it
          MaxEvents  \* bound on keystrokes and on stops and continues of
                     \* children that the shell did not ask for

Command == {"run_fg", "run_bg", "fg", "bg"}
Sig     == {"CHLD", "INT", "TSTP"}   \* the signals with a handler
Key     == {"INT", "TSTP"}           \* ctrl-c and ctrl-z

ASSUME ShellAssumption ==
  Pids \subseteq Nat \ {0} /\ Typed \subseteq Command /\ MaxEvents \in Nat

VARIABLES
  up,        \* the shell process: "up", "exited" or "crashed"
  pc,        \* where main is
  command,   \* the command main is evaluating
  pid,       \* the local variable pid of eval and waitfg
  slot,      \* the pointer j of do_bgfg, as an index into jobs
  blocked,   \* the signal mask of main
  hpc,       \* where each handler is; "idle" when it is not running
  hpid,      \* the local variable pid of each handler
  below,     \* the handlers that each running handler interrupted
  pend,      \* signals pending for the shell
  life,      \* each child: "none", "run", "stop" or "zombie"
  phase,     \* how far a child got: "forked", "grouped" (setpgid), "execd"
  unseen,    \* stopped children whose stop waitpid has not reported
  intp,      \* stopped children with a SIGINT pending
  refused,   \* history: unreaped children that addjob refused to list
  events     \* how many of the MaxEvents have happened

table   == <<jobs, nextjid>>
mainv   == <<pc, command, pid, slot, blocked>>
handler == <<hpc, hpid, below>>
kernel  == <<life, phase, unseen, intp, pend>>
vars    == <<table, mainv, handler, kernel, up, refused, events>>

MainPc    == {"read", "block", "fork", "add", "unblock", "waitfg", "spin",
              "cont", "mark"}
ChldPc    == {"idle", "wait", "stopped", "delete"}
KeyPc     == {"idle", "scan", "kill"}
Entry(h)  == IF h = "CHLD" THEN "wait" ELSE "scan"

TypeOK ==
  /\ JobTableTypeOK
  /\ up \in {"up", "exited", "crashed"}
  /\ pc \in MainPc /\ command \in Command
  /\ pid \in Pids \cup {0} /\ slot \in Slot /\ blocked \subseteq Sig
  /\ hpc \in [Sig -> ChldPc \cup KeyPc]
  /\ hpc["CHLD"] \in ChldPc /\ \A k \in Key : hpc[k] \in KeyPc
  /\ hpid \in [Sig -> Pids \cup {0}] /\ below \in [Sig -> SUBSET Sig]
  /\ pend \subseteq Sig
  /\ life \in [Pids -> {"none", "run", "stop", "zombie"}]
  /\ phase \in [Pids -> {"forked", "grouped", "execd"}]
  /\ unseen \subseteq Pids /\ intp \subseteq Pids /\ refused \subseteq Pids
  /\ events \in 0 .. MaxEvents

Init ==
  /\ initjobs
  /\ up = "up" /\ pc = "read" /\ command = "run_fg"
  /\ pid = 0 /\ slot = 0 /\ blocked = {}
  /\ hpc = [h \in Sig |-> "idle"]
  /\ hpid = [h \in Sig |-> 0] /\ below = [h \in Sig |-> {}]
  /\ pend = {}
  /\ life = [p \in Pids |-> "none"] /\ phase = [p \in Pids |-> "forked"]
  /\ unseen = {} /\ intp = {} /\ refused = {} /\ events = 0
-----------------------------------------------------------------------------
(* The kernel: what becomes of a child, and which signals the shell gets.  *)

Ends(p) ==
  /\ life'   = [life EXCEPT ![p] = "zombie"]
  /\ unseen' = unseen \ {p}
  /\ intp'   = intp \ {p}
  /\ pend'   = pend \cup {"CHLD"}
  /\ UNCHANGED phase

Stops(p) ==
  /\ life'   = [life EXCEPT ![p] = "stop"]
  /\ unseen' = unseen \cup {p}
  /\ pend'   = pend \cup {"CHLD"}
  /\ UNCHANGED <<phase, intp>>

Resumes(p) ==
  /\ life'   = [life EXCEPT ![p] = "run"]
  /\ unseen' = unseen \ {p}
  /\ pend'   = pend \cup {"CHLD"}
  /\ UNCHANGED <<phase, intp>>

\* The children that kill(-p, ...) reaches: the group p exists once the child
\* has called setpgid(0, 0) and until it has been reaped.
InGroup(p) == {q \in Pids : q = p /\ life[q] # "none" /\ phase[q] # "forked"}

\* SIGINT ends a program.  The child of a fork that has not called execve yet
\* still has the handler of the shell, and survives.  On a stopped program
\* the signal stays pending until the program continues.
SendINT(p) ==
  IF \E q \in InGroup(p) : life[q] = "run" /\ phase[q] = "execd" THEN Ends(p)
  ELSE IF \E q \in InGroup(p) : life[q] = "stop" /\ phase[q] = "execd"
         THEN intp' = intp \cup {p} /\ UNCHANGED <<life, phase, unseen, pend>>
         ELSE UNCHANGED kernel

SendSTOP(p) ==
  IF \E q \in InGroup(p) : life[q] = "run" THEN Stops(p) ELSE UNCHANGED kernel

SendCONT(p) ==
  IF \E q \in InGroup(p) : life[q] = "stop"
    THEN IF p \in intp THEN Ends(p) ELSE Resumes(p)
    ELSE UNCHANGED kernel

\* What waitpid(-1, &status, WNOHANG|WUNTRACED) can return.
Reportable(p) == life[p] = "zombie" \/ (life[p] = "stop" /\ p \in unseen)
-----------------------------------------------------------------------------
(* Main: the read/eval loop.  It runs when no handler does.                *)

Interrupted == \E h \in Sig : hpc[h] # "idle"

MainAt(l) == up = "up" /\ pc = l /\ ~ Interrupted

\* Main is at l next, or back at the prompt, where its locals are gone.
MainGoes(l) == pc' = l /\ UNCHANGED <<command, pid, slot>>
Prompt      == pc' = "read" /\ command' = "run_fg" /\ pid' = 0 /\ slot' = 0

Enters(h) ==
  /\ hpc'   = [hpc EXCEPT ![h] = Entry(h)]
  /\ below' = [below EXCEPT ![h] = {k \in Sig : hpc[k] # "idle"}]

\* A line that names a program.
TypeProgram(c) ==
  /\ MainAt("read")
  /\ c \in Typed \cap {"run_fg", "run_bg"}
  /\ command' = c /\ pc' = "block"
  /\ UNCHANGED <<table, pid, slot, blocked, handler, kernel, up, refused, events>>

\* Seeded fault: SIGCHLD is not blocked around fork and addjob.
EvalBlock_NoMask ==
  /\ MainAt("block") /\ nextjid <= MaxJid
  /\ MainGoes("fork")
  /\ UNCHANGED <<table, blocked, handler, kernel, up, refused, events>>

\* From here to the unblocking no handler changes nextjid any more.
EvalBlock ==
  /\ MainAt("block") /\ nextjid <= MaxJid
  /\ blocked' = blocked \cup {"CHLD"} /\ MainGoes("fork")
  /\ UNCHANGED <<table, handler, kernel, up, refused, events>>

EvalFork(p) ==
  /\ MainAt("fork")
  /\ life[p] = "none"
  /\ life' = [life EXCEPT ![p] = "run"]
  /\ pid' = p /\ pc' = "add"
  /\ UNCHANGED <<table, command, slot, blocked, handler, phase, unseen, intp, pend,
                 up, refused, events>>

\* Fork: unix_error prints the reason and exits.
ForkFails ==
  /\ MainAt("fork")
  /\ up' = "exited"
  /\ UNCHANGED <<table, mainv, handler, kernel, refused, events>>

EvalAddjob ==
  /\ MainAt("add")
  /\ addjob(pid, IF command = "run_fg" THEN "FG" ELSE "BG")
  /\ MainGoes("unblock")
  /\ UNCHANGED <<blocked, handler, kernel, up, refused, events>>

\* The result of addjob is ignored: the child runs, but is on no list.
EvalAddjobRefused ==
  /\ MainAt("add") /\ TableFull
  /\ refused' = refused \cup {pid}
  /\ MainGoes("unblock")
  /\ UNCHANGED <<table, blocked, handler, kernel, up, events>>

\* Seeded fault: the background branch does not unblock SIGCHLD.
EvalUnblock_Half ==
  /\ MainAt("unblock")
  /\ IF command = "run_fg"
       THEN blocked' = blocked \ {"CHLD"} /\ MainGoes("waitfg")
       ELSE UNCHANGED blocked /\ Prompt
  /\ UNCHANGED <<table, handler, kernel, up, refused, events>>

\* A SIGCHLD that waited is delivered before sigprocmask returns.  For a
\* background job only the announcement of the job is left.
EvalUnblock ==
  /\ MainAt("unblock")
  /\ blocked' = blocked \ {"CHLD"}
  /\ IF command = "run_fg" THEN MainGoes("waitfg") ELSE Prompt
  /\ IF "CHLD" \in pend
       THEN Enters("CHLD") /\ pend' = pend \ {"CHLD"} /\ UNCHANGED hpid
       ELSE UNCHANGED <<handler, pend>>
  /\ UNCHANGED <<table, life, phase, unseen, intp, up, refused, events>>

Waitfg ==
  /\ MainAt("waitfg")
  /\ IF Listed(pid) /\ pid # 0 THEN MainGoes("spin") ELSE Prompt
  /\ UNCHANGED <<table, blocked, handler, kernel, up, refused, events>>

\* Seeded fault: waitfg does not wait.
WaitfgReturns_AtOnce ==
  /\ MainAt("spin")
  /\ Prompt
  /\ UNCHANGED <<table, blocked, handler, kernel, up, refused, events>>

\* The busy loop of waitfg ends.
WaitfgReturns ==
  /\ MainAt("spin") /\ pid \notin fgpid
  /\ Prompt
  /\ UNCHANGED <<table, blocked, handler, kernel, up, refused, events>>

\* do_bgfg looks the job up by the PID or the %JID typed; a job it cannot find
\* and a missing argument change nothing.
Bgfg(c) ==
  /\ MainAt("read") /\ c \in Typed \cap {"fg", "bg"}
  /\ \E i \in UNION ({getjobpid(p) : p \in Pids}
                       \cup {getjobjid(jobs[k].jid) : k \in Slot}) : slot' = i
  /\ command' = c /\ pc' = "cont"
  /\ UNCHANGED <<table, pid, blocked, handler, kernel, up, refused, events>>

\* kill(-j->pid, SIGCONT).  If the entry was cleared since, pid 0 addresses the
\* shell's own group, where nothing is stopped.
BgfgCont ==
  /\ MainAt("cont")
  /\ SendCONT(jobs[slot].pid)
  /\ MainGoes("mark")
  /\ UNCHANGED <<table, blocked, handler, up, refused, events>>

BgfgMark ==
  /\ MainAt("mark")
  /\ jobs' = [jobs EXCEPT ![slot].state = IF command = "fg" THEN "FG" ELSE "BG"]
  /\ IF command = "fg"
       THEN pid' = jobs[slot].pid /\ pc' = "waitfg" /\ UNCHANGED <<command, slot>>
       ELSE Prompt
  /\ UNCHANGED <<nextjid, blocked, handler, kernel, up, refused, events>>

\* The command quit, or the end of the input.
Quit ==
  /\ MainAt("read")
  /\ up' = "exited"
  /\ UNCHANGED <<table, mainv, handler, kernel, refused, events>>

\* sigquit_handler exits, whatever it interrupted.
Sigquit ==
  /\ up = "up" /\ up' = "exited"
  /\ UNCHANGED <<table, mainv, handler, kernel, refused, events>>
-----------------------------------------------------------------------------
(* The handlers.                                                           *)

HandlerAt(h, l) ==
  /\ up = "up" /\ hpc[h] = l
  /\ \A k \in Sig : hpc[k] # "idle" => h \notin below[k]

Goes(h, l) == hpc' = [hpc EXCEPT ![h] = l] /\ UNCHANGED below

Returns(h) ==
  /\ hpc'   = [hpc EXCEPT ![h] = "idle"]
  /\ hpid'  = [hpid EXCEPT ![h] = 0]
  /\ below' = [below EXCEPT ![h] = {}]

\* Back to waitpid, which assigns pid anew.
NextWaitpid ==
  hpid' = [hpid EXCEPT !["CHLD"] = 0] /\ Goes("CHLD", "wait")

Deliver(h) ==
  /\ up = "up" /\ h \in pend \ blocked /\ hpc[h] = "idle"
  /\ Enters(h) /\ pend' = pend \ {h}
  /\ UNCHANGED <<table, mainv, hpid, life, phase, unseen, intp, up, refused, events>>

\* waitpid reports a stopped child, or reaps one that ended.
ChldWaitpid(p) ==
  /\ HandlerAt("CHLD", "wait") /\ Reportable(p)
  /\ hpid' = [hpid EXCEPT !["CHLD"] = p]
  /\ Goes("CHLD", IF life[p] = "stop" THEN "stopped" ELSE "delete")
  /\ IF life[p] = "stop"
       THEN unseen' = unseen \ {p} /\ UNCHANGED <<life, phase, refused>>
       ELSE /\ life' = [life EXCEPT ![p] = "none"]
            /\ phase' = [phase EXCEPT ![p] = "forked"]
            /\ refused' = refused \ {p}
            /\ UNCHANGED unseen
  /\ UNCHANGED <<table, mainv, intp, pend, up, events>>

ChldReturns ==
  /\ HandlerAt("CHLD", "wait") /\ \A p \in Pids : ~ Reportable(p)
  /\ Returns("CHLD")
  /\ UNCHANGED <<table, mainv, kernel, up, refused, events>>

\* Seeded fault: the handler reports a stop without marking the job.
ChldStopped_Unmarked ==
  /\ HandlerAt("CHLD", "stopped")
  /\ NextWaitpid
  /\ UNCHANGED <<table, mainv, kernel, up, refused, events>>

\* j->state = ST, where j is NULL for a child that is on no list.
ChldStopped ==
  /\ HandlerAt("CHLD", "stopped")
  /\ IF Listed(hpid["CHLD"])
       THEN /\ \E i \in getjobpid(hpid["CHLD"]) :
                  jobs' = [jobs EXCEPT ![i].state = "ST"]
            /\ NextWaitpid
            /\ UNCHANGED up
       ELSE up' = "crashed" /\ UNCHANGED <<jobs, handler>>
  /\ UNCHANGED <<nextjid, mainv, kernel, refused, events>>

\* Seeded fault: one child per SIGCHLD, if instead of while.
ChldDelete_Once ==
  /\ HandlerAt("CHLD", "delete")
  /\ deletejob(hpid["CHLD"])
  /\ Returns("CHLD")
  /\ UNCHANGED <<mainv, kernel, up, refused, events>>

\* Seeded fault: the entry of a reaped child stays.
ChldDelete_Keeps ==
  /\ HandlerAt("CHLD", "delete")
  /\ NextWaitpid
  /\ UNCHANGED <<table, mainv, kernel, up, refused, events>>

ChldDelete ==
  /\ HandlerAt("CHLD", "delete")
  /\ deletejob(hpid["CHLD"])
  /\ NextWaitpid
  /\ UNCHANGED <<mainv, kernel, up, refused, events>>

\* sigint_handler and sigtstp_handler: fgpid ...
KeyScan(h) ==
  /\ HandlerAt(h, "scan")
  /\ \E p \in fgpid :
       IF p = 0 THEN Returns(h)
                ELSE hpid' = [hpid EXCEPT ![h] = p] /\ Goes(h, "kill")
  /\ UNCHANGED <<table, mainv, kernel, up, refused, events>>

\* Seeded fault: the signal goes to the group of no job.
KeyKill_Nobody(h) ==
  /\ HandlerAt(h, "kill")
  /\ Returns(h)
  /\ UNCHANGED <<table, mainv, kernel, up, refused, events>>

\* ... and kill; sigtstp_handler sends SIGSTOP.
KeyKill(h) ==
  /\ HandlerAt(h, "kill")
  /\ IF h = "INT" THEN SendINT(hpid[h]) ELSE SendSTOP(hpid[h])
  /\ Returns(h)
  /\ UNCHANGED <<table, mainv, up, refused, events>>
-----------------------------------------------------------------------------
(* The children, the terminal and other processes.                         *)

ChildSetpgid(p) ==
  /\ up = "up" /\ life[p] = "run" /\ phase[p] = "forked"
  /\ phase' = [phase EXCEPT ![p] = "grouped"]
  /\ UNCHANGED <<table, mainv, handler, life, unseen, intp, pend, up, refused, events>>

ChildExecve(p) ==
  /\ up = "up" /\ life[p] = "run" /\ phase[p] = "grouped"
  /\ phase' = [phase EXCEPT ![p] = "execd"]
  /\ UNCHANGED <<table, mainv, handler, life, unseen, intp, pend, up, refused, events>>

\* execve fails: "command not found", exit(0).
ChildExecveFails(p) ==
  /\ up = "up" /\ life[p] = "run" /\ phase[p] = "grouped"
  /\ Ends(p)
  /\ UNCHANGED <<table, mainv, handler, up, refused, events>>

\* A program exits, or any child is killed by a signal nobody can catch.
ChildEnds(p) ==
  /\ up = "up" /\ life[p] \in {"run", "stop"}
  /\ Ends(p)
  /\ UNCHANGED <<table, mainv, handler, up, refused, events>>

Event == up = "up" /\ events < MaxEvents /\ events' = events + 1

\* A program stops itself, or another process stops it.
ChildStops(p) ==
  /\ Event /\ life[p] = "run" /\ phase[p] = "execd"
  /\ Stops(p)
  /\ UNCHANGED <<table, mainv, handler, up, refused>>

\* Another process continues a stopped child.
ChildContinued(p) ==
  /\ Event /\ life[p] = "stop"
  /\ SendCONT(p)
  /\ UNCHANGED <<table, mainv, handler, up, refused>>

\* ctrl-c and ctrl-z reach the shell alone: its jobs have their own groups.
Keystroke(k) ==
  /\ Event
  /\ pend' = pend \cup {k}
  /\ UNCHANGED <<table, mainv, handler, life, phase, unseen, intp, up, refused>>
-----------------------------------------------------------------------------
MainStep ==
  \/ EvalBlock \/ (\E p \in Pids : EvalFork(p)) \/ ForkFails
  \/ EvalAddjob \/ EvalAddjobRefused \/ EvalUnblock
  \/ Waitfg \/ WaitfgReturns \/ BgfgCont \/ BgfgMark

HandlerStep ==
  \/ (\E p \in Pids : ChldWaitpid(p)) \/ ChldReturns \/ ChldStopped \/ ChldDelete
  \/ \E k \in Key : KeyScan(k) \/ KeyKill(k)

ChildStarts(p) == ChildSetpgid(p) \/ ChildExecve(p) \/ ChildExecveFails(p)

Environment ==
  \/ \E c \in Command : TypeProgram(c) \/ Bgfg(c)
  \/ Quit \/ Sigquit
  \/ \E p \in Pids : ChildEnds(p) \/ ChildStops(p) \/ ChildContinued(p)
  \/ \E k \in Key : Keystroke(k)

\* Nothing is modelled after the shell is gone.
Down == up # "up" /\ UNCHANGED vars

Next ==
  \/ MainStep \/ HandlerStep \/ Environment \/ Down
  \/ \E h \in Sig : Deliver(h)
  \/ \E p \in Pids : ChildStarts(p)

Spec == Init /\ [][Next]_vars

\* The scheduler runs the shell and starts its children; the kernel delivers a
\* pending signal that is not blocked.  No program has to end, and nobody has
\* to type.
Fairness ==
  /\ WF_vars(MainStep) /\ WF_vars(HandlerStep)
  /\ \A h \in Sig : WF_vars(Deliver(h))
  /\ \A p \in Pids : WF_vars(ChildStarts(p))

FairSpec == Spec /\ Fairness
-----------------------------------------------------------------------------
(* Safety, for every command.                                              *)

\* Each unreaped child can be managed: it is on the job list, addjob refused
\* it, or eval has just forked it (tsh.cc:172-193).
ChildAccounted ==
  \A p \in Pids : life[p] # "none" =>
    Listed(p) \/ p \in refused \/ (pc = "add" /\ pid = p)

\* The list names no process that is not a child: each entry has a pid of its
\* own, of an unreaped child or of the one sigchld_handler has reaped and is
\* about to delete.  Otherwise fg, ctrl-c and ctrl-z would signal whatever
\* process the kernel gave the pid to next (tsh.cc:286-301).
JobsAreChildren ==
  \A i \in Slot : jobs[i].pid # 0 =>
    /\ \A k \in Slot : jobs[k].pid = jobs[i].pid => k = i
    /\ \/ \E p \in Pids : p = jobs[i].pid /\ life[p] # "none"
       \/ hpc["CHLD"] = "delete" /\ hpid["CHLD"] = jobs[i].pid

\* No child is forgotten although SIGCHLDs merge and wait while blocked: when
\* a child has something to report, the handler runs or will (tsh.cc:286).
NoLostChild ==
  \A p \in Pids : up = "up" /\ Reportable(p) =>
    "CHLD" \in pend \/ hpc["CHLD"] # "idle"

\* ctrl-c and ctrl-z never hit a background job, although the job list can
\* change between fgpid and kill (tsh.cc:311-315, 324-328).
BackgroundSpared ==
  \A k \in Key, i \in Slot :
    hpc[k] = "kill" /\ jobs[i].pid = hpid[k] => jobs[i].state # "BG"

\* The handler dereferences a null job pointer only for a child that addjob
\* refused to list (tsh.cc:183, 189, 289-290).
CrashOnlyUnlisted == up = "crashed" => hpid["CHLD"] \in refused

\* The children of the shell live through the stages of JobLifecycle.
StageOf(p) ==
  IF Listed(p) THEN IF life[p] # "none" THEN "listed" ELSE "reaped"
  ELSE IF p \in refused THEN "refused"
  ELSE IF life[p] # "none" THEN "forked" ELSE "none"

Lifecycle == INSTANCE JobLifecycle WITH
               stage <- [p \in Pids |-> StageOf(p)], Capacity <- MaxJobs

ImplementsLifecycle == Lifecycle!Spec
-----------------------------------------------------------------------------
(* Safety, when only programs are typed.  With fg and bg these fail.       *)

\* "At most 1 job can be in the FG state" (jobs.h:21).
OneForeground ==
  \A i, k \in Foreground : jobs[i].pid # 0 /\ jobs[k].pid # 0 => i = k

\* A stop that waitpid reported is on the list: the job is in state ST, also
\* after it has been continued behind the shell's back (tsh.cc:288-293).
StopIsMarked ==
  \A i \in Slot, p \in Pids :
    jobs[i].pid = p /\ life[p] = "stop" /\ p \notin unseen =>
      jobs[i].state = "ST" \/ (hpc["CHLD"] = "stopped" /\ hpid["CHLD"] = p)
-----------------------------------------------------------------------------
(* Liveness, under FairSpec.                                               *)

Gone == up # "up"

\* Every zombie is reaped (tsh.cc:277-281).
ZombiesReaped == \A p \in Pids : life[p] = "zombie" ~> (life[p] = "none" \/ Gone)

\* When the job in the foreground stops or ends, the prompt comes back, unless
\* the job is continued (tsh.cc:261-270).
ForegroundEnds ==
  \A p \in Pids :
    (pc = "spin" /\ pid = p /\ life[p] \in {"stop", "zombie"})
      ~> (pc = "read" \/ life[p] = "run" \/ Gone)

\* ctrl-c while a program runs in the foreground brings the prompt back: the
\* signal is forwarded, the death reaped and the busy loop left
\* (tsh.cc:306-317).
InterruptReturns ==
  \A p \in Pids :
    (pc = "spin" /\ pid = p /\ phase[p] = "execd" /\ "INT" \in pend)
      ~> (pc = "read" \/ Gone)
=============================================================================
