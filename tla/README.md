# A verification development for computer-systems-labs

TLA+ models of the programs of this repository, TLC configurations that check
them on small instances, and TLAPS proofs that hold for every instance.

The repository is a collection of labs. The core of this project are the tiny
shell of lab 5 (one process interrupted by its own signal handlers, over a
kernel) and the storage allocator of lab 6 (boundary tags and an explicit free
list in raw memory), with the driver that tests such allocators and the package
that times them. The image filter of lab 4 is modelled from file to file, and
the puzzles of lab 1 with the program that tests them.

## 1. Inventory

| Component | Source | State | Operations | Interacts with |
|---|---|---|---|---|
| Job list | `lab5/jobs.cc`, `jobs.h` | `jobs[MAXJOBS]` (pid, jid, state), `nextjid` | `initjobs addjob deletejob fgpid getjobpid getjobjid pid2jid maxjid` | called by the main loop *and* by the handlers that interrupt it |
| Read/eval loop | `lab5/tsh.cc` 53-270 | program counter, `pid`, the job pointer of `do_bgfg`, signal mask | `eval Fork builtin_cmd do_bgfg waitfg` | job list; kernel (`fork kill sigprocmask`); waits for the handlers in a busy loop |
| Signal handlers | `lab5/tsh.cc` 282-330, `helper-routines.cc` 64-68 | their local `pid` | `sigchld_handler sigint_handler sigtstp_handler sigquit_handler` | job list; kernel (`waitpid kill`); nest in one another |
| Allocator | `lab6/mm.c` | the words of the heap, `free_listp` | `mm_init mm_malloc mm_free mm_realloc`; inside: `extend_heap place find_fit coalesce insertBlock removeBlock` | simulated heap; its client, who writes into the same memory |
| Simulated heap | `lab6/memlib.c` | `mem_brk`, the memory | `mem_init mem_sbrk mem_reset_brk` | allocator, driver |
| Test driver | `lab6/mdriver.c` | trace, range list, statistics | `eval_mm_valid eval_mm_util add_range remove_range` | allocator |
| Timing package | `lab6/fcyc.c`, `clock.c`, `ftimer.c`, `fsecs.c` | settings, cache buffer, the sorted array of the K best samples, the words of the last reading, ticks noted | `set_fcyc_* fcyc add_sample has_converged clear`; `start_counter get_counter start_comp_counter get_comp_counter callibrate` | cycle counter and interval timer of the machine; the function that is timed; driver |
| Bit puzzles | `lab1/bits.c`, `tests.c`, `decl.c` | none | one function per puzzle, one reference each | called by the tester |
| Tester | `lab1/btest.c` | test values, error count, points, `envbuf`, the alarm that is set | `main run_tests test_function gen_vals get_num_val timeout_handler` | puzzles; kernel (`alarm`, `sigsetjmp`) |
| Image filter | `lab4/FilterMain.cpp`, `Filter.cpp` | filter, input and output image, loop variables | `main readFilter applyFilter` | bitmap I/O |
| Bitmap I/O | `lab4/cs1300bmp.cc` | none between calls | `bmp_read bmp_24_write` and readers and writers of each field | image filter; files |

What is hard in them, and what makes them correct:

* **Shell.** Everything happens between two instructions: a child may stop or
  end before its parent has listed it; several ends give one SIGCHLD; a
  handler may delete a job the interrupted code holds a pointer to, or the one
  whose pid it is about to signal; ctrl-c may arrive before the child has its
  process group. Correct means: no child is forgotten, the list names children
  only and each once, background jobs never get the keyboard's signals, there
  is one foreground job, and the prompt comes back when it stops or ends.
* **Job list.** IDs are chosen by two different rules. Correct means: the ID
  announced for a job is one that finds it.
* **Allocator.** The tags and links that describe the heap live in the memory
  they describe, next to what the client writes. Correct means: the blocks tile
  the heap in both directions, the free list holds exactly the free blocks, no
  two free blocks are neighbours, nothing leaks, and the client's data survive
  every call, also a `realloc` that moves them and a failed one.
* **Driver.** It judges a package that may answer anything, over several traces
  and with state left over from those that failed. Correct means: a package that
  keeps its promises is never blamed, a misplaced payload or a lost copy is
  noticed, and the figures at the end are those of the traces.
* **Timing package.** The timer interrupts anywhere, also between the two clocks
  that make up one reading; the two words of the counter wrap independently; a
  calibration waits for ticks it can only see by the time they took. Correct
  means: no cycle is lost in a subtraction, a compensated time errs by a bounded
  amount and never upwards, the array holds the K smallest samples in order,
  and `fcyc` returns.
* **Filter.** Two columns a turn over images of every width, values that were
  never written, files that were cut short or are of another kind, several
  files one after the other. Correct means: the interior is the filtered
  interior, what is written can be read again, and nothing but three named
  cases stops the program from outside.
* **Puzzles and tester.** Words that wrap; an alarm whose handler jumps out of
  the function that set it, or of a later one. Correct means: the solutions
  agree with their references, every test runs under a limit of its own, and
  the values fit their array.

`PROJECT.json` lists every hazard with its line and the properties aimed at it.

## 2. The modules

| Module | Models | Role |
|---|---|---|
| `JobTable` | `jobs.cc` | one operator per routine; extended by the next two |
| `JobList` | its use by the shell, without signals | job IDs |
| `Shell` | `tsh.cc` and the kernel under it | the core model |
| `JobLifecycle` | - | abstract: the life of each child |
| `MMHeap` | `mm.c`, `memlib.c` | the allocator as functions from heap to heap |
| `MM` | a client of it, with the calls of `mdriver.c` | the heap's invariants |
| `AllocSpec` | - | abstract: what a malloc package promises |
| `MCMM` | - | instances of `MM` for TLC |
| `MDriver` | `mdriver.c` over an arbitrary package | what its checks catch, and what they let pass |
| `MCMDriver` | - | instances of `MDriver` for TLC: all traces of a length |
| `Clock` | the arithmetic of `clock.c` and `ftimer.c` | extended by the next one |
| `Fcyc` | `fcyc.c`, `callibrate` and the compensated counter of `clock.c`, the timer of the machine | sampler and clocks |
| `MCFcyc` | - | instances of `Fcyc` for TLC: settings |
| `Bmp` | `cs1300bmp.cc` | reader and writer as functions of the bytes of a file |
| `FilterMain` | `FilterMain.cpp`, `Filter.cpp` over `Bmp` | from file to file |
| `MCFilterMain` | - | instances: image files, command lines, filters |
| `Words` | the ints of C | arithmetic on sets of bits |
| `Bits` | `bits.c`, `tests.c` | a puzzle and its reference, one operator each |
| `Btest` | `btest.c`, `decl.c` over `Bits` | the tester and its alarm |
| `MCBtest` | - | instances: calls of the program |
| `JobListProofs`, `ShellProofs`, `HeapProofs`, `MMProofs`, `MDriverProofs`, `FcycProofs`, `FilterProofs`, `BtestProofs` | - | theorems and proofs |

Operators whose comment begins with "Fault" or "Seeded fault" (`deletejob_Largest`, ...) are plausible
bugs: no specification uses them. Each property has one that TLC shows to break
it (`mutants` in `PROJECT.json`), so that every property is known to be able to
fail.

### JobTable and JobList

The array is a function from `Slot` to records. Each routine of `jobs.cc` scans
it upwards and stops at the first match; a search is written as the set that
holds the slot it stops at, empty for NULL. Command lines and messages are left
out. `addjob` and `deletejob` change `nextjid` as the code does, the wrap past
MAXJOBS and the largest ID plus one.

`JobList` adds and deletes jobs in any order, as many as `MaxLive` at a time.

### Shell

Main has a program counter `pc`; each handler has one (`hpc`), a local pid
(`hpid`) and the set of handlers it interrupted (`below`). `Signal` installs
handlers with an empty `sa_mask`: a handler blocks its own signal and no other,
so the three nest in every order, and code resumes only when everything above
it has returned (`MainAt`, `HandlerAt`).

| Action | Code (`tsh.cc`) |
|---|---|
| `TypeProgram`, `EvalBlock`, `EvalFork`, `ForkFails`, `EvalAddjob`, `EvalAddjobRefused`, `EvalUnblock` | `eval` up to, with and after `sigprocmask`, `Fork`, `addjob`, `sigprocmask` |
| `Waitfg`, `WaitfgReturns` | `waitfg`: its test, and the end of its busy loop |
| `Bgfg`, `BgfgCont`, `BgfgMark` | `do_bgfg`: look the job up, `kill`, `j->state = ...` |
| `Quit`, `Sigquit` | `quit` or end of input; `sigquit_handler` |
| `Deliver` | the kernel starts a handler |
| `ChldWaitpid`, `ChldStopped`, `ChldDelete`, `ChldReturns` | the loop of `sigchld_handler` |
| `KeyScan`, `KeyKill` | `sigint_handler`, `sigtstp_handler`: `fgpid`, `kill` |
| `ChildSetpgid`, `ChildExecve`, `ChildExecveFails` | the child's side of `eval` |
| `ChildEnds`, `ChildStops`, `ChildContinued`, `Keystroke` | programs, other processes, the terminal |

*Granularity.* A step is one routine of the job list or one system call. The
routines are not atomic in the code, so this needs an argument. `fgpid`,
`getjobpid` and `deletejob` run in `sigchld_handler`, or in main where SIGCHLD
may strike; the handlers of SIGINT and SIGTSTP only read the list, and one slot
of it decides what they answer. `addjob` runs while SIGCHLD is blocked; a
SIGINT inside it finds the new slot either not in state FG yet or complete up
to the pid (the pid is stored first). `fgpid` interrupted between reading
`state` and `pid` of one slot answers 0, or the pid of a job that a handler has
just marked or deleted: the same as running it before or after, with the kill
that follows going to a stale pid, which the model has between `KeyScan` and
`KeyKill`. What is left out is the wording of messages, which do read the list
late (see the hazards).

*Kernel.* Children run, stop, end and continue at any time. `unseen` holds
stopped children whose stop `waitpid` has not reported; `intp` those with a
SIGINT pending while stopped; `pend` holds at most one instance of each signal.
`kill(-p)` reaches a child only after its `setpgid` and until it is reaped.
A pid may be reused as soon as its zombie is reaped. These definitions are
external: they state POSIX as the code relies on it.

*Null pointer.* `ChldStopped` for a child without an entry stores through NULL:
the shell becomes `"crashed"`.

### Allocator

A heap is a record of the memory in 4-byte words, `mem_brk` and `free_listp`;
addresses are byte offsets. Every macro and routine of `mm.c` is an operator
that reads and writes those words, so that a wrong tag, a stale link or an
overrun shows as it would in C. `AdjustedSize` computes in the width of the
code, `uint32_t` and `int`; the width is the constant `WordLimit`. Two things
are coarser than the code: client data are words, not bytes, and a pair of
`PUT` of one tag is one operator.

`MM` is the client: it calls `mm_malloc`, `mm_realloc` and `mm_free` on its
blocks in any order, fills what it gets, and may start over on dirty memory
(`mem_reset_brk`, `mm_init`) as `eval_mm_valid` does between traces. Unlike
the driver it does not fill again what a `realloc` has to keep.

### Driver

`MDriver` turns the view of `MM` around: here the driver is modelled line by
line and the package is arbitrary. It may answer NULL, any address (misaligned,
outside the heap, inside another payload) and lose a byte of any block in any
call. `broke` records which promises of malloc(3) it broke in the trace at hand;
the promises are stated over sets of bytes, not with the comparisons of the
driver. The driver is deterministic apart from these answers.

| Action | Code (`mdriver.c`) |
|---|---|
| `StartValid`, `InitFails` | `read_trace`; `eval_mm_valid` up to its loop |
| `ValidAlloc`, `ValidRealloc`, `ValidFree`, `ValidFails` | one request of `eval_mm_valid`, to the next request or to `return 0` |
| `StartUtil`, `UtilAlloc`, `UtilRealloc`, `UtilFree` | `eval_mm_util` |
| `StartSpeed`, `SpeedAgain`, `SpeedRequest`, `SpeedFree`, `EndTrace` | `fsecs(eval_mm_speed)`, `free_trace` |
| `Fails`, `Summary` | `app_error`; the end of `main` |

In the second and third pass the package answers what it answered in the first
one (it is a program without input, called with the same requests on a heap that
is reset), or NULL. After `mm_init` the contents of the heap are unknown.
Traces allocate free blocks and reallocate or free allocated ones, as the trace
files do; `read_trace` does not check it.

### Timing package

One step is one call that reads a clock, or one cycle of a loop or of the
function that is timed; `Tick` may come between any two, once `MinGap` cycles
have gone since the last one, and must before `MaxGap` are exceeded. The
counter is one number (`began + elapsed`), of which a program reads two words
of `Base` values; on the Alpha the high one is always 0.

| Action | Code |
|---|---|
| `fcyc`, `Loop`, `AddSample`, `Return` | `fcyc.c` 113-170: `init_sampler`, one turn, `add_sample` with `has_converged`, the result |
| `StartTick`, `StartCounter`, `GetCounter`, `GetTicks` | `clock.c`: the halves of `start_comp_counter` and `get_comp_counter`; without compensation only the two in the middle |
| `Callibrate`, `CalStart`, `CalOldt`, `CalWaits`, `CalEvent`, `CalTicks`, `CalEnds` | `callibrate`, cut where it reads a clock |
| `Runs`, `Tick` | the function that is timed; the timer |
| `set_fcyc_*` | the setters of the same name |

The quotient `cyc_per_tick` is an integer; the code keeps it in a double, of
which only comparisons with whole numbers are used. `epsilon` is counted in parts
of `1 / EpsDen`. On a machine without a cycle counter `start_counter` ends the
program.

### Image filter

A file is a sequence of bytes and `bmp_read` a function of it, which fails where
the code finds the end of the file. The padding of `bmp_24_write` is the
character `'0'`, as in the code. `FilterMain` reads, filters and writes the
files of a command line: `ReadFails`, `cs1300bmp_readfile`, `ReadAborts` are the
three outcomes of the reader, `FilterPair` is one turn of the unrolled loop,
`NextRow` and `Filtered` end a row and the image, `cs1300bmp_writefile`,
`WriteFails`, `WriteAborts` are the outcomes of the writer. Whatever the code
does not initialise (border of the result, divisor of a filter without file) is
`Junk` and becomes one of `JunkBytes` or `JunkDivisors` when it is used.

### Puzzles and tester

A word is the set of the positions of its ones: `&`, `|`, `^`, `~` are set
operations, shifts move the elements, and addition is defined by where carries
come from. All 32 bits are there. `Btest` is a step machine: `Main` reads the
options, `NextTest`, `GenVals`, `Sigsetjmp`, `Alarm`, `Compare`, `Score` are the
lines of `run_tests` and `test_function` in their order, and `SIGALRM` may come
at any time while an alarm is set. A jump to a frame whose function has returned
is `"undefined"`. A puzzle in `hangs` never returns. `dropped` says whether the
compiler has removed `(x + x + x) / 3 != x` from the reference of `satMul3`,
which it may because the overflow is undefined; gcc does.

## 3. The runs

| Run | Shows | Bounds |
|---|---|---|
| `joblist` | with at most three jobs at a time, `pid2jid` and `getjobjid` agree (`JidNamesJob`) | 5 slots, 4 pids, `nextjid` to 9: past the wrap and past MAXJOBS |
| `joblist_four` | **fails**: with four jobs an ID is given out twice | as above |
| `shell` | `ChildAccounted`, `JobsAreChildren`, `NoLostChild`, `BackgroundSpared`, and that the shell implements `JobLifecycle` | 2 slots, 2 pids, all commands |
| `shell_full` | more children than slots: only a child that the full list refused crashes the handler | 1 slot, 2 pids |
| `shell_programs` | without `fg` and `bg`: one foreground job, every reported stop is marked; under fairness every zombie is reaped, and the prompt returns when the foreground job ends, stops or gets ctrl-c | 2 slots, 2 pids |
| `shell_two_foreground` | **fails**: two foreground jobs | 2 slots, `MaxJid` 3 |
| `mm` | tags, free list, coalescing, leaks, and `AllocSpec` | 48 bytes to grow by, blocks of 24, 32 and 56 bytes, 3 client blocks, one reset |
| `mm_long` | a free list of three; a request fails only when nothing fits | 5 minimal blocks, symmetric |
| `mdriver` | no false alarm; a lost copy is noticed; ranges are the live payloads, apart or one around the other; utilization at most one | all traces of 3 requests on 2 blocks of 1 or 4 bytes, 2 traces, 6 bytes of heap |
| `filter` | the interior is filtered as by the simple loop (`InteriorFiltered`), from file to file (`WrittenIsFiltered`); written files are whole and readable; what stops the program | 14 files of up to 6 by 4 pixels, 3 filters, up to 3 files a call |
| `timing` | exact readings, the K best, the error of a compensated time, and under fairness that `fcyc` returns | words of 16 values, up to 4 samples, 12 settings on three machines |
| `btest` | solutions against references, values in their array, alarms and limits | the values btest generates with `TEST_RANGE` 4, every puzzle alone, three in a row |

### What the failing runs show

* `joblist_four`: `deletejob` resets `nextjid` to the largest ID plus one, while
  `addjob` wraps it to 1 past MAXJOBS without looking. With four jobs the two
  rules give an ID that is in use, and `fg %n` reaches the wrong job.
* `shell_two_foreground`: `do_bgfg` holds `j` across `kill(-j->pid, SIGCONT)`.
  The job ends, the handler clears the slot, and `j->state = FG` makes an empty
  slot the first foreground job: `fgpid` answers 0 for it, so every `waitfg`
  returns at once and a second program can be started in the foreground.

### Limits the models show and no document of the repository denies

* Shell: the job is listed before the child has called `setpgid`, and until
  `execve` the child has the shell's own handlers, so that a ctrl-c right after
  the command has no effect. `InterruptReturns` speaks of the children that have
  their group and their program.
* Allocator: `MAX` takes ints; a block size of 2^31 or more is negative there and
  the request gets a minimal block. A heap of 20 MB serves no such request.
* Driver: `add_range` tests the two ends of the new payload against each older
  one. One that begins before and ends after an older one has neither end in it
  and is accepted. `OverlapsEnclose` shows that nothing else slips through.
* Timing: on the Alpha, whose high word is always 0, the borrow goes into that
  word as well, and a reading is wrong once the low word has wrapped.
* Filter: `long_int_write` makes the high half of a negative number one too
  large; an image with a negative height is stopped before its header is written.
* Tester: `get_num_val` tests `!*valp` where it means `!*endp`: an option `-1`
  after one with a value other than 0 is refused, and trailing characters
  are accepted. An alarm that is never cancelled can end the next test before
  its first case; `AlarmsAreOwn` says that this is the worst it does while the
  program runs its tests. The array for test values is one too small for a
  floating point puzzle unless `TEST_RANGE` is 4 or more (it is 500000).

### Bounds

* `Pids`: two. Every property is about one child or about two (the foreground
  job and another); pids are reused, so the number of children over time is not
  bounded by it.
* `MaxJobs`: 1 or 2 slots, so that lists fill up; 5 in `joblist`, so that IDs pass the wrap
  with a full and a nearly empty list.
* `MaxJid`: no program is started while `nextjid` is past it. It only cuts off
  IDs that grow without end.
* `MaxEvents`: keystrokes, and stops and continues of children that nobody in
  the shell caused. Ends of children, commands and signals sent by the shell are not bounded.
  Two events are enough for a stop and an interrupt, two interrupts or a stop
  and a continue. The invariants are proved without this bound.
* `MaxHeap`: `mm` has room for three minimal blocks beyond the 48 bytes of
  padding and prologue, `mm_long` for five. All combinations of free neighbours
  occur, at either end of the heap and inside it, and unlinking at both ends
  and in the middle of the free list; the heap is often full.
* `Sizes`: 1 (a minimal block), 20 (rounding), 48 (a block that can be split
  and from which a `realloc` can shrink), 0.
* `MaxResets`: 1 reuse of dirty memory. `WordLimit`: 1024, far above `MaxHeap`
  as 2^32 is above the 20 MB of `config.h`.

* `Ids`, `Sizes`, `MaxOps` of the driver: an overlap concerns two blocks; with
  sizes 1 and 4 and alignment 2 one can enclose, touch or half overlap the
  other. Three requests are enough for each request to follow each other one, and
  for removal at both ends of the list. Two traces: one that leaves ranges
  behind and one after it.
* `Pointers`, `Brks`: an address below the heap, one that is misaligned, ones
  that are inside, and one that is past the end or not, depending on `mem_brk`.

* `Base` 16 makes both words wrap: `Starts` has the counter begin at 0 and three
  cycles before its end. The exactness of readings is proved for every `Base`.
  `Cost`, `MinGap`, `MaxGap`, `MaxWork`: an interrupt may come between any two
  cycles of the function that is timed and of the calibration loop, and two may
  come in a row; the thresholds of `callibrate` are in the order the code has
  them (a tick costs more than `RECORDTHRESH`, a turn of the loop less than `THRESHOLD`).
* Images: odd and even interiors, all four widths of padding, a palette, no interior, no
  pixel, 8 and 16 bits, a negative height, and five ways to be cut short. The
  values of neighbours are far apart, so that an exchange shows. Filters: one
  with negative weights, one with a divisor that rounds, one without symmetry.
* `Randoms`: besides the boundary values, the two patterns next to the ends of the
  range in which `3 * x` does not overflow. `SomeCalls`: which tests hang is
  chosen so that a limit strikes in a row, at the last test, and after a test
  that ended in time.

### Fairness

`FairSpec` assumes weak fairness of main's steps, of the handlers' steps, of
the delivery of each signal and of a child's first steps: the scheduler runs
the shell and its children, and the kernel delivers a pending signal that is not
blocked. Nothing is assumed of programs (they need not end), of the user or of
other processes. `ForegroundEnds` holds with programs only; with `fg` a stop
that is recorded between `kill` and `j->state = FG` is overwritten and the
shell spins, which is listed as a hazard of `tsh.cc:290`.

`Fcyc` assumes weak fairness of the program (`Program`) and of the timer: the
processor goes on, and a periodic timer is not stopped by anything in the
package. Without the second the calibration would wait for ever, in the code as
in the model. Users who call `fcyc` or change settings are not fair.

`CHECK_DEADLOCK FALSE` is given where the system may really stop: `joblist`
ends when `nextjid` is past its bound and the list is empty; the driver, the
filter and the tester are programs that end; the timing package ends the
program on a machine without a cycle counter.

## 4. What is proved

All constants are arbitrary under the assumptions that the modules name
(`MaxJobsAssumption`, `ShellAssumption`, `MMHeapAssumption`, ...): any number of
slots, any set of positive pids, any size of the heap, any calls of a program,
any number of events. They are types and, where the code has them, orders of
constants; TLC evaluates them on every run. A theorem that needs more has it as
a hypothesis of its own, which is named and explained below; the instances that
the runs check meet each of them.

* `JobListProofs`: `IdsAreReliable`, if `MaxLive <= 3` then
  `Spec => []JidNamesJob`. The invariant says that IDs are unique and that
  `nextjid` is in one of three situations: the largest ID plus one (`Fresh`);
  just wrapped, with the two largest IDs still listed, so that at most one
  further job can be (`Wrapped`); or the list has one slot and it is taken
  (`Single`). Uniqueness alone is not inductive: it says nothing of the next ID.
* `ShellProofs`: `TypeCorrect` and the five safety invariants of `shell` and
  `shell_full`. `IInv` adds to them that SIGCHLD is blocked exactly from before
  `fork` until after `addjob` and its handler is idle then (`Mask`), that the
  child in the making is alive and unlisted (`Forked`), that refused children
  are alive and unlisted, and what a handler's pid names when it is used
  (`HandlerPids`). The lemmas of `Quiet` say what no signal and no death can do:
  fork or reap a child, or give it something to report without a SIGCHLD.
  `OneInForeground` and `StopsAreMarked` hold when no `fg` or `bg` is typed
  (`ProgramsOnly`); with them two jobs can be in the foreground, as
  `shell_two_foreground` shows. The invariant `PInv` says that a foreground job
  is the one eval listed and waitfg waits for (`FgWaited`), and that no stop of a
  child has been reported before it is listed (`NewStopUnseen`).
  The last part is the refinement, `ShellImplementsLifecycle`: the shell implements
  `JobLifecycle` with a child's stage computed from the list, the kernel's view
  and the history of refusals. The bound on the abstract list is a counting
  argument (`RoomIsFreeSlot`): listed pids and taken slots are in bijection.
* `HeapProofs` (`MMHeapAssumption`) says what each routine of `mm.c` does to a heap
  of any size. A heap is described by two sets of addresses that are nowhere in
  memory, the cuts `C` between its blocks and the free blocks `F` among them:
  `Frame` says that headers and footers spell out `C` and `F`, `Linked` that the
  links spell out a list of `F`, `State` that besides no two neighbours are free.
  There is one lemma per routine, from `PUT` up: which `C` and `F` it leaves, that
  it writes inside tags, links and the block it works on (`Keeps`), and so that
  the payloads of all other allocated blocks stay (`SameData` over `Held(C, F)`).
  `AdjustedSizeFits` and `LargeSizesGetMinimum` are the arithmetic of `mm_malloc`:
  below half the range of a `uint32_t`, less sixteen, a block has room for what
  was asked for; from there on it has the minimum size, whatever was asked for.
  `find_fit` walks the free list by a recursive function; that such a walk
  exists, ends and meets every free block (`Walks`) is an argument by the least
  number of steps that are left.
* `MMProofs` (also `ModerateSizes`: the sizes a client asks for are those of
  `AdjustedSizeFits`, which the heap of 20 MB in `config.h` is far below):
  `HeapInOrder` is the inductive invariant `IInv`, that some `C` and `F` describe
  the heap, and that the client's pointers are, each once, the allocated blocks, each
  with room for what was asked for and filled with what the client wrote. From it
  follow all properties of the runs `mm` and `mm_long`: `TypesHold`, `HeapTiled`
  (both walks meet exactly the cuts), `ListExact`, `NeighboursMerged`, `NothingLost`,
  `RefusedOnlyWhenFull`, and `AllocatorCorrect`, the refinement of `AllocSpec`,
  step by step. None of the six invariants is inductive by itself: tags,
  links and the client's data share one memory, and each of them is safe only
  while the others are right.

* `MDriverProofs`: whatever the package answers, `OverlapsEnclose` and
  `RangesInHeap` hold of the range list, and `ErrorsAreInvalidTraces` of the
  score. The first two are inductive together with the types of the trace and
  the list (`RInv`): adding tests the new range against all older ones
  (`AddKeepsList`), removing keeps the order (`RemoveKeepsList`), and a heap
  that grows does no harm (`HeapGrows`). The third is inductive by itself.
  Three more say what the checking pass is worth: `ListIsLive` (`RangesAreLive`),
  `AlarmsAreDeserved` (`NoFalseAlarm`) and `LossIsNoticed` (`LossNoticed`). Their
  invariant `Known` matches the list with the allocated blocks one to one, which
  needs that no two ranges start at the same byte (`StartsDiffer`, from
  `OverlapsEnclose`), and has every payload filled with its index as long as no
  promise was broken (`FillKeepsFilled`); then a payload where malloc(3) may put
  it passes all tests (`WellPlacedAccepted`), and a byte lost on the way does not
  (`LossIsTested`: no index has the low byte of the junk left behind).
  `TypesHold` (invariant `TInv`) needs two things beside the types: the ranges an
  aborted trace leaves behind are in the heap (`LeftBehind`), and a pass that
  repeats a trace finds an answer for each allocation (`Memory`).
  `UtilizationHolds` is about a sum over a set: `SumWithout` shows that
  `MapThenSumSet` may take any element first, so the sum changes by what a call
  adds or frees. The checking pass left disjoint payloads in the heap for these
  very answers (`Standing`, `Agrees`), and the sizes of disjoint payloads add up to
  the cardinality of their union (`SumIsCover`, `SumBounded`); `Counted` says that
  the pass that measures counts exactly that sum.

* `FcycProofs` (`ClockAssumption`, `FcycAssumption`): `EveryReadingExact` for
  every word size, every setting and every length of interrupts. The invariant
  `ReadingIInv` says that `cyc` holds the two words of the counter at `began`
  whenever a reading may follow; `CounterExact` is the arithmetic, that
  subtracting low words modulo `Base` and borrowing when the difference exceeds
  the minuend is subtraction modulo `Base` squared. `TypeCorrect` includes
  that the sampler never writes outside its array (`InsertType`) and that the
  buffer is as large as it is read.
  `BestAreKept` states `KBest`. Its invariant (`Ranked`) has, for all samples so far, an
  injection of the sorted places into the samples: the values are theirs, and no
  sample outside its image is smaller than the last. `InsertMoves` and `InsertRanks` follow the swaps of
  `add_sample` through it, the exchange of the last place included.
  `CompensationIsBounded` states `Compensated`, under `TimerAssumption`: the
  thresholds of `callibrate` (1000 and 3000 cycles, clock.c:208-211) are below the
  cost of an interrupt and the time between two, which the code relies on to tell one from the other; and the counter does not come round within one measurement. The
  invariant bounds `elapsed` by the work and the ticks that were noted at each place
  of a run (`RunInv`) and of a calibration (`CalInv`); what a calibration
  records is the cost of one interrupt and less than `THRESHOLD` more (`RecordedInv`).
* `FilterProofs` (`FilterAssumption`: files are sequences of bytes, filters
  that could be read are squares of ints with a divisor other than 0):
  `InteriorAlwaysFiltered` and
  `AbortsOnlyThen`, for images, filters and command lines of every size. The
  invariant `FilterInv` says that what the loops have passed is filtered
  (`PassedInv`), that images are as large as their header says, as an int and an
  unsigned long it may be (`SizeInv`, `LongRead`), and that every file has
  headers of bytes (`FilesInv`): the program may read what it has written, so
  `HeaderWritten` follows the writer field by field. `TapsInside` and
  `NextColumn` are the reason why two columns a turn are correct; the sum itself
  stays opaque there. `TypesHold` looks into it: the fold recurs on finite sets of
  taps, and its values are ints when the terms are. `WrittenFilesAreWhole` states
  `WrittenWellFormed`. It goes through the writer field by field (`FileFields`:
  which bytes `Holds` what), reads the headers back (`MadeHeader`), and shows that
  the lines of the writer, padding included, are where the reader and the format
  look for them (`PixelsAgree`); the invariant (`MadeInv`) is that every file
  written was made by `bmp_24_write` from an image of bytes (`Made`). It has two
  hypotheses: `bmp_byte_swap` (a static variable of `cs1300bmp.cc`, line 67, that
  nothing changes from true) and `ImagesFit`, that the file an image makes is
  shorter than 2^32, the field for its length in the header.
  `WrittenFilesAreFiltered` states `WrittenIsFiltered`, from file to file. It puts
  together what the reader takes from a file (`CopiedIsImage`: what the format has,
  if all of it is there), what the loops make of it (`FilterInv`; `SameReference`:
  nothing outside the image counts) and what the writer puts down (`DataCell`,
  `MadeImage`). The invariant (`PlainInv`) is that every file written is one that
  the program may go on to read, and that a divisor of 0, which only an unread
  filter has, is met at the first cell, before anything is filtered. Its hypotheses
  are `bmp_byte_swap`; `OrdinaryImages`: sides that are ints, a length of 32 bits,
  pixels that follow the palette, where the reader looks without using the offset
  in the header, and no image of lines stored from the top and no columns, the one
  with a negative height that gets as far as the writer, whose `long_int_write`
  makes another number of it; and `SmallFilters`, three by three at most, as the
  loops, which start one cell from the border, need. `MCFilterMain` assumes all
  three of its instance, so that TLC evaluates them.
* `BtestProofs` (`BtestAssumption`, `CallsAssumption`): all eleven puzzles return
  what their references return for every word; the run tries the generated
  values only. The long ones are `ezThreeFourthsAgrees` (the sign of the wrapped
  product rounds it as the quotient does), `satMul3Agrees` (sign changes after one
  and two additions are exactly the overflows), `bitParityAgrees` (each fold in
  halves keeps the parity that the reference counts) and `trueThreeFourthsAgrees`
  (the quarters and the rest are added without the digits that the exact product
  needs 34 positions for, `SameDigits`). They rest on lemmas about where carries
  come from (`CarryIsMajority`, `SumBits`).
  Of the tester all four properties of the run are proved. `AlarmsEndTheirOwn` and
  `LimitsHold` share `AlarmInv`: wherever the program is, an alarm that is set is
  that of the frame in `envbuf`; between the end of a test and the next `alarm` it
  may be the one of the test before, which then came to its end in time (`Stale`).
  Verdicts are given in the order of the tests (`VerdictsInOrder`), so that this
  is the last one. `TypesHold` needs `TEST_RANGE >= 4` (it is 500000): below, a puzzle for
  floats writes past its array. It goes through `gen_vals` loop by loop
  (`SampledType`, `FloatArrayType`, `ExhaustiveType`) and the square root that is
  looked for (`TestRange`). `FailuresAreOfStubs` combines the puzzles with the
  tester: what is compared are values of the arrays (`CombinationValues`), and
  those of `implication` are 0 and 1 (`LogicalRange`: its range is always tried
  whole). Its hypothesis `LogicalOptions` is that `-1` and `-2` give `implication`
  no other values; it has no answer for them.

Model-checked only is liveness under fairness (`ZombiesReaped`,
`ForegroundEnds`, `InterruptReturns`, `Returns`), which is out of the prover's
reach as is `ENABLED`. The library's induction theorems take
an operator as a parameter and cannot be used; induction over numbers is done
with the least counterexample instead (`Smallest`, `LeastNat`, from
`NatLessThanWellFounded`), also for what a recursive function computes (`Turns`,
`Walks`).

## 5. What is not modelled

* Shell: parsing of command lines (`helper-routines.cc`), messages and
  `listjobs`, process groups of programs that fork (`mysplit`), signals from the
  terminal to background readers, the state of the C library when a handler
  prints inside `printf`.
* Lab 6: parsing of trace files, the options of the driver, its passes over
  libc malloc and the arithmetic of its index; `mm_check` (compiled with DEBUG only);
  the clock rate (`mhz`, `ovhd`) and the division by it in `fsecs`; the timers
  under `ftimer.c`, of which the arithmetic is modelled. `mem_init` hands out
  zeroed memory, as a `malloc` of 20 MB does; the padding word before the first
  block depends on it.
* Lab 4: the cycle counts; the fixed arrays behind the images, of `MAX_DIM` (1025)
  lines and columns, which the reader does not compare with the size it reads:
  images are taken to fit; `.ipynb_checkpoints/FilterMain-checkpoint.cpp`, a
  copy of an unfinished state of the program that does not compile.
* Lab 1: `ilog2` (its solution returns a variable that is not declared, and the
  file does not compile with it); the floating point puzzles are stubs that
  return a constant and are modelled as such; the output of the tester;
  `fshow.c` and `ishow.c`, which print bit patterns; `dlc`, a binary.
* The bomb and attack labs (binaries; `farm.c` is material for an exercise, not
  a program) and the scripts that grade.

## 6. Plan

1. Done: `JobTable`, `JobList`, `Shell` with proofs and refinement; `MMHeap`,
   `MM`, `AllocSpec`, the size lemma; `MDriver` with the proofs about the range
   list and the score.
2. Done: `Clock`, `Fcyc`; `Bmp`, `FilterMain`; `Words`, `Bits`, `Btest`; their
   proofs.
   Also done: the driver's checking pass (`RangesAreLive`, `NoFalseAlarm`,
   `LossNoticed`) and the shell for programs without `fg` and `bg`.
3. Done: the heap of `MM` and its refinement of `AllocSpec`; `KBest` and
   `Compensated`; the last two puzzles and the tester.
4. Proofs: done for `TypeOK` and `UtilizationAtMostOne` of the driver and for the
   types, the written files and the way from file to file of the image filter.
5. The second process of `mysplit` in `Shell`; the options of the driver.
