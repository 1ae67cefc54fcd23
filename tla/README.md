# Formal models of bgHelper

bgHelper is a set of C++ helpers for code that is injected into Windows
processes: printing to a debugger through a second process, suspending one's own
process, watching a variable through page faults and redirecting functions with
hardware breakpoints. There is no main program and there are no tests; the parts
meet in memory that threads and processes share, and their correctness lies in
the order of single loads, stores and system calls. That is what these TLA+
modules model. TLC checks them on small instances; TLAPS proves the invariants,
the action properties and the refinements of every part that has state, for
every value of the constants.

## The system

| part | source | state | operations | interacts with |
|---|---|---|---|---|
| ring of packets | `TaskQueue.hpp` | `p_reserve`, `p_free`, `flags`, `data` | `Reserve`, commit by smart pointer (`Enqueue`), `Pick`, `Dequeue` | shared memory of two processes |
| store of strings | `ConcurrentStor.h` | `books` (free bits), `data` | `Alloc`, `Free` | shared memory of two processes |
| print client | `DbgPrintClient.*` | the static client, its section and view | `DBGr`, `print` overloads | starts the server; reserves a packet, allocates a string, commits |
| print server | `DbgPrintServer.*` | `exiting` | `Run`, `Print` | picks, prints, frees, dequeues; waits on the client process |
| suspender, parent | `ProcessSuspenderParent.*` | `tid`, `suspend` in a section | `SusPender`, `SuspendSelf`, `ResumeSelf` | starts the child, busy-waits on it |
| suspender, child | `ProcessSuspenderChild.*` | local `tid` | `Run` | suspends and resumes the parent's threads |
| variable watcher | `DbgVarWatcher.h` | `threadId`, `dataAddr`, `accessType`, `Redir`, the page's protection | `ExceptionHandler` | faults and traps of threads; suspender; callback |
| function watcher | `FunctionCallWatcher.*`, `ArchDbg.h` | `FunctionWatches`, `FunctionRedirs`, `Impl` of each `FuncRedir`, debug registers | `Set`, `Unset`, `InstallHWExec`, `UninstallHWExec`, `HWBreakPointHandler` | the processor; a debugger's use of the registers; the variable watcher's single steps |
| string helpers | `newstd.h` | none | `_my_strncpy`, `my_stricmp`, `my_lexcmp`, `_my_printp`, ... | all parts |
| lock-free queue | `LockFreeQueue.hpp` | `Bitmap`, `ptrval` | `Acquire`, `Commit`, `Front`, `Dequeue` | used by nothing |
| system wrappers | `NewApi.*`, `ApiEHWrapper.h`, `ApiWrapper.h`, `WinResMgr.h`, `ConvertSehToCxx.*`, `DllNotifier.*`, `GlobalIniter.hpp` | handles | one system call each | all parts |
| declarations | `NonExportApis/`, `UndocImplChecker.h` | none | none | |

What is hard in each, and what makes it correct:

* **Ring.** Many producers race with compare-and-swap while one consumer frees
  slots; the exchange compares an index that comes round again. Correct: the
  slots from `p_free` to `p_reserve` are exactly the ones reserved or committed,
  no slot has two owners, consumption is in order of reservation and after the
  commit, and nobody waits in `Reserve` without reason.
* **Store.** Threads race for bits, another process gives them back. Correct: a
  cell is never handed out twice and never lost; the threads do not all scan for
  ever while a cell is free.
* **Printing.** A string must stay untouched from the moment a packet names it
  until the server printed it, `Alloc` must never run dry because it cannot fail,
  and the end of the client process, at any instruction, must not lose committed
  packets or keep the server alive.
* **Suspender.** Threads are stopped one at a time while others go on, among
  them others that ask; the parent may end and a system call of the child may
  fail anywhere. Correct: after `SuspendSelf` the caller runs alone; suspends and
  resumes balance; nobody is left waiting.
* **Variable watcher.** Statics without a lock, faults of several threads.
  Correct: no access goes unreported, no update is lost between the variable and
  its copy, the handler's assertions hold.
* **Function watcher.** Tables and registers must stay in step through any order
  of sets, installs and removals and a debugger's own use of the registers, also
  when `GetThreadContext` and `SetThreadContext`, which it calls, are themselves
  watched.
* **The two watchers together.** Both handlers want `EXCEPTION_SINGLE_STEP`.
  Correct: each takes its own, in either order of registration.
* **Watching and printing together.** The callback of a watched variable prints
  while all other threads stand still, wherever they are in `print`. Correct: it
  gets through.
* **Lock-free queue.** Head and size in one word, committed bits in others.
  Correct: `size` counts, slots have one owner, elements come out in order.

## Modules

| module | models | abstracts |
|---|---|---|
| `TaskQueue` | the ring, one action per atomic access | packets are values of a set |
| `PacketFifo` | what the ring promises: a first-in first-out list whose places are taken before they are filled | |
| `ConcurrentStor` | the store, one action per atomic access; a word of `books` is the set of its set bits | contents of the cells |
| `DbgPrint` | client threads, server and the end of the client process; `TaskQueue` and `ConcurrentStor` are instances in it | a print is a value or a string, its text is its number |
| `ProcessSuspender` | the start of the child, `SuspendSelf`, `ResumeSelf`, the child's `Run`; `NtSuspendProcess` thread by thread; failing system calls | what the threads do otherwise |
| `DbgVarWatcher` | the exception handler, around an instance of `ProcessSuspender` | one variable; the address lies in it |
| `FunctionCallWatcher` | `FuncRedir`, tables and debug registers of one thread; install and uninstall split at their two system calls | bits of DR7 outside the four L, RW, LEN fields |
| `Handlers` | `DbgVarWatcher`'s handler and `FunctionCallWatcher` on one thread, invocations as a stack of frames | other threads; a `memcpy` is one instruction |
| `WatchPrint` | `DbgPrint` with `DBGr()` and with callbacks that print while the others are stopped | how they are stopped (`Exclusive` of `ProcessSuspender`) |
| `LockFreeQueue` | the queue, one action per access to `ptrval`, bitmap and array | `Flip`, which nothing calls |
| `Redirection` | what the function watcher promises: a map of what `Install` was called with, and where the call under way arrives | |
| `Newstd` | the string helpers as operators | |
| `NewstdStrings` | what the helpers promise of strings, grown a character at a time | |
| `TaskQueueProof`, `ConcurrentStorProof`, `DbgPrintProof` | theorems about the ring and that it implements `PacketFifo`, about the store, and about printing on top of both | |
| `ProcessSuspenderProof`, `DbgVarWatcherProof`, `HandlersProof`, `LockFreeQueueProof` | theorems about the suspender, the variable's handler on top of it, both handlers on one thread, and the queue | |
| `NewstdProof` | theorems about the string helpers | |
| `MCDbgPrint`, `MCDbgVarWatcher`, `MCHandlers`, `MCNewstd` | instances for TLC: symmetry sets and the bounds of inputs | |

Conventions. The local program counter of a thread is `pc`, `apc`, `tpc` or
`stage`, by component; a value is where the thread stands between two accesses,
and `UNCHANGED` is everything the statement leaves alone. Atomics have the
default sequentially consistent order. A busy wait whose round changes nothing
is a guard in `ProcessSuspender`; in the ring and the store the rounds do change
what a thread knows and are actions. Variables marked *history* are read by no
code and only by properties and bounds. Definitions marked *Mutant* are wrong
variants of the definition that follows; no specification uses them. They
document, for every property, a plausible bug that it detects.

In `DbgPrint` the state of print maps to the code line by line: `reserve` is
inside `Reserve`, `fill` after `GetPacketSlot`, `alloc` inside `Alloc`, `copy`
and `link` the two statements after it, `commit` the return. The server's `spc`
follows `Run`; `free` and `dequeue` are the order in which `Print` and `Run` give
the string and the slot back. `FillString` writes the type first and leaves the
stale union in place, as the code does. In `DbgVarWatcher` the stages `entry`
to `instr` are the access violation, `trap` to `release` the single step; the
test of `threadId` and its store are different actions.

In `FunctionCallWatcher` `op` says which of `InstallHWExec` and
`UninstallHWExec` runs and before which system call (`get`, `set`); `CallContext`
is the call, which may hit a breakpoint and end up in a redirection, and
`GetReturns` and `SetReturns` are the code up to the next call. `asked` and
`redirected` are history variables: what the running installation or removal was
called with, and, once its `SetThreadContext` returned, which class was installed
for each function; no action of the program reads them. `context` is the
copy of the registers that `SetThreadContext` writes back. In `Handlers` the
frames of `ExceptionHandler` carry the phases `before`, `copy`, `continue` of the
access violation and `after`, `copyback`, `close` of the single step; `trap` is
the pending `EXCEPTION_SINGLE_STEP` and where it comes from, which the handlers do
not look at. The page is opened and `threadId` set in one action with the fault,
since one thread alone cannot tell the order. In `WatchPrint` a client is a frame
that prints, a thread's code or a callback on top of it, and `holder` is the frame
between `SuspendSelf` and `ResumeSelf`. In `LockFreeQueue` `skewed` remembers that
a `Dequeue` was called with more than one element in the queue.

## What TLC checks

| run | instance | shows |
|---|---|---|
| `queue_ring` | 2 producers, 3 slots, up to 2 overtakes, fair | `RingLayout`, `SlotExclusive`, and `RingInv`, the invariant of the proof; the ring implements `PacketFifo`; every committed packet is consumed |
| `queue_lap` | 2 producers, 3 slots, 3 overtakes | violated: see below |
| `queue_spin` | 2 producers, fair | violated: see below |
| `stor` | 3 threads, 2 words of 2 bits, fair | no leak, no double allocation; lock freedom |
| `print_safety` | 2 threads, 4 prints, 3 slots, 4 cells | order and integrity of the output, cells accounted for, store never dry, drain at the end |
| `print_progress` | 2 frames, 3 prints, any of them a callback, fair | packets are printed, the server ends, a callback that prints gets through |
| `suspend` | 4 threads, fair | exclusivity, balance, and `SuspInv`, the invariant of the proof; requests answered, process resumed, child ends |
| `watch` | 2 accessors, 2 other threads | no unreported access, no lost update; assertions and traps fail only with two threads in the handler |
| `watch_assert` | 2 accessors | violated: see below |
| `handlers` | 1 thread, 3 functions, 2 redirections, 2 registers, debugger, 1 call from a callback, both orders of the handlers | tables match registers; implements `Redirection`; which handler takes which single step |
| `lfq` | 2 producers, 3 slots, 5 elements | `size` counts; a queue until a `Dequeue` leaves elements behind, then wedged for ever |
| `newstd` | strings of up to 2 of 6 characters, three at a time | the helpers against reference definitions |

Bounds. Three slots let the ring wrap, be empty, be full, and hold a committed
slot behind an uncommitted one. Four prints reuse slots and cells, so that stale
flags, types and indices occur. Two words make `Alloc` move on, two bits make it
choose. `MaxOvertakes` bounds how often a thread can be overtaken inside one try
of `Reserve`; `queue_ring` keeps it below the number of slots, which is the
assumption of the theorems, and `queue_lap` lifts it. In the code a lap is 512
reservations between two adjacent instructions of a preempted thread.
Suspender and watcher have no bounds but the number of threads; the fourth
thread adds a second bystander next to two askers. `MaxPrints` bounds prints in
a behaviour. `handlers` has `GetThreadContext`, `SetThreadContext` and one more
function, and fewer registers than functions, so that they run out and move; one
call from a callback (`MaxCalls`) is enough to confuse the variable's handler.
`lfq` hands out five elements (`MaxAcquires`) on three slots: the ring wraps, is
full, and is left with elements behind. Deadlock is not reported in the runs whose system may stop: the
process ends, or all prints are done.

Fairness. Consumer, server and child poll in loops without exit: weak fairness.
A producer inside `Reserve`, `Alloc` or `print` runs on: weak fairness for its
steps, never for calling, and none for winning an exchange. In `WatchPrint` a
thread with a slot may be stopped by callbacks again and again; that it finishes
its print (`Finishing`) takes strong fairness: of the time in which nobody holds
the process it gets a share, as any scheduler that runs ready threads in turn gives
it. A callback need not return. No thread is obliged
to end its process or to call `ResumeSelf`. A thread that waits to leave
`ResumeSelf` may be suspended again before it is scheduled, and again; without a
stronger scheduler its return is not guaranteed, so `ProcessIsResumed` says only
that the whole process ran meanwhile. Under competition `Reserve` and the first
loop of `SuspendSelf` can starve; no property says otherwise.

### What is not so

* `queue_lap`. The exchange in `Reserve` succeeds although a whole lap passed
  since the look at `p_free`: `p_reserve` moves onto `p_free`, a full ring reads
  as empty and slots are handed out under committed packets. `RingLayout`, the
  picture in the comment at `TaskQueue.hpp:14-18`, fails.
* `queue_spin`. When the ring looks full `Reserve` goes round without reloading
  `p_r_old`. If the index is stale and stands just before `p_free` while the ring
  is empty, the thread spins until others print again; if nobody does, for ever.
* `watch_assert`. Two threads that access a watched variable at about the same
  time fail the assertion at `DbgVarWatcher.h:22-23`: `threadId` is set before
  the others are suspended and reset after they are resumed. The same races can
  leave a single-step trap without its `threadId`, which nobody handles.
  `FailureNeedsOverlap` says that it takes two threads in the handler, and up to
  that end `watch` shows no access lost.
* Windows that the properties of passing runs exclude by name, each of which TLC
  reaches when the exclusion is dropped. `CallbackPrints`: the callback is
  still in `Reserve`, the ring is full and a stopped thread holds its oldest slot;
  or a stopped thread is constructing the client. A callback that has a slot is
  not excused: it commits behind the uncommitted slot of its own thread. `CallsKeepVariable`: with the variable's handler registered first, a
  watched function called from the callback is taken for the end of the access
  and updates are lost. `StatusIsValid`: with the functions' handler first, an
  access that jumps to a watched function fails the check of DR6.
  `OnlySelfRemovalDies`: removing the redirection of `GetThreadContext` or
  `SetThreadContext` itself ends in a breakpoint that nobody handles.
* `LockFreeQueue::Dequeue` never moves `head`: the first one called with two
  elements in the queue is the last that takes anything out (`WedgedForEver`). No
  text of the repository states the class's contract, so it is no finding.
* The child of the suspender polls `suspend` without looking at its parent and
  outlives a parent that ends in that window; `ChildEnds` leaves out a parent that
  ends while the child polls there or is about to.
* Found by reading, outside the models: `NewApi.h` declares `DbgPintfA/W` and
  `NewApi.cpp` defines `DbgPrintfA/W`; `_TlsDeleter` in `WinResMgr.h:10` wraps
  `TlsAlloc`; `my_snwprintf` asserts an assignment (`newstd.h:101`). `my_stricmp` compares signed
  characters, so one above 127 sorts before the end of a string, where
  `my_lexcmp` has the prefix first (`StricmpOrders`).

## What is proved

Every theorem is for all values of the constants that the assumption of its
module allows: `RingAssumption`, `StorAssumption`, `PrintAssumption`,
`SuspenderAssumption`, `WatcherAssumption`, `WatchAssumption` with
`HandlersAssumption`, `QueueAssumption`, `StringsAssumption`. They say that sizes and bounds are
numbers, sizes not 0, that the functions watched include the two system calls,
that characters are signed chars and no terminator, and that markers such as `NoTid` or `Null` are none of the things they mark the absence of. Three say more, each from the code:
`Words * Unit >= S` (the store has as many cells as the ring has slots, 512 in
`DbgPrintCommon.h`), at most four debug registers, and a capacity that the 16 bits
of `size` can count: with more slots `size` would wrap before the queue is full. The
template of `LockFreeQueue.hpp` does not check it.

One hypothesis is no assumption on the code but a limit of the result: `NoLap`
(`MaxOvertakes < S`), in the theorems about ring and printing that name it. It
excludes what `queue_lap` shows, a try of `Reserve` overtaken by a whole lap
between the look and the exchange, after which they are false. Between two tries
any number of laps may pass.

Each safety proof has the same form: an inductive invariant, of which the
property of the run is a part or a consequence; `Init` implies it; and a lemma per
action, or per part of the invariant, that a step keeps it.

### Ring: `TaskQueueProof`

* `TypeCorrect`: from `RingAssumption` alone.
* `RingInvariant`, `RingLayoutHolds`, `SlotExclusiveHolds`, under `NoLap`.
  `RingLayout` is not inductive: what makes the exchange safe is knowledge from
  before it. `TryIsCurrent` carries it: the slot a try aims at is counted in
  reservations from `p_reserve` (`Lead`, negative when overtaken), and while a
  thread stands before the look, and more strictly before the exchange,
  `Lead + InUse` leaves room in the ring. The consumer only lowers `InUse`; an
  overtaking reservation raises it by one and lowers `Lead` by one.
  `ConsumerKnows` does the same for the consumer between load and store.
  `WindowGrows` and `WindowShrinks` say how the window of used slots moves.
* `FifoImplemented`, under `NoLap`: `Spec => ImplementsFifo`. The k-th place of the
  list is the k-th slot in use, with its holder or its packet. The invariant adds
  `PacketsWritten` (a committed slot holds a packet: nothing is shown that was
  only reserved). Each step of the ring appends a place, fills one, looks at the
  first, removes it, or stutters; a look that fails and a test of the flag stutter.

### Store: `ConcurrentStorProof`

* `StorInvariant`, `TypeCorrect`, `BooksHold`, `NoDoubleAllocHolds`. `TypeOK` and
  `BooksMatchOwners` are inductive together: what a thread loaded may be stale, but
  an exchange that succeeds sees it unchanged, so the bit it clears is set and the
  cell is nobody's. The arithmetic is in `CellNamesBit`: word and bit name one
  cell, and `Free` finds the bit `Alloc` cleared.

### Printing: `DbgPrintProof`

Built on the two: `Ring` and `Stor` are instances of their proof modules over the
variables of `DbgPrint`, and their step lemmas are used for the steps that
`DbgPrint` takes through `Q` and `V`. All but `WatchedIsPrinting` under `NoLap`.

* `PrintInvariant`. `PrintInv` adds to `RingInv` and the store's invariant
  `PlacesMatch` (the place in `print` and in `Run` against those inside the ring
  and the store), `CellsUsed` (a cell is out exactly while one slot names it or
  one client copies into it, never two of them), `InOrder` and `StoppedLast`.
  `InOrder` is what `PrintedInOrder` needs of the present: the slots in use, counted
  from `p_free` (`Turn`), hold what comes next in the order of reservations, with
  the string intact (`WindowInOrder`), also while it is written and not yet
  committed (`ClientsWrote`), and everything before them is printed
  (`PrintedSoFar`).
* `PrintedInOrderHolds`, `CellsAccountedHolds`, `StopDrainsHolds`. That a
  string stays untouched until it is printed is in the first: `CellsUsed` keeps
  `copy` away from cells that a slot names.
* `StoreHasRoomHolds`: `Alloc` always has a free cell, counted over the clients that
  still have to ask. A cell in use and a client about to ask are each sent to a slot
  of their own (`HasSlot`); the slots in use are fewer than `S`, the cells at
  least `S`. It needs the cardinality lemmas of `FiniteSetTheorems`.
* `PartsImplemented`: a behaviour of `DbgPrint` is one of `TaskQueue` and one of
  `ConcurrentStor`, so what is proved of the parts holds in the whole.
* `PacketsAreFifo`: with `FifoImplemented` the packets of the shared section are the
  list of `PacketFifo`, wherever the clients' process ends.
* `WatchedIsPrinting`, `WatchedPrintsHold`: `WatchPrint` implements `DbgPrint`, so all
  four hold when callbacks print while the others are stopped anywhere.

### Suspender and variable: `ProcessSuspenderProof`, `DbgVarWatcherProof`

* `SuspInvariant`, `ExclusiveHolds`, `BalancedHolds`. `Exclusive` is not
  inductive; `ChildKnows` ties the place in `Run` to the asker's place and the
  two atomics, `Counts` says which threads are suspended at each place, a walk
  half done and a child that failed included.
* `WatchInvariant`, on `SuspInv`, with `TypeCorrect`, `OpenIsExclusiveHolds`,
  `CoherentHolds`, `FailureNeedsOverlapHolds`. `StagesMatch` ties the place in the
  handler to the one in the suspender; with `Exclusive` it gives `OneInside`: at most
  one thread is between opening and closing the page, and all others stand still.
  `InUseIsLatest` says which of variable and copy is current at each place.
  `LoneAccess` is the part that needs no overlap: then `threadId` names the thread
  in the handler. The first two properties hold with an overlap, the races of
  `watch_assert` included.

### Both handlers, function watcher: `HandlersProof`

* `HandlersInvariant`, `TypeCorrect`, `TablesMatchRegistersHolds`,
  `OnlySelfRemovalDiesHolds`, `StatusIsValidHolds`, `CallsKeepVariableHolds`.
  `TablesMatchRegisters` speaks of the time between two operations; the invariant
  has to follow the operation. `CallInv` does: `Phases` says for each place of
  `InstallHWExec` and `UninstallHWExec` what tables, registers and the copy in
  `context` agree on, while the two system calls may themselves be redirected
  and a debugger writes registers; `BreakpointHits` where a pending breakpoint comes
  from. `AccessOK` adds what holds in any nesting of handlers, `AccessPhases` what
  holds when the functions' handler comes first or no callback calls a
  function (`Apart`): one invocation at a time, and the status bits are those of the
  pending breakpoint.
* `RedirectionImplemented`: the function watcher implements `Redirection`, step by
  step. The map of the promise is not read from the tables: `redirected` is a history
  of the calls of `Install` and `Uninstall`, changed where they return, and `asked` the
  call that runs. `HistoryOK`, proved on top of `HandlersInv`, ties it to the code: the
  register of a function has in `FunctionRedirs` the class `Install` was called
  with, and a function without a register has none. An entry left over from an
  earlier owner of the register would break it; so does the mutant of the run.

### Lock-free queue: `LockFreeQueueProof`

* `QueueInvariant`, `SizeCountsHolds`, `QueueUntilSkewedHolds`, `WedgedHolds`.
  `Number` gives a slot the number of its element by the size alone, since `head`
  never moves; `HoldersKnow` and `CommittedHold` say who has it and that it is
  written. `HeadSettled` and `HeadBit` survive the skew and give `WedgedForEver`:
  the bit of `head` is unset, the queue is not empty, and `Acquire` hands the slot of
  `head` out in an empty queue only.

### String helpers: `NewstdProof`

* `StricmpOrdersHolds`, `LexcmpOrdersHolds`, `StrncpyTruncatesHolds`,
  `PrintpReadsBackHolds`: for any characters, strings and buffers of any length, values
  of any number of bytes. The specification only builds strings; the work is in the
  lemmas about the operators. Both comparisons rest on the first position that
  decides (`StricmpValue`, `DifferExists`, `DifferDecides`), which exists because
  a set of natural numbers that is not empty has a least one (`Least`, from
  `WellFoundedInduction`); transitivity is by the order of the three positions.
  `PrintpIsNumber` is an induction in the same form, by the least position at which
  the hexadecimal digits and the bytes read differently; `SumsExist` shows that
  way that the recursive function that reads digits is well defined.

### Model-checked only

* Liveness, which the proof system does not reach: `CommittedIsConsumed`,
  `SomeAllocReturns`, `ReservedIsPrinted`, `ServerStops`, `CallbackPrints`,
  `AskerIsServed`, `ProcessIsResumed`, `ChildEnds`.
* The three violated properties, each with TLC's behaviour.

## Not modelled

`NewApi`, the error and resource wrappers, `SehToCxxExcept`, `DllNotify`,
`GlobalIniter`: a system call each, without state of the library; that a wrapped
call throws is modelled in the component that makes it. The declarations in
`NonExportApis` and the compile-time checks. Threads created while the process is
suspended. Constructors of the static client and of the static suspender that
throw, the second inside an exception handler, where what follows is up to the
run-time library. `GetThreadContext`, `SetThreadContext` and `VirtualProtect` that
fail: the code answers with an assertion failure at once. The build with
`HWBP_SINGLE_THREAD`, whose tables are statics of a process with one thread: the
same model. The server's own failure; the destructors of the static clients, which
run when the process ends anyway (the end of the process at any instruction
covers them). `main` of `DbgPrinter.exe` and `ProcessSuspender.exe` is not in the
repository: the models start where the constructors do. `get_upper_cnt`, `Flip`,
`call_atexit`: used by nothing.

## Plan

What is modelled is complete but for the list above, and every safety property,
action property and refinement of the passing runs is proved. Worth adding if
the code goes on:

1. A constructor of the static suspender that throws inside the exception handler
   (`DbgVarWatcher.h:63`), once it is decided what the handler should do then.
2. The string formatting of `my_snwprintf`, if its assertion becomes a comparison.
3. `LockFreeQueue`, should its `Dequeue` come to move `head`: `WedgedForEver` is of the
   code as it is and would go, and `QueueUntilSkewed` should hold without its
   condition.
