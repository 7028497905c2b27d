# A verification project for pydbg

pydbg is a user-mode debugger for Windows: a Python package (`src/src/pydbg`)
over a Cython extension that calls the Win32 debug API. This directory holds
TLA+ modules that model its core, TLC configurations that model-check them, and
proofs for TLAPS. `PROJECT.json` lists every run, the source lines behind every
definition, a mutant for every property, the divergences found, and the hazards
the properties are aimed at. Source paths below are relative to
`src/src/pydbg`.

Run them in this directory: `tlc -config sw_threads.cfg MCSoftwareBreakpoint.tla`
model-checks one configuration, `tlapm BreakpointProofs.tla` checks the proofs.

## 1. The system

### Components

| Component | State | Operations | What makes it correct |
|---|---|---|---|
| Session (`core/session.py`) | one `DebugSession` shared by all: target pid/tid, handles, `breakpoints`, `bp_counter`, `pending_single_step`, `child_processes`, `foreign_handles`, module table | plain record, no locks | every component keeps its part consistent with the target |
| Event loop (`core/debugger.py`, `cython/_process.pxi`) | the event held between wait and continue | `wait_event`, `continue_event`, `run`, `run_until`, `terminate_process` | one event at a time, each continued once; the loop ends when it says it does |
| Software breakpoints (`breakpoint/software.py`) | INT3 bytes in the target, records, pending steps, hit counts, lost ids | `set_handle`, `remove`, `verify`, `handle_breakpoint_hit`, `handle_single_step` | the target runs as if nobody debugged it; every hit is reported; what reports say is true |
| Hardware breakpoints (`breakpoint/hardware.py`, `cython/_bp.pxi`) | debug registers of every thread, records | `set`, `clear`, `remove`, replication to new threads | registers agree with the records on every thread |
| Process lifecycle and handles (`core/debugger.py`) | handles of the target, its children and processes opened by pid | `create_process`, `attach`, `detach`, `open_process`, `close_process` | a handle means the process it was opened for, carries its rights and is closed |
| Children | `child_processes` | registered and marked by events | the table follows the events |
| Memory (`memory/manager.py`) | none | reads, page-wise fallback, writes with a protection change | a partial read is reported as such |
| Modules, symbols (`module/`, `symbol/`) | module table from CREATE_PROCESS and LOAD_DLL events | enumeration, `module_at`, `find_module`, `parse_loaded_dll` | the module an address belongs to |
| Window probe (`core/window_probe.py`) | none | classification of a silent target | no verdict on a target that is merely slow |
| Hooks, patches, instrumentation (`hook/`, `patch/`, `instrument/`) | bytes to restore, trampolines, import slots | install, remove | removal restores; trampolines execute what was displaced |
| Threads and tracing (`thread/`, `trace/`) | call stack of the tracer | step, suspend, contexts | calls and returns match |
| PE parser (`pe/`) | none | RVA translation, directories | translation agrees with the section table |
| Static analysis (`analysis/`) | decoded instructions, function starts, references, slot tables, gaps | sweep, scans, ranges, block graphs, value sets, receivers | what is called complete is; what is called absent is absent or a gap is named; each fact is backed by the image |
| Disassembler, dumps, LLVM backend | none of their own | layers over Capstone, DbgHelp, LLVM | — |

### How they interact

The user's program calls `Debugger`; `run()` waits for one debug event, lets the
breakpoint managers handle INT3 and single-step exceptions, calls the user's
callback while the process is stopped, and continues. The callback calls back
into the managers: it sets and removes breakpoints, reads memory, may terminate
the target. `run_until()` is a second loop of the same kind with a temporary
breakpoint, a time budget and a `finally`. `wait_event()` itself changes state
before any caller sees the event: it registers children, arms debug registers on
new threads, opens the main thread after an attach. All of them share the
session record and, through it, bytes and registers of a target that keeps
running whenever no event is held.

### What is hard in it

* The target is concurrent. Between the restore of a byte and the step that
  re-arms it the site is unguarded and other threads pass it; hits of other
  threads are queued while one event is held and delivered after the records
  they belong to have changed.
* Every operation is a sequence of system calls, each of which may fail halfway.
* Threads, process ids and handle values end and are used again while records
  keep them.
* Budgets, idle counts and drains race with the events they wait for.
* The loader maps, unmaps and links images, and pages change their protection,
  between the calls a module list or a tolerant read is put together from.
* The analysis works a list off under budgets while it grows, over code that may
  overlap, lie or lead nowhere; later questions rest on what it left undecided.
* Self-modifying targets overwrite INT3; programs have INT3s of their own.

The full list is in `PROJECT.json`, "hazards", each with its source line
and the properties that would catch it going wrong.

## 2. The modules

| Module | Models | Composition |
|---|---|---|
| `TargetProgram` | abstract: a program nobody debugs | refined by `SoftwareBreakpoint` and `CodePatching` |
| `SoftwareBreakpoint` | `breakpoint/software.py` as `run()` drives it, the target's threads and code, the queue of exceptions | `INSTANCE TargetProgram` |
| `RunUntil` | `Debugger.run_until()` and `continue_event()`'s defaults | extends `SoftwareBreakpoint`, adds debug registers' exceptions |
| `BreakpointProofs` | theorems about `SoftwareBreakpoint` and `RunUntil` | extends `RunUntil`, TLAPS |
| `HardwareBreakpoint` | `breakpoint/hardware.py` and the replication in `wait_event()` | stands alone |
| `ThreadRegisters` | abstract: the slots of one thread, each given or taken as a whole | refined by `DebugRegisters` |
| `DebugRegisters` | `_arm_thread()` and `_disarm_thread()` with `cython/_bp.pxi`: contexts, Dr7 fields, suspension | `INSTANCE ThreadRegisters` |
| `DebugRegistersProofs` | theorems about it | extends it, TLAPS |
| `EventLoop` | `wait_event()`, `run()`, `terminate_process()`, the child table | stands alone |
| `SessionHandles` | the handles of a session and what breakpoints keep of them | stands alone |
| `HardwareBreakpointProofs`, `EventLoopProofs`, `SessionHandlesProofs` | theorems about the three | extend it, TLAPS |
| `CodePatching` | inline hooks (`hook/inline.py`) and probes (`instrument/instrumenter.py`) under running threads | `INSTANCE TargetProgram` |
| `CodePatchingProofs` | theorems about it | extends it, TLAPS |
| `LoadedModules` | the module table, `module/resolver.py`, and the target's loader | base of the next three |
| `IATHooks` | `hook/iat.py` | extends `LoadedModules` |
| `SafeRead` | `read_safe_handle()` of `memory/manager.py`, call by call | extends `LoadedModules` |
| `TargetImages` | the client's questions, hooks and reads over one changing address space | composes the three |
| `TargetImagesProofs` | theorems about it | extends it, TLAPS |
| `AnalyzedImage` | an image, decoding, references, register constants (`image`, `decoder`, `refs`, `consts`) | base of the analysis |
| `FunctionTable` | function starts, pruning, extents, owners (`functions.py`) | operators over the starts |
| `StaticAnalyzer` | seeds, the sweep, tables, thunks, budgets, gaps (`engine.py`, `seeds.py`) | extends both |
| `LinearScan`, `FunctionCFG`, `ValueSets`, `Ownership` | the questions: `scan.py`, `cfg.py`, `values.py`, `owners.py` and `attribution.py` | extend `StaticAnalyzer` |
| `StaticAnalysis` | a sweep, then questions about its result; the properties | composes them |
| `StaticAnalysisProofs` | theorems about it | extends it, TLAPS |
| `MC...` | definitions the configurations need | extend the modules |

### SoftwareBreakpoint

*State.* `code[p][a]` is the byte at each instruction of each process — the
instruction's own (`insn`), what an unpacker wrote (`new`) or `int3`; `own` is what
the program put there. A thread has a location, `past` (its instruction pointer
is one byte past an executed INT3), a trap flag and the exception it waits with.
`breakpoints`, `bp_counter`, `pending_single_step`, `hits`, `lost` are the
session's and the manager's dictionaries; `event` is the thread whose event is
held; `raised` says that an exception left `run()`. `reached` and `overwritten`
are history.

*Actions.* The target: `Trap`, `Execute`, `Overwrite`, `ExitThread`,
`StartThread`. The loop, each from `wait_event()` to the end of the dispatch:
`HitBreakpoint` (count, restore, rewind, trap flag, pending entry),
`HitRestoreFails`, `HitDegraded` (the context could not be changed: INT3 written
back and `BreakpointError`), `ForeignBreakpoint`, `Rearm`, `ForeignStep`,
`Continue`. The client: `Set`, `SetFails`, `Remove`, `RemoveAll`, `VerifyAll`,
`StepRequest`, at any time, from the callback or beside the loop. An execution of
bytes the program does not mean may send a thread anywhere (`Genuine`).

*What the client may do* is a set of constants, so that each promise is checked
under the weakest discipline it needs: `Sharing` (two breakpoints at one
address), `RemoveQueued` (removing a breakpoint whose hit is queued),
`Native`, `Unpacked`, `Exits`, and `Faults`, the operations that may fail.

### RunUntil

`stage` is where the call is: `out`, `head`, `resume`, `leaving`. Outside a call
all actions of the manager are the client's; inside, only the loop of
`run_until()` handles events. Time is abstract: the budget may elapse whenever
the loop looks at the clock (`Expire`). `Cleanup` is the `finally`. An exit of
the target during a call is not modelled here.

### HardwareBreakpoint

`dr[t][s]` is the address armed in register `s` of thread `t`. `set`, `clear`
and `remove` are loops over threads and so are sequences of actions (`SetBegin`,
`ArmOne` | `ArmFails`, `RollbackSet`, `RollbackOne`, `SetDone`; `RemoveBegin`,
`ClearBegin`, `DisarmOne` | `DisarmFails`, `DisarmDone`) between which threads are
created and end. `ThreadCreated` and `ReplicationFails` are `wait_event()` on
CREATE_THREAD.

### DebugRegisters, ThreadRegisters

`HardwareBreakpoint` arms a register of a thread in one step. `DebugRegisters` is
that step as the code takes it: suspend a WOW64 thread, read its context, work out
the address register and Dr7, write the context back, resume in a `finally`, each of
them a system call that may fail, while the thread executes whenever it is not
suspended. Dr7 is a set of bit positions and `Shifted` is a shift of a C
`int` widened to 64 bits, as `_bp.pxi` writes it; a WOW64 context keeps 32 of them
(`Stored`). `Means` reads Dr7 the way the processor does, and is the refinement
mapping to `ThreadRegisters`, where slots hold breakpoints and the thread runs on.

### EventLoop

Processes go from unborn through running and exiting to gone and post one event
at a time; `held` is the process whose event is not yet continued. `Receive`,
`ReceiveStep`, `RegisterFails`, `EmptyWait` are one turn of `wait_event()`;
`CallbackReturns`, `CallbackStops` end it; `Terminate`, `Drain`, `DrainGivesUp`
are `terminate_process()`.

### SessionHandles

A handle is a number in Windows' `table`; a closed number is given out again, and
a pid is, once no open handle keeps it. Actions are the lifecycle calls, the two
events that bring handles (CREATE_PROCESS brings one of its image file, which is never
closed), and the three users of handles: `SetBreakpoint`,
`RemoveBreakpoint` and `Terminate`. `Tidy` says that the client removes
breakpoints before the handle they use is closed, detaches before it starts
another session and does not name a child that has exited.

### CodePatching

*State.* `code[a]` is what is at each instruction: the program's own, the rest of
one a jump was written over (`Torn`), or the jump of a detour. A thread is in
the program, at the entry of a hook or stub, in the trampoline's copy or after
the call of the original, and `frames` are the detours it will return through.
`made[h]` is what `Trampoline` or `InstrumentInfo` record, `region` what is
allocated in the target, `inline_hooks` and `probes` the two `_hooks` dictionaries.

*Actions.* `Execute`, `Detour`, `CallOriginal`, `HookReturns` are the target's;
an instruction that is not the program's own may lead anywhere, whether torn,
freed or a copy of one with relative operands (`Unmovable`). `SetInline`,
`SetInlineFails`, `RestoreInline`, `Install`, `InstallFails`, `RestoreProbe` are
the managers', each up to its return or exception, with the write, the
compilation and the free that may fail. `Care` is what the documentation leaves
to the client (`docs/architecture.md:201`): detours do not overlap, and no thread
is inside what a call takes away.

### LoadedModules, IATHooks, SafeRead, TargetImages

*State.* `mapped` and `listed` are the images at their bases and those the loader
has entered in its list; `unreadable` the pages a read fails on; `pending` the
event the target is frozen on. The debugger's are `recorded`
(`session.loaded_modules`, whose sizes `module_at()` overwrites in place), the last
LOAD_DLL event the client keeps, `hooks` (`IATHook._hooks`) and `reading`, the read
in progress with its cursor, data and gaps. `answer` is the last answer, forgotten
as soon as the target moves; `steady` and `touched` are what could be read
throughout and at some time.

*Actions.* The target: `Load`, `Unload`, `Link`, `LoaderReady`, `Protect`. The
client: `WaitEvent`, `EnumModules`, `ModuleAt`, `FindModule`, `ParseLoadedDll`,
`IatSet`, `IatRestore`, `IatRestoreWith`, each one call. A tolerant read is
`StartRead`, then `QueryRegion`, `ReadSpan` and `ReadPage`, one for each system
call, with the target's steps between them. An image is known by its path, by the
name in its export directory, or by none, depending on what can be asked. Slots are
those of the executable, which stays mapped.

### The static analysis

An image (`AnalyzedImage`) is a function from addresses to instructions, with
sections, data words, exports, relocations and a filler set; an instruction is its
mnemonic class, size and operands. The sweep (`StaticAnalyzer`) is a process: `Seed`,
`Sweep` takes the next queued start, `Decode` one instruction with everything it
records (references, constants, branch targets, slot tables, thunks, starts),
`StopAtDecoded`, `StopAtUndecodable`, `GiveUp` at a budget, `Finish` prunes the starts
and freezes the result. After that the questions run: `StartScan`, `ScanInsn`,
`ScanGap`, `ScanStop`; `StartCFG`, `BuildBlock`, `BlockLimit`; `AskValues`, `Widen`,
`Narrow`. Owners, ranges, containers and receivers are operators on the result.

What is abstracted: the queue is a set, so that every order of work is
explored and not only the code's; one question is asked at a time; the caches are
transparent and left out; origins of seeds, notes and names are left out; registers
have no sub-registers unless `Overlaps` says so. What is reached is a `Closure` of a
function over the addresses of the image.

## 3. What the runs check

| Run | Question | Bounds |
|---|---|---|
| `sw_threads` | are threads aligned, memory accounted for and the target's own execution unchanged, while hits, contexts, steps and verifies fail? | 2 threads (one exits and returns), 3 addresses with a native INT3, 2 breakpoints |
| `sw_processes` | is the displaced instruction in place for the callback, every hit stepped over, every loss explained? | target and child, a thread each, 2 addresses, one self-modified |
| `sw_rearmed` | is a breakpoint that is out always about to come in, and does it? | 2 threads on one site, 2 breakpoints in turn |
| `ru_calls` | does `run_until()` stop where it says, give up only when nobody came or a report still waits, remove what it set and nothing else? | 2 threads, 2 addresses, the caller's breakpoints, a hardware breakpoint elsewhere, failing sets and hits |
| `hw_threads` | do registers and records agree on every thread? | 3 threads, 2 registers, 2 breakpoints, failing arms |
| `dr_calls` | is each slot given or taken as a whole, with no effect on its neighbour or on the thread's own execution, whatever fails? | WOW64 and native, the two highest slots, 2 addresses, all conditions and lengths, 1 instruction, 1 failed resume |
| `el_loop` | is the child table true, is TimeoutError silence, does the loop end, does the drain reach the target's exit? | target and 2 children, 3 events each, 2 idle waits |
| `sh_handles` | do handles mean what the session thinks, for as long as a breakpoint uses them, and is none lost but the image files of CREATE_PROCESS events? | 2 pids, 4 handle values, each reused; 1 breakpoint; 2 masks |
| `cp_detours` | is the program's own execution unchanged while detours come and go, is nothing freed under a jump or a thread, do the originals come back, is every region accounted for? | 2 threads, 2 functions, 3 detours, failing writes, compilations and frees |
| `an_sweep` | is the closure of the sweep complete, is absence true where no gap is named and no branch left open, are constants, owners, ranges, receivers, value sets, scans and graphs what the image says, and does the analysis end? | 470 images of 6 code bytes and 2 or 3 data words, tables of up to 3 entries read up to 2, 3 configurations of seeds and budgets, 2 ranges, 4 blocks, 2 widenings or narrowings |
| `md_target` | are module answers true of the target or of what was unloaded, can every redirected slot be given back, does a tolerant read account for every byte? | 3 images (two share a base in turn), 2 loads, 6 pages, 2 changes of protection, reads of 3 lengths from 3 starts |

One run, `ru_hardware`, checks `UnreachedIsTrue` where the code does not keep it; TLC
finds the counterexample, and `findings` quotes the sentences. The caller has a
hardware breakpoint at the address. `find_breakpoint()` returns it
(`core/debugger.py:1113`), so `run_until()` sets no INT3 (`core/debugger.py:783`); the
thread that stops there reports a single step, which the loop takes for somebody else's
and continues; and in the end the call raises `TimeoutError`, "the target did not reach
'addr' within the budget" (`core/debugger.py:778`).

### Other disagreements, by changing a constant or adding a property

Each is reproduced by the named change to a passing configuration, and shows what
the condition is for.

* `NoneLeftBehind` with `Sharing = {"same"}`: two breakpoints at one address
  removed in the order of their ids leave an INT3 without a record, though
  `remove_all_breakpoints()` promises "restoring original bytes".
* `UnreachedIsTrue` without its `Overdue`: `run_until()` "answers 'did the target get
  there?' with a definite yes or no" (`core/debugger.py:751`), but the budget may run
  out (`core/debugger.py:791`) while the hit of a thread that is at the address waits in
  the queue, and `TimeoutError` says that the target did not reach it. The idle limit
  does not lose this race: an empty wait means an empty queue.
* `NothingLeaks` in `sh_handles`, which is `OnlyImagesLeak` without images: the event of
  a new process brings an open handle of its image file, `CREATE_PROCESS_DEBUG_INFO.hFile`,
  that `wait_for_debug_event()` neither reads nor closes (`cython/_process.pxi:255`),
  where for LOAD_DLL it does, since "a long session leaked one handle per DLL"
  (`cython/_process.pxi:268`). Every session and every debug child loses one handle.
* `EventsDelivered` in `hw_threads`, with `arm` faults during replication: a thread
  that cannot be armed makes `wait_event()` raise with the event held.
* `ReturnsTargetExit` in `el_loop`: a child's exit ends `run()` with the child's code.
* `OnlyTheLoaded` in `md_target`: `wait_event()` records CREATE_PROCESS and LOAD_DLL
  (`core/debugger.py:385`) and nothing removes a record on UNLOAD_DLL, so
  `enumerate()`, "Return list of loaded modules" (`module/resolver.py:105`), lists
  modules that are gone.
* `ModulesTrue` without `IsGone`: `module_at()` is documented as "Return the module
  containing 'addr', or None" (`module/resolver.py:161`), and answers from the same
  records (`module/resolver.py:174`) with the size each was last read with. For an
  address nothing is mapped at it can answer a module that was unloaded from there.
* `AbsenceIsTrue` without the condition on indirect branches: `callers_of()` is
  "incomplete in two ways, and both are answerable" by `indirect_call_sites` and
  `xref_gaps` (`analysis/model.py:279`), but what is behind an unresolved jump is not
  swept either, and `indirect_call_sites()` lists only calls (`analysis/model.py:348`);
  nor does `xref_gaps` name a table cut at its limit of entries
  (`analysis/engine.py:468`). Both are in the result, as `indirect_sites` and as
  `truncated`, for a client that looks there.
* `ConstantsTrue` without the words changed at run time: the tracker reads a slot of the
  image and takes its word for what the register holds, whether or not the section can
  be written. Forgetting what it does not recognise "never costs correctness"
  (`analysis/consts.py:10`), but a slot the target rewrites makes "a call edge to
  somewhere the program never calls".
* `OwnersTrue` says nothing of which starts are demoted. A trusted function ends at "the
  furthest byte its own instructions claim" (`analysis/functions.py:88`), but the loop
  below takes every decoded instruction up to the next trusted start for its own, also
  where control does not lead from the one to the other.
* `OnlyTheLayout` in `dr_calls`: "LEN bits at positions 18, 22, 26, 30"
  (`cython/_bp.pxi:28`), but the length of slot 3 is shifted into the sign of a C
  `int` and widened: with 4 or 8 bytes, bits 32 to 63 of the Dr7 handed to
  `SetThreadContext` are set too. `LeftRunning` does hold in `dr_calls`: only a
  failing `ResumeThread` leaves a thread suspended.
* `ReceiverOnEveryPath` in `an_sweep`: `receiver_of()` reads a line of instructions
  and does not notice that a jump leads back into it, so it names one source where
  another path brings another value. `ReceiverTrue` is the part that holds.
* `ReceiverTrue` without what `OneWayIn` says of reaching and decoding: "a hole does not
  end a straight-line run" (`analysis/owners.py:363`), so a note passes bytes over which
  control does not go, or which the budget left undecoded, and names an instruction
  before them for a place that code behind them, or no code at all, leads to.
* `AskingChangesNothing` in `an_sweep`: a scan remembers what it decodes
  (`analysis/decoder.py:124`), though "a scan used to *ask* about an image does not
  change it" (`analysis/scan.py:181`); `build_function_cfg()` does the same.
* `ConstantsTrue` with `Overlaps` non-empty: writing `al` leaves the constant of `eax`.
* `OwnersTrue` without `~Straddled`: `classify_range()` takes an instruction whole
  when its first and last byte have owners of one kind (`analysis/owners.py:217`); a
  function that starts on a byte between them is counted under that kind too.
* `FullyOwnedIsCode` in `an_sweep`: `is_fully_owned()` says "True only when every
  scanned byte is a function start or body" (`analysis/owners.py:165`), but a gap
  counts as owned (`analysis/model.py:49`).
* `HooksUndone` with `Again = TRUE`: the second hook of a slot saves the first one's
  address as the original.
* `ModulesTrue` with bases that overlap in turn: the record of an unloaded image
  answers for part of a newer one. It is also stale for an image whose header cannot
  be read, which the property excludes.
* `ReadAccounts` without `start % PageSize = 0` in its last part: from inside a
  page, `_read_span()` reads across two, and a failure on the first loses the second.

* `ZeroHitsNeverReached` with `Sharing = {"same"}`: only the first of two
  records at one address is ever counted.
* `CallbackSeesOriginal` with `Sharing = {"other"}`: `find()` ignores the
  process; a hit in a child is handled with the target's record.
* `LostMeansOverwritten`: `verify_breakpoints()` called while a breakpoint is
  out for a step reports it as lost.
* `DisarmedOnlyWhileStepping` with `Exits = {t2}`: a thread that exits with its
  step pending leaves the breakpoint out for good. `run_until()` that reuses
  such a breakpoint misses its address.
* `NoMidInstruction` with `RemoveQueued = TRUE`: the hit of a removed breakpoint is
  taken for a foreign INT3, and the thread continues inside the instruction.
* "Every thread that passes a breakpoint is reported" is not stated, because it is false
  of two threads in one process: the second passes unreported while the first steps over
  the site. Nothing in the code or its documentation speaks of this window. What is
  stated is that it closes (`Rearmed`), that it is open only while a step is due
  (`DisarmedOnlyWhileStepping`), and that nobody slips past `run_until()` by any other
  way (`UnreachedIsTrue`).
* `StepsOver` with two threads on one site: each step that is due can be
  overtaken by the other thread's hit for ever; with `Native` addresses as
  `Sites`, the restored byte is an INT3 itself.
* `NoMidInstruction` in `RunUntil`: the budget elapses while a hit of the
  temporary breakpoint is queued, and the `finally` removes the record.
* `NoStrayRegister` with `Faults = {"arm", "disarm"}`: the rollback ignores what
  fails in it. With `Concurrent = TRUE` a thread created during `set()` is missed.
* `SetFailsForCause` after the main thread ended: the enumeration adds it back.
* `ClearedStaysClear`: replication arms a slot that `clear()` disabled.
* `DrainedToTheEnd`, `ChildTableTrue` with `Terminates = "any"`: the drain stops
  at any process's exit and drops the children's events.
* `HandlesTrue`, `BreakpointsReached` and `OnlyImagesLeak` with `Tidy = FALSE`:
  `attach()` to a process that refuses full access keeps the handle of the
  process debugged before, and every later write goes there; a second session
  drops the first one's handles without closing them. `Tidy` also keeps the
  client from naming a child that has exited, whose handles stay in the table
  after Windows closed them.
* `Transparent` with `Care` lacking `"apart"`: two detours over the same bytes,
  restored in the order they were set, bring a dead jump back. Lacking `"drained"`:
  a thread between the overwritten instructions executes the middle of the jump.
  With an `Unmovable` instruction in a cover: the copy does something else, as
  `docs/architecture.md:196` admits. With `"torn"` in `Faults`: a write that stops
  halfway leaves no instruction at all.
* `NothingFreedInUse` with `Care` lacking either: the trampoline is freed under a
  thread in it or a frame that returns to it. Suspending the target's threads does not help;
  they have to be outside.
* `NothingLeaks` in `cp_detours` without `excused`: `InlineHook.set()` that fails after the
  allocation keeps the trampoline; `Instrumenter.install()` frees it.
* `ReadsAllowed`, with any mask that lacks reading: a handle cached with it
  answers a later request for reading.

### Why the bounds are enough, and what they leave out

Two threads suffice for every interference between a step and another thread;
a third only repeats it. Two breakpoints give every pair: same site in
turn, two sites, one removed while the other is stepped. Three hardware threads
are one that is armed, one that appears during the call and one that ends. In
`el_loop` two children give a parent, a child and a second event source that can
overtake it. In `sh_handles` four values let two handles be closed and both
numbers be given out again while the others are in use. In `cp_detours` two
functions of two instructions, one called before the other, give a thread behind a jump, in a
trampoline and between two detours; the third detour is a site used again. Hit counters saturate
(`HitCap`): properties tell zero from more. In `md_target` the executable ends
where a DLL begins, two DLLs take turns at one base, and reads begin and end inside
pages; `NothingAskedYet` lets reads begin only before the client's tables have
changed, which a read does not look at. In `an_sweep` six bytes hold a call, a
conditional jump, an overlap, a table of two slots and a return in every combination
the sets of `MCStaticAnalysis` list. In `dr_calls` slots 2 and 3 are neighbours, and
3 is the one whose fields reach bit 31; one instruction is enough to be set back by. Counters of ids (`MaxBps`), calls
(`MaxCalls`) and events (`MaxEvents`) are capped by guards.

`DrainLimit` is 50 in the code and 2 in `el_loop`: what matters is whether the
limit is reached. `ru_calls` has no unpacked addresses and no exiting threads;
their actions are exercised by the breakpoint runs, and with them `run_until()`
inherits the divergences above. `IInv`, `Transparent` and the other properties of
`sw_threads` are checked without failing `Set` and `Remove`, which leave an INT3
without a record on the code's error path; `sw_rearmed` and `ru_calls` let them
fail.

### Fairness

`SoftwareBreakpoint!Fairness`: Windows schedules every thread that can run
and delivers every queued event; a thread that other threads' events stop again
and again still runs now and then, hence strong fairness for `Trap`/`Execute` and
for each thread's delivery; the callback returns, hence weak fairness of
`Continue`. Nothing forces the client or the target to do anything else.
`EventLoop!Fairness`: waits return (they have a time limit), the callback returns;
nothing is assumed of the debuggees, which may go silent for ever.
The other modules check safety only.

`StaticAnalyzer!` fairness: the analysis, one Python call, keeps running until it
is done; nothing is assumed of the questions.

`el_loop`, `an_sweep` and `md_target` set
`CHECK_DEADLOCK FALSE`: when every process is gone, every question asked, or every
bounded change of the target used up, the system has stopped.

## 4. What is proved

`BreakpointProofs` proves about `SoftwareBreakpoint`, for any threads, processes, program and client
allowed by the constants:

| Theorem | Says | Assumes |
|---|---|---|
| `TypeCorrect` | `[]TypeOK` | nothing beyond the named ASSUMEs |
| `Accounts` | `[]IInv` | `Disciplined` |
| `ThreadsStayAligned` | `[]NoMidInstruction` | `Disciplined` |
| `ReportIsTrue` | `[]ZeroHitsNeverReached` | `Disciplined` |
| `NoStaleInt3` | `[]NoneLeftBehind` | `Disciplined` |
| `BreakpointsAreTransparent` | refinement of `TargetProgram` | `Disciplined` |
| `NoneForgotten` | `[]DisarmedOnlyWhileStepping` | one breakpoint per address, no self-modifying code, no thread exits |
| `ReportsExplainThemselves` | `LostIsExplained` | one breakpoint per address, no thread exits, hits, contexts, steps and verifies succeed |
| `CallbackIsTrue` | `CallbackSeesOriginal` | `Careful` |

`Disciplined` is what the divergences above force: one breakpoint per
address, none on the program's own INT3, no self-modifying code, no removal
behind the back of a queued hit, no failing write in `set_breakpoint()` and
`remove_breakpoint()`. Hits, steps, contexts and verifies may fail. `Careful` is
`Disciplined` without the ban on self-modifying code.

*The argument.* `NoMidInstruction` is not inductive: that a queued trap will be
rewound depends on a record being there, and that the record's byte is the right
one depends on how it was read. `IInv` adds exactly that: the program is
unchanged; an address has one record; a pending step agrees with its record if
that still exists (a removed one may be set again under a new id); a thread past
an INT3 is accounted for by a record, by the program's own INT3, or is the one
whose failure made `run()` raise; memory differs from the program only by
recorded INT3s; a record's original is the program's byte; and a record with no
hits is armed and unreached. `Accounts` shows it inductive, action by action;
the safety theorems follow from it by propositional steps, and the refinement
from `NoMidInstruction` with memory accounted for: a running thread either traps
(a stutter) or executes its own instruction.

`NoneForgotten` needs none of that. `Slots` says that an address has one record and
a pending step agrees with its record; with it `Stepping`: a thread with a pending
step stands on the site with its trap flag set or has just reported the step, and
a record without its INT3 has such a thread, or was overwritten. Any system
call may fail: where one leaves a breakpoint out for good, `run()` has raised. A
thread that exits takes its step along, and two breakpoints at one address take
each other's INT3 out, so both assumptions stay. `ReportsExplainThemselves` is
read off the same invariant.

`CallbackIsTrue` is about targets that unpack themselves, where memory is no longer
the program's and `IInv` is lost. What is left is `Attributed`: an INT3 is the
program's or has a record; where nothing is unpacked memory is the program's or
INT3; a record's original is what memory held when it was set; a thread past an INT3
still finds a record of its own process there (`HitsAnswered`), as removals
behind its back are excluded.

`CodePatchingProofs` proves, for any program, sites, threads and number of detours:

| Theorem | Says | Assumes |
|---|---|---|
| `TypeCorrect` | `[]TypeOK` | nothing beyond the named ASSUMEs |
| `Accounts` | `[]IInv` | its `Disciplined` |
| `FreedWhenUnused` | `[]NothingFreedInUse` | its `Disciplined` |
| `OriginalsReturn` | `[]OriginalsBack` | its `Disciplined` |
| `RegionsAccounted` | `[]NothingLeaks` | its `Disciplined` |
| `DetoursAreTransparent` | refinement of `TargetProgram` | its `Disciplined` |

`Disciplined` there is: detours apart and threads outside what a call takes away,
no write that stops halfway, no relative operands under a jump, and sites that
are entered at their start only. Writes, compilations and frees may fail.

*The argument.* That a freed trampoline is unused depends on which threads are in it,
and that their instructions are the program's depends on what was saved
when the jump was written. `IInv` says that records are of different,
disjoint sites (`RecordsApart`), that a record has its memory, the program's
bytes and its jump as a whole or not at all (`RecordsTrue`), that whatever is not
the program's in the code belongs to a record (`CodeRecorded`), and that threads
are in recorded detours only and never behind a jump (`ThreadsPlaced`). The lemmas
follow the life of a detour: `ComesIn`, `StaysOut`, `GoesOut`, each used for
inline hooks and probes alike; `NeverBehind` is what the target's own steps need:
a torn instruction follows only one that is in its copy, which goes on there.

`TargetImagesProofs` proves about `TargetImages`, for any images that
fill pages, any requests and any steps of the target:

| Theorem | Says | Assumes |
|---|---|---|
| `EveryByteAccounted` | `[]ReadAccounts` | the named ASSUMEs |
| `HooksCanBeUndone` | `[]HooksUndone` | `Again = FALSE` |
| `ModuleAnswersAreTrue` | `[]ModulesTrue` | `BasesApart` |

*The argument.* `EveryByteAccounted` is about memory that changes between any two
system calls. Its invariant says that data and gaps tile what the cursor has
passed, that from a page on every resumption is on a page (`KeptSoFar`), and that what was
readable throughout is readable now (`Witness`). The lemmas say what a call to Windows
gives: a region reaches past the address asked about, ends on a page and is of one
kind (`RegionEnds`); a partial read transfers a prefix and stops at the first address
that cannot be read (`TransfersPrefix`); a page is readable as a whole
(`PageUniform`). `HooksCanBeUndone` is inductive with the types of the two tables:
the executable goes by one name, so a function has one record.

`ModuleAnswersAreTrue` rests on `TableInv`: what the loader has mapped, linked and
announced agree; images mapped at one time do not overlap; a record is of a base
an image can be mapped at, with the size of an image that is mapped there, or was, or with none; the event held
names an image that is mapped where it says, or unmapped; an announced image has a record. Records outlive their
images, so an answer is right only as long as no image is mapped across the
former place of another: that is `BasesApart`. Two images may share a base, as the
record is then replaced. An address that no announced image holds may still be answered
from a record: then the module was there, and no header can be read where it was
(`IsGone`), for a header that can be read replaces the size (`SizedTrue`, `AtFound`).

`BreakpointProofs` about `RunUntil`, `EventLoopProofs`, `HardwareBreakpointProofs`,
`DebugRegistersProofs` and `SessionHandlesProofs` prove, for any values of the constants that satisfy the ASSUMEs:

| Theorem | Says | Assumes |
|---|---|---|
| `OnlyItsOwnIsRemoved` | `LeavesBreakpointsAlone` | the named ASSUMEs |
| `LeftPausedAtGoal` | `PausedAtGoal` | `Sharing = {}`, `Procs = {Target}` |
| `GivesUpOnlyIfNotReached` | `UnreachedIsTrue` | `Sharing = {}`, `Procs = {Target}`, no thread exits, a goal neither overwritten nor on a hardware breakpoint |
| `LoopAccounts` | `[]LoopInv`: counters, held events and phases agree | the named ASSUMEs |
| `TimeoutIsTrue` | `[]TimeoutMeansQuiet` | the named ASSUMEs |
| `ChildrenAreListed` | `[]ChildTableTrue` | `Terminates # "any"` |
| `ExitIsDrained` | `DrainedToTheEnd` | `Terminates # "any"` |
| `RecordsAccounts` | `[]RecordsInv`: records and the call under way agree | the named ASSUMEs |
| `OneRecordPerSlot` | `[]SlotsUnique` | the named ASSUMEs |
| `ArmedForARecord` | `[]NoStrayRegister` | `Concurrent = FALSE`, disarming does not fail |
| `ThreadsAreArmed` | `[]ArmedEverywhere` | `Concurrent = FALSE` |
| `RegistersAreSlots` | refinement of `ThreadRegisters` | `Slots` within 0..3 |
| `CallsLeaveItRunning` | `[]LeftRunning`: a thread is suspended between calls only if resuming failed | the same |
| `HandlesAreTrue` | `[]HandlesTrue` | `Tidy` |
| `BreakpointsStayReached` | `[]BreakpointsReached` | `Tidy` |
| `OnlyImageHandlesAreLost` | `[]OnlyImagesLeak` | `Tidy` |

`Terminates`, `Concurrent`, the failing disarm and `Tidy` are divergences of section 3
seen from the other side: where they are dropped, TLC has the counterexample. One
process and one breakpoint per address are what keeps `At` of the goal a single record.

*The arguments.* `run_until()`: while a call is under way the records are those of the
caller and the temporary one (`CallTrue`), since the steps of the target and of the
loop leave records alone. That the goal is still as it was left when the call
returns (`HeldAtGoal`) holds because the event of the hit is held: no thread of the
process runs, and whatever becomes of the removal, the byte at the goal is the
record's original. `GivesUpOnlyIfNotReached` carries `Slots` and `Stepping` through the
call and adds `Watched`: from the moment the temporary breakpoint is in, a record
stands at the goal and its INT3 is in place unless a thread that was there when the call
began steps off it, so the first to arrive is caught (`NobodyPasses`) or slips past in
that window. A thread that traps keeps its report in the queue until the loop receives
it, which ends the call. A hit on a
hardware breakpoint at the goal ends a round of the loop as a foreign event, an
unpacker takes the INT3 away, and a thread that exits during its step leaves it out:
each makes the statement false, and is excluded by name.

The event loop: where `run()` stands tells whether an event is held and that the
count of idle waits is the count of quiet ones (`StageTrue`); a process has the events
its phase allows (`PhaseTrue`). A child's entry is right as soon as its event is handed
out and until it is gone (`ChildTrue`), which needs that no drain passes it by: the
drain continues whatever it receives without the bookkeeping of `wait_event()`
for other processes, so it must not start while a child lives (`DrainTrue`).

Hardware breakpoints: an armed register is answered for by a record or by the call
under way (`Covered`): `set()` counts the threads it has armed, a rollback those it
has yet to disarm, and `remove()` leaves the threads behind it disarmed (`DisarmTrue`)
because no event re-arms one meanwhile. In the other direction a process-wide record
is armed on every thread whose creation was handled, except for the record in the
hand of `clear()` or `remove()` (`SpreadInv`).

Their registers: the lemmas are about bits. What a code means is a matter of its two
bits (`CodesTell`); a bit of Dr7 after `set_hw_breakpoint()` is one of the new field's
inside it and the old one outside (`ArmedBits`), so that the slot reads as it was given
(`ArmGives`), is empty after a clear (`DisarmTakes`) and the other slots read as before.
`Inv` adds what the call holds between its system calls: the context in hand is the
thread's as long as it is suspended (`Held`), so writing it back whole moves nothing.

Handles: every open handle but those of image files has an owner (`Owned`): the session's two, a
process opened by pid, or a child Windows still tracks; and the handle of a process opened by pid is not
that of the target or of a child even where the process is the same (`ForeignTrue`), so
that closing one leaves the other. `Tidy` supplies the rest: a handle is closed only
when no breakpoint goes through it.

`StaticAnalysisProofs` proves about `StaticAnalysis`, for any images, configurations,
budgets and order of work:

| Theorem | Says | Assumes |
|---|---|---|
| `NothingNamedIsForgotten` | `[]SweepClosed` | the named ASSUMEs |
| `AbsenceCanBeReliedOn` | `[]AbsenceIsTrue` | the named ASSUMEs |
| `ConstantsAreTheImages` | `[]ConstantsTrue` | `Separate`: no two registers overlap |
| `CompleteGraphsAre` | `[]GraphTrue` | the named ASSUMEs |
| `ScansAccount` | `[]ScanTells` | the named ASSUMEs |
| `DecidedIsSo` | `[]ValuesSound` | the named ASSUMEs |
| `EveryByteIsAccounted` | `[]CoverageAccounted` | the named ASSUMEs |
| `OwnersAreTold` | `[]OwnersTrue` | the named ASSUMEs |
| `ReceiversAreTold` | `[]ReceiverTrue` | the named ASSUMEs |

The ASSUMEs say what an image is: finitely many sections of at least one byte,
instructions of at least one byte that end inside the image (one that runs past it is
decoded and not remembered, `decoder.py:124`, and is left out) and whose operands name
finitely many registers, immediates with numbers for values or memory, two of them in a
`mov`, `lea`, `add` or `cmp`. Scanned ranges are RVAs, and a value set a client supplies
is one the constructors of `values.py` make: values and bounds are numbers, and what
decides leaves no writer unmodelled. `Separate` is the divergence of section 3 about
`al` and `eax`.

*The argument.* `SweepInv` follows an address through the sweep: what was queued is
still pending, under the cursor, decoded or reported as undecodable; a start or seed was
queued or decoded; and a decoded instruction goes on to an address of that kind and
leads only to queued ones (`Followed`). A sweep that stops at a budget loses this, and
has set `budget_exhausted`. When the queue is empty and no sweep under way, it is
`SweepClosed`. `Indexed` adds that what is reported undecodable does not decode and that
the index has the references of every decoded instruction. What was swept is then
closed under control flow, and control that starts at a seed cannot leave it
(`SweptIsReached`). For an indirect branch this takes `Reading`: whatever a table that
was read, or the slot of a jump or call, has for an address was queued; and a table with
fewer slots than the limit was read to its end (`RunIsRead`), so a branch that is
`Settled` leads only to what was queued (`SettledIsQueued`). It also needs `ClosureIsLeast`: the rounds `Closure` makes, as many as
there are elements that lead anywhere, are enough (`RoundsSuffice`). It is proved by
induction for a set of numbers (`Induction`), as the library's own theorem takes an
operator. `ConstantsAreTheImages` compares the tracker with a processor (`actual`): what
an instruction is known to leave is among what it may leave (`ConstantIsTrue`), and an
instruction that is not understood clears everything. A load may bring the image's word or
one written at run time; `actual` marks what depends on the second, and the theorem is
about everything else.

The questions have an invariant each. A graph (`GraphShape`): every block built is a
straight line from its start, its last instruction leads just where its edges do, every
target of an edge is built or pending, and `complete` says whether an edge so far is
unknown. With nothing pending the instructions shown are closed under control flow, and
hold all that is reached (`GraphIsClosed`). That blocks are straight lines rests on an
induction along a decreasing bound (`DescentInduction`), as a block is built from its end.
A scan (`ScanShape`): what it decoded and its gaps divide the bytes up to where it stands,
and up to the first gap it decoded just what its start leads to; behind a resync nothing
follows from the start any more (`UnprovenIsBehind`, `WarnedAreLost`). The sizes are added
up by a fold of the community modules, which `FoldExists` and `TotalAdds` give the
equations of a sum for any finite set. The values of an address (`Sound`): a set that
decides has no writer unmodelled and admits all that is possible, and joining
(`WidenSound`), a fold of joins (`JoinIsSound`) and narrowing by guards (`NarrowSound`) keep
that; what the decoder knows decodes (`Known`), so that the writers are finitely many.

Coverage (`CoverInv`): a claim is the size of what decodes there and adds its bytes to
`covered` or to the overlap. The uncovered runs of a section lie apart and fill what is
open (`RunsFillTheOpen`), stretches apart have as many bytes as their lengths add up to
(`StretchesCount`), and each run has one cause (`CausesAddUp`). Owners: a function ends
behind all that is claimed for it, or where the next one starts (`ExtentsEnd`), so the
kinds of two bytes of one instruction differ only at a start, at the end of a function
or where nothing is mapped, and without such a place inside it a chunk with equal ends is
of one kind (`ChunkIsOfOneKind`); that the chunks cut up what was scanned (`ChunksTile`)
is again an induction along a decreasing bound.

Receivers: with one way in, no two instructions on the way up to the access overlap, so
each has one before it (`OneWay`) and the decoded line, holes skipped, is that way
(`LineIsTheWay`). The facts are folded along it (`FactsAreFolded`), and an instruction
either gives a register its value or passes on what one register held before
(`NoteOf`), just as the origins of a register are unfolded backwards (`OriginsStep`): by
induction over the line every determined fact names the one origin there is.

*Only model-checked:* liveness (`Rearmed`, `StepsOver`, `RunEnds`, `AnalysisEnds`), which
is out of the prover's reach. The type invariants and
the inductive invariants are checked by the same configurations with the invariant
added; what is proved of them needs no run.

## 5. Plan

Built, in this order: software breakpoints with the abstract program; `run_until()`;
hardware breakpoints and their registers; the event loop; process handles; inline hooks and
probes; the module table, IAT hooks and tolerant reads; the static analysis, with proofs
about the sweep and every question.

Next, most important first:

1. `WindowProbe`, thread handles and the call tree.
2. Access records and names of the analysis; RVA translation of the PE parser.

The set of runs stays at about a dozen: new passing runs take the place of
divergence runs whose finding is settled, and pure algorithms share one.

## 6. Not modelled, and why

* Window probe, call tree, thread handles: planned, section 5.
* Symbol resolution: one call to DbgHelp each; its `_initialized` flag guards them.
* The PE parser: a reader of a file format; its results are an input of the analysis.
* Of the analysis: access records, names, the report, the workspace and its
  queries by name, and the caches, which do not change answers.
* Module answers for processes other than the session's target, which take the same
  path with another table.
* The LLVM backend, Capstone, DbgHelp, minidumps: the work is done by the library
  underneath; the layers hold no state of their own.
* Register contexts beyond the instruction pointer and the trap flag, instruction
  lengths, WOW64 layouts: data no property here tells apart.
* Dr6, which only a client reads; names, messages, logging.
* The payload compiler (`instrument/codegen.py`) and the assembler: Keystone's and
  LLVM's work; here a call that succeeds or fails.
* Timings: a wait may return with nothing whenever no event is queued.
* Demo, scripts and tests are not part of the library.
