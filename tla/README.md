# Verification of the concurrent and re-entrant parts of PHP 5.6.40

TLA+ specifications, TLC models and TLAPS proofs for the PHP source tree in
`src/php-5.6.40-src`. PHP is mostly a sequential interpreter. The parts that
are hard to test are the ones where control arrives from the side: a second
thread, a signal handler, a destructor in the middle of a collection, a child
process that ends while its master is doing something else, a process that
empties a cache others are reading. This project models
those parts, one module per component.

Paths below are relative to `src/php-5.6.40-src`.

## 1. Inventory

| Component | Source | State | Operations | Hard behaviours | Status |
|---|---|---|---|---|---|
| Thread-safe hash table | `Zend/zend_ts_hash.c` | two mutexes, a reader counter, the wrapped table | init, destroy, clean, reads, writes, copy, merge, compare | readers hand `mx_writer` from the first to the last of them; `clean` resets the counter without a lock; two tables locked at once | modelled, proved |
| Deferred signals | `Zend/zend_signal.c`, `.h`, `zend_timeout` | depth, blocked, running, active, queue, free entries, handler table, signal mask | block, unblock, defer, handle, activate, deactivate, sigaction | a handler between any two instructions; longjmp out of a handler; bounded queue | modelled, proved |
| Reference counting and cycle collector | `Zend/zend_gc.c`, `.h`, `zend_execute.h`, `zend_objects_API.c`, `zend_objects.c` | counts, colours, root buffer, garbage list, object buckets | zval_ptr_dtor, possible root, mark, scan, restore, collect, destruct, destroy, free | destructors inside collections, collections inside destructors and inside zval_ptr_dtor, full buffer, resurrection | modelled in part |
| FPM master and children | `sapi/fpm/fpm/fpm_process_ctl.c`, `fpm_children.c`, `fpm_events.c`, `fpm_signals.c`, `fpm_scoreboard.c`, `fpm_request.c` | master state, timers, signal pipe, lists of children, scoreboard slots, children's own state, listen backlog | start, fork, bury, stop, reload, maintain, accept event, timeout, exec; in a child init, accept, finish, quit | SIGCHLD coalescing, signals to a child that is starting, fork failure, stale idle stage, edge-triggered events | modelled in part, proved |
| FPM scoreboard locks, status, slow log, configuration | `sapi/fpm/fpm/*` | spin locks, counters, ptrace state | acquire, update, stop and trace a child | lock holder killed | planned / not modelled |
| Opcode cache | `ext/opcache/ZendAccelerator.c`, `zend_shared_alloc.c`, `zend_accelerator_hash.c`, `zend_accelerator_module.c` | shared memory, three file locks, restart flags, table of scripts, per process the scripts in use | start and end of a request, resolve, look up, validate, compile, store, invalidate, reset, restart | restart while others read, flags tested before a lock is taken, file saved while it is compiled, process killed at any step, request that never ends | modelled in part, proved |
| APC | `ext/apc` | shared cache, reference counts, pending garbage | insert, find, release, expunge | entry removed while in use | planned |
| Output layer | `main/output.c` | stack of handlers with flags | start, write, flush, clean, end | a handler that calls the layer | planned |
| TSRM | `TSRM/TSRM.c` | id tables per thread | allocate id, fetch, free | ids allocated while threads run | planned |
| Generators | `Zend/zend_generators.c` | current frame, flags | resume, send, throw, close | closing a generator that runs, `finally` | planned |
| Hash table, memory manager | `Zend/zend_hash.c`, `zend_alloc.c` | buckets, free lists | insert, delete, apply | deletion while iterating | planned |
| Sessions, streams | `ext/session`, `main/streams` | status, reference counts | open, write, close | save handler fails half way | planned |
| Compiler, VM, other SAPIs, all other extensions, `deps` | `Zend`, `ext`, `sapi`, `win32` | – | – | sequential, or client code of outside libraries | not modelled |

Interactions: a request starts and ends deferred signals (`zend_signal_activate`,
`_deactivate`); allocator and hash table operations are its critical sections;
`zval_ptr_dtor` feeds the root buffer and may start a collection; the collector
calls destructors through the object store. FPM children run requests and
talk to the master by exit status, by slots in shared memory and by nothing
else; the master talks to them by signals. Processes that share an opcode cache
meet only in its shared memory and its lock file. In a thread-safe build, the
thread-safe hash table is shared by all threads (`ext/com_dotnet` uses it).

`PROJECT.json` lists the hazards of each component at the line where they bite.

## 2. Modules

| Module | What it is |
|---|---|
| `TsHash` | `zend_ts_hash.c`, one step per lock, counter access and table access |
| `RWTable` | abstract: a table with a reader-writer lock |
| `TsHashRefinement` | `TsHash` implements `RWTable` |
| `TsHashProofs` | theorems about `TsHash` |
| `TsHashRefinementProofs` | the refinement proved, and that freed mutexes are free |
| `ZendSignal` | `zend_signal.c` and the program it interrupts |
| `ZendSignalProofs` | theorems about `ZendSignal` |
| `ZendGC` | reference counting, object store, cycle collector |
| `FpmMaster` | FPM master, children, scoreboard slots |
| `FpmMasterInvariant` | its inductive invariant; what a fork and an unlink do to lists and slots |
| `FpmMasterHandlers` | starting, forking, burying, reloading and stopping keep it |
| `FpmMasterProofs` | maintenance, connections and children keep it, and the theorems |
| `ZendAccelerator` | opcode cache: file locks, table, shared memory, restarts |
| `ZendAcceleratorInvariant` | its inductive invariant; requests, restarts, lookup, compilation and storing keep it |
| `ZendAcceleratorProofs` | invalidation and edits keep it, and the theorems |
| `MCTsHash`, `MCZendSignal`, `MCZendGC`, `MCFpmMaster`, `MCZendAccelerator` | constants for TLC |

Definitions marked "Mutant" are faulty variants of the definition that follows
them; each property is known to fail with one of them.

### TsHash

`reader`, `mx_reader`, `mx_writer` are the fields of `TsHashTable`; `hash` is
the wrapped table as a set of keys; `todo[t]` holds the calls the API function of
thread `t` has still to make, so each API function is a short program
(`ReadProgram` … `CompareProgram`), and `role[h][t]` is `t`'s place inside
`begin_read`/`end_read`/`begin_write`/`end_write`. The counter is a `zend_uint`
(`UintMod`). `tsrm_mutex` is outside the file: a binary semaphore any thread may
release, since the last reader releases what the first one locked. `Reset` is
`ht->reader = 0` of `zend_ts_hash_clean`, a data race with `++`/`--`; either
outcome is allowed. Tables are created and destroyed while no thread is in a call,
as the callers do at module startup and shutdown.

### ZendSignal

The variables of `zend_signal_globals` keep their names; the list `phead` is a
sequence, `pavail` a number. `frames` are the active invocations of
`zend_signal_handler_defer`, with the rest of the list each has taken. Signals
may be delivered between any two steps unless masked. `zend_timeout` and fatal
errors leave by longjmp (`Jump`), which leaves the signal mask as it is (`sigsetjmp`
with 0 does not save it). Stores of flags and handler in `zend_sigaction` are two steps.

### ZendGC

Zvals are arrays or object handles; objects have counts of their own. `stack`
holds what the active C functions have still to do, one frame per call, and each
edge of the graph is one step, so that a destructor, a nested collection and a
suspended `zval_ptr_dtor` can all be on it. `refcount`, `color`, `address`
(GC_ADDRESS), `roots`, `zval_to_free` are the code's. `refs` counts the variables
of scripts. A freed zval has type "free"; a step that looks at one violates
`NoDanglingZval`. Scripts create, share, store, take out and unset zvals and may
call `gc_collect_cycles`; destructors may unset a property or store `$this`.

### FpmMaster

The master is one thread: `master` says which handler it is in and which pools
the handler has still to visit. Handlers that fork or wait take a step per
child because children run in between. `pipe` is the signal pipe as a set of bytes.
`pctl_event` says if the timer's element is in the queue; `PctlTimeout` contains
the deletion the event loop performs after the callback. Per child there are the
kernel's `status`, the signals `pending` for it, and what the master keeps of it
(`children`, `scoreboard_i`, `idle_kill`). `request_stage` is the scoreboard; the
five stages of a request in which a child is busy are one stage, "running". Time
is abstract: timers fire at any moment, `long_idle` and `FaultAges` stand for the
clock comparisons of `pm.process_idle_timeout` and `emergency_restart_interval`.

### ZendAccelerator

The flags of `zend_accel_shared_globals` keep their names. `write_lock`, `readers`
and `restart_lock` are the holders of bytes 0, 1 and 2 of the lock file; `fcntl`
locks vanish with their process. `pc[p]` is where process `p` is: a step per
lock, per group of reads of shared memory and per store others can see, so
that the tests at the beginning of `persistent_compile_file` and the read lock
it takes afterwards are different steps, and so are the assignments of
`zend_accel_schedule_restart`. Memory is a row of blocks of one script each, given
out in order and taken back only by a restart, which leaves the contents in
place, as the code does. A script is its path, the time stamp it was stored
with, the version of the file it was compiled from and the flag `corrupted`.
`uses[p]` are the scripts the request of `p` has been given. `exposed` is an
observer: the processes that took their read lock, or picked up a script
without one, inside the window between a restart's look for read locks and
its end. `Crash` is SIGKILL, or `zend_bailout` to `accel_deactivate`, at any step.
Settings are `validate_timestamps`, `revalidate_freq = 0`, `use_cwd = 0`; a time stamp
is the version of the file, so two saves within one second are told apart.

## 3. Runs

| Run | Shows |
|---|---|
| `ts_hash` | writers are alone, the counter is exact, mutexes are free when they are freed, every call returns, and the lock implements `RWTable`. On the table that is cleaned (`CleanTables`) exclusion and the refinement survive the unlocked reset; the counter and termination do not, and are stated for the other tables |
| `signal` | requests with and without a time limit, a fatal error inside a section, a second request: a deferred signal is handled at the end of its section, none runs inside a section, no queue entry is lost, the mask is restored, all this until `zend_timeout` has jumped out of a handler; and that jump leaves neither `running` set nor its own signal masked |
| `gc` | three zvals and an object: what a collection frees is exactly the garbage, all counts are exact again, no root outlives its zval |
| `gc_full` | root buffer with one slot, destructors that unset properties or store `$this`: nothing freed is looked at again, reachable objects stay valid, garbage is held while it is destroyed, counts are exact between operations, and the engine always returns to the script |
| `fpm_pools` | a dynamic and an ondemand pool under `process.max`, with children that crash, forks that fail, emergency restarts, reloads and stops: the master's list is the process table, no slot leaks, a slot shows what its own child does, the limits hold, no orphan is left |
| `fpm_terminate` | a terminating master exits, whatever the children do; coalesced SIGCHLD: all zombies are buried and a static pool is full again |
| `opcache` | scripts edited at any moment, processes killed at any step, invalidations, resets and restarts: the table leads only to complete scripts of the right path, a script with the file's time has the file's contents, what a request uses is not overwritten, and a request is given nothing older than the file was when it asked |
| `opcache_restart` | a cache that is exhausted and could be emptied has a restart pending, a cache that is off has a restart to come, and the restart begins although a request that holds a read lock never ends |

Runs in which the code contradicts what a comment, a test or the documentation
says (details in `PROJECT.json`, "findings"):

| Run | Disagreement |
|---|---|
| `signal_unblock_race` | a signal between the test of the unblock macro and the masking in `zend_signal_handler_unblock` empties the queue that is dereferenced next |
| `fpm_reload` | the timer of a reload is not set again after it fired once: SIGKILL is never sent |
| `fpm_ondemand` | an ondemand pool counts on an idle child that was told to quit |
| `opcache_read_lock` | a process tests that no restart is going on and then takes its read lock; a restart that looked for read locks in between empties memory the process goes on to use |

### Where the properties stop

Some properties hold only in the configurations above. Changing the constants
shows where they end:

- After `zend_timeout` has jumped out of a handler (`budget.timed_out`),
  `DeferredHandled`, `BlockedMeansQueued` and `MaskRestored` fail, and of
  `StorageConserved` only remains that no entry is on two lists: when the entry that is
  taken first is the timeout, the longjmp leaves the other entries in the queue,
  `blocked` is -1 by then, and only another signal looks at the queue again (`Zend/zend_signal.c:148`).
- With `"garbage"` in `Resurrects`, `NoDanglingZval` fails: an object that its
  destructor stores during a collection keeps properties that the collection
  frees (`Zend/zend_gc.c:842`). The repository knows this: `Zend/tests/bug64896.phpt`
  is an XFAIL test.
- With `Slots = 2`, `RootsAllocated` fails: the collection that makes room may
  buffer the very zval that is being added, which is then added a second time
  (`Zend/zend_gc.c:172`).
- With a buffer that fills up, `CollectsExactlyGarbage` fails:
  `gc_zval_possible_root` holds its zval with a reference during the collection it
  starts, and when that turns out to be the last one it is taken back without
  freeing the zval (`Zend/zend_gc.c:164`), which leaks.
- With `StartFails = TRUE`, `StaticPoolFull` fails: `fpm_children_bury` ignores that
  `fork` has failed, and the maintenance skips static pools, so the pool stays
  smaller until another child ends (`sapi/fpm/fpm/fpm_children.c:288`).
- With a `CleanTables` table in `CopyPairs` or `ComparePairs`, `EveryCallReturns`
  fails: a reader that was counted before the reset leaves with `reader` wrapped
  below zero and `mx_writer` is never released (`Zend/zend_ts_hash.c:96`).
- `NotOverwritten` excludes the processes in `exposed`; the run
  `opcache_read_lock` shows what happens to them
  (`ext/opcache/ZendAccelerator.c:1509`). `ServesCurrent` does not: a process is given
  the right script even then, it just may not keep it.
- With `Resetters`, `OffMeansRestart` fails: `opcache_reset()` schedules without a
  lock, and two of them, or one that meets a restart, save `accelerator_enabled = 0`
  as the status to return to (`ext/opcache/ZendAccelerator.c:2823`). With `Crashing`
  it fails too, when the process that restarts is killed before it turns the
  cache on again.
- With three processes and two of them in `Hanging`, `RestartBegins` fails:
  `kill_all_lockers` clears `force_restart_time`, so a process that passed its tests
  before the killing and takes its read lock afterwards, and then never ends, is
  not killed (`ext/opcache/ZendAccelerator.c:602`). The run has two processes, where
  this cannot happen. Killing succeeds in the model.

### Bounds

- `ts_hash`: two threads with two calls each, and three tables, so that copies and
  compares of two tables meet readers and writers, and a third one is cleaned. The
  proofs are for tables that are not cleaned.
- `signal*`: a queue of two entries fills up; two signals give a signal inside
  the handler of another; four raised signals, three sections, two requests.
- `gc*`: three zvals and one object give self references, cycles of two and three
  through an object, shared members, and cycles with a live reference into them.
  `Slots` is 4 (never full) in `gc` and 1 (full at once) in `gc_full`.
- `fpm*`: two children per pool give a live child beside a zombie, `Backlog` 1 a
  waiting connection. Three process ids in `fpm_pools` exceed `process.max`.
  Process ids are symmetric in the safety runs; liveness runs use no symmetry.
- `opcache*`: two processes and one block of memory: enough to run out of it, to
  waste it by an edit, and to hand it out again, to another script, after a restart,
  which is when an overwritten or mistaken script shows. `opcache` has two scripts,
  one of which is changed once; one process calls `opcache_reset()`, the other
  `opcache_invalidate()` and may be killed. The other two runs have one script.

The proofs remove the bounds for every invariant and action property of these
components but those of ZendGC.

`CHECK_DEADLOCK FALSE` is set where the bound on calls or signals ends the
behaviour (TsHash, ZendSignal) and in the opcode cache, where requests may stop
coming; the other models never stop.

### Fairness

- TsHash: weak fairness of each thread inside a call; the operating system runs
  it, and mutexes are free again as long as their holders run. Threads make
  finitely many calls: endless readers may starve a writer, by design.
- ZendSignal: weak fairness of the handlers and of the code that leaves a
  critical section it has entered.
- ZendGC: weak fairness of the engine; strong fairness of the end of a destructor:
  scripts return from `__destruct` in the end.
- FpmMaster: a handler that has been called returns (weak). The event loop polls
  its pipe, the sockets of the ondemand pools and the timer of a stop in every
  round, so each of them is served though others intervene (strong). `waitpid`
  gets to every zombie (strong), the kernel delivers signals (weak), and SIGKILL
  whatever other signals keep coming (weak, on its own). `FairSpec` assumes nothing
  of children, since scripts may run for ever; `ServingSpec` also lets children run,
  does not let `fork` fail for ever, and has the maintenance timer fire again and
  again.
- ZendAccelerator: calls into the cache return, and `F_SETLKW` queues, so a process
  that waits for the write lock gets it (strong). Requests come (weak) and, but
  for those in `Hanging`, end (strong): they include finitely many scripts. Time
  passes (weak).

## 4. Proofs

`TsHashProofs` proves, for every finite set of threads smaller than the range of
the counter, and for all tables, keys and bounds on calls:

- `TypeCorrect`: `Spec => []TypeOK`, `zend_ts_hash_clean` included. The interesting
  conjunct is that the calls left in a program stay calls on tables and that the
  counter stays a `zend_uint`.
- `LockInvariant`: when no table is cleaned (`~CleanCalls`), `Spec => []TsHashInv`.
- `MutualExclusion` and `CounterExact`: `[]Exclusion` and `[]ReaderCount` follow.

`Exclusion` alone is not inductive: a state with a reader inside and `mx_writer`
free satisfies it. `TsHashInv` adds that `mx_reader` is held exactly between its
lock and unlock (`ReaderMutex`), that `mx_writer` is held on behalf of the threads
inside and that a first or last reader is the only one counted, or none is
(`WriterMutex`), that the counter is the cardinality of the counted threads
(`ReadersCounted`), that a thread's place in the protocol agrees with the call it is
in (`InStep`), and that every lock a program takes is given back later in it
(`Balanced`). The proof has one lemma per step of the protocol (`LockBeginReadLock`
… `LockEndWrite`); the rest of the steps leave the lock alone (`LockUnchanged`).
`ThreadsAssumption` is needed: with 2^32 readers the counter wraps to 0.

`TsHashRefinementProofs` proves, again when no table is cleaned:

- `RefinesRWTable`: `Spec => ImplementsRWTable`. The initial states map to initial
  states and every step is a step of `RWTable` or a stutter: a reader enters when
  it unlocks `mx_reader`, a writer when it locks `mx_writer`.
- `FreesUnlocked`: `Spec => []FreedUnlocked`.

Both need more than the lock: `ExtraInv` says that every access that changes a table
stands directly after its `begin_write` in the program of the API function (`Guarded`), that
from the start of `zend_ts_hash_destroy` nobody else has a call to make on the table
(`DestroyedAlone`), and that a locked mutex has a thread inside that will unlock it
(`MutexOwned`). With `zend_ts_hash_clean` the proofs do not go through for a reason: the
unlocked `reader = 0` breaks `ReadersCounted`.

`ZendSignalProofs` proves, for every set of signals, every size of the queue and every
number of signals, sections, requests and bailouts, that `IInv` is invariant
(`SignalInvariant`), and from it every invariant of the run `signal`: `TypeCorrect`,
`SectionsAreProtected` (`CriticalSection`), `RunningIsCleared` (`RunningIsTransient`),
`TimerIsDeliverable` (`TimerStaysDeliverable`), `StorageIsConserved`,
`BlockedSignalIsQueued` and `MaskIsRestored`. `CriticalSection` is not inductive by
itself: `HandlerInv` adds that an invocation runs with every signal masked and `blocked`
at -1, that one which handles the queue began outside of sections, and that one which does not
has no local list; `ProgramInv` that `depth` is at least the number of sections entered
(a bailout leaves it too large, never too small), that the program has the timer's
signal deliverable, and that `blocked` is -1 while the engine is inactive; `QuietInv` that
handlers do not nest before `zend_timeout` has jumped out of one.

`FpmMasterProofs` proves, for every finite list of pools of any kind, any limits, any
finite set of process ids, and with failing forks, crashes, emergency restarts, reloads
and stops at any moment, that `IInv` is invariant (`MasterInvariant`), and from it every
invariant of the run `fpm_pools`: `TypeCorrect`, `ListIsProcessTable` (`ChildrenKnown`),
`SlotsAreExact`, `ReportsAreOwn` (`StageIsOwn`), `ChildrenAreBounded` (`MaxChildren`) and
`NoChildIsLeft` (`NoOrphans`). `IInv` has four parts. `Registry` ties the lists of the
master, the process table and the scoreboard together; in place of the counting in
`SlotsExact` it has `SlotsOwned`, that no two children of a pool share a slot and that a
slot is in use exactly when a child has it. From it follows that a pool below
`pm.max_children` has a free slot (`FreeSlotFacts`), so the search of
`fpm_scoreboard_proc_alloc` ends in the slot it promises. `Mastering` says that
`fpm_children_make` never aims above `pm.max_children`, which needs the callers'
arithmetic (`StepMaintainSpawn`, `StepOnSocketAccept`), and that no child is in a list when
the master exits or calls `execvp`. `Processes` and `Scalars` are types. There is one lemma
per action, and lemmas on forking and unlinking a child (`RegistryFork`, `RegistryUnlink`)
beneath them. The proof goes through `FpmMasterInvariant` and `FpmMasterHandlers` to
`FpmMasterProofs`, in the order of the handlers. `ConfigAssumption` holds what the proofs assume: the limits that
`fpm_conf.c` enforces, and finitely many process ids.

`ZendAcceleratorProofs` proves, for every finite set of processes, every set of
scripts, every size of memory and of the table, any number of edits, and with
crashes, resets and invalidations anywhere:

- `HashIsSound`: `Spec => []HashSound`.
- `CacheIsFresh`: `Spec => []CachedContentFresh`.
- `InUseIsKept`: `Spec => NotOverwritten`.
- `ServedIsCurrent`: `Spec => ServesCurrent`.
- `TypeCorrect`: `Spec => []TypeOK`.
- `ExhaustionRestarts`: `Spec => []ExhaustedRestarts`, when no process is killed: one that
  is killed before it has scheduled the restart leaves the memory exhausted and no restart pending.
- `OffRestarts`: `Spec => []OffMeansRestart`, when no process is killed and
  `opcache_reset()` is not called (section 3 says why).

None of the first four is inductive. `IInv` adds that whoever is in a step that needs
the write lock has it, save for `opcache_reset()`, which takes none (`LockOK`); that
a script's time is no later than its contents and these no later than the file
(`MemOK`), which is what makes taking the time before compiling sound, and the same of
the script a process is about to store (`StoringOK`), which is above every entry of the
table; that a process that has scripts has its read lock (`ReadLockOK`); and that what a
process outside `exposed` uses, has found or has resolved lies in memory that is
handed out and not being written, and that no such process holds a read lock
inside the window of a restart (`Protected`). `FileOK` says where a call has a file.
There is one lemma per action. These lemmas, like those on `FpmMaster`, are spread over
several modules, and most of their leaves name Zenon: the translation to SMT slows
down as a module grows, and Zenon needs none.

`ServedIsCurrent` needs in addition that what a call compiles is no older than the
version of the file it knows of, and that what it publishes is what it has compiled
(`SinceInv`). `ExhaustionRestarts` needs that a restart which is due and not pending is about to
be scheduled by the holder of the write lock, or being carried out (`DueInv`), and
`OffRestarts` how `restart_pending`, `accelerator_enabled` and the saved status go together
at each step of scheduling and of a restart (`SwitchInv`).

Only model-checked:

- all liveness: `EveryCallReturns`, `DeferredHandled`, `TerminateFinishes`, `ZombiesBuried`,
  `StaticPoolFull`, `EngineReturns`, `RestartBegins`. Fairness and `ENABLED` are out of the
  prover's reach.
- everything about ZendGC. `CollectsExactlyGarbage` and the invariants it leans on speak
  of reachability in a graph and of what a marking on a stack has still to do; the
  argument is an induction over paths, which the prover cannot instantiate.
- what holds with `zend_ts_hash_clean` beyond the types: that exclusion and the refinement
  survive the unlocked reset in the run `ts_hash` depends on who calls what.

## 5. What is not modelled

- TsHash: what callers do with pointers they got from `zend_ts_hash_find`.
- ZendSignal: thread-safe builds, `siginfo` and `context`, the check that handlers
  were not replaced.
- ZendGC: `gc_enabled = 0`, classes without `get_gc`, `$GLOBALS`, statistics,
  cloning, the destructors and storage passes at the end of a request.
- FpmMaster: spin locks and counters of the scoreboard, slow log tracing
  (SIGSTOP, ptrace), SIGUSR1, stdio pipes, systemd, the status page, keep-alive
  connections, a full signal pipe.
- ZendAccelerator: keys relative to the working directory and `include_path` and
  the second key of a script, interned strings, the blacklist,
  `file_update_protection`, `opcache_compile_file`, statistics, the optimizer, a kill
  that fails, builds with ZTS or for Windows.
- The components listed as planned or not modelled in section 1.

## 6. Plan

1. FPM scoreboard locks and the slow log as a module composed with `FpmMaster`.
2. APC cache; output layer; TSRM; generators; sessions.
3. Opcode cache: interned strings and keys; an abstract cache it implements.
4. Proofs: the reference counts of `ZendGC` between collections.
