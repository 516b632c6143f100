-------------------------- MODULE ZendAccelerator --------------------------
(***************************************************************************)
(* The opcode cache: processes that share compiled scripts in shared       *)
(* memory (ext/opcache/ZendAccelerator.c, zend_shared_alloc.c,             *)
(* zend_accelerator_hash.c), in a build without ZTS.                       *)
(*                                                                         *)
(* Three bytes of the lock file are locked with fcntl: byte 0 (write_lock) *)
(* by whoever changes the cache, byte 1 (readers) by every process that    *)
(* may use a script of the cache, byte 2 (restart_lock) by the process     *)
(* that empties it.  fcntl locks go away with their process.               *)
(*                                                                         *)
(* Memory is handed out in blocks of one script each, from block 1 on, and *)
(* is given back only all together, by a restart.  A process keeps         *)
(* pointers into it, uses, until its request ends.                         *)
(*                                                                         *)
(* Settings: validate_timestamps with revalidate_freq = 0, use_cwd = 0,    *)
(* so that a script is looked up by its full path.                         *)
(***************************************************************************)
EXTENDS Integers, FiniteSets

CONSTANTS
    Procs,        \* processes
    Files,        \* scripts on disk
    Blocks,       \* scripts that fit into the shared memory
    MaxEntries,   \* opcache.max_accelerated_files
    MaxWasted,    \* opcache.max_wasted_percentage, in scripts
    Edited,       \* the scripts that are changed on disk
    MaxEdits,     \* bound of the model: how often
    Invalidators, \* processes that call opcache_invalidate()
    Resetters,    \* processes that call opcache_reset()
    Crashing,     \* processes that may be killed, or their requests aborted, at any time
    Hanging,      \* processes whose requests may never end
    NoProc,       \* the owner of a free lock
    NoFile        \* the path in memory that was cleared

ASSUME AcceleratorAssumption ==
    /\ IsFiniteSet(Procs) /\ NoProc \notin Procs /\ NoFile \notin Files
    /\ Blocks \in Nat \ {0} /\ MaxEntries \in Nat \ {0}
    /\ MaxWasted \in Nat /\ MaxEdits \in Nat /\ Edited \subseteq Files
    /\ Invalidators \subseteq Procs /\ Resetters \subseteq Procs
    /\ Crashing \subseteq Procs /\ Hanging \subseteq Procs

VARIABLES
    restart_pending, restart_in_progress, accelerator_enabled,
    cache_status_before_restart, force_restart_time,
    memory_exhausted, wasted_shared_memory,
    hash,         \* the block of the script cached for a path, 0 if none is
    pos,          \* blocks in use
    mem,          \* what the blocks hold
    write_lock, readers, restart_lock,
    pc,           \* where a process is
    counted,      \* ZCG(counted)
    local,        \* what its call of persistent_compile_file works on
    uses,         \* the blocks its request has got from the cache
    disk,         \* the version of each script on disk
    exposed       \* who may hold pointers into memory that a restart gave away

shared == <<restart_pending, restart_in_progress, accelerator_enabled,
            cache_status_before_restart, force_restart_time>>
memory == <<memory_exhausted, wasted_shared_memory, hash, pos, mem>>
locks  == <<write_lock, readers, restart_lock>>
vars   == <<shared, memory, locks, pc, counted, local, uses, disk, exposed>>

-----------------------------------------------------------------------------
Versions == 1 .. MaxEdits + 1

\* timestamp 0 marks a script that is not to be used; content is the version
\* of the file that was compiled.
Script == [file : Files \cup {NoFile}, timestamp : {0} \cup Versions,
           content : {0} \cup Versions, corrupted : BOOLEAN]

Blank == [file |-> NoFile, timestamp |-> 0, content |-> 0, corrupted |-> FALSE]

\* cache is ZCG(cache_persistent_script), script the script found, since the
\* version of the file when the call began, next where the call goes on after
\* zend_shared_alloc_unlock.
Call == [file : Files \cup {NoFile}, cache : 0 .. Blocks, script : 0 .. Blocks,
         since : {0} \cup Versions, timestamp : {0} \cup Versions,
         content : {0} \cup Versions, next : {"run", "miss", "inv_done"}]

NoCall == [file |-> NoFile, cache |-> 0, script |-> 0, since |-> 0,
           timestamp |-> 0, content |-> 0, next |-> "run"]

RestartPcs == {"restart_enter", "reset", "restart_leave"}
LockedPcs  == RestartPcs \cup {"is_inactive", "kill", "scheduling", "disable",
                               "persist", "publish", "unlock"}
Pcs == LockedPcs \cup
       {"idle", "activate", "run", "resolved", "count", "find", "validate",
        "corrupt", "miss", "compile", "store", "inv_lock", "inv_check", "inv_find",
        "inv_done"}

TypeOK ==
    /\ restart_pending \in BOOLEAN /\ restart_in_progress \in BOOLEAN
    /\ accelerator_enabled \in BOOLEAN /\ cache_status_before_restart \in BOOLEAN
    /\ force_restart_time \in {"none", "set", "due"}
    /\ memory_exhausted \in BOOLEAN
    /\ wasted_shared_memory \in Nat
    /\ hash \in [Files -> 0 .. Blocks]
    /\ pos \in 0 .. Blocks
    /\ mem \in [1 .. Blocks -> Script]
    /\ write_lock \in Procs \cup {NoProc}
    /\ readers \subseteq Procs
    /\ restart_lock \in Procs \cup {NoProc}
    /\ pc \in [Procs -> Pcs]
    /\ counted \in [Procs -> BOOLEAN]
    /\ local \in [Procs -> Call]
    /\ uses \in [Procs -> SUBSET (1 .. Blocks)]
    /\ disk \in [Files -> Versions]
    /\ exposed \subseteq Procs

\* zend_accel_init_shm; shared globals start out as zeros.
Init ==
    /\ restart_pending = FALSE /\ restart_in_progress = FALSE
    /\ accelerator_enabled = TRUE /\ cache_status_before_restart = FALSE
    /\ force_restart_time = "none"
    /\ memory_exhausted = FALSE /\ wasted_shared_memory = 0
    /\ hash = [f \in Files |-> 0]
    /\ pos = 0
    /\ mem = [b \in 1 .. Blocks |-> Blank]
    /\ write_lock = NoProc /\ readers = {} /\ restart_lock = NoProc
    /\ pc = [p \in Procs |-> "idle"]
    /\ counted = [p \in Procs |-> FALSE]
    /\ local = [p \in Procs |-> NoCall]
    /\ uses = [p \in Procs |-> {}]
    /\ disk = [f \in Files |-> 1]
    /\ exposed = {}

Goto(p, from, to) ==
    /\ pc[p] = from
    /\ pc' = [pc EXCEPT ![p] = to]

\* Back to the running script when to is "run", with the call's data c otherwise.
Proceed(p, from, to, c) ==
    /\ Goto(p, from, to)
    /\ local' = [local EXCEPT ![p] = IF to = "run" THEN NoCall ELSE c]

-----------------------------------------------------------------------------
(* The window of a restart: some process has been told that nobody reads, *)
(* and has not finished.                                                   *)
Window == \E r \in Procs : pc[r] \in RestartPcs

\* zend_shared_alloc_lock
AllocLock(p) ==
    /\ write_lock = NoProc
    /\ write_lock' = p
    /\ UNCHANGED <<readers, restart_lock>>

\* zend_shared_alloc_unlock
Unlock(p) ==
    /\ Proceed(p, "unlock", local[p].next, local[p])
    /\ write_lock' = NoProc
    /\ UNCHANGED <<shared, memory, readers, restart_lock, counted, uses, disk, exposed>>

\* accel_activate_add: nobody ever write-locks byte 1, so the lock is granted.
AccelActivateAdd(p) ==
    /\ readers' = readers \cup {p}
    /\ exposed' = IF Window THEN exposed \cup {p} ELSE exposed
    /\ UNCHANGED <<write_lock, restart_lock>>

-----------------------------------------------------------------------------
(* accel_activate: the start of a request.                                 *)

Activate(p) ==
    /\ Goto(p, "idle", IF restart_pending THEN "activate" ELSE "run")
    /\ counted' = [counted EXCEPT ![p] = FALSE]
    /\ local' = [local EXCEPT ![p] = NoCall]
    /\ UNCHANGED <<shared, memory, locks, uses, disk, exposed>>

ActivateLock(p) ==
    /\ Goto(p, "activate", "is_inactive")
    /\ AllocLock(p)
    /\ UNCHANGED <<shared, memory, counted, local, uses, disk, exposed>>

\* Who holds a script it has found and no read lock when the answer is given.
FoundUnlocked == {q \in Procs : local[q].cache # 0 /\ q \notin readers}

\* Mutants: read locks are not looked for; nobody is killed.
IsInactiveUnasked(p) ==
    /\ Goto(p, "is_inactive", IF restart_pending THEN "restart_enter" ELSE "unlock")
    /\ exposed' = IF restart_pending THEN exposed \cup FoundUnlocked ELSE exposed
    /\ UNCHANGED <<shared, memory, locks, counted, local, uses, disk>>

IsInactiveUnforced(p) ==
    /\ Goto(p, "is_inactive", IF restart_pending /\ readers \ {p} = {}
                              THEN "restart_enter" ELSE "unlock")
    /\ UNCHANGED <<shared, memory, locks, counted, local, uses, disk, exposed>>

\* The second look at restart_pending, and accel_is_inactive.  F_GETLK does not
\* report the locks of the process that asks.
IsInactive(p) ==
    /\ \/ /\ ~restart_pending
          /\ Goto(p, "is_inactive", "unlock")
          /\ UNCHANGED <<force_restart_time, exposed>>
       \/ /\ restart_pending /\ readers \ {p} = {}
          /\ Goto(p, "is_inactive", "restart_enter")
          /\ exposed' = exposed \cup FoundUnlocked
          /\ UNCHANGED force_restart_time
       \/ /\ restart_pending /\ readers \ {p} # {}
          /\ IF force_restart_time = "due"
                THEN /\ Goto(p, "is_inactive", "kill")
                     /\ force_restart_time' = "none"
                ELSE /\ Goto(p, "is_inactive", "unlock")
                     /\ UNCHANGED force_restart_time
          /\ UNCHANGED exposed
    /\ UNCHANGED <<restart_pending, restart_in_progress, accelerator_enabled,
                   cache_status_before_restart, memory, locks, counted, local,
                   uses, disk>>

\* A process is gone: the kernel releases its locks, a new one takes its place.
Die(q) ==
    /\ write_lock' = IF write_lock = q THEN NoProc ELSE write_lock
    /\ readers' = readers \ {q}
    /\ restart_lock' = IF restart_lock = q THEN NoProc ELSE restart_lock
    /\ counted' = [counted EXCEPT ![q] = FALSE]
    /\ local' = [local EXCEPT ![q] = NoCall]
    /\ uses' = [uses EXCEPT ![q] = {}]
    /\ exposed' = exposed \ {q}

\* kill_all_lockers: SIGKILL to one holder of a read lock after the other.
KillLocker(p) ==
    /\ pc[p] = "kill"
    /\ \E q \in readers \ {p} :
          /\ Die(q)
          /\ pc' = [pc EXCEPT ![q] = "idle"]
    /\ UNCHANGED <<shared, memory, disk>>

KillDone(p) ==
    /\ readers \ {p} = {}
    /\ Goto(p, "kill", "unlock")
    /\ UNCHANGED <<shared, memory, locks, counted, local, uses, disk, exposed>>

\* accel_restart_enter
RestartEnter(p) ==
    /\ Goto(p, "restart_enter", "reset")
    /\ restart_pending' = FALSE
    /\ restart_lock' = p
    /\ restart_in_progress' = TRUE
    /\ UNCHANGED <<accelerator_enabled, cache_status_before_restart,
                   force_restart_time, memory, write_lock, readers, counted,
                   local, uses, disk, exposed>>

\* Mutant: the cache is not turned on again.
ResetCacheStaysOff(p) ==
    /\ Goto(p, "reset", "restart_leave")
    /\ memory_exhausted' = FALSE /\ wasted_shared_memory' = 0
    /\ restart_pending' = FALSE /\ force_restart_time' = "none"
    /\ hash' = [f \in Files |-> 0] /\ pos' = 0
    /\ UNCHANGED <<restart_in_progress, accelerator_enabled,
                   cache_status_before_restart, mem, locks, counted, local, uses,
                   disk, exposed>>

\* zend_reset_cache_vars, zend_accel_hash_clean, zend_shared_alloc_restore_state:
\* memory is given back as a whole, what it holds is left alone.
ResetCache(p) ==
    /\ Goto(p, "reset", "restart_leave")
    /\ memory_exhausted' = FALSE
    /\ wasted_shared_memory' = 0
    /\ restart_pending' = FALSE
    /\ force_restart_time' = "none"
    /\ hash' = [f \in Files |-> 0]
    /\ pos' = 0
    /\ accelerator_enabled' = cache_status_before_restart
    /\ UNCHANGED <<restart_in_progress, cache_status_before_restart, mem, locks,
                   counted, local, uses, disk, exposed>>

RestartLeave(p) ==
    /\ Goto(p, "restart_leave", "unlock")
    /\ restart_in_progress' = FALSE
    /\ restart_lock' = NoProc
    /\ UNCHANGED <<restart_pending, accelerator_enabled, cache_status_before_restart,
                   force_restart_time, memory, write_lock, readers, counted,
                   local, uses, disk, exposed>>

-----------------------------------------------------------------------------
(* zend_accel_schedule_restart: restart_pending has been tested by the     *)
(* caller's step; its assignments are seen one after the other.            *)

\* The condition of zend_accel_schedule_restart_if_necessary and the test of
\* restart_pending.
RestartNecessary(wasted) == wasted >= MaxWasted /\ ~restart_pending

SetRestartPending(p) ==
    /\ Goto(p, "scheduling", "disable")
    /\ restart_pending' = TRUE
    /\ UNCHANGED <<restart_in_progress, accelerator_enabled,
                   cache_status_before_restart, force_restart_time, memory, locks,
                   counted, local, uses, disk, exposed>>

DisableAccelerator(p) ==
    /\ Goto(p, "disable", IF write_lock = p THEN "unlock" ELSE "run")
    /\ cache_status_before_restart' = accelerator_enabled
    /\ accelerator_enabled' = FALSE
    /\ force_restart_time' = "set"
    /\ UNCHANGED <<restart_pending, restart_in_progress, memory, locks, counted,
                   local, uses, disk, exposed>>

\* opcache_reset() takes no lock.
OpcacheReset(p) ==
    /\ p \in Resetters
    /\ accelerator_enabled /\ ~restart_pending
    /\ Goto(p, "run", "scheduling")
    /\ UNCHANGED <<shared, memory, locks, counted, local, uses, disk, exposed>>

\* Time passes force_restart_time.
ForceRestartDue ==
    /\ force_restart_time = "set"
    /\ force_restart_time' = "due"
    /\ UNCHANGED <<restart_pending, restart_in_progress, accelerator_enabled,
                   cache_status_before_restart, memory, locks, pc, counted,
                   local, uses, disk, exposed>>

-----------------------------------------------------------------------------
(* persistent_compile_file                                                 *)

\* persistent_zend_resolve_path, for the main script and include_once: the
\* script is looked up with or without a read lock and kept for the compilation.
ResolvePath(p, f) ==
    /\ counted[p] \/ accelerator_enabled
    /\ ~restart_in_progress
    /\ Goto(p, "run", "resolved")
    /\ LET found == IF hash[f] # 0 /\ ~mem[hash[f]].corrupted THEN hash[f] ELSE 0
       IN /\ local' = [local EXCEPT ![p] = [NoCall EXCEPT !.file = f, !.cache = found]]
          /\ exposed' = IF found # 0 /\ p \notin readers /\ Window
                        THEN exposed \cup {p} ELSE exposed
    /\ UNCHANGED <<shared, memory, locks, counted, uses, disk>>

\* The tests at the beginning.  A restart_in_progress whose process is gone is
\* taken back by accel_restart_is_active.
CompileFile(p, f) ==
    /\ \/ pc[p] = "run"
       \/ pc[p] = "resolved" /\ local[p].file = f
    /\ counted[p] \/ accelerator_enabled
    /\ restart_in_progress => restart_lock = NoProc
    /\ restart_in_progress' = FALSE
    /\ pc' = [pc EXCEPT ![p] = IF counted[p] THEN "find" ELSE "count"]
    /\ local' = [local EXCEPT ![p].file = f, ![p].since = disk[f]]
    /\ UNCHANGED <<restart_pending, accelerator_enabled, cache_status_before_restart,
                   force_restart_time, memory, locks, counted, uses, disk,
                   exposed>>

\* The cache is off: the script is compiled without it.
CompileUncached(p) ==
    /\ \/ ~counted[p] /\ ~accelerator_enabled
       \/ restart_in_progress /\ restart_lock # NoProc
    /\ Proceed(p, "resolved", "run", NoCall)
    /\ UNCHANGED <<shared, memory, locks, counted, uses, disk, exposed>>

Count(p) ==
    /\ Goto(p, "count", "find")
    /\ counted' = [counted EXCEPT ![p] = TRUE]
    /\ AccelActivateAdd(p)
    /\ UNCHANGED <<shared, memory, local, uses, disk>>

Find(p) ==
    LET script == IF local[p].cache # 0 THEN local[p].cache ELSE hash[local[p].file]
        usable == script # 0 /\ ~mem[script].corrupted
    IN /\ Proceed(p, "find", IF usable THEN "validate" ELSE "miss",
                  [local[p] EXCEPT !.cache = 0, !.script = IF usable THEN script ELSE 0])
       /\ UNCHANGED <<shared, memory, locks, counted, uses, disk, exposed>>

\* Mutant: the path only.
ValidatesPath(b, f) == mem[b].file = f

\* do_validate_timestamps: the path, then the time of the file on disk.
Validates(b, f) ==
    /\ mem[b].file = f
    /\ mem[b].timestamp = disk[f]

Validate(p) ==
    LET b == local[p].script
        valid == Validates(b, local[p].file)
    IN /\ Proceed(p, "validate", IF valid THEN "run" ELSE "corrupt",
                  [local[p] EXCEPT !.next = "miss"])
       /\ uses' = IF valid THEN [uses EXCEPT ![p] = @ \cup {b}] ELSE uses
       /\ UNCHANGED <<shared, memory, locks, counted, disk, exposed>>

\* Mutant: no restart is scheduled.
CorruptOnly(p) ==
    /\ Goto(p, "corrupt", "unlock")
    /\ AllocLock(p)
    /\ mem' = [mem EXCEPT ![local[p].script].corrupted = TRUE,
                          ![local[p].script].timestamp = 0]
    /\ wasted_shared_memory' =
          wasted_shared_memory + (IF mem[local[p].script].corrupted THEN 0 ELSE 1)
    /\ UNCHANGED <<shared, memory_exhausted, hash, pos, counted, local, uses,
                   disk, exposed>>

\* The script is marked, its memory is wasted.
Corrupt(p) ==
    LET b == local[p].script
        wasted == wasted_shared_memory + 1
    IN /\ AllocLock(p)
       /\ \/ /\ Goto(p, "corrupt", "unlock")
             /\ mem[b].corrupted
             /\ UNCHANGED <<mem, wasted_shared_memory>>
          \/ /\ Goto(p, "corrupt", IF memory_exhausted /\ RestartNecessary(wasted)
                                    THEN "scheduling" ELSE "unlock")
             /\ ~mem[b].corrupted
             /\ mem' = [mem EXCEPT ![b].corrupted = TRUE, ![b].timestamp = 0]
             /\ wasted_shared_memory' = wasted
       /\ UNCHANGED <<shared, memory_exhausted, hash, pos, counted, local, uses,
                      disk, exposed>>

\* Cache miss; the time of the file is taken before it is compiled.
Miss(p) ==
    /\ Proceed(p, "miss", IF memory_exhausted \/ restart_pending THEN "run" ELSE "compile",
               [local[p] EXCEPT !.script = 0, !.next = "run",
                                !.timestamp = disk[local[p].file]])
    /\ UNCHANGED <<shared, memory, locks, counted, uses, disk, exposed>>

Compile(p) ==
    /\ Goto(p, "compile", "store")
    /\ local' = [local EXCEPT ![p].content = disk[local[p].file]]
    /\ UNCHANGED <<shared, memory, locks, counted, uses, disk, exposed>>

NumEntries == Cardinality({f \in Files : hash[f] # 0})

\* Mutants: the script is in the table before it is copied; memory has no end.
StorePublished(p) ==
    /\ AllocLock(p)
    /\ pos < Blocks
    /\ Goto(p, "store", "persist")
    /\ pos' = pos + 1 /\ mem' = [mem EXCEPT ![pos + 1] = Blank]
    /\ hash' = [hash EXCEPT ![local[p].file] = pos + 1]
    /\ UNCHANGED <<shared, memory_exhausted, wasted_shared_memory, counted, local,
                   uses, disk, exposed>>

StoreUnchecked(p) ==
    /\ AllocLock(p)
    /\ Goto(p, "store", "persist")
    /\ pos' = pos + 1 /\ mem' = [mem EXCEPT ![pos + 1] = Blank]
    /\ UNCHANGED <<shared, memory_exhausted, wasted_shared_memory, hash, counted,
                   local, uses, disk, exposed>>

\* cache_script_in_shared_memory up to zend_shared_alloc: the table may be full,
\* another process may have stored the script, memory may be short.  It counts
\* as exhausted when not even a small script would fit.
Store(p) ==
    LET b == hash[local[p].file]
        full == NumEntries >= MaxEntries
        present == b # 0 /\ ~mem[b].corrupted
        short == full \/ (~present /\ pos = Blocks)
    IN /\ AllocLock(p)
       /\ Goto(p, "store", IF short THEN IF RestartNecessary(wasted_shared_memory)
                                         THEN "scheduling" ELSE "unlock"
                           ELSE IF present THEN "unlock" ELSE "persist")
       /\ memory_exhausted' \in IF full THEN {TRUE}
                               ELSE IF short THEN {memory_exhausted, TRUE}
                               ELSE {memory_exhausted}
       /\ IF short \/ present
          THEN UNCHANGED <<pos, mem>>
          ELSE pos' = pos + 1 /\ mem' = [mem EXCEPT ![pos + 1] = Blank]
       /\ UNCHANGED <<shared, wasted_shared_memory, hash, counted, local, uses, disk,
                      exposed>>

\* Mutant: the time of the file is taken after it was compiled.
PersistLate(p) ==
    /\ Goto(p, "persist", "publish")
    /\ mem' = [mem EXCEPT ![pos] = [file |-> local[p].file,
                                    timestamp |-> disk[local[p].file],
                                    content |-> local[p].content,
                                    corrupted |-> FALSE]]
    /\ UNCHANGED <<shared, memory_exhausted, wasted_shared_memory, hash, pos, locks,
                   counted, local, uses, disk, exposed>>

\* zend_accel_script_persist
Persist(p) ==
    /\ Goto(p, "persist", "publish")
    /\ mem' = [mem EXCEPT ![pos] = [file |-> local[p].file,
                                    timestamp |-> local[p].timestamp,
                                    content |-> local[p].content,
                                    corrupted |-> FALSE]]
    /\ UNCHANGED <<shared, memory_exhausted, wasted_shared_memory, hash, pos, locks,
                   counted, local, uses, disk, exposed>>

\* zend_accel_hash_update
Publish(p) ==
    /\ Goto(p, "publish", "unlock")
    /\ hash' = [hash EXCEPT ![local[p].file] = pos]
    /\ uses' = [uses EXCEPT ![p] = @ \cup {pos}]
    /\ UNCHANGED <<shared, memory_exhausted, wasted_shared_memory, pos, mem, locks,
                   counted, local, disk, exposed>>

-----------------------------------------------------------------------------
(* zend_accel_invalidate                                                   *)

Invalidate(p, f) ==
    /\ p \in Invalidators
    /\ accelerator_enabled
    /\ Goto(p, "run", IF counted[p] THEN "inv_find" ELSE "inv_lock")
    /\ local' = [local EXCEPT ![p] = [NoCall EXCEPT !.file = f]]
    /\ UNCHANGED <<shared, memory, locks, counted, uses, disk, exposed>>

\* accelerator_shm_read_lock without a read lock: take it, then look.
InvalidateLock(p) ==
    /\ Goto(p, "inv_lock", "inv_check")
    /\ AccelActivateAdd(p)
    /\ UNCHANGED <<shared, memory, counted, local, uses, disk>>

InvalidateCheck(p) ==
    /\ Proceed(p, "inv_check", IF restart_in_progress THEN "run" ELSE "inv_find", local[p])
    /\ readers' = IF restart_in_progress THEN readers \ {p} ELSE readers
    /\ UNCHANGED <<shared, memory, write_lock, restart_lock, counted, uses, disk,
                   exposed>>

\* A path that cannot be resolved returns with the read lock.  A script is
\* marked when the call forces it or the file has changed.
InvalidateFind(p) ==
    LET b == hash[local[p].file]
        stale(force) == b # 0 /\ ~mem[b].corrupted
                        /\ (force \/ ~Validates(b, local[p].file))
    IN /\ \/ Proceed(p, "inv_find", "run", NoCall)
          \/ \E force \in BOOLEAN :
                Proceed(p, "inv_find", IF stale(force) THEN "corrupt" ELSE "inv_done",
                        [local[p] EXCEPT !.script = b, !.next = "inv_done"])
       /\ UNCHANGED <<shared, memory, locks, counted, uses, disk, exposed>>

InvalidateDone(p) ==
    /\ Proceed(p, "inv_done", "run", NoCall)
    /\ readers' = IF counted[p] THEN readers ELSE readers \ {p}
    /\ UNCHANGED <<shared, memory, write_lock, restart_lock, counted, uses, disk,
                   exposed>>

-----------------------------------------------------------------------------
\* accel_deactivate: the end of a request.
Deactivate(p) ==
    /\ Goto(p, "run", "idle")
    /\ Die(p)
    /\ UNCHANGED <<shared, memory, disk>>

\* SIGKILL from outside.  A request that is aborted (zend_bailout) goes to
\* accel_deactivate from wherever it is, and leaves the same state.
Crash(p) ==
    /\ p \in Crashing
    /\ pc[p] # "idle"
    /\ pc' = [pc EXCEPT ![p] = "idle"]
    /\ Die(p)
    /\ UNCHANGED <<shared, memory, disk>>

\* Somebody saves a script.
Edit(f) ==
    /\ f \in Edited /\ disk[f] <= MaxEdits
    /\ disk' = [disk EXCEPT ![f] = @ + 1]
    /\ UNCHANGED <<shared, memory, locks, pc, counted, local, uses, exposed>>

\* What a process does inside the cache once it has been entered.
Engine(p) ==
    \/ ActivateLock(p) \/ IsInactive(p) \/ KillLocker(p) \/ KillDone(p)
    \/ RestartEnter(p) \/ ResetCache(p) \/ RestartLeave(p) \/ Unlock(p)
    \/ SetRestartPending(p) \/ DisableAccelerator(p)
    \/ CompileUncached(p) \/ Count(p) \/ Find(p) \/ Validate(p) \/ Corrupt(p)
    \/ Miss(p) \/ Compile(p) \/ Store(p) \/ Persist(p) \/ Publish(p)
    \/ InvalidateLock(p) \/ InvalidateCheck(p) \/ InvalidateFind(p)
    \/ InvalidateDone(p)

Script_(p) ==
    \/ OpcacheReset(p)
    \/ \E f \in Files : ResolvePath(p, f) \/ CompileFile(p, f) \/ Invalidate(p, f)

Next ==
    \/ \E p \in Procs : \/ Activate(p) \/ Engine(p) \/ Script_(p) \/ Deactivate(p)
                        \/ Crash(p)
    \/ \E f \in Files : Edit(f)
    \/ ForceRestartDue

Spec == Init /\ [][Next]_vars

\* Calls into the cache return: F_SETLKW queues for the lock.  Requests come and,
\* but for the ones that hang, end: they include finitely many scripts.  Time
\* passes.
Fairness ==
    /\ \A p \in Procs : SF_vars(Engine(p)) /\ WF_vars(Activate(p))
    /\ \A p \in Procs : WF_vars(pc[p] = "resolved" /\ CompileFile(p, local[p].file))
    /\ \A p \in Procs \ Hanging : SF_vars(Deactivate(p))
    /\ WF_vars(ForceRestartDue)

FairSpec == Spec /\ Fairness

-----------------------------------------------------------------------------
(* Properties.                                                             *)

\* What the table leads to is a complete script of that path, in memory that
\* is handed out, also after a process died while storing one.
HashSound ==
    \A f \in Files : hash[f] # 0 =>
        /\ hash[f] <= pos
        /\ mem[hash[f]].file = f
        /\ mem[hash[f]].content # 0

\* A cached script whose time is that of the file is a translation of what the
\* file holds now, whenever the file was changed while it was compiled.
CachedContentFresh ==
    \A f \in Files :
        hash[f] # 0 /\ mem[hash[f]].timestamp = disk[f] => mem[hash[f]].content = disk[f]

\* What a request has got from the cache stays in place until the request
\* ends, if its read lock was there before a restart looked for read locks.
InUseKept ==
    \A p \in Procs \ exposed : \A b \in uses[p] :
        /\ mem'[b].file = mem[b].file
        /\ mem'[b].content = mem[b].content

NotOverwritten == [][InUseKept]_vars

\* A request that is given a script of the cache is given that of the file it
\* asked for, no older than the file was when it asked.
GivenCurrent ==
    \A p \in Procs : \A b \in uses'[p] \ uses[p] :
        /\ mem[b].file = local[p].file
        /\ mem[b].content >= local[p].since

ServesCurrent == [][GivenCurrent]_vars

\* Memory that is exhausted and could be won back is won back: nobody leaves
\* the write lock with a restart due and none pending.
ExhaustedRestarts ==
    memory_exhausted /\ wasted_shared_memory >= MaxWasted /\ write_lock = NoProc
        => restart_pending

\* A cache that is off has a restart to come that turns it on again.
OffMeansRestart ==
    ~accelerator_enabled => \/ restart_pending
                            \/ \E p \in Procs : pc[p] \in RestartPcs

\* A pending restart begins, even if a request that holds a read lock never
\* ends: it is killed.  This is so for one such request: kill_all_lockers clears
\* force_restart_time, so one that takes its lock after the killing is not forced.
RestartBegins == restart_pending ~> ~restart_pending

\* The comment of accelerator_shm_read_lock: "counted means we are holding read
\* lock for SHM, so that nothing bad can happen".
CountedIsSafe ==
    [][\A p \in Procs : counted[p] => \A b \in uses[p] :
          /\ mem'[b].file = mem[b].file
          /\ mem'[b].content = mem[b].content]_vars

=============================================================================
