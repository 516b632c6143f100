----------------------- MODULE ZendAcceleratorProofs ------------------------
(***************************************************************************)
(* What ZendAccelerator promises for every number of processes, scripts    *)
(* and blocks.                                                             *)
(***************************************************************************)
EXTENDS ZendAcceleratorInvariant

-----------------------------------------------------------------------------
(* zend_accel_invalidate.                                                  *)

\* Invalidate keeps the invariant.
LEMMA InvalidateStep ==
    ASSUME IInv, NEW p \in Procs, NEW f \in Files, Invalidate(p, f)
    PROVE  IInv'
<1>. DEFINE c == [NoCall EXCEPT !.file = f]
<1>1. /\ pc[p] = "run"
      /\ pc' = [pc EXCEPT ![p] = IF counted[p] THEN "inv_find" ELSE "inv_lock"]
      /\ local' = [local EXCEPT ![p] = c]
      /\ UNCHANGED <<shared, memory, locks, counted, uses, disk, exposed>>
  BY Zenon DEF Invalidate, Goto
<1>2. c \in Call
  BY NoCallIsCall, CallUpdate, Zenon
<1>3. c.file = f /\ c.next = "run" /\ c.script = 0 /\ c.cache = 0
  BY Zenon DEF NoCall
<1>. HIDE DEF c
<1>4. TypeOK'
  BY <1>1, <1>2 DEF IInv, TypeOK, Pcs, LockedPcs, shared, memory, locks
<1>5. LockOK' /\ HashSound' /\ MemOK'
  BY <1>1, CacheSame, Zenon DEF IInv, TypeOK, LockOK, HoldsLock, RestartPcs, locks
<1>6. FileOK' /\ StoringOK'
  BY <1>1, <1>3, Zenon DEF IInv, TypeOK, FileOK, FilePcs, StoringOK, Ages, memory
<1>7. ReadLockOK'
  BY <1>1, <1>3 DEF IInv, TypeOK, ReadLockOK, QuietPcs, CountedPcs, RestartPcs, locks
<1>8. Protected'
  <2>1. \A b : InPlace(b) => InPlace(b)'
    BY <1>1, Zenon DEF IInv, TypeOK, InPlace, memory
  <2>2. Window' => Window
    BY <1>1, Zenon DEF IInv, TypeOK, Window, RestartPcs
  <2>3. readers' = readers /\ InPlace(0)
    BY <1>1 DEF IInv, TypeOK, InPlace, StoringOK, locks
  <2>. QED  BY <1>1, <1>3, <2>1, <2>2, <2>3 DEF IInv, TypeOK, Protected
<1>. QED  BY <1>4, <1>5, <1>6, <1>7, <1>8, Zenon DEF IInv

\* InvalidateLock keeps the invariant.
LEMMA InvalidateLockStep ==
    ASSUME IInv, NEW p \in Procs, InvalidateLock(p)
    PROVE  IInv'
<1>1. TypeOK'
  BY AcceleratorAssumption
  DEF InvalidateLock, Goto, AccelActivateAdd, shared, memory, locks, IInv, TypeOK, Pcs,
      LockedPcs, RestartPcs
<1>2. LockOK' /\ HashSound' /\ MemOK'
  BY AcceleratorAssumption, CacheSame, Zenon DEF InvalidateLock, Goto, AccelActivateAdd, locks,
     IInv, TypeOK, LockOK, HoldsLock, RestartPcs
<1>3. FileOK' /\ StoringOK'
  BY AcceleratorAssumption, Zenon
  DEF InvalidateLock, Goto, AccelActivateAdd, memory, IInv, TypeOK, FileOK, FilePcs,
      StoringOK, Ages, LockOK, HoldsLock
<1>4. ReadLockOK'
  BY Zenon DEF InvalidateLock, Goto, AccelActivateAdd, locks, IInv, TypeOK, ReadLockOK, QuietPcs,
     CountedPcs, RestartPcs
<1>5. Protected'
  BY AcceleratorAssumption
  DEF InvalidateLock, Goto, AccelActivateAdd, memory, locks, IInv, TypeOK, Protected,
      InPlace, Window, RestartPcs, LockOK, HoldsLock, ReadLockOK, QuietPcs
<1>. QED  BY <1>1, <1>2, <1>3, <1>4, <1>5, Zenon DEF IInv

\* InvalidateCheck keeps the invariant.
LEMMA InvalidateCheckStep ==
    ASSUME IInv, NEW p \in Procs, InvalidateCheck(p)
    PROVE  IInv'
<1>1. TypeOK'
  BY AcceleratorAssumption, NoCallIsCall
  DEF InvalidateCheck, Goto, Proceed, shared, memory, locks, IInv, TypeOK, Pcs, LockedPcs,
      RestartPcs
<1>2. LockOK' /\ HashSound' /\ MemOK'
  BY AcceleratorAssumption, CacheSame, Zenon DEF InvalidateCheck, Goto, Proceed, locks, IInv,
     TypeOK, LockOK, HoldsLock, RestartPcs
<1>3. FileOK' /\ StoringOK'
  BY AcceleratorAssumption
  DEF InvalidateCheck, Goto, Proceed, memory, IInv, TypeOK, FileOK, FilePcs, StoringOK,
      Ages, LockOK, HoldsLock, NoCall
<1>4. ReadLockOK'
  BY DEF InvalidateCheck, Goto, Proceed, locks, IInv, TypeOK, ReadLockOK, QuietPcs, CountedPcs,
     RestartPcs, NoCall
<1>5. Protected'
  BY AcceleratorAssumption
  DEF InvalidateCheck, Goto, Proceed, memory, locks, IInv, TypeOK, Protected, InPlace,
      Window, StoringOK, RestartPcs, LockOK, HoldsLock, ReadLockOK, QuietPcs, NoCall
<1>. QED  BY <1>1, <1>2, <1>3, <1>4, <1>5, Zenon DEF IInv

\* InvalidateFind keeps the invariant.
LEMMA InvalidateFindStep ==
    ASSUME IInv, NEW p \in Procs, InvalidateFind(p)
    PROVE  IInv'
<1>. DEFINE b == hash[local[p].file]
            d == [local[p] EXCEPT !.script = b, !.next = "inv_done"]
<1>1. pc[p] = "inv_find" /\ UNCHANGED <<shared, memory, locks, counted, uses, disk, exposed>>
  BY Zenon DEF InvalidateFind, Proceed, Goto
<1>2. PICK to \in {"run", "corrupt", "inv_done"} :
        /\ pc' = [pc EXCEPT ![p] = to]
        /\ local' = [local EXCEPT ![p] = IF to = "run" THEN NoCall ELSE d]
  BY Zenon DEF InvalidateFind, Proceed, Goto
<1>. DEFINE c == IF to = "run" THEN NoCall ELSE d
<1>3. /\ local[p] \in Call /\ local[p].file \in Files
      /\ b \in 0 .. Blocks /\ p \in readers
  BY <1>1, Zenon DEF IInv, TypeOK, Call, FileOK, FilePcs, ReadLockOK
<1>4. d \in Call
  <2>1. "inv_done" \in {"run", "miss", "inv_done"}
    BY Zenon
  <2>. QED  BY <1>3, <2>1, CallUpdate, Zenon
<1>5. /\ c \in Call /\ c.next # "miss" /\ c.script \in {0, b}
      /\ c.cache \in {0, local[p].cache}
  BY <1>3, <1>4, NoCallIsCall, Zenon DEF Call, NoCall
<1>6. local' = [local EXCEPT ![p] = c]
  BY <1>2, Zenon
<1>. HIDE DEF c
<1>7. TypeOK'
  BY <1>1, <1>2, <1>5, <1>6 DEF IInv, TypeOK, Pcs, LockedPcs, shared, memory, locks
<1>8. LockOK' /\ HashSound' /\ MemOK'
  BY <1>1, <1>2, CacheSame, Zenon DEF IInv, TypeOK, LockOK, HoldsLock, RestartPcs, locks
<1>9. FileOK' /\ StoringOK'
  BY <1>1, <1>2, <1>5, <1>6 DEF IInv, TypeOK, FileOK, FilePcs, StoringOK, Ages, memory
<1>10. ReadLockOK'
  BY <1>1, <1>2, <1>3, <1>5, <1>6
  DEF IInv, TypeOK, ReadLockOK, QuietPcs, CountedPcs, RestartPcs, locks
<1>11. Protected'
  <2>1. \A x : InPlace(x) => InPlace(x)'
    BY <1>1, <1>2, Zenon DEF IInv, TypeOK, InPlace, memory
  <2>2. InPlace(0) /\ InPlace(b)
    BY <1>3 DEF IInv, TypeOK, InPlace, HashSound, StoringOK
  <2>3. Window' => Window
    BY <1>1, <1>2, Zenon DEF IInv, TypeOK, Window, RestartPcs
  <2>. QED
    BY <1>1, <1>3, <1>5, <1>6, <2>1, <2>2, <2>3 DEF IInv, TypeOK, Protected, locks
<1>. QED  BY <1>7, <1>8, <1>9, <1>10, <1>11, Zenon DEF IInv

\* InvalidateDone keeps the invariant.
LEMMA InvalidateDoneStep ==
    ASSUME IInv, NEW p \in Procs, InvalidateDone(p)
    PROVE  IInv'
<1>1. TypeOK'
  BY AcceleratorAssumption, NoCallIsCall
  DEF InvalidateDone, Goto, Proceed, shared, memory, locks, IInv, TypeOK, Pcs, LockedPcs,
      RestartPcs
<1>2. LockOK' /\ HashSound' /\ MemOK'
  BY AcceleratorAssumption, CacheSame, Zenon DEF InvalidateDone, Goto, Proceed, locks, IInv,
     TypeOK, LockOK, HoldsLock, RestartPcs
<1>3. FileOK' /\ StoringOK'
  BY AcceleratorAssumption
  DEF InvalidateDone, Goto, Proceed, memory, IInv, TypeOK, FileOK, FilePcs, StoringOK, Ages,
      LockOK, HoldsLock, NoCall
<1>4. ReadLockOK'
  BY DEF InvalidateDone, Goto, Proceed, locks, IInv, TypeOK, ReadLockOK, QuietPcs, CountedPcs,
     RestartPcs, NoCall
<1>5. Protected'
  BY AcceleratorAssumption
  DEF InvalidateDone, Goto, Proceed, memory, locks, IInv, TypeOK, Protected, InPlace,
      Window, StoringOK, RestartPcs, LockOK, HoldsLock, ReadLockOK, QuietPcs, NoCall
<1>. QED  BY <1>1, <1>2, <1>3, <1>4, <1>5, Zenon DEF IInv

-----------------------------------------------------------------------------
(* Everything together.                                                    *)

\* Files only get newer.
LEMMA EditStep ==
    ASSUME IInv, NEW f \in Files, Edit(f)
    PROVE  IInv'
<1>1. /\ \A g \in Files : disk'[g] \in Versions /\ disk[g] <= disk'[g]
      /\ disk' \in [Files -> Versions]
  BY AcceleratorAssumption DEF Edit, IInv, TypeOK, Versions
<1>2. UNCHANGED <<shared, memory, locks, pc, counted, local, uses, exposed>>
  BY Zenon DEF Edit
<1>3. TypeOK'
  BY <1>1, <1>2 DEF IInv, TypeOK, shared, memory, locks
<1>4. LockOK' /\ HashSound' /\ FileOK' /\ ReadLockOK' /\ Protected'
  BY <1>2, Zenon
  DEF IInv, LockOK, HashSound, FileOK, ReadLockOK, Protected, InPlace, Window, memory, locks
<1>5. \A g \in Files : \A t, v \in {0} \cup Versions : Ages(t, v, g) => Ages(t, v, g)'
  BY <1>1, AcceleratorAssumption DEF IInv, TypeOK, Ages, Versions
<1>6. MemOK'
  BY <1>2, <1>5, ZenonT(30) DEF IInv, TypeOK, Script, MemOK, memory
<1>7. StoringOK'
  <2>. SUFFICES ASSUME NEW p \in Procs
                PROVE  /\ pc[p] = "compile" => local[p].timestamp <= disk'[local[p].file]
                       /\ pc[p] \in {"store", "persist"} =>
                             Ages(local[p].timestamp, local[p].content, local[p].file)'
    BY <1>2, Zenon DEF IInv, StoringOK, memory
  <2>1. /\ local[p].timestamp \in {0} \cup Versions /\ local[p].content \in {0} \cup Versions
        /\ pc[p] \in FilePcs => local[p].file \in Files
    BY Zenon DEF IInv, TypeOK, Call, FileOK
  <2>2. pc[p] = "compile" => local[p].timestamp <= disk'[local[p].file]
    BY <1>1, <2>1, AcceleratorAssumption DEF IInv, TypeOK, StoringOK, FilePcs, Versions
  <2>3. pc[p] \in {"store", "persist"} =>
           Ages(local[p].timestamp, local[p].content, local[p].file)'
    BY <1>2, <1>5, <2>1, ZenonT(30) DEF IInv, StoringOK, FilePcs
  <2>. QED  BY <2>2, <2>3, Zenon
<1>. QED  BY <1>3, <1>4, <1>6, <1>7, Zenon DEF IInv

\* Time passes, or nothing happens.
LEMMA FrameStep ==
    ASSUME IInv, ForceRestartDue \/ UNCHANGED vars
    PROVE  IInv'
<1>1. /\ force_restart_time' \in {force_restart_time, "due"}
      /\ UNCHANGED <<restart_pending, restart_in_progress, accelerator_enabled,
                     cache_status_before_restart, memory, locks, pc, counted, local, uses,
                     disk, exposed>>
  BY Zenon DEF ForceRestartDue, vars, shared
<1>2. TypeOK'
  BY <1>1 DEF IInv, TypeOK, memory, locks
<1>3. LockOK' /\ HashSound' /\ MemOK'
  BY <1>1, CacheSame, Zenon DEF IInv, LockOK, locks
<1>4. FileOK' /\ StoringOK' /\ ReadLockOK'
  BY <1>1, Zenon DEF IInv, FileOK, StoringOK, Ages, ReadLockOK, memory, locks
<1>5. Protected'
  BY <1>1, Zenon DEF IInv, Protected, InPlace, Window, memory, locks
<1>. QED  BY <1>2, <1>3, <1>4, <1>5, Zenon DEF IInv

\* Every step keeps the invariant.
LEMMA Inductive == IInv /\ [Next]_vars => IInv'
<1>. SUFFICES ASSUME IInv, [Next]_vars  PROVE IInv'
  BY Zenon
<1>1. ASSUME NEW p \in Procs, Activate(p) \/ Deactivate(p) \/ Crash(p)  PROVE IInv'
  BY <1>1, ActivateStep, DeactivateStep, CrashStep, Zenon
<1>2. ASSUME NEW p \in Procs, Engine(p)  PROVE IInv'
  BY <1>2, ActivateLockStep, IsInactiveStep, KillLockerStep, KillDoneStep, RestartEnterStep,
     ResetCacheStep, RestartLeaveStep, UnlockStep, SetRestartPendingStep,
     DisableAcceleratorStep, CompileUncachedStep, CountStep, FindStep, ValidateStep,
     CorruptStep, MissStep, CompileStep, StoreStep, PersistStep, PublishStep,
     InvalidateLockStep, InvalidateCheckStep, InvalidateFindStep, InvalidateDoneStep, Zenon
  DEF Engine
<1>3. ASSUME NEW p \in Procs, Script_(p)  PROVE IInv'
  BY <1>3, OpcacheResetStep, ResolvePathStep, CompileFileStep, InvalidateStep, Zenon DEF Script_
<1>. QED  BY <1>1, <1>2, <1>3, EditStep, FrameStep, Zenon DEF Next

\* The invariant holds at the start.
LEMMA Initial == Init => IInv
<1>. SUFFICES ASSUME Init  PROVE IInv
  BY Zenon
<1>1. TypeOK
  <2>1. Blank \in Script
    BY Zenon DEF Blank, Script
  <2>2. 0 \in 0 .. Blocks /\ 1 \in Versions
    BY AcceleratorAssumption DEF Versions
  <2>. QED  BY <2>1, <2>2, NoCallIsCall, ZenonT(30) DEF Init, TypeOK, Pcs
<1>2. LockOK /\ HashSound /\ MemOK /\ FileOK /\ StoringOK
  BY AcceleratorAssumption, Zenon
  DEF Init, LockOK, HoldsLock, RestartPcs, HashSound, MemOK, Blank, FileOK, FilePcs, NoCall,
      StoringOK
<1>3. ReadLockOK /\ Protected
  BY DEF Init, ReadLockOK, QuietPcs, CountedPcs, RestartPcs, Protected, InPlace, Window, NoCall
<1>. QED  BY <1>1, <1>2, <1>3, Zenon DEF IInv

\* The invariant holds always.
LEMMA Invariance == Spec => []IInv
BY Initial, Inductive, PTL DEF Spec

\* What the table leads to is a complete script of that path, whoever dies in
\* between (zend_accel_hash_update comes after zend_accel_script_persist).
THEOREM HashIsSound == Spec => []HashSound
<1>1. IInv => HashSound
  BY Zenon DEF IInv
<1>. QED  BY <1>1, Invariance, PTL

\* A cached script whose time is the file's holds the file's text, whenever the
\* file is saved (compile_and_cache_file takes the time first).
THEOREM CacheIsFresh == Spec => []CachedContentFresh
<1>1. IInv => CachedContentFresh
  BY AcceleratorAssumption
  DEF IInv, TypeOK, Script, Versions, HashSound, MemOK, Ages, CachedContentFresh
<1>. QED  BY <1>1, Invariance, PTL

\* Memory in use under a read lock that accel_is_inactive could see is written
\* by nobody, for any number of processes and restarts.
THEOREM InUseIsKept == Spec => NotOverwritten
<1>1. ASSUME IInv, Next  PROVE InUseKept
  <2>. SUFFICES ASSUME NEW p \in Procs \ exposed, NEW b \in uses[p]
                PROVE  mem'[b].file = mem[b].file /\ mem'[b].content = mem[b].content
    BY Zenon DEF InUseKept
  <2>1. /\ b \in 1 .. Blocks /\ pos \in 0 .. Blocks /\ mem \in [1 .. Blocks -> Script]
        /\ b <= pos /\ \A q \in Procs : pc[q] = "persist" => b < pos
    BY <1>1, Zenon DEF IInv, TypeOK, Protected, InPlace
  <2>2. ASSUME NEW q \in Procs, Store(q)  PROVE mem'[b] = mem[b]
    <3>1. mem' = mem \/ mem' = [mem EXCEPT ![pos + 1] = Blank]
      BY <2>2, Zenon DEF Store
    <3>2. b # pos + 1 /\ b \in DOMAIN mem
      BY <2>1, AcceleratorAssumption
    <3>. QED  BY <3>1, <3>2, Zenon
  <2>3. ASSUME NEW q \in Procs, Persist(q)  PROVE mem'[b] = mem[b]
    <3>1. /\ pc[q] = "persist"
          /\ mem' = [mem EXCEPT ![pos] = [file |-> local[q].file,
                                         timestamp |-> local[q].timestamp,
                                         content |-> local[q].content,
                                         corrupted |-> FALSE]]
      BY <2>3, Zenon DEF Persist, Goto
    <3>2. b # pos /\ b \in DOMAIN mem
      BY <2>1, <3>1, AcceleratorAssumption
    <3>. QED  BY <3>1, <3>2, Zenon
  <2>4. ASSUME NEW q \in Procs, Corrupt(q)
        PROVE  mem'[b].file = mem[b].file /\ mem'[b].content = mem[b].content
    BY <1>1, <2>1, <2>4, CorruptKeeps, Zenon
  <2>5. \/ mem' = mem
        \/ \E q \in Procs : Store(q) \/ Persist(q) \/ Corrupt(q)
    <3>1. ASSUME NEW q \in Procs, Activate(q) \/ Deactivate(q) \/ Crash(q) \/ Script_(q)
          PROVE  mem' = mem
      BY <3>1, ZenonT(30)
      DEF Activate, Deactivate, Crash, Script_, OpcacheReset, ResolvePath, CompileFile,
                  Invalidate, memory
    <3>2. ASSUME NEW q \in Procs, Engine(q), ~Store(q), ~Persist(q), ~Corrupt(q)
          PROVE  mem' = mem
      BY <3>2, ZenonT(30) DEF Engine, ActivateLock, IsInactive, KillLocker, KillDone, RestartEnter,
                  ResetCache, RestartLeave, Unlock, SetRestartPending, DisableAccelerator,
                  CompileUncached, Count, Find, Validate, Miss, Compile, Publish,
                  InvalidateLock, InvalidateCheck, InvalidateFind, InvalidateDone, memory
    <3>3. ASSUME ForceRestartDue \/ \E f \in Files : Edit(f)
          PROVE  mem' = mem
      BY <3>3, Zenon DEF ForceRestartDue, Edit, memory
    <3>. QED  BY <1>1, <3>1, <3>2, <3>3, Zenon DEF Next
  <2>6. CASE mem' = mem
    BY <2>6, Zenon
  <2>7. CASE \E q \in Procs : Store(q) \/ Persist(q) \/ Corrupt(q)
    <3>1. PICK q \in Procs : Store(q) \/ Persist(q) \/ Corrupt(q)
      BY <2>7, Zenon
    <3>2. Store(q) \/ Persist(q) => mem'[b] = mem[b]
      BY <2>2, <2>3, Zenon
    <3>. QED  BY <2>4, <3>1, <3>2, Zenon
  <2>. QED  BY <2>5, <2>6, <2>7, Zenon
<1>2. IInv /\ [Next]_vars => [InUseKept]_vars
  BY <1>1, Zenon
<1>. QED  BY <1>2, Invariance, PTL DEF Spec, NotOverwritten

-----------------------------------------------------------------------------
(* Restarts                                                                *)

\* Where a restart is being scheduled or under way.
SwitchPcs == RestartPcs \cup {"scheduling", "disable"}

\* A step of p that has nothing to do with restarts.
Quiet(p) ==
    /\ UNCHANGED <<restart_pending, accelerator_enabled, cache_status_before_restart,
                   memory_exhausted, wasted_shared_memory, write_lock>>
    /\ pc[p] \notin SwitchPcs /\ pc'[p] \notin SwitchPcs
    /\ \A q \in Procs \ {p} : pc'[q] = pc[q]

\* Exhausted memory that a restart would win back is noticed by whoever holds
\* the write lock: it is about to schedule the restart, or in the middle of one.
DueInv ==
    memory_exhausted /\ wasted_shared_memory >= MaxWasted /\ ~restart_pending
        => write_lock # NoProc /\ pc[write_lock] \in {"scheduling", "reset"}

\* The steps that have nothing to do with restarts.
LEMMA QuietSteps ==
    ASSUME IInv, NEW p \in Procs,
           \/ Activate(p) \/ KillDone(p)
           \/ CompileUncached(p) \/ Count(p) \/ Find(p) \/ Validate(p)
           \/ Miss(p) \/ Compile(p) \/ Persist(p) \/ Publish(p)
           \/ InvalidateLock(p) \/ InvalidateCheck(p) \/ InvalidateFind(p) \/ InvalidateDone(p)
           \/ \E f \in Files : ResolvePath(p, f) \/ CompileFile(p, f) \/ Invalidate(p, f)
    PROVE  Quiet(p)
<1>. USE DEF Quiet, SwitchPcs, RestartPcs, Goto, shared, memory, locks
<1>0. pc \in [Procs -> Pcs]
  BY Zenon DEF IInv, TypeOK
<1>1. CASE Activate(p) \/ KillDone(p)
  BY <1>0, <1>1, Zenon DEF Activate, KillDone
<1>2. CASE CompileUncached(p) \/ Count(p) \/ Find(p) \/ Validate(p)
  BY <1>0, <1>2, Zenon DEF CompileUncached, Count, Find, Validate, Proceed, AccelActivateAdd
<1>3. CASE Miss(p) \/ Compile(p) \/ Persist(p) \/ Publish(p)
  BY <1>0, <1>3, Zenon DEF Miss, Compile, Persist, Publish, Proceed
<1>4. CASE InvalidateLock(p) \/ InvalidateCheck(p)
  BY <1>0, <1>4, Zenon DEF InvalidateLock, InvalidateCheck, Proceed, AccelActivateAdd
<1>5. CASE InvalidateFind(p) \/ InvalidateDone(p)
  BY <1>0, <1>5, ZenonT(30) DEF InvalidateFind, InvalidateDone, Proceed
<1>6. CASE \E f \in Files : ResolvePath(p, f) \/ CompileFile(p, f) \/ Invalidate(p, f)
  BY <1>0, <1>6, ZenonT(30) DEF ResolvePath, CompileFile, Invalidate
<1>. QED  BY <1>1, <1>2, <1>3, <1>4, <1>5, <1>6, ZenonT(30)

\* No step loses sight of exhausted memory, as long as no process dies while
\* it schedules the restart.
LEMMA DueStep ==
    ASSUME Crashing = {}, IInv, DueInv, [Next]_vars
    PROVE  DueInv'
<1>0. pc \in [Procs -> Pcs] /\ write_lock \in Procs \cup {NoProc} /\ NoProc \notin Procs
  BY AcceleratorAssumption, Zenon DEF IInv, TypeOK
<1>1. ASSUME NEW p \in Procs, Quiet(p)  PROVE DueInv'
  BY <1>0, <1>1, Zenon DEF Quiet, SwitchPcs, RestartPcs, DueInv
<1>2. ASSUME NEW p \in Procs, ActivateLock(p) \/ IsInactive(p)  PROVE DueInv'
  BY <1>0, <1>2, ZenonT(30)
  DEF ActivateLock, IsInactive, AllocLock, Goto, shared, memory, locks, DueInv
<1>3. ASSUME NEW p \in Procs, KillLocker(p)  PROVE DueInv'
  <2>1. write_lock = p
    BY <1>3, Zenon DEF KillLocker, IInv, LockOK, HoldsLock
  <2>. QED  BY <1>0, <1>3, <2>1, Zenon DEF KillLocker, Die, shared, memory, DueInv
<1>4. ASSUME NEW p \in Procs, RestartEnter(p) \/ ResetCache(p) \/ RestartLeave(p) \/ Unlock(p)
      PROVE  DueInv'
  <2>1. write_lock = p
    BY <1>4, Zenon DEF RestartEnter, ResetCache, RestartLeave, Unlock, Proceed, Goto, IInv, LockOK,
                HoldsLock, RestartPcs
  <2>2. CASE RestartEnter(p) \/ ResetCache(p)
    BY <1>0, <2>1, <2>2, Zenon DEF RestartEnter, ResetCache, Goto, locks, DueInv
  <2>3. CASE RestartLeave(p) \/ Unlock(p)
    BY <1>0, <2>1, <2>3, ZenonT(30) DEF RestartLeave, Unlock, Proceed, Goto, shared, memory, DueInv
  <2>. QED  BY <1>4, <2>2, <2>3, Zenon
<1>5. ASSUME NEW p \in Procs, SetRestartPending(p) \/ DisableAccelerator(p) \/ OpcacheReset(p)
      PROVE  DueInv'
  BY <1>0, <1>5, ZenonT(30)
  DEF SetRestartPending, DisableAccelerator, OpcacheReset, Goto, shared, memory,
                    locks, DueInv
<1>6. ASSUME NEW p \in Procs, Corrupt(p)  PROVE DueInv'
  <2>1. /\ write_lock = NoProc /\ write_lock' = p
        /\ UNCHANGED <<restart_pending, memory_exhausted>>
        /\ \/ UNCHANGED wasted_shared_memory
           \/ /\ wasted_shared_memory' = wasted_shared_memory + 1
              /\ memory_exhausted /\ wasted_shared_memory' >= MaxWasted /\ ~restart_pending
                    => pc'[p] = "scheduling"
    BY <1>0, <1>6, Zenon DEF Corrupt, AllocLock, Goto, RestartNecessary, shared
  <2>. QED  BY <1>0, <2>1, Zenon DEF DueInv
<1>7. ASSUME NEW p \in Procs, Store(p)  PROVE DueInv'
  <2>1. /\ write_lock = NoProc /\ write_lock' = p
        /\ UNCHANGED <<restart_pending, wasted_shared_memory>>
        /\ \/ memory_exhausted' = memory_exhausted
           \/ RestartNecessary(wasted_shared_memory) => pc'[p] = "scheduling"
    BY <1>0, <1>7, ZenonT(30) DEF Store, AllocLock, Goto, shared
  <2>. QED  BY <1>0, <2>1, ZenonT(30) DEF DueInv, RestartNecessary
<1>8. ASSUME NEW p \in Procs, Deactivate(p)  PROVE DueInv'
  BY <1>0, <1>8, Zenon DEF Deactivate, Goto, Die, shared, memory, DueInv
<1>9. CASE ForceRestartDue \/ UNCHANGED vars \/ \E f \in Files : Edit(f)
  BY <1>9, ZenonT(30) DEF ForceRestartDue, Edit, vars, shared, memory, locks, DueInv
<1>. QED
  BY <1>1, <1>2, <1>3, <1>4, <1>5, <1>6, <1>7, <1>8, <1>9, QuietSteps, Zenon
  DEF Next, Engine, Script_, Crash

\* When restarts are scheduled only under the write lock, the cache is turned
\* off once per restart, and the flag to turn it on again is not lost.
SwitchInv ==
    /\ ~accelerator_enabled => cache_status_before_restart
    /\ restart_pending => ~accelerator_enabled \/ \E p \in Procs : pc[p] = "disable"
    /\ \A p \in Procs :
         /\ pc[p] \in {"scheduling", "disable"} => write_lock = p /\ accelerator_enabled
         /\ pc[p] = "scheduling" => ~restart_pending
         /\ pc[p] = "disable" => restart_pending
         /\ pc[p] \in {"restart_enter", "reset"} => ~accelerator_enabled
         /\ pc[p] = "restart_leave" => accelerator_enabled

\* Every step keeps SwitchInv and OffMeansRestart, without opcache_reset() and
\* as long as no process dies in between.
LEMMA SwitchStep ==
    ASSUME Crashing = {}, Resetters = {}, IInv, SwitchInv, OffMeansRestart, [Next]_vars
    PROVE  SwitchInv' /\ OffMeansRestart'
<1>. USE DEF SwitchInv, OffMeansRestart, RestartPcs
<1>0. /\ pc \in [Procs -> Pcs] /\ write_lock \in Procs \cup {NoProc} /\ NoProc \notin Procs
      /\ restart_pending \in BOOLEAN /\ accelerator_enabled \in BOOLEAN
      /\ cache_status_before_restart \in BOOLEAN
      /\ \A p \in Procs : pc[p] \in RestartPcs \cup {"is_inactive", "kill", "unlock"} => write_lock = p
  BY AcceleratorAssumption, Zenon DEF IInv, TypeOK, LockOK, HoldsLock
<1>1. ASSUME NEW p \in Procs, Quiet(p)  PROVE SwitchInv' /\ OffMeansRestart'
  BY <1>0, <1>1, Zenon DEF Quiet, SwitchPcs
<1>2. ASSUME NEW p \in Procs, ActivateLock(p)  PROVE SwitchInv' /\ OffMeansRestart'
  BY <1>0, <1>2, Zenon DEF ActivateLock, AllocLock, Goto, shared
<1>3. ASSUME NEW p \in Procs, IsInactive(p)  PROVE SwitchInv' /\ OffMeansRestart'
  <2>1. /\ pc[p] = "is_inactive" /\ UNCHANGED <<restart_pending, accelerator_enabled,
                                                cache_status_before_restart, write_lock>>
        /\ \A q \in Procs \ {p} : pc'[q] = pc[q]
        /\ \/ pc'[p] \in {"unlock", "kill"}
           \/ pc'[p] = "restart_enter" /\ restart_pending
    BY <1>0, <1>3, Zenon DEF IsInactive, Goto, locks
  <2>. QED  BY <1>0, <2>1, Zenon
<1>4. ASSUME NEW p \in Procs, KillLocker(p)  PROVE SwitchInv' /\ OffMeansRestart'
  <2>1. PICK q \in readers \ {p} :
           /\ pc' = [pc EXCEPT ![q] = "idle"]
           /\ write_lock' = IF write_lock = q THEN NoProc ELSE write_lock
    BY <1>4, ZenonT(30) DEF KillLocker, Die
  <2>2. write_lock = p /\ write_lock' = p /\ pc[p] = "kill"
    BY <1>0, <1>4, <2>1, Zenon DEF KillLocker
  <2>. QED  BY <1>0, <1>4, <2>1, <2>2, Zenon DEF KillLocker, shared
<1>5. ASSUME NEW p \in Procs, RestartEnter(p) \/ ResetCache(p)
      PROVE  SwitchInv' /\ OffMeansRestart'
  BY <1>0, <1>5 DEF RestartEnter, ResetCache, Goto, locks
<1>6. ASSUME NEW p \in Procs, RestartLeave(p)  PROVE SwitchInv' /\ OffMeansRestart'
  BY <1>0, <1>6, Zenon DEF RestartLeave, Goto
<1>7. ASSUME NEW p \in Procs, Unlock(p)  PROVE SwitchInv' /\ OffMeansRestart'
  <2>1. local[p].next \in {"run", "miss", "inv_done"}
    BY Zenon DEF IInv, TypeOK, Call
  <2>. QED  BY <1>0, <1>7, <2>1, Zenon DEF Unlock, Proceed, Goto, shared
<1>8. ASSUME NEW p \in Procs, SetRestartPending(p) \/ DisableAccelerator(p)
      PROVE  SwitchInv' /\ OffMeansRestart'
  BY <1>0, <1>8, Zenon DEF SetRestartPending, DisableAccelerator, Goto, locks
<1>9. ASSUME NEW p \in Procs, Corrupt(p) \/ Store(p)  PROVE SwitchInv' /\ OffMeansRestart'
  <2>1. /\ write_lock = NoProc /\ write_lock' = p
        /\ UNCHANGED <<restart_pending, accelerator_enabled, cache_status_before_restart>>
        /\ pc[p] \in {"corrupt", "store"} /\ \A q \in Procs \ {p} : pc'[q] = pc[q]
        /\ \/ pc'[p] \in {"unlock", "persist"}
           \/ pc'[p] = "scheduling" /\ ~restart_pending
    BY <1>0, <1>9, ZenonT(30) DEF Corrupt, Store, AllocLock, Goto, RestartNecessary, shared
  <2>2. ~restart_pending => accelerator_enabled
    BY <1>0, <2>1, Zenon
  <2>. QED  BY <1>0, <2>1, <2>2, Zenon
<1>10. ASSUME NEW p \in Procs, Deactivate(p)  PROVE SwitchInv' /\ OffMeansRestart'
  BY <1>0, <1>10, Zenon DEF Deactivate, Goto, Die, shared
<1>11. CASE ForceRestartDue \/ UNCHANGED vars \/ \E f \in Files : Edit(f)
  BY <1>11 DEF ForceRestartDue, Edit, vars, shared, locks
<1>. QED
  BY <1>1, <1>2, <1>3, <1>4, <1>5, <1>6, <1>7, <1>8, <1>9, <1>10, <1>11, QuietSteps, ZenonT(30)
  DEF Next, Engine, Script_, Crash, OpcacheReset

-----------------------------------------------------------------------------
(* What a request is given                                                 *)

\* A call knows a version of its file that is no newer than the file; what it
\* compiles is no older than that version, and what it is about to publish is
\* what it has compiled.
SinceInv ==
    \A p \in Procs :
        /\ local[p].file \in Files => local[p].since <= disk[local[p].file]
        /\ pc[p] \in {"store", "persist", "publish"} => local[p].since <= local[p].content
        /\ pc[p] = "publish" => mem[pos].content = local[p].content

\* Every step keeps SinceInv.
LEMMA SinceStep ==
    ASSUME IInv, SinceInv, [Next]_vars
    PROVE  SinceInv'
<1>0. /\ pc \in [Procs -> Pcs] /\ local \in [Procs -> Call] /\ disk \in [Files -> Versions]
      /\ \A f \in Files : disk[f] \in Nat /\ 0 <= disk[f]
      /\ NoFile \notin Files /\ NoCall.file = NoFile /\ NoProc \notin Procs
      /\ pos \in 0 .. Blocks /\ mem \in [1 .. Blocks -> Script]
      /\ \A p \in Procs : pc[p] \in {"publish", "persist", "reset"} => write_lock = p
  BY AcceleratorAssumption DEF IInv, TypeOK, NoCall, Versions, LockOK, HoldsLock, RestartPcs
<1>1. ASSUME NEW p \in Procs,
             \/ ActivateLock(p) \/ IsInactive(p) \/ KillDone(p) \/ RestartEnter(p)
             \/ RestartLeave(p) \/ SetRestartPending(p) \/ DisableAccelerator(p)
             \/ OpcacheReset(p) \/ Count(p) \/ InvalidateLock(p)
      PROVE  SinceInv'
  <2>1. /\ UNCHANGED <<local, disk, pos, mem>> /\ \A q \in Procs \ {p} : pc'[q] = pc[q]
        /\ pc'[p] \notin {"store", "persist", "publish"}
    BY <1>0, <1>1, Zenon DEF ActivateLock, IsInactive, KillDone, RestartEnter, RestartLeave,
          SetRestartPending, DisableAccelerator, OpcacheReset, Count, InvalidateLock, Goto, memory
  <2>. QED  BY <2>1, Zenon DEF SinceInv
<1>2. ASSUME NEW p \in Procs, ResetCache(p)  PROVE SinceInv'
  BY <1>0, <1>2, ZenonT(30) DEF ResetCache, Goto, SinceInv
<1>3. ASSUME NEW p \in Procs,
             \/ Activate(p) \/ Deactivate(p) \/ Crash(p) \/ CompileUncached(p)
             \/ InvalidateDone(p) \/ KillLocker(p)
      PROVE  SinceInv'
  <2>1. PICK q \in Procs :
           /\ pc' = [pc EXCEPT ![q] = pc'[q]] /\ local' = [local EXCEPT ![q] = NoCall]
           /\ pc'[q] \in {"idle", "activate", "run"} /\ UNCHANGED <<disk, pos, mem>>
    <3>1. CASE KillLocker(p)
      <4>1. PICK q \in readers \ {p} : Die(q) /\ pc' = [pc EXCEPT ![q] = "idle"]
        BY <3>1, ZenonT(30) DEF KillLocker
      <4>2. q \in Procs
        BY Zenon DEF IInv, TypeOK
      <4>. QED  BY <1>0, <3>1, <4>1, <4>2, ZenonT(30) DEF KillLocker, Die, memory
    <3>2. CASE ~KillLocker(p)
      BY <1>0, <1>3, <3>2, Zenon DEF Activate, Deactivate, Crash, CompileUncached, InvalidateDone,
            Proceed, Goto, Die, memory
    <3>. QED  BY <3>1, <3>2, Zenon
  <2>. QED  BY <1>0, <2>1, Zenon DEF SinceInv
<1>4. ASSUME NEW p \in Procs, Unlock(p) \/ InvalidateCheck(p)  PROVE SinceInv'
  <2>1. local[p].next \in {"run", "miss", "inv_done"}
    BY Zenon DEF IInv, TypeOK, Call
  <2>2. /\ UNCHANGED <<disk, pos, mem>> /\ \A q \in Procs \ {p} : local'[q] = local[q] /\ pc'[q] = pc[q]
        /\ local'[p] \in {local[p], NoCall} /\ pc'[p] \notin {"store", "persist", "publish"}
    BY <1>0, <1>4, <2>1, Zenon DEF Unlock, InvalidateCheck, Proceed, Goto, memory
  <2>. QED  BY <1>0, <2>2, ZenonT(30) DEF SinceInv
<1>5. ASSUME NEW p \in Procs, Find(p) \/ Validate(p) \/ Miss(p) \/ InvalidateFind(p)
      PROVE  SinceInv'
  <2>1. /\ UNCHANGED <<disk, pos, mem>> /\ \A q \in Procs \ {p} : local'[q] = local[q] /\ pc'[q] = pc[q]
        /\ pc'[p] \notin {"store", "persist", "publish"}
    BY <1>0, <1>5, ZenonT(30) DEF Find, Validate, Miss, InvalidateFind, Proceed, Goto, memory
  <2>2. \/ local'[p] = NoCall
        \/ local'[p].file = local[p].file /\ local'[p].since = local[p].since
    <3>1. local[p] \in Call
      BY <1>0, Zenon
    <3>2. CASE Find(p)
      BY <1>0, <3>1, <3>2, Zenon DEF Find, Proceed, Call
    <3>3. CASE Validate(p)
      BY <1>0, <3>1, <3>3, Zenon DEF Validate, Proceed, Call
    <3>4. CASE Miss(p)
      BY <1>0, <3>1, <3>4, Zenon DEF Miss, Proceed, Call
    <3>5. CASE InvalidateFind(p)
      <4>. DEFINE c == [local[p] EXCEPT !.script = hash[local[p].file], !.next = "inv_done"]
      <4>1. c.file = local[p].file /\ c.since = local[p].since
        BY <3>1, Zenon DEF Call
      <4>2. local'[p] = NoCall \/ local'[p] = c
        BY <1>0, <3>5, Zenon DEF InvalidateFind, Proceed
      <4>. QED  BY <4>1, <4>2, ZenonT(30)
    <3>. QED  BY <1>5, <3>2, <3>3, <3>4, <3>5, ZenonT(30)
  <2>. QED  BY <1>0, <2>1, <2>2, ZenonT(30) DEF SinceInv
<1>6. ASSUME NEW p \in Procs, NEW f \in Files, ResolvePath(p, f) \/ Invalidate(p, f)
      PROVE  SinceInv'
  <2>1. /\ UNCHANGED <<disk, pos, mem>> /\ \A q \in Procs \ {p} : local'[q] = local[q] /\ pc'[q] = pc[q]
        /\ pc'[p] \notin {"store", "persist", "publish"}
    BY <1>0, <1>6, Zenon DEF ResolvePath, Invalidate, Goto, memory
  <2>2. local'[p].file = f /\ local'[p].since = 0
    <3>1. CASE ResolvePath(p, f)
      <4>1. \E found : local'[p] = [NoCall EXCEPT !.file = f, !.cache = found]
        BY <1>0, <3>1, ZenonT(30) DEF ResolvePath
      <4>. QED  BY <4>1, Zenon DEF NoCall
    <3>2. CASE Invalidate(p, f)
      <4>1. local'[p] = [NoCall EXCEPT !.file = f]
        BY <1>0, <3>2, Zenon DEF Invalidate
      <4>. QED  BY <4>1, Zenon DEF NoCall
    <3>. QED  BY <1>6, <3>1, <3>2, Zenon
  <2>. QED  BY <1>0, <2>1, <2>2, Zenon DEF SinceInv
<1>7. ASSUME NEW p \in Procs, NEW f \in Files, CompileFile(p, f)  PROVE SinceInv'
  <2>1. /\ UNCHANGED <<disk, pos, mem>> /\ \A q \in Procs \ {p} : local'[q] = local[q] /\ pc'[q] = pc[q]
        /\ pc'[p] \notin {"store", "persist", "publish"}
    BY <1>0, <1>7, Zenon DEF CompileFile, memory
  <2>2. local'[p].file = f /\ local'[p].since = disk[f]
    <3>1. local[p] \in Call
      BY <1>0, Zenon
    <3>. QED  BY <1>0, <1>7, <3>1, Zenon DEF CompileFile, Call
  <2>. QED  BY <1>0, <2>1, <2>2 DEF SinceInv
<1>8. ASSUME NEW p \in Procs, Compile(p)  PROVE SinceInv'
  <2>1. /\ UNCHANGED <<disk, pos, mem>> /\ \A q \in Procs \ {p} : local'[q] = local[q] /\ pc'[q] = pc[q]
        /\ pc'[p] = "store" /\ local[p].file \in Files
    BY <1>0, <1>8, Zenon DEF Compile, Goto, memory, IInv, FileOK, FilePcs
  <2>2. /\ local'[p].file = local[p].file /\ local'[p].since = local[p].since
        /\ local'[p].content = disk[local[p].file]
    <3>1. local[p] \in Call
      BY <1>0, Zenon
    <3>. QED  BY <1>0, <1>8, <3>1, Zenon DEF Compile, Call
  <2>. QED  BY <1>0, <2>1, <2>2 DEF SinceInv
<1>9. ASSUME NEW p \in Procs, Store(p) \/ Corrupt(p)  PROVE SinceInv'
  <2>1. /\ UNCHANGED <<disk, local>> /\ \A q \in Procs : pc[q] # "publish"
        /\ \A q \in Procs \ {p} : pc'[q] = pc[q]
        /\ pc'[p] \in {"store", "persist", "publish"} => pc[p] = "store" /\ pc'[p] = "persist"
    BY <1>0, <1>9, ZenonT(30) DEF Store, Corrupt, AllocLock, Goto
  <2>. QED  BY <1>0, <2>1, Zenon DEF SinceInv
<1>10. ASSUME NEW p \in Procs, Persist(p)  PROVE SinceInv'
  <2>1. /\ UNCHANGED <<disk, local, pos>> /\ \A q \in Procs \ {p} : pc[q] # "publish"
        /\ \A q \in Procs \ {p} : pc'[q] = pc[q]
        /\ pc[p] = "persist" /\ pc'[p] = "publish"
    BY <1>0, <1>10, Zenon DEF Persist, Goto
  <2>2. pos # 0 /\ pos \in 1 .. Blocks
    BY <1>0, <2>1, AcceleratorAssumption DEF IInv, StoringOK
  <2>3. mem'[pos].content = local[p].content
    BY <1>0, <1>10, <2>2, Zenon DEF Persist
  <2>. QED  BY <1>0, <2>1, <2>3, Zenon DEF SinceInv
<1>11. ASSUME NEW p \in Procs, Publish(p)  PROVE SinceInv'
  BY <1>0, <1>11, Zenon DEF Publish, Goto, SinceInv
<1>12. ASSUME NEW f \in Files, Edit(f)  PROVE SinceInv'
  <2>1. UNCHANGED <<pc, local, pos, mem>> /\ \A g \in Files : disk[g] <= disk'[g]
    BY <1>0, <1>12 DEF Edit, memory
  <2>2. \A p \in Procs : local[p].since \in Nat
    BY <1>0, AcceleratorAssumption DEF Call, Versions
  <2>3. \A g \in Files : disk'[g] \in Nat
    BY <1>0, <1>12 DEF Edit
  <2>. QED  BY <1>0, <2>1, <2>2, <2>3 DEF SinceInv
<1>13. CASE ForceRestartDue \/ UNCHANGED vars
  BY <1>13, Zenon DEF ForceRestartDue, vars, memory, SinceInv
<1>. QED
  BY <1>1, <1>2, <1>3, <1>4, <1>5, <1>6, <1>7, <1>8, <1>9, <1>10, <1>11, <1>12, <1>13, Zenon
  DEF Next, Engine, Script_

\* What a step adds to the scripts a request uses.
LEMMA ServeStep ==
    ASSUME IInv, SinceInv, Next, NEW p \in Procs, NEW b \in uses'[p] \ uses[p]
    PROVE  mem[b].file = local[p].file /\ mem[b].content >= local[p].since
<1>0. /\ uses \in [Procs -> SUBSET (1 .. Blocks)] /\ local[p] \in Call
      /\ mem \in [1 .. Blocks -> Script] /\ disk \in [Files -> Versions]
      /\ pos \in 0 .. Blocks
  BY Zenon DEF IInv, TypeOK
<1>1. \/ Validate(p) /\ b = local[p].script /\ Validates(b, local[p].file)
      \/ Publish(p) /\ b = pos
  <2>1. ASSUME NEW q \in Procs, Engine(q), ~KillLocker(q), ~Validate(q), ~Publish(q)
        PROVE  uses' = uses
    BY <2>1, ZenonT(30)
    DEF Engine, ActivateLock, IsInactive, KillDone, RestartEnter, ResetCache, RestartLeave,
          Unlock, SetRestartPending, DisableAccelerator, CompileUncached, Count, Find, Corrupt,
          Miss, Compile, Store, Persist, InvalidateLock, InvalidateCheck, InvalidateFind,
          InvalidateDone
  <2>2. ASSUME NEW q \in Procs, Activate(q) \/ Script_(q)  PROVE uses' = uses
    BY <2>2, ZenonT(30) DEF Activate, Script_, OpcacheReset, ResolvePath, CompileFile, Invalidate
  <2>3. ASSUME NEW q \in Procs, KillLocker(q) \/ Deactivate(q) \/ Crash(q)
        PROVE  uses'[p] \subseteq uses[p]
    BY <1>0, <2>3, Zenon DEF KillLocker, Deactivate, Crash, Die
  <2>4. CASE ForceRestartDue \/ \E f \in Files : Edit(f)
    BY <2>4, ZenonT(30) DEF ForceRestartDue, Edit
  <2>5. ASSUME NEW q \in Procs, Validate(q)
        PROVE  Validate(p) /\ b = local[p].script /\ Validates(b, local[p].file)
    BY <1>0, <2>5, ZenonT(30) DEF Validate
  <2>6. ASSUME NEW q \in Procs, Publish(q)  PROVE Publish(p) /\ b = pos
    BY <1>0, <2>6, ZenonT(30) DEF Publish
  <2>. QED  BY <2>1, <2>2, <2>3, <2>4, <2>5, <2>6, ZenonT(30) DEF Next
<1>2. CASE Validate(p) /\ b = local[p].script /\ Validates(b, local[p].file)
  <2>1. /\ local[p].file \in Files /\ b \in 1 .. Blocks
        /\ mem[b].file = local[p].file /\ mem[b].timestamp = disk[local[p].file]
    <3>1. pc[p] = "validate"
      BY <1>2, Zenon DEF Validate, Proceed, Goto
    <3>2. local[p].script \in 0 .. Blocks /\ local[p].script # 0 /\ local[p].file \in Files
      BY <1>0, <3>1, Zenon DEF IInv, ReadLockOK, FileOK, FilePcs, Call
    <3>3. b \in 1 .. Blocks
      BY <1>2, <3>2, AcceleratorAssumption
    <3>4. mem[b].file = local[p].file /\ mem[b].timestamp = disk[local[p].file]
      BY <1>2, Zenon DEF Validates
    <3>. QED  BY <3>2, <3>3, <3>4, Zenon
  <2>2. /\ mem[b].timestamp <= mem[b].content /\ mem[b].content <= disk[local[p].file]
        /\ local[p].since <= disk[local[p].file]
    BY <2>1, Zenon DEF IInv, MemOK, Ages, SinceInv
  <2>3. mem[b].content \in Nat /\ disk[local[p].file] \in Nat /\ local[p].since \in Nat
    BY <1>0, <2>1, AcceleratorAssumption DEF Script, Call, Versions
  <2>. QED  BY <2>1, <2>2, <2>3
<1>3. CASE Publish(p) /\ b = pos
  <2>1. pc[p] = "publish"
    BY <1>3, Zenon DEF Publish, Goto
  <2>2. /\ mem[pos].file = local[p].file /\ mem[pos].content = local[p].content
        /\ local[p].since <= local[p].content
    BY <2>1, Zenon DEF IInv, StoringOK, SinceInv
  <2>3. local[p].since \in Nat /\ local[p].content \in Nat
    BY <1>0, AcceleratorAssumption DEF Call, Versions
  <2>. QED  BY <1>3, <2>2, <2>3, Zenon
<1>. QED  BY <1>1, <1>2, <1>3, ZenonT(30)

\* A request is given the script of its file, no older than the file was when
\* it asked: do_validate_timestamps compares with a time that was taken before
\* the text was read.
THEOREM ServedIsCurrent == Spec => ServesCurrent
<1>1. Init => SinceInv
  BY AcceleratorAssumption DEF Init, SinceInv, NoCall
<1>2. IInv /\ SinceInv /\ [Next]_vars => SinceInv'
  BY SinceStep, Zenon
<1>3. IInv /\ SinceInv /\ [Next]_vars => [GivenCurrent]_vars
  BY ServeStep, Zenon DEF GivenCurrent
<1>. QED  BY <1>1, <1>2, <1>3, Invariance, PTL DEF Spec, ServesCurrent

\* The shared globals, the table, the memory and the state of every process
\* have their types.
THEOREM TypeCorrect == Spec => []TypeOK
<1>1. IInv => TypeOK
  BY Zenon DEF IInv
<1>. QED  BY <1>1, Invariance, PTL

\* Unless a process dies between zend_shared_alloc and the end of
\* zend_accel_schedule_restart, nobody leaves the write lock with memory
\* exhausted, enough of it wasted and no restart pending.
THEOREM ExhaustionRestarts ==
    ASSUME Crashing = {}
    PROVE  Spec => []ExhaustedRestarts
<1>1. Init => DueInv
  BY Zenon DEF Init, DueInv
<1>2. IInv /\ DueInv /\ [Next]_vars => DueInv'
  BY DueStep, Zenon
<1>3. DueInv => ExhaustedRestarts
  BY Zenon DEF DueInv, ExhaustedRestarts
<1>. QED  BY <1>1, <1>2, <1>3, Invariance, PTL DEF Spec

\* When every restart is scheduled under the write lock, and nobody dies while
\* holding it, a cache that is off has a restart to come, and that restart
\* turns it on: cache_status_before_restart never records the off state.
THEOREM OffRestarts ==
    ASSUME Crashing = {}, Resetters = {}
    PROVE  Spec => []OffMeansRestart
<1>1. Init => SwitchInv /\ OffMeansRestart
  BY Zenon DEF Init, SwitchInv, OffMeansRestart, RestartPcs
<1>2. IInv /\ SwitchInv /\ OffMeansRestart /\ [Next]_vars => SwitchInv' /\ OffMeansRestart'
  BY SwitchStep, Zenon
<1>. QED  BY <1>1, <1>2, Invariance, PTL DEF Spec
=============================================================================
