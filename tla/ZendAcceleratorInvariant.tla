---------------------- MODULE ZendAcceleratorInvariant ----------------------
(***************************************************************************)
(* The inductive invariant of ZendAccelerator, and that requests and       *)
(* restarts keep it, the lookup and the compilation of a script included.  *)
(***************************************************************************)
EXTENDS ZendAccelerator, TLAPS

\* Where a process holds the write lock.
HoldsLock == RestartPcs \cup {"is_inactive", "kill", "persist", "publish", "unlock"}

\* The write lock is held by at most one process, where the code needs it.
LockOK == \A p \in Procs : pc[p] \in HoldsLock => write_lock = p

\* The time of a script is no later than its text, its text no later than the
\* file: the time is taken before the file is compiled.
Ages(timestamp, content, f) == timestamp <= content /\ content <= disk[f]

MemOK == \A b \in 1 .. Blocks :
            mem[b].file \in Files => Ages(mem[b].timestamp, mem[b].content, mem[b].file)

\* Where a call works on a file.
FilePcs == {"resolved", "count", "find", "validate", "miss", "compile", "store",
            "persist", "publish", "inv_lock", "inv_check", "inv_find"}

FileOK == \A p \in Procs :
    pc[p] \in FilePcs \/ local[p].next = "miss" => local[p].file \in Files

\* How far a script on its way into the cache has come.
StoringOK == \A p \in Procs :
    /\ pc[p] = "compile" => local[p].timestamp <= disk[local[p].file]
    /\ pc[p] \in {"store", "persist"} =>
          /\ local[p].content # 0
          /\ Ages(local[p].timestamp, local[p].content, local[p].file)
    /\ pc[p] = "persist" => pos # 0 /\ \A f \in Files : hash[f] < pos
    /\ pc[p] = "publish" => /\ pos # 0
                            /\ mem[pos].file = local[p].file
                            /\ mem[pos].content # 0

\* Where a process is outside every request, or not yet in one.
QuietPcs == RestartPcs \cup {"idle", "activate", "is_inactive", "kill"}

\* Where persistent_compile_file has counted the process.
CountedPcs == {"find", "validate", "miss", "compile", "store", "persist", "publish"}

\* Pointers into the cache go with a read lock.
ReadLockOK == \A p \in Procs :
    /\ pc[p] \in CountedPcs \/ local[p].next = "miss" \/ uses[p] # {} => counted[p]
    /\ counted[p] \/ local[p].script # 0 \/ pc[p] \in {"inv_check", "inv_find"}
          => p \in readers
    /\ pc[p] = "validate" => local[p].script # 0
    /\ pc[p] \in {"inv_lock", "inv_check"} => ~counted[p] /\ local[p].script = 0
    /\ pc[p] \in QuietPcs =>
          p \notin readers /\ uses[p] = {} /\ local[p].cache = 0 /\ local[p].script = 0

\* A block that is in use or about to be: handed out, and not being written.
InPlace(b) == b <= pos /\ \A q \in Procs : pc[q] = "persist" => b < pos

Protected == \A p \in Procs \ exposed :
    /\ \A b \in uses[p] \cup {local[p].script, local[p].cache} : InPlace(b)
    /\ Window => p \notin readers /\ local[p].cache = 0

IInv == /\ TypeOK /\ LockOK /\ HashSound /\ MemOK
        /\ FileOK /\ StoringOK /\ ReadLockOK /\ Protected

-----------------------------------------------------------------------------
\* The data of a call stays well-formed, whatever field is assigned.
LEMMA CallUpdate ==
    ASSUME NEW c \in Call
    PROVE  /\ \A b \in 0 .. Blocks : [c EXCEPT !.cache = b] \in Call
                                   /\ [c EXCEPT !.script = b] \in Call
           /\ \A v \in {0} \cup Versions : /\ [c EXCEPT !.since = v] \in Call
                                          /\ [c EXCEPT !.timestamp = v] \in Call
                                          /\ [c EXCEPT !.content = v] \in Call
           /\ \A n \in {"run", "miss", "inv_done"} : [c EXCEPT !.next = n] \in Call
           /\ \A f \in Files : [c EXCEPT !.file = f] \in Call
BY Zenon DEF Call

\* No call is well-formed data, too.
LEMMA NoCallIsCall == NoCall \in Call
BY AcceleratorAssumption DEF Call, NoCall

\* A step that leaves the cached scripts and the files alone.
LEMMA CacheSame ==
    ASSUME HashSound, MemOK, UNCHANGED <<memory, disk>>
    PROVE  HashSound' /\ MemOK'
BY Zenon DEF HashSound, MemOK, Ages, memory

-----------------------------------------------------------------------------
(* The start and the end of a request, and a restart.                      *)

\* Activate keeps the invariant.
LEMMA ActivateStep ==
    ASSUME IInv, NEW p \in Procs, Activate(p)
    PROVE  IInv'
<1>1. TypeOK'
  BY AcceleratorAssumption, NoCallIsCall
  DEF Activate, Goto, shared, memory, locks, IInv, TypeOK, Pcs, LockedPcs, RestartPcs
<1>2. LockOK' /\ HashSound' /\ MemOK'
  BY AcceleratorAssumption, CacheSame, Zenon DEF Activate, Goto, locks, IInv, TypeOK, LockOK,
     HoldsLock, RestartPcs
<1>3. FileOK' /\ StoringOK'
  BY AcceleratorAssumption
  DEF Activate, Goto, memory, IInv, TypeOK, FileOK, FilePcs, StoringOK, Ages, LockOK,
      HoldsLock, NoCall
<1>4. ReadLockOK'
  BY DEF Activate, Goto, locks, IInv, TypeOK, ReadLockOK, QuietPcs, CountedPcs, RestartPcs,
     NoCall
<1>5. Protected'
  BY AcceleratorAssumption
  DEF Activate, Goto, memory, locks, IInv, TypeOK, Protected, InPlace, Window, StoringOK, RestartPcs,
      LockOK, HoldsLock, ReadLockOK, QuietPcs, NoCall
<1>. QED  BY <1>1, <1>2, <1>3, <1>4, <1>5, Zenon DEF IInv

\* ActivateLock keeps the invariant.
LEMMA ActivateLockStep ==
    ASSUME IInv, NEW p \in Procs, ActivateLock(p)
    PROVE  IInv'
<1>1. TypeOK'
  BY AcceleratorAssumption
  DEF ActivateLock, Goto, AllocLock, shared, memory, locks, IInv, TypeOK, Pcs, LockedPcs,
      RestartPcs
<1>2. LockOK' /\ HashSound' /\ MemOK'
  BY AcceleratorAssumption, CacheSame, Zenon DEF ActivateLock, Goto, AllocLock, locks, IInv,
     TypeOK, LockOK, HoldsLock, RestartPcs
<1>3. FileOK' /\ StoringOK'
  BY AcceleratorAssumption, Zenon
  DEF ActivateLock, Goto, AllocLock, memory, IInv, TypeOK, FileOK, FilePcs, StoringOK, Ages,
      LockOK, HoldsLock
<1>4. ReadLockOK'
  BY Zenon DEF ActivateLock, Goto, AllocLock, locks, IInv, TypeOK, ReadLockOK, QuietPcs, CountedPcs,
     RestartPcs
<1>5. Protected'
  BY AcceleratorAssumption
  DEF ActivateLock, Goto, AllocLock, memory, locks, IInv, TypeOK, Protected, InPlace,
      Window, RestartPcs, LockOK, HoldsLock, ReadLockOK, QuietPcs
<1>. QED  BY <1>1, <1>2, <1>3, <1>4, <1>5, Zenon DEF IInv

\* Who could be found with a pointer and no read lock is exposed from here on.
LEMMA IsInactiveStep ==
    ASSUME IInv, NEW p \in Procs, IsInactive(p)
    PROVE  IInv'
<1>1. PICK to \in {"unlock", "restart_enter", "kill"} :
        /\ pc[p] = "is_inactive" /\ pc' = [pc EXCEPT ![p] = to]
        /\ \/ to # "restart_enter" /\ exposed' = exposed
           \/ to = "restart_enter" /\ readers \ {p} = {} /\ exposed' = exposed \cup FoundUnlocked
  BY Zenon DEF IsInactive, Goto
<1>2. /\ force_restart_time' \in {"none", force_restart_time}
      /\ UNCHANGED <<restart_pending, restart_in_progress, accelerator_enabled,
                     cache_status_before_restart, memory, locks, counted, local, uses, disk>>
  BY Zenon DEF IsInactive
<1>3. TypeOK'
  BY <1>1, <1>2 DEF IInv, TypeOK, Pcs, LockedPcs, RestartPcs, FoundUnlocked, memory, locks
<1>4. LockOK' /\ HashSound' /\ MemOK'
  BY <1>1, <1>2, CacheSame, Zenon DEF IInv, TypeOK, LockOK, HoldsLock, RestartPcs, locks
<1>5. FileOK' /\ StoringOK'
  BY <1>1, <1>2, Zenon DEF IInv, TypeOK, FileOK, FilePcs, StoringOK, Ages, memory
<1>6. ReadLockOK'
  BY <1>1, <1>2, Zenon DEF IInv, TypeOK, ReadLockOK, QuietPcs, CountedPcs, RestartPcs, locks
<1>7. Protected'
  BY <1>1, <1>2
  DEF IInv, TypeOK, Protected, InPlace, Window, RestartPcs, FoundUnlocked, ReadLockOK, QuietPcs,
      memory, locks
<1>. QED  BY <1>3, <1>4, <1>5, <1>6, <1>7, Zenon DEF IInv

\* The killed process takes its locks and pointers with it.
LEMMA KillLockerStep ==
    ASSUME IInv, NEW p \in Procs, KillLocker(p)
    PROVE  IInv'
<1>1. TypeOK'
  BY AcceleratorAssumption, NoCallIsCall
  DEF KillLocker, Die, shared, memory, locks, IInv, TypeOK, Pcs, LockedPcs, RestartPcs
<1>2. LockOK' /\ HashSound' /\ MemOK'
  BY AcceleratorAssumption, CacheSame DEF KillLocker, Die, locks, IInv, TypeOK, LockOK,
     HoldsLock, RestartPcs
<1>3. FileOK' /\ StoringOK'
  BY AcceleratorAssumption
  DEF KillLocker, Die, memory, IInv, TypeOK, FileOK, FilePcs, StoringOK, Ages, LockOK,
      HoldsLock, NoCall
<1>4. ReadLockOK'
  BY DEF KillLocker, Die, locks, IInv, TypeOK, ReadLockOK, QuietPcs, CountedPcs, RestartPcs,
     NoCall
<1>5. Protected'
  BY AcceleratorAssumption
  DEF KillLocker, Die, memory, locks, IInv, TypeOK, Protected, InPlace, Window, StoringOK, RestartPcs,
      LockOK, HoldsLock, ReadLockOK, QuietPcs, NoCall
<1>. QED  BY <1>1, <1>2, <1>3, <1>4, <1>5, Zenon DEF IInv

\* KillDone keeps the invariant.
LEMMA KillDoneStep ==
    ASSUME IInv, NEW p \in Procs, KillDone(p)
    PROVE  IInv'
<1>1. TypeOK'
  BY AcceleratorAssumption
  DEF KillDone, Goto, shared, memory, locks, IInv, TypeOK, Pcs, LockedPcs, RestartPcs
<1>2. LockOK' /\ HashSound' /\ MemOK'
  BY AcceleratorAssumption, CacheSame, Zenon DEF KillDone, Goto, locks, IInv, TypeOK, LockOK,
     HoldsLock, RestartPcs
<1>3. FileOK' /\ StoringOK'
  BY AcceleratorAssumption, Zenon
  DEF KillDone, Goto, memory, IInv, TypeOK, FileOK, FilePcs, StoringOK, Ages, LockOK,
      HoldsLock
<1>4. ReadLockOK'
  BY DEF KillDone, Goto, locks, IInv, TypeOK, ReadLockOK, QuietPcs, CountedPcs, RestartPcs
<1>5. Protected'
  BY AcceleratorAssumption
  DEF KillDone, Goto, memory, locks, IInv, TypeOK, Protected, InPlace, Window, RestartPcs,
      LockOK, HoldsLock, ReadLockOK, QuietPcs
<1>. QED  BY <1>1, <1>2, <1>3, <1>4, <1>5, Zenon DEF IInv

\* RestartEnter keeps the invariant.
LEMMA RestartEnterStep ==
    ASSUME IInv, NEW p \in Procs, RestartEnter(p)
    PROVE  IInv'
<1>1. TypeOK'
  BY AcceleratorAssumption, ZenonT(30)
  DEF RestartEnter, Goto, shared, memory, locks, IInv, TypeOK, Pcs, LockedPcs, RestartPcs
<1>2. LockOK' /\ HashSound' /\ MemOK'
  BY AcceleratorAssumption, CacheSame, Zenon DEF RestartEnter, Goto, locks, IInv, TypeOK, LockOK,
     HoldsLock, RestartPcs
<1>3. FileOK' /\ StoringOK'
  BY AcceleratorAssumption, Zenon
  DEF RestartEnter, Goto, memory, IInv, TypeOK, FileOK, FilePcs, StoringOK, Ages, LockOK,
      HoldsLock
<1>4. ReadLockOK'
  BY Zenon DEF RestartEnter, Goto, locks, IInv, TypeOK, ReadLockOK, QuietPcs, CountedPcs, RestartPcs
<1>5. Protected'
  BY AcceleratorAssumption
  DEF RestartEnter, Goto, memory, locks, IInv, TypeOK, Protected, InPlace, Window,
      RestartPcs, LockOK, HoldsLock, ReadLockOK, QuietPcs
<1>. QED  BY <1>1, <1>2, <1>3, <1>4, <1>5, Zenon DEF IInv

\* Every pointer is given up or belongs to an exposed process.
LEMMA ResetCacheStep ==
    ASSUME IInv, NEW p \in Procs, ResetCache(p)
    PROVE  IInv'
<1>1. TypeOK'
  <2>1. hash' \in [Files -> 0 .. Blocks] /\ pos' \in 0 .. Blocks
    BY AcceleratorAssumption DEF ResetCache
  <2>2. pc' \in [Procs -> Pcs]
    BY Zenon DEF ResetCache, Goto, IInv, TypeOK, Pcs, LockedPcs, RestartPcs
  <2>. QED  BY <2>1, <2>2, ZenonT(30) DEF ResetCache, IInv, TypeOK, locks
<1>2. LockOK' /\ HashSound' /\ MemOK'
  BY AcceleratorAssumption
  DEF ResetCache, Goto, shared, memory, locks, IInv, LockOK, HoldsLock, RestartPcs,
      HashSound, MemOK, Ages, TypeOK
<1>3. FileOK' /\ StoringOK'
  BY AcceleratorAssumption
  DEF ResetCache, Goto, shared, memory, locks, IInv, FileOK, FilePcs, StoringOK, Ages,
      LockOK, HoldsLock, RestartPcs, TypeOK, NoCall
<1>4. ReadLockOK'
  BY AcceleratorAssumption, Zenon
  DEF ResetCache, Goto, shared, memory, locks, IInv, ReadLockOK, QuietPcs, CountedPcs,
      RestartPcs, TypeOK, NoCall
<1>5. Protected'
  BY AcceleratorAssumption
  DEF ResetCache, Goto, shared, memory, locks, IInv, Protected, InPlace, Window, RestartPcs,
      LockOK, HoldsLock, ReadLockOK, StoringOK, TypeOK, NoCall
<1>. QED  BY <1>1, <1>2, <1>3, <1>4, <1>5, Zenon DEF IInv

\* RestartLeave keeps the invariant.
LEMMA RestartLeaveStep ==
    ASSUME IInv, NEW p \in Procs, RestartLeave(p)
    PROVE  IInv'
<1>1. TypeOK'
  BY AcceleratorAssumption, ZenonT(30)
  DEF RestartLeave, Goto, shared, memory, locks, IInv, TypeOK, Pcs, LockedPcs, RestartPcs
<1>2. LockOK' /\ HashSound' /\ MemOK'
  BY AcceleratorAssumption, CacheSame, Zenon DEF RestartLeave, Goto, locks, IInv, TypeOK, LockOK,
     HoldsLock, RestartPcs
<1>3. FileOK' /\ StoringOK'
  BY AcceleratorAssumption, Zenon
  DEF RestartLeave, Goto, memory, IInv, TypeOK, FileOK, FilePcs, StoringOK, Ages, LockOK,
      HoldsLock
<1>4. ReadLockOK'
  BY Zenon DEF RestartLeave, Goto, locks, IInv, TypeOK, ReadLockOK, QuietPcs, CountedPcs, RestartPcs
<1>5. Protected'
  BY AcceleratorAssumption
  DEF RestartLeave, Goto, memory, locks, IInv, TypeOK, Protected, InPlace, Window,
      RestartPcs, LockOK, HoldsLock, ReadLockOK, QuietPcs
<1>. QED  BY <1>1, <1>2, <1>3, <1>4, <1>5, Zenon DEF IInv

\* Unlock keeps the invariant.
LEMMA UnlockStep ==
    ASSUME IInv, NEW p \in Procs, Unlock(p)
    PROVE  IInv'
<1>. DEFINE to == local[p].next
            c == IF to = "run" THEN NoCall ELSE local[p]
<1>1. /\ pc[p] = "unlock" /\ pc' = [pc EXCEPT ![p] = to]
      /\ local' = [local EXCEPT ![p] = c]
      /\ write_lock' = NoProc
      /\ UNCHANGED <<shared, memory, readers, restart_lock, counted, uses, disk, exposed>>
  BY Zenon DEF Unlock, Proceed, Goto
<1>2. local[p] \in Call /\ to \in {"run", "miss", "inv_done"}
  BY Zenon DEF IInv, TypeOK, Call
<1>3. /\ c \in Call
      /\ c = local[p] \/ (c.next = "run" /\ c.script = 0 /\ c.cache = 0)
  <2>1. NoCall.next = "run" /\ NoCall.script = 0 /\ NoCall.cache = 0
    BY Zenon DEF NoCall
  <2>2. CASE to = "run"
    <3>1. c = NoCall
      BY <2>2, Zenon
    <3>. QED  BY <2>1, <3>1, NoCallIsCall, Zenon
  <2>3. CASE to # "run"
    <3>1. c = local[p]
      BY <2>3, Zenon
    <3>. QED  BY <1>2, <3>1, Zenon
  <2>. QED  BY <2>2, <2>3, Zenon
<1>10. to = "miss" => local[p].next = "miss" /\ c = local[p]
  BY Zenon
<1>4. write_lock = p
  BY <1>1, Zenon DEF IInv, LockOK, HoldsLock
<1>. HIDE DEF c, to
<1>5. TypeOK'
  BY <1>1, <1>2, <1>3 DEF IInv, TypeOK, Pcs, shared, memory
<1>6. LockOK' /\ HashSound' /\ MemOK'
  BY <1>1, <1>2, <1>4, AcceleratorAssumption, CacheSame, Zenon DEF IInv, TypeOK, LockOK,
     HoldsLock, RestartPcs
<1>7. FileOK' /\ StoringOK'
  BY <1>1, <1>2, <1>3, <1>10 DEF IInv, TypeOK, FileOK, FilePcs, StoringOK, Ages, memory
<1>8. ReadLockOK'
  BY <1>1, <1>2, <1>3, <1>10 DEF IInv, TypeOK, ReadLockOK, QuietPcs, CountedPcs, RestartPcs
<1>9. Protected'
  BY <1>1, <1>2, <1>3
  DEF IInv, TypeOK, Protected, InPlace, StoringOK, Window, RestartPcs, memory
<1>. QED  BY <1>5, <1>6, <1>7, <1>8, <1>9, Zenon DEF IInv

\* Deactivate keeps the invariant.
LEMMA DeactivateStep ==
    ASSUME IInv, NEW p \in Procs, Deactivate(p)
    PROVE  IInv'
<1>1. TypeOK'
  BY AcceleratorAssumption, NoCallIsCall, Zenon
  DEF Deactivate, Goto, Die, shared, memory, locks, IInv, TypeOK, Pcs, LockedPcs, RestartPcs
<1>2. LockOK' /\ HashSound' /\ MemOK'
  BY AcceleratorAssumption, CacheSame, Zenon DEF Deactivate, Goto, Die, locks, IInv, TypeOK,
     LockOK, HoldsLock, RestartPcs
<1>3. FileOK' /\ StoringOK'
  BY AcceleratorAssumption, Zenon
  DEF Deactivate, Goto, Die, memory, IInv, TypeOK, FileOK, FilePcs, StoringOK, Ages, LockOK,
      HoldsLock, NoCall
<1>4. ReadLockOK'
  BY DEF Deactivate, Goto, Die, locks, IInv, TypeOK, ReadLockOK, QuietPcs, CountedPcs,
     RestartPcs, NoCall
<1>5. Protected'
  BY AcceleratorAssumption, SMTT(30)
  DEF Deactivate, Goto, Die, memory, locks, IInv, TypeOK, Protected, InPlace, Window, StoringOK,
      RestartPcs, LockOK, HoldsLock, ReadLockOK, QuietPcs, NoCall
<1>. QED  BY <1>1, <1>2, <1>3, <1>4, <1>5, Zenon DEF IInv

\* Crash keeps the invariant.
LEMMA CrashStep ==
    ASSUME IInv, NEW p \in Procs, Crash(p)
    PROVE  IInv'
<1>1. TypeOK'
  BY AcceleratorAssumption, NoCallIsCall
  DEF Crash, Die, shared, memory, locks, IInv, TypeOK, Pcs, LockedPcs, RestartPcs
<1>2. LockOK' /\ HashSound' /\ MemOK'
  BY AcceleratorAssumption, CacheSame, Zenon DEF Crash, Die, locks, IInv, TypeOK, LockOK,
     HoldsLock, RestartPcs
<1>3. FileOK' /\ StoringOK'
  BY AcceleratorAssumption
  DEF Crash, Die, memory, IInv, TypeOK, FileOK, FilePcs, StoringOK, Ages, LockOK, HoldsLock,
      NoCall
<1>4. ReadLockOK'
  BY DEF Crash, Die, locks, IInv, TypeOK, ReadLockOK, QuietPcs, CountedPcs, RestartPcs, NoCall
<1>5. Protected'
  BY AcceleratorAssumption, SMTT(30)
  DEF Crash, Die, memory, locks, IInv, TypeOK, Protected, InPlace, Window, StoringOK, RestartPcs,
      LockOK, HoldsLock, ReadLockOK, QuietPcs, NoCall
<1>. QED  BY <1>1, <1>2, <1>3, <1>4, <1>5, Zenon DEF IInv

-----------------------------------------------------------------------------
(* Scheduling a restart.                                                   *)

\* SetRestartPending keeps the invariant.
LEMMA SetRestartPendingStep ==
    ASSUME IInv, NEW p \in Procs, SetRestartPending(p)
    PROVE  IInv'
<1>1. TypeOK'
  BY AcceleratorAssumption, Zenon
  DEF SetRestartPending, Goto, shared, memory, locks, IInv, TypeOK, Pcs, LockedPcs,
      RestartPcs
<1>2. LockOK' /\ HashSound' /\ MemOK'
  BY AcceleratorAssumption, CacheSame, Zenon DEF SetRestartPending, Goto, locks, IInv, TypeOK,
     LockOK, HoldsLock, RestartPcs
<1>3. FileOK' /\ StoringOK'
  BY AcceleratorAssumption, Zenon
  DEF SetRestartPending, Goto, memory, IInv, TypeOK, FileOK, FilePcs, StoringOK, Ages,
      LockOK, HoldsLock
<1>4. ReadLockOK'
  BY Zenon DEF SetRestartPending, Goto, locks, IInv, TypeOK, ReadLockOK, QuietPcs, CountedPcs,
     RestartPcs
<1>5. Protected'
  BY AcceleratorAssumption
  DEF SetRestartPending, Goto, memory, locks, IInv, TypeOK, Protected, InPlace, Window,
      RestartPcs, LockOK, HoldsLock, ReadLockOK, QuietPcs
<1>. QED  BY <1>1, <1>2, <1>3, <1>4, <1>5, Zenon DEF IInv

\* DisableAccelerator keeps the invariant.
LEMMA DisableAcceleratorStep ==
    ASSUME IInv, NEW p \in Procs, DisableAccelerator(p)
    PROVE  IInv'
<1>1. TypeOK'
  BY AcceleratorAssumption, ZenonT(30)
  DEF DisableAccelerator, Goto, shared, memory, locks, IInv, TypeOK, Pcs, LockedPcs,
      RestartPcs
<1>2. LockOK' /\ HashSound' /\ MemOK'
  BY AcceleratorAssumption, CacheSame, Zenon DEF DisableAccelerator, Goto, locks, IInv, TypeOK,
     LockOK, HoldsLock, RestartPcs
<1>3. FileOK' /\ StoringOK'
  BY AcceleratorAssumption, Zenon
  DEF DisableAccelerator, Goto, memory, IInv, TypeOK, FileOK, FilePcs, StoringOK, Ages,
      LockOK, HoldsLock
<1>4. ReadLockOK'
  BY Zenon DEF DisableAccelerator, Goto, locks, IInv, TypeOK, ReadLockOK, QuietPcs, CountedPcs,
     RestartPcs
<1>5. Protected'
  BY AcceleratorAssumption
  DEF DisableAccelerator, Goto, memory, locks, IInv, TypeOK, Protected, InPlace, Window,
      RestartPcs, LockOK, HoldsLock, ReadLockOK, QuietPcs
<1>. QED  BY <1>1, <1>2, <1>3, <1>4, <1>5, Zenon DEF IInv

\* OpcacheReset keeps the invariant.
LEMMA OpcacheResetStep ==
    ASSUME IInv, NEW p \in Procs, OpcacheReset(p)
    PROVE  IInv'
<1>1. TypeOK'
  BY AcceleratorAssumption, Zenon
  DEF OpcacheReset, Goto, shared, memory, locks, IInv, TypeOK, Pcs, LockedPcs, RestartPcs
<1>2. LockOK' /\ HashSound' /\ MemOK'
  BY AcceleratorAssumption, CacheSame, Zenon DEF OpcacheReset, Goto, locks, IInv, TypeOK, LockOK,
     HoldsLock, RestartPcs
<1>3. FileOK' /\ StoringOK'
  BY AcceleratorAssumption, Zenon
  DEF OpcacheReset, Goto, memory, IInv, TypeOK, FileOK, FilePcs, StoringOK, Ages, LockOK,
      HoldsLock
<1>4. ReadLockOK'
  BY Zenon DEF OpcacheReset, Goto, locks, IInv, TypeOK, ReadLockOK, QuietPcs, CountedPcs, RestartPcs
<1>5. Protected'
  BY AcceleratorAssumption
  DEF OpcacheReset, Goto, memory, locks, IInv, TypeOK, Protected, InPlace, Window,
      RestartPcs, LockOK, HoldsLock, ReadLockOK, QuietPcs
<1>. QED  BY <1>1, <1>2, <1>3, <1>4, <1>5, Zenon DEF IInv

-----------------------------------------------------------------------------
(* persistent_compile_file up to a hit: the lookup, the validation, and    *)
(* what it does with a script it no longer trusts.                         *)

\* ResolvePath keeps the invariant.
LEMMA ResolvePathStep ==
    ASSUME IInv, NEW p \in Procs, NEW f \in Files, ResolvePath(p, f)
    PROVE  IInv'
<1>. DEFINE found == IF hash[f] # 0 /\ ~mem[hash[f]].corrupted THEN hash[f] ELSE 0
            c == [NoCall EXCEPT !.file = f, !.cache = found]
<1>1. /\ pc[p] = "run"
      /\ pc' = [pc EXCEPT ![p] = "resolved"]
      /\ local' = [local EXCEPT ![p] = c]
      /\ exposed' = IF found # 0 /\ p \notin readers /\ Window
                    THEN exposed \cup {p} ELSE exposed
      /\ UNCHANGED <<shared, memory, locks, counted, uses, disk>>
  BY Zenon DEF ResolvePath, Goto
<1>2. found \in 0 .. Blocks
  BY AcceleratorAssumption DEF IInv, TypeOK
<1>3. c \in Call
  BY <1>2, NoCallIsCall, CallUpdate, Zenon
<1>4. c.file = f /\ c.next = "run" /\ c.script = 0 /\ c.cache = found
  BY Zenon DEF NoCall
<1>. HIDE DEF c
<1>5. TypeOK'
  BY <1>1, <1>3 DEF IInv, TypeOK, Pcs, LockedPcs, shared, memory, locks
<1>6. LockOK' /\ HashSound' /\ MemOK'
  BY <1>1, CacheSame, Zenon DEF IInv, TypeOK, LockOK, HoldsLock, RestartPcs, locks
<1>7. FileOK' /\ StoringOK'
  BY <1>1, <1>4, ZenonT(30) DEF IInv, TypeOK, FileOK, FilePcs, StoringOK, Ages, memory
<1>8. ReadLockOK'
  BY <1>1, <1>4, Zenon DEF IInv, TypeOK, ReadLockOK, QuietPcs, CountedPcs, RestartPcs, locks
<1>9. Protected'
  <2>1. \A x : InPlace(x) => InPlace(x)'
    BY <1>1, Zenon DEF IInv, TypeOK, InPlace, memory
  <2>2. InPlace(0) /\ InPlace(found)
    BY DEF IInv, TypeOK, InPlace, HashSound, StoringOK
  <2>3. Window' => Window
    BY <1>1, Zenon DEF IInv, TypeOK, Window, RestartPcs
  <2>. HIDE DEF found
  <2>. QED
    BY <1>1, <1>4, <2>1, <2>2, <2>3 DEF IInv, TypeOK, Protected, locks
<1>. QED  BY <1>5, <1>6, <1>7, <1>8, <1>9, Zenon DEF IInv

\* CompileFile keeps the invariant.
LEMMA CompileFileStep ==
    ASSUME IInv, NEW p \in Procs, NEW f \in Files, CompileFile(p, f)
    PROVE  IInv'
<1>. DEFINE c == [local[p] EXCEPT !.file = f, !.since = disk[f]]
<1>1. /\ pc[p] \in {"run", "resolved"}
      /\ pc' = [pc EXCEPT ![p] = IF counted[p] THEN "find" ELSE "count"]
      /\ restart_in_progress' = FALSE
      /\ UNCHANGED <<restart_pending, accelerator_enabled, cache_status_before_restart,
                     force_restart_time, memory, locks, counted, uses, disk, exposed>>
  BY Zenon DEF CompileFile
<1>2. local[p] \in Call /\ disk[f] \in {0} \cup Versions
  BY <1>1, Zenon DEF IInv, TypeOK
<1>3. local' = [local EXCEPT ![p] = c]
  BY <1>2, ZenonT(30) DEF CompileFile, IInv, TypeOK
<1>4. c \in Call
  BY <1>2, CallUpdate, Zenon
<1>5. /\ c.file = f /\ c.next = local[p].next
      /\ c.script = local[p].script /\ c.cache = local[p].cache
  BY <1>2, Zenon DEF Call
<1>. HIDE DEF c
<1>6. TypeOK'
  BY <1>1, <1>3, <1>4, ZenonT(30) DEF IInv, TypeOK, Pcs, LockedPcs, memory, locks
<1>7. LockOK' /\ HashSound' /\ MemOK'
  BY <1>1, CacheSame, Zenon DEF IInv, TypeOK, LockOK, HoldsLock, RestartPcs, locks
<1>8. FileOK' /\ StoringOK'
  BY <1>1, <1>3, <1>5, Zenon DEF IInv, TypeOK, FileOK, FilePcs, StoringOK, Ages, memory
<1>9. ReadLockOK'
  BY <1>1, <1>3, <1>5 DEF IInv, TypeOK, ReadLockOK, QuietPcs, CountedPcs, RestartPcs, locks
<1>10. Protected'
  BY <1>1, <1>3, <1>5
  DEF IInv, TypeOK, Protected, InPlace, Window, RestartPcs, memory, locks
<1>. QED  BY <1>6, <1>7, <1>8, <1>9, <1>10, Zenon DEF IInv

\* CompileUncached keeps the invariant.
LEMMA CompileUncachedStep ==
    ASSUME IInv, NEW p \in Procs, CompileUncached(p)
    PROVE  IInv'
<1>1. TypeOK'
  BY AcceleratorAssumption, NoCallIsCall
  DEF CompileUncached, Goto, Proceed, shared, memory, locks, IInv, TypeOK, Pcs, LockedPcs,
      RestartPcs
<1>2. LockOK' /\ HashSound' /\ MemOK'
  BY AcceleratorAssumption, CacheSame, Zenon DEF CompileUncached, Goto, Proceed, locks, IInv,
     TypeOK, LockOK, HoldsLock, RestartPcs
<1>3. FileOK' /\ StoringOK'
  BY AcceleratorAssumption
  DEF CompileUncached, Goto, Proceed, memory, IInv, TypeOK, FileOK, FilePcs, StoringOK,
      Ages, LockOK, HoldsLock, NoCall
<1>4. ReadLockOK'
  BY Zenon
  DEF CompileUncached, Goto, Proceed, locks, IInv, TypeOK, ReadLockOK, QuietPcs, CountedPcs,
     RestartPcs, NoCall
<1>5. Protected'
  BY AcceleratorAssumption
  DEF CompileUncached, Goto, Proceed, memory, locks, IInv, TypeOK, Protected, InPlace,
      Window, StoringOK, RestartPcs, LockOK, HoldsLock, ReadLockOK, QuietPcs, NoCall
<1>. QED  BY <1>1, <1>2, <1>3, <1>4, <1>5, Zenon DEF IInv

\* Count keeps the invariant.
LEMMA CountStep ==
    ASSUME IInv, NEW p \in Procs, Count(p)
    PROVE  IInv'
<1>1. TypeOK'
  BY AcceleratorAssumption
  DEF Count, Goto, AccelActivateAdd, shared, memory, locks, IInv, TypeOK, Pcs, LockedPcs,
      RestartPcs
<1>2. LockOK' /\ HashSound' /\ MemOK'
  BY AcceleratorAssumption, CacheSame, Zenon DEF Count, Goto, AccelActivateAdd, locks, IInv,
     TypeOK, LockOK, HoldsLock, RestartPcs
<1>3. FileOK' /\ StoringOK'
  BY AcceleratorAssumption, Zenon
  DEF Count, Goto, AccelActivateAdd, memory, IInv, TypeOK, FileOK, FilePcs, StoringOK, Ages,
      LockOK, HoldsLock
<1>4. ReadLockOK'
  BY DEF Count, Goto, AccelActivateAdd, locks, IInv, TypeOK, ReadLockOK, QuietPcs, CountedPcs,
     RestartPcs
<1>5. Protected'
  BY AcceleratorAssumption
  DEF Count, Goto, AccelActivateAdd, memory, locks, IInv, TypeOK, Protected, InPlace,
      Window, RestartPcs, LockOK, HoldsLock, ReadLockOK, QuietPcs
<1>. QED  BY <1>1, <1>2, <1>3, <1>4, <1>5, Zenon DEF IInv

\* The script found is in place: the caller holds a read lock, so no restart runs.
LEMMA FindStep ==
    ASSUME IInv, NEW p \in Procs, Find(p)
    PROVE  IInv'
<1>. DEFINE found == IF local[p].cache # 0 THEN local[p].cache ELSE hash[local[p].file]
            usable == found # 0 /\ ~mem[found].corrupted
            s == IF usable THEN found ELSE 0
            c == [local[p] EXCEPT !.cache = 0, !.script = s]
<1>1. /\ pc[p] = "find"
      /\ pc' = [pc EXCEPT ![p] = IF usable THEN "validate" ELSE "miss"]
      /\ local' = [local EXCEPT ![p] = c]
      /\ UNCHANGED <<shared, memory, locks, counted, uses, disk, exposed>>
  BY Zenon DEF Find, Proceed, Goto
<1>2. local[p] \in Call /\ local[p].file \in Files /\ found \in 0 .. Blocks
  BY <1>1, Zenon DEF IInv, TypeOK, Call, FileOK, FilePcs
<1>. HIDE DEF s
<1>3. /\ c \in Call /\ c.cache = 0 /\ c.script = s
      /\ c.file = local[p].file /\ c.next = local[p].next
  <2>1. s \in 0 .. Blocks
    BY <1>2, AcceleratorAssumption DEF s
  <2>2. 0 \in 0 .. Blocks
    BY AcceleratorAssumption
  <2>3. c \in Call
    BY <1>2, <2>1, <2>2, CallUpdate, Zenon
  <2>. QED  BY <1>2, <2>3, Zenon DEF Call
<1>. USE DEF s
<1>. HIDE DEF c
<1>4. TypeOK'
  BY <1>1, <1>3, SMTT(30) DEF IInv, TypeOK, Pcs, LockedPcs, shared, memory, locks
<1>5. LockOK' /\ HashSound' /\ MemOK'
  BY <1>1, CacheSame, Zenon DEF IInv, TypeOK, LockOK, HoldsLock, RestartPcs, locks
<1>5a. FileOK' /\ StoringOK'
  BY <1>1, <1>2, <1>3, ZenonT(30) DEF IInv, TypeOK, FileOK, FilePcs, StoringOK, Ages, memory
<1>6. ReadLockOK'
  BY <1>1, <1>2, <1>3 DEF IInv, TypeOK, ReadLockOK, QuietPcs, CountedPcs, RestartPcs,
     shared, memory, locks
<1>7. ASSUME NEW q \in Procs \ exposed'
      PROVE  /\ \A b \in uses'[q] \cup {local'[q].script, local'[q].cache} : InPlace(b)'
             /\ Window' => q \notin readers' /\ local'[q].cache = 0
  <2>1. \A b : InPlace(b) => InPlace(b)'
    BY <1>1, Zenon DEF IInv, TypeOK, InPlace, memory
  <2>2. InPlace(0) /\ \A f \in Files : InPlace(hash[f])
    BY DEF IInv, TypeOK, InPlace, HashSound, StoringOK
  <2>3. Window' => Window
    BY <1>1, Zenon DEF IInv, TypeOK, Window, RestartPcs
  <2>. QED
    BY <1>1, <1>2, <1>3, <1>7, <2>1, <2>2, <2>3 DEF IInv, TypeOK, Protected, locks
<1>8. Protected'
  BY <1>7, Zenon DEF Protected
<1>. QED  BY <1>4, <1>5, <1>5a, <1>6, <1>8, Zenon DEF IInv

\* The script in use is the one found.
LEMMA ValidateStep ==
    ASSUME IInv, NEW p \in Procs, Validate(p)
    PROVE  IInv'
<1>. DEFINE b == local[p].script
            valid == Validates(b, local[p].file)
            c == IF valid THEN NoCall ELSE [local[p] EXCEPT !.next = "miss"]
<1>1. /\ pc[p] = "validate"
      /\ pc' = [pc EXCEPT ![p] = IF valid THEN "run" ELSE "corrupt"]
      /\ local' = [local EXCEPT ![p] = c]
      /\ uses' = IF valid THEN [uses EXCEPT ![p] = @ \cup {b}] ELSE uses
      /\ UNCHANGED <<shared, memory, locks, counted, disk, exposed>>
  BY ZenonT(30) DEF Validate, Proceed, Goto
<1>2. /\ local[p] \in Call /\ local[p].file \in Files
      /\ b \in 1 .. Blocks /\ counted[p] /\ p \in readers
  BY <1>1 DEF IInv, TypeOK, Call, FileOK, FilePcs, ReadLockOK, CountedPcs
<1>3. /\ c \in Call
      /\ c.cache \in {0, local[p].cache} /\ c.script \in {0, b}
      /\ c.file \in {NoFile, local[p].file} /\ c.next \in {"run", "miss"}
      /\ c.next = "miss" => c.file = local[p].file
  BY <1>2, NoCallIsCall, CallUpdate DEF Call, NoCall
<1>. HIDE DEF c, valid
<1>4. TypeOK'
  BY <1>1, <1>2, <1>3 DEF IInv, TypeOK, Pcs, LockedPcs, shared, memory, locks
<1>5. LockOK' /\ HashSound' /\ MemOK'
  BY <1>1, CacheSame, Zenon DEF IInv, TypeOK, LockOK, HoldsLock, RestartPcs, locks
<1>6. FileOK' /\ StoringOK'
  BY <1>1, <1>2, <1>3, Zenon DEF IInv, TypeOK, FileOK, FilePcs, StoringOK, Ages, memory
<1>7. ReadLockOK'
  BY <1>1, <1>2, <1>3 DEF IInv, TypeOK, ReadLockOK, QuietPcs, CountedPcs, RestartPcs, locks
<1>8. Protected'
  <2>1. \A d : InPlace(d) => InPlace(d)'
    BY <1>1, Zenon DEF IInv, TypeOK, InPlace, memory
  <2>2. InPlace(0)
    BY DEF IInv, TypeOK, InPlace, StoringOK
  <2>3. Window' => Window
    BY <1>1, Zenon DEF IInv, TypeOK, Window, RestartPcs
  <2>. QED
    BY <1>1, <1>3, <2>1, <2>2, <2>3 DEF IInv, TypeOK, Protected, locks
<1>. QED  BY <1>4, <1>5, <1>6, <1>7, <1>8, Zenon DEF IInv

\* Marking a script leaves its path and its text alone.
LEMMA CorruptKeeps ==
    ASSUME IInv, NEW p \in Procs, Corrupt(p)
    PROVE  /\ mem' \in [1 .. Blocks -> Script]
           /\ \A x \in 1 .. Blocks :
                 /\ mem'[x].file = mem[x].file /\ mem'[x].content = mem[x].content
                 /\ mem'[x].timestamp \in {0, mem[x].timestamp}
<1>. DEFINE b == local[p].script
            m == [mem[b] EXCEPT !.corrupted = TRUE, !.timestamp = 0]
<1>1. CASE mem' = mem
  BY <1>1, Zenon DEF IInv, TypeOK
<1>2. CASE mem' = [mem EXCEPT ![b].corrupted = TRUE, ![b].timestamp = 0] /\ b \in 1 .. Blocks
  <2>1. mem' = [mem EXCEPT ![b] = m]
    BY <1>2, ZenonT(30) DEF IInv, TypeOK
  <2>2. /\ [mem[b] EXCEPT !.corrupted = TRUE] \in Script
        /\ \A s \in Script : [s EXCEPT !.timestamp = 0] \in Script
    BY <1>2, ZenonT(30) DEF IInv, TypeOK, Script
  <2>3. m \in Script
    BY <2>2, Zenon
  <2>4. m.file = mem[b].file /\ m.content = mem[b].content /\ m.timestamp = 0
    BY <1>2, Zenon DEF IInv, TypeOK, Script
  <2>. HIDE DEF m
  <2>. QED  BY <1>2, <2>1, <2>3, <2>4 DEF IInv, TypeOK
<1>3. CASE mem' = [mem EXCEPT ![b].corrupted = TRUE, ![b].timestamp = 0] /\ b \notin 1 .. Blocks
  BY <1>3, ZenonT(30) DEF IInv, TypeOK
<1>. QED  BY <1>1, <1>2, <1>3, Zenon DEF Corrupt

\* Corrupt keeps the invariant.
LEMMA CorruptStep ==
    ASSUME IInv, NEW p \in Procs, Corrupt(p)
    PROVE  IInv'
<1>1. PICK to \in {"unlock", "scheduling"} : pc[p] = "corrupt" /\ pc' = [pc EXCEPT ![p] = to]
  BY Zenon DEF Corrupt, Goto
<1>2. /\ write_lock = NoProc /\ write_lock' = p
      /\ UNCHANGED <<readers, restart_lock, shared, memory_exhausted, hash, pos, counted,
                     local, uses, disk, exposed>>
      /\ wasted_shared_memory' \in {wasted_shared_memory, wasted_shared_memory + 1}
  BY Zenon DEF Corrupt, AllocLock
<1>3. /\ mem' \in [1 .. Blocks -> Script]
      /\ \A x \in 1 .. Blocks :
            /\ mem'[x].file = mem[x].file /\ mem'[x].content = mem[x].content
            /\ mem'[x].timestamp \in {0, mem[x].timestamp}
  BY CorruptKeeps, Zenon
<1>4. TypeOK'
  BY <1>1, <1>2, <1>3 DEF IInv, TypeOK, Pcs, LockedPcs, shared
<1>5. LockOK'
  BY <1>1, <1>2, AcceleratorAssumption, Zenon DEF IInv, TypeOK, LockOK, HoldsLock, RestartPcs
<1>6. HashSound'
  BY <1>2, <1>3, SMTT(30) DEF IInv, TypeOK, HashSound
<1>7. MemOK'
  <2>1. \A x \in 1 .. Blocks : mem[x].content >= 0
    BY AcceleratorAssumption DEF IInv, TypeOK, Script, Versions
  <2>. QED  BY <1>2, <1>3, <2>1, ZenonT(30) DEF IInv, MemOK, Ages
<1>8. FileOK' /\ StoringOK'
  BY <1>1, <1>2, <1>3 DEF IInv, TypeOK, FileOK, FilePcs, StoringOK, Ages
<1>9. ReadLockOK'
  BY <1>1, <1>2, Zenon DEF IInv, TypeOK, ReadLockOK, QuietPcs, CountedPcs, RestartPcs
<1>10. Protected'
  BY <1>1, <1>2, Zenon DEF IInv, TypeOK, Protected, InPlace, Window, RestartPcs
<1>. QED  BY <1>4, <1>5, <1>6, <1>7, <1>8, <1>9, <1>10, Zenon DEF IInv

-----------------------------------------------------------------------------
(* compile_and_cache_file and cache_script_in_shared_memory: a miss, the   *)
(* compilation, and the way into the cache.                                *)


\* The time is taken from the file.
LEMMA MissStep ==
    ASSUME IInv, NEW p \in Procs, Miss(p)
    PROVE  IInv'
<1>. DEFINE off == memory_exhausted \/ restart_pending
            d == [local[p] EXCEPT !.script = 0, !.next = "run",
                                  !.timestamp = disk[local[p].file]]
            c == IF off THEN NoCall ELSE d
<1>1. /\ pc[p] = "miss"
      /\ pc' = [pc EXCEPT ![p] = IF off THEN "run" ELSE "compile"]
      /\ local' = [local EXCEPT ![p] = c]
      /\ UNCHANGED <<shared, memory, locks, counted, uses, disk, exposed>>
  BY ZenonT(30) DEF Miss, Proceed, Goto
<1>2. local[p] \in Call /\ local[p].file \in Files /\ disk[local[p].file] \in Versions
  BY <1>1, Zenon DEF IInv, TypeOK, Call, FileOK, FilePcs
<1>3. d \in Call
  <2>1. 0 \in 0 .. Blocks /\ "run" \in {"run", "miss", "inv_done"}
        /\ disk[local[p].file] \in {0} \cup Versions
    BY <1>2, AcceleratorAssumption
  <2>. QED  BY <1>2, <2>1, CallUpdate, Zenon
<1>4. /\ c \in Call /\ c.next = "run" /\ c.script = 0 /\ c.cache \in {0, local[p].cache}
      /\ ~off => c.file = local[p].file /\ c.timestamp = disk[local[p].file]
  BY <1>2, <1>3, NoCallIsCall, Zenon DEF Call, NoCall
<1>. HIDE DEF c
<1>5. TypeOK'
  BY <1>1, <1>4, Zenon DEF IInv, TypeOK, Pcs, LockedPcs, shared, memory, locks
<1>6. LockOK' /\ HashSound' /\ MemOK'
  BY <1>1, CacheSame, Zenon DEF IInv, TypeOK, LockOK, HoldsLock, RestartPcs, locks
<1>7. FileOK' /\ StoringOK'
  BY <1>1, <1>2, <1>4 DEF IInv, TypeOK, Versions, FileOK, FilePcs, StoringOK, Ages, memory
<1>8. ReadLockOK'
  BY <1>1, <1>4, SMTT(30) DEF IInv, TypeOK, ReadLockOK, QuietPcs, CountedPcs, RestartPcs, locks
<1>9. Protected'
  <2>1. \A b : InPlace(b) => InPlace(b)'
    BY <1>1, Zenon DEF IInv, TypeOK, InPlace, memory
  <2>2. Window' => Window
    BY <1>1, Zenon DEF IInv, TypeOK, Window, RestartPcs
  <2>3. readers' = readers /\ InPlace(0)
    BY <1>1 DEF IInv, TypeOK, InPlace, StoringOK, locks
  <2>. QED  BY <1>1, <1>4, <2>1, <2>2, <2>3 DEF IInv, TypeOK, Protected
<1>. QED  BY <1>5, <1>6, <1>7, <1>8, <1>9, Zenon DEF IInv

\* The text is no older than the time that was taken.
LEMMA CompileStep ==
    ASSUME IInv, NEW p \in Procs, Compile(p)
    PROVE  IInv'
<1>. DEFINE c == [local[p] EXCEPT !.content = disk[local[p].file]]
<1>1. /\ pc[p] = "compile"
      /\ pc' = [pc EXCEPT ![p] = "store"]
      /\ UNCHANGED <<shared, memory, locks, counted, uses, disk, exposed>>
  BY Zenon DEF Compile, Goto
<1>2. local[p] \in Call /\ local[p].file \in Files /\ disk[local[p].file] \in Versions
  BY <1>1, Zenon DEF IInv, TypeOK, Call, FileOK, FilePcs
<1>3. local' = [local EXCEPT ![p] = c]
  BY Zenon DEF Compile
<1>4. /\ c \in Call /\ c.content = disk[local[p].file]
      /\ c.timestamp = local[p].timestamp /\ c.file = local[p].file /\ c.next = local[p].next
      /\ c.script = local[p].script /\ c.cache = local[p].cache
  BY <1>2, CallUpdate DEF Call
<1>. HIDE DEF c
<1>5. TypeOK'
  BY <1>1, <1>3, <1>4, Zenon DEF IInv, TypeOK, Pcs, LockedPcs, shared, memory, locks
<1>6. LockOK' /\ HashSound' /\ MemOK'
  BY <1>1, CacheSame, Zenon DEF IInv, TypeOK, LockOK, HoldsLock, RestartPcs, locks
<1>7. FileOK' /\ StoringOK'
  BY <1>1, <1>2, <1>3, <1>4
  DEF IInv, TypeOK, Versions, FileOK, FilePcs, StoringOK, Ages, memory
<1>8. ReadLockOK'
  BY <1>1, <1>3, <1>4, ZenonT(30)
  DEF IInv, TypeOK, ReadLockOK, QuietPcs, CountedPcs, RestartPcs, locks
<1>9. Protected'
  BY <1>1, <1>3, <1>4
  DEF IInv, TypeOK, Protected, InPlace, Window, RestartPcs, memory, locks
<1>. QED  BY <1>5, <1>6, <1>7, <1>8, <1>9, Zenon DEF IInv

\* The new block is beyond every block in use.
LEMMA StoreStep ==
    ASSUME IInv, NEW p \in Procs, Store(p)
    PROVE  IInv'
<1>1. PICK to \in {"scheduling", "unlock", "persist"} :
        /\ pc[p] = "store" /\ pc' = [pc EXCEPT ![p] = to]
        /\ \/ to # "persist" /\ UNCHANGED <<pos, mem>>
           \/ to = "persist" /\ pos # Blocks /\ pos' = pos + 1
              /\ mem' = [mem EXCEPT ![pos + 1] = Blank]
  BY ZenonT(30) DEF Store, Goto
<1>2. /\ write_lock = NoProc /\ write_lock' = p
      /\ memory_exhausted' \in {TRUE, memory_exhausted}
      /\ UNCHANGED <<readers, restart_lock, shared, wasted_shared_memory, hash, counted,
                     local, uses, disk, exposed>>
  BY ZenonT(30) DEF Store, AllocLock
<1>3. Blank \in Script /\ Blank.file = NoFile
  BY Zenon DEF Blank, Script
<1>4. TypeOK'
  <2>1. pos' \in 0 .. Blocks /\ mem' \in [1 .. Blocks -> Script]
    BY <1>1, <1>3, AcceleratorAssumption DEF IInv, TypeOK
  <2>. QED  BY <1>1, <1>2, <2>1, ZenonT(30) DEF IInv, TypeOK, Pcs, LockedPcs, shared
<1>5. LockOK'
  BY <1>1, <1>2, AcceleratorAssumption, Zenon DEF IInv, TypeOK, LockOK, HoldsLock, RestartPcs
<1>6. HashSound'
  <2>1. \A x \in 1 .. Blocks : x <= pos => mem'[x] = mem[x]
    BY <1>1, AcceleratorAssumption DEF IInv, TypeOK
  <2>. QED  BY <1>1, <1>2, <2>1 DEF IInv, TypeOK, HashSound
<1>7. MemOK'
  BY <1>1, <1>2, <1>3, AcceleratorAssumption, ZenonT(30) DEF IInv, TypeOK, MemOK, Ages
<1>8. FileOK'
  BY <1>1, <1>2, Zenon DEF IInv, TypeOK, FileOK, FilePcs
<1>9. StoringOK'
  <2>1. \A q \in Procs : pc[q] \notin {"persist", "publish"}
    BY <1>2, AcceleratorAssumption, Zenon DEF IInv, LockOK, HoldsLock
  <2>2. pc'[p] = "persist" => pos' # 0 /\ \A f \in Files : hash'[f] < pos'
    BY <1>1, <1>2 DEF IInv, TypeOK, HashSound
  <2>. QED  BY <1>1, <1>2, <2>1, <2>2, ZenonT(30) DEF IInv, TypeOK, StoringOK, Ages
<1>10. ReadLockOK'
  BY <1>1, <1>2, Zenon DEF IInv, TypeOK, ReadLockOK, QuietPcs, CountedPcs, RestartPcs
<1>11. Protected'
  <2>1. \A x \in 0 .. Blocks : InPlace(x) => InPlace(x)'
    <3>1. \A q \in Procs : pc[q] # "persist"
      BY <1>2, AcceleratorAssumption, Zenon DEF IInv, LockOK, HoldsLock
    <3>. QED  BY <1>1, <3>1 DEF IInv, TypeOK, InPlace
  <2>2. Window' => Window
    BY <1>1, Zenon DEF IInv, TypeOK, Window, RestartPcs
  <2>. QED
    BY <1>1, <1>2, <2>1, <2>2 DEF IInv, TypeOK, Call, Protected
<1>. QED  BY <1>4, <1>5, <1>6, <1>7, <1>8, <1>9, <1>10, <1>11, SMTT(30) DEF IInv

\* Nobody else stores: the write lock is held.
LEMMA PersistStep ==
    ASSUME IInv, NEW p \in Procs, Persist(p)
    PROVE  IInv'
<1>1. TypeOK'
  BY AcceleratorAssumption, SMTT(30)
  DEF Persist, Goto, shared, memory, locks, IInv, TypeOK, Pcs, LockedPcs, RestartPcs,
      Script, Call, StoringOK
<1>2. LockOK' /\ HashSound' /\ MemOK'
  BY AcceleratorAssumption, SMTT(30)
  DEF Persist, Goto, memory, locks, IInv, TypeOK, LockOK, HoldsLock, RestartPcs, HashSound,
      MemOK, Ages, StoringOK, FileOK, FilePcs
<1>3. FileOK' /\ StoringOK'
  BY AcceleratorAssumption
  DEF Persist, Goto, memory, IInv, TypeOK, FileOK, FilePcs, StoringOK, Ages, LockOK,
      HoldsLock
<1>4. ReadLockOK'
  BY SMTT(30) DEF Persist, Goto, locks, IInv, TypeOK, ReadLockOK, QuietPcs, CountedPcs, RestartPcs
<1>5. Protected'
  BY AcceleratorAssumption, ZenonT(30)
  DEF Persist, Goto, memory, locks, IInv, TypeOK, Protected, InPlace, Window, RestartPcs,
      LockOK, HoldsLock, ReadLockOK, QuietPcs
<1>. QED  BY <1>1, <1>2, <1>3, <1>4, <1>5, SMTT(30) DEF IInv

\* The block that goes into the table is complete.
LEMMA PublishStep ==
    ASSUME IInv, NEW p \in Procs, Publish(p)
    PROVE  IInv'
<1>1. TypeOK'
  <2>1. pos \in 1 .. Blocks
    BY DEF Publish, Goto, IInv, TypeOK, StoringOK
  <2>2. pos \in 0 .. Blocks
    BY Zenon DEF IInv, TypeOK
  <2>4. hash' \in [Files -> 0 .. Blocks]
    BY <2>2, Zenon DEF Publish, IInv, TypeOK
  <2>3. uses' \in [Procs -> SUBSET (1 .. Blocks)]
    BY <2>1, Zenon DEF Publish, IInv, TypeOK
  <2>. QED
    BY <2>3, <2>4, SMTT(30) DEF Publish, Goto, IInv, TypeOK, Pcs, LockedPcs, shared, locks
<1>2. LockOK' /\ MemOK'
  BY ZenonT(30) DEF Publish, Goto, locks, IInv, TypeOK, LockOK, HoldsLock, RestartPcs, MemOK, Ages
<1>6. HashSound'
  <2>1. /\ hash' = [hash EXCEPT ![local[p].file] = pos]
        /\ UNCHANGED <<pos, mem>>
        /\ local[p].file \in Files /\ pos # 0
        /\ mem[pos].file = local[p].file /\ mem[pos].content # 0
    BY ZenonT(30) DEF Publish, Goto, IInv, TypeOK, StoringOK, FileOK, FilePcs
  <2>2. pos \in 0 .. Blocks /\ hash \in [Files -> 0 .. Blocks] /\ HashSound
    BY SMTT(30) DEF IInv, TypeOK
  <2>. QED  BY <2>1, <2>2, AcceleratorAssumption, SMTT(30) DEF HashSound
<1>3. FileOK' /\ StoringOK'
  BY AcceleratorAssumption, ZenonT(30)
  DEF Publish, Goto, memory, IInv, TypeOK, FileOK, FilePcs, StoringOK, Ages, LockOK,
      HoldsLock
<1>4. ReadLockOK'
  BY Zenon DEF Publish, Goto, locks, IInv, TypeOK, ReadLockOK, QuietPcs, CountedPcs, RestartPcs
<1>5. Protected'
  BY AcceleratorAssumption
  DEF Publish, Goto, memory, locks, IInv, TypeOK, Protected, InPlace, Window, RestartPcs,
      LockOK, HoldsLock, ReadLockOK, QuietPcs
<1>. QED  BY <1>1, <1>2, <1>3, <1>4, <1>5, <1>6, Zenon DEF IInv

=============================================================================
