------------------------------- MODULE TsHash -------------------------------
(***************************************************************************)
(* The thread-safe hash table of the Zend engine (Zend/zend_ts_hash.c).    *)
(*                                                                         *)
(* A TsHashTable is a HashTable behind a reader-preferring lock that is    *)
(* built from two mutexes and a counter: mx_reader protects the counter    *)
(* `reader', and mx_writer is taken by a writer, or by the first reader on *)
(* behalf of all of them and given back by the last one, which need not be *)
(* the thread that took it.  Each call of the API is a short program of    *)
(* begin_read, end_read, begin_write, end_write and one access to the      *)
(* plain table; threads interleave between any two of its steps.           *)
(***************************************************************************)
EXTENDS Integers, Sequences, FiniteSets

CONSTANTS
    Threads,     \* threads of the process
    Tables,      \* TsHashTables they share
    Keys,        \* keys an entry may have; the contents of a table is a set of keys
    None,        \* owner of a mutex nobody holds
    UintMod,     \* 2^w for the zend_uint `reader' (w = 32 in the code)
    MaxCalls,    \* bound on the API calls one thread makes
    CopyPairs,   \* <<target, source>> pairs that callers copy or merge
    ComparePairs,\* <<ht1, ht2>> pairs that callers compare
    CleanTables  \* tables whose callers use zend_ts_hash_clean

ASSUME NoneAssumption == None \notin Threads
ASSUME ThreadsAssumption == IsFiniteSet(Threads) /\ Cardinality(Threads) < UintMod
ASSUME UintAssumption == UintMod \in Nat /\ UintMod > 1
ASSUME BoundAssumption == MaxCalls \in Nat
ASSUME PairsAssumption ==
    /\ CopyPairs \subseteq Tables \X Tables
    /\ ComparePairs \subseteq Tables \X Tables
    /\ \A p \in CopyPairs \cup ComparePairs : p[1] # p[2]
ASSUME CleanAssumption == CleanTables \subseteq Tables

CleanCalls == CleanTables # {}

VARIABLES
    alive,      \* alive[h]: h is initialised and not destroyed
    hash,       \* hash[h]: contents of the wrapped HashTable
    reader,     \* reader[h]: the counter TsHashTable.reader
    mx_reader,  \* mx_reader[h]: thread that locked the mutex, or None
    mx_writer,  \* likewise
    role,       \* role[h][t]: where t stands in the lock protocol of h
    todo,       \* todo[t]: calls left in the API function t executes
    calls       \* calls[t]: API calls made so far (bound)

vars == <<alive, hash, reader, mx_reader, mx_writer, role, todo, calls>>

Roles == {"out",                       \* no access
          "r_locked",                  \* begin_read, holds mx_reader, before ++reader
          "r_first",                   \* begin_read, reader became 1, wants mx_writer
          "r_entered",                 \* begin_read, before unlocking mx_reader
          "reading",                   \* between begin_read and end_read
          "x_locked",                  \* end_read, holds mx_reader, before --reader
          "x_last",                    \* end_read, reader became 0, still owes the unlock of mx_writer
          "x_left",                    \* end_read, before unlocking mx_reader
          "writing"}                   \* between begin_write and end_write

-----------------------------------------------------------------------------
(* The API functions as programs of calls on one or two tables.            *)

Ops == {"begin_read", "end_read", "begin_write", "end_write", "read", "write",
        "clean", "merge", "free"} \cup (IF CleanCalls THEN {"reset"} ELSE {})

\* One call inside an API function; `source' is the second table of a merge.
Steps == [op : Ops, table : Tables, source : Tables]

Step(op, h) == [op |-> op, table |-> h, source |-> h]

\* find, quick_find, index_find, exists, index_exists, minmax, num_elements,
\* get_hash_value, copy_to_hash, display
ReadProgram(h) == <<Step("begin_read", h), Step("read", h), Step("end_read", h)>>

\* Mutant: a writer takes the read lock.
WriteProgramShared(h) == <<Step("begin_read", h), Step("write", h), Step("end_read", h)>>

\* add_or_update, quick_add_or_update, index_update_or_next_insert,
\* add_empty_element, del_key_or_index, apply*, reverse_apply, sort, rehash
WriteProgram(h) == <<Step("begin_write", h), Step("write", h), Step("end_write", h)>>

\* The counter is cleared before, and outside of, the write lock.
CleanProgram(h) ==
    <<Step("reset", h), Step("begin_write", h), Step("clean", h), Step("end_write", h)>>

\* Mutant: the mutexes are freed inside the write lock.
DestroyProgramLocked(h) ==
    <<Step("begin_write", h), Step("clean", h), Step("free", h), Step("end_write", h)>>

DestroyProgram(h) ==
    <<Step("begin_write", h), Step("clean", h), Step("end_write", h), Step("free", h)>>

\* copy, merge, merge_ex: source stays read-locked while target is written
CopyProgram(target, source) ==
    <<Step("begin_read", source), Step("begin_write", target),
      [op |-> "merge", table |-> target, source |-> source],
      Step("end_write", target), Step("end_read", source)>>

CompareProgram(ht1, ht2) ==
    <<Step("begin_read", ht1), Step("begin_read", ht2), Step("read", ht2),
      Step("end_read", ht2), Step("end_read", ht1)>>

-----------------------------------------------------------------------------
Init ==
    /\ alive = [h \in Tables |-> FALSE]
    /\ hash = [h \in Tables |-> {}]
    /\ reader = [h \in Tables |-> 0]
    /\ mx_reader = [h \in Tables |-> None]
    /\ mx_writer = [h \in Tables |-> None]
    /\ role = [h \in Tables |-> [t \in Threads |-> "out"]]
    /\ todo = [t \in Threads |-> <<>>]
    /\ calls = [t \in Threads |-> 0]

\* t runs the call op on h next.
At(t, op, h) == todo[t] # <<>> /\ Head(todo[t]).op = op /\ Head(todo[t]).table = h

Return(t) == todo' = [todo EXCEPT ![t] = Tail(@)]

Move(t, h, from, to) == role[h][t] = from /\ role' = [role EXCEPT ![h][t] = to]

\* A mutex is a binary semaphore: any thread may release it.
Lock(mx, t, h) == mx[h] = None /\ mx' = [mx EXCEPT ![h] = t]
Unlock(mx, h) == mx' = [mx EXCEPT ![h] = None]

Idle(t) == todo[t] = <<>>

Call(t, program) ==
    /\ Idle(t)
    /\ calls[t] < MaxCalls
    /\ calls' = [calls EXCEPT ![t] = @ + 1]
    /\ todo' = [todo EXCEPT ![t] = program]
    /\ UNCHANGED <<alive, hash, reader, mx_reader, mx_writer, role>>

\* A module creates its table at startup, before other threads run.
InitTable(h) ==
    /\ \A u \in Threads : Idle(u)
    /\ ~alive[h]
    /\ alive' = [alive EXCEPT ![h] = TRUE]
    /\ hash' = [hash EXCEPT ![h] = {}]
    /\ reader' = [reader EXCEPT ![h] = 0]
    /\ mx_reader' = [mx_reader EXCEPT ![h] = None]
    /\ mx_writer' = [mx_writer EXCEPT ![h] = None]
    /\ UNCHANGED <<role, todo, calls>>

CallRead(t, h) == alive[h] /\ Call(t, ReadProgram(h))
CallWrite(t, h) == alive[h] /\ Call(t, WriteProgram(h))
CallClean(t, h) == h \in CleanTables /\ alive[h] /\ Call(t, CleanProgram(h))
CallCopy(t, p) == alive[p[1]] /\ alive[p[2]] /\ Call(t, CopyProgram(p[1], p[2]))
CallCompare(t, p) == alive[p[1]] /\ alive[p[2]] /\ Call(t, CompareProgram(p[1], p[2]))

\* A module destroys its table at shutdown, when no other thread runs; the
\* table is not handed out any more from then on.
CallDestroy(t, h) ==
    /\ alive[h]
    /\ \A u \in Threads : Idle(u)
    /\ calls[t] < MaxCalls
    /\ calls' = [calls EXCEPT ![t] = @ + 1]
    /\ todo' = [todo EXCEPT ![t] = DestroyProgram(h)]
    /\ alive' = [alive EXCEPT ![h] = FALSE]
    /\ UNCHANGED <<hash, reader, mx_reader, mx_writer, role>>

-----------------------------------------------------------------------------
(* begin_read                                                              *)

BeginReadLock(t, h) ==
    /\ At(t, "begin_read", h)
    /\ Move(t, h, "out", "r_locked")
    /\ Lock(mx_reader, t, h)
    /\ UNCHANGED <<alive, hash, reader, mx_writer, todo, calls>>

\* Mutant: the first reader does not lock out the writers.
BeginReadCountNoFirst(t, h) ==
    /\ reader' = [reader EXCEPT ![h] = (@ + 1) % UintMod]
    /\ Move(t, h, "r_locked", "r_entered")
    /\ UNCHANGED <<alive, hash, mx_reader, mx_writer, todo, calls>>

BeginReadCount(t, h) ==
    /\ reader' = [reader EXCEPT ![h] = (@ + 1) % UintMod]
    /\ Move(t, h, "r_locked", IF reader'[h] = 1 THEN "r_first" ELSE "r_entered")
    /\ UNCHANGED <<alive, hash, mx_reader, mx_writer, todo, calls>>

BeginReadFirst(t, h) ==
    /\ Move(t, h, "r_first", "r_entered")
    /\ Lock(mx_writer, t, h)
    /\ UNCHANGED <<alive, hash, reader, mx_reader, todo, calls>>

BeginReadUnlock(t, h) ==
    /\ Move(t, h, "r_entered", "reading")
    /\ Unlock(mx_reader, h)
    /\ Return(t)
    /\ UNCHANGED <<alive, hash, reader, mx_writer, calls>>

(* end_read                                                                *)

EndReadLock(t, h) ==
    /\ At(t, "end_read", h)
    /\ Move(t, h, "reading", "x_locked")
    /\ Lock(mx_reader, t, h)
    /\ UNCHANGED <<alive, hash, reader, mx_writer, todo, calls>>

\* Mutant: the counter is signed.
EndReadCountSigned(t, h) ==
    /\ reader' = [reader EXCEPT ![h] = @ - 1]
    /\ Move(t, h, "x_locked", IF reader'[h] = 0 THEN "x_last" ELSE "x_left")
    /\ UNCHANGED <<alive, hash, mx_reader, mx_writer, todo, calls>>

\* Mutant: the last reader does not leave the counter.
EndReadCountSticky(t, h) ==
    /\ Move(t, h, "x_locked", IF reader[h] = 1 THEN "x_last" ELSE "x_left")
    /\ UNCHANGED <<alive, hash, reader, mx_reader, mx_writer, todo, calls>>

EndReadCount(t, h) ==
    /\ reader' = [reader EXCEPT ![h] = (@ - 1) % UintMod]
    /\ Move(t, h, "x_locked", IF reader'[h] = 0 THEN "x_last" ELSE "x_left")
    /\ UNCHANGED <<alive, hash, mx_reader, mx_writer, todo, calls>>

\* Mutant: the last reader keeps the writers out.
EndReadLastKeep(t, h) ==
    /\ Move(t, h, "x_last", "x_left")
    /\ UNCHANGED <<alive, hash, reader, mx_reader, mx_writer, todo, calls>>

EndReadLast(t, h) ==
    /\ Move(t, h, "x_last", "x_left")
    /\ Unlock(mx_writer, h)
    /\ UNCHANGED <<alive, hash, reader, mx_reader, todo, calls>>

EndReadUnlock(t, h) ==
    /\ Move(t, h, "x_left", "out")
    /\ Unlock(mx_reader, h)
    /\ Return(t)
    /\ UNCHANGED <<alive, hash, reader, mx_writer, calls>>

(* begin_write, end_write                                                  *)

BeginWrite(t, h) ==
    /\ At(t, "begin_write", h)
    /\ Move(t, h, "out", "writing")
    /\ Lock(mx_writer, t, h)
    /\ Return(t)
    /\ UNCHANGED <<alive, hash, reader, mx_reader, calls>>

EndWrite(t, h) ==
    /\ At(t, "end_write", h)
    /\ Move(t, h, "writing", "out")
    /\ Unlock(mx_writer, h)
    /\ Return(t)
    /\ UNCHANGED <<alive, hash, reader, mx_reader, calls>>

-----------------------------------------------------------------------------
(* The access to the wrapped table.                                        *)

Read(t, h) ==
    /\ At(t, "read", h)
    /\ Return(t)
    /\ UNCHANGED <<alive, hash, reader, mx_reader, mx_writer, role, calls>>

Write(t, h) ==
    /\ At(t, "write", h)
    /\ \E k \in Keys : \/ hash' = [hash EXCEPT ![h] = @ \cup {k}]
                       \/ hash' = [hash EXCEPT ![h] = @ \ {k}]
    /\ Return(t)
    /\ UNCHANGED <<alive, reader, mx_reader, mx_writer, role, calls>>

Clean(t, h) ==
    /\ At(t, "clean", h)
    /\ hash' = [hash EXCEPT ![h] = {}]
    /\ Return(t)
    /\ UNCHANGED <<alive, reader, mx_reader, mx_writer, role, calls>>

Merge(t, h) ==
    /\ At(t, "merge", h)
    /\ hash' = [hash EXCEPT ![h] = @ \cup hash[Head(todo[t]).source]]
    /\ Return(t)
    /\ UNCHANGED <<alive, reader, mx_reader, mx_writer, role, calls>>

\* ht->reader = 0 without any lock.  A thread that holds mx_reader may be
\* between the load and the store of its ++ or --, whose store then undoes
\* the reset.
Reset(t, h) ==
    /\ At(t, "reset", h)
    /\ \/ reader' = [reader EXCEPT ![h] = 0]
       \/ /\ \E u \in Threads : role[h][u] \in {"r_locked", "x_locked"}
          /\ UNCHANGED reader
    /\ Return(t)
    /\ UNCHANGED <<alive, hash, mx_reader, mx_writer, role, calls>>

\* tsrm_mutex_free of both mutexes, at the end of destroy.
Free(t, h) ==
    /\ At(t, "free", h)
    /\ Return(t)
    /\ UNCHANGED <<alive, hash, reader, mx_reader, mx_writer, role, calls>>

-----------------------------------------------------------------------------
BeginRead(t, h) ==
    \/ BeginReadLock(t, h) \/ BeginReadCount(t, h)
    \/ BeginReadFirst(t, h) \/ BeginReadUnlock(t, h)

EndRead(t, h) ==
    \/ EndReadLock(t, h) \/ EndReadCount(t, h)
    \/ EndReadLast(t, h) \/ EndReadUnlock(t, h)

\* One step of the API function t is in.
Run(t) ==
    \E h \in Tables :
        \/ BeginRead(t, h) \/ EndRead(t, h)
        \/ BeginWrite(t, h) \/ EndWrite(t, h)
        \/ Read(t, h) \/ Write(t, h) \/ Clean(t, h) \/ Merge(t, h)
        \/ Reset(t, h) \/ Free(t, h)

\* A thread starts an API function.
Start(t) ==
    \/ \E h \in Tables :
         \/ InitTable(h)
         \/ CallRead(t, h) \/ CallWrite(t, h) \/ CallClean(t, h) \/ CallDestroy(t, h)
    \/ \E p \in CopyPairs : CallCopy(t, p)
    \/ \E p \in ComparePairs : CallCompare(t, p)

Next == \E t \in Threads : Run(t) \/ Start(t)

Spec == Init /\ [][Next]_vars

\* The operating system keeps running every thread that can run.
FairSpec == Spec /\ \A t \in Threads : WF_vars(Run(t))

-----------------------------------------------------------------------------
(* Properties.                                                             *)

\* Variables have the types of the C structures.
TypeOK ==
    /\ alive \in [Tables -> BOOLEAN]
    /\ hash \in [Tables -> SUBSET Keys]
    /\ reader \in [Tables -> 0..(UintMod - 1)]
    /\ mx_reader \in [Tables -> Threads \cup {None}]
    /\ mx_writer \in [Tables -> Threads \cup {None}]
    /\ role \in [Tables -> [Threads -> Roles]]
    /\ todo \in [Threads -> Seq(Steps)]
    /\ calls \in [Threads -> Nat]

\* Mutual exclusion of the lock that begin_read/end_read and
\* begin_write/end_write implement: while one thread is between begin_write
\* and end_write on a table no other thread is between begin_read and
\* end_read, or between begin_write and end_write, on it.
Exclusion ==
    \A h \in Tables : \A t, u \in Threads :
        t # u /\ role[h][t] = "writing" => role[h][u] \notin {"reading", "writing"}

\* Threads that ++reader has counted and --reader has not.
Counted(h) == {t \in Threads : role[h][t] \in {"r_first", "r_entered", "reading", "x_locked"}}

\* The counter tells how many threads are inside (or about to get inside)
\* the read lock of a table; it never wraps and never loses a reader.
\* zend_ts_hash_clean breaks it.
ReaderCount == \A h \in Tables \ CleanTables : reader[h] = Cardinality(Counted(h))

\* A mutex is freed by zend_ts_hash_destroy only when no thread holds it.
FreedUnlocked ==
    \A t \in Threads, h \in Tables :
        At(t, "free", h) => mx_reader[h] = None /\ mx_writer[h] = None

\* Every call of the API returns: no thread blocks for ever on a mutex that
\* nobody gives back.  A call on a table that is cleaned need not: once the
\* counter was reset under a reader, the last reader may not be noticed.
EveryCallReturns ==
    \A t \in Threads :
        ~Idle(t) ~> Idle(t) \/ Head(todo[t]).table \in CleanTables

-----------------------------------------------------------------------------
(* The inductive invariant behind Exclusion and ReaderCount when nobody    *)
(* calls zend_ts_hash_clean.                                               *)

\* t still has to make the call op on h.
Owes(t, op, h) == \E i \in 1..Len(todo[t]) : todo[t][i].op = op /\ todo[t][i].table = h

\* ReaderCount of every table.
ReadersCounted == \A h \in Tables : reader[h] = Cardinality(Counted(h))

\* Every lock a program takes is given back further on in it.
BalancedProgram(s) ==
    \A i \in 1..Len(s) :
        /\ s[i].op = "begin_read" =>
             \E j \in (i+1)..Len(s) : s[j].op = "end_read" /\ s[j].table = s[i].table
        /\ s[i].op = "begin_write" =>
             \E j \in (i+1)..Len(s) : s[j].op = "end_write" /\ s[j].table = s[i].table

Balanced == \A t \in Threads : BalancedProgram(todo[t])

\* A thread's place in the lock protocol agrees with its program.
InStep ==
    \A t \in Threads, h \in Tables :
        /\ role[h][t] \in {"r_locked", "r_first", "r_entered"} => At(t, "begin_read", h)
        /\ role[h][t] = "reading" => Owes(t, "end_read", h)
        /\ role[h][t] \in {"x_locked", "x_last", "x_left"} => At(t, "end_read", h)
        /\ role[h][t] = "writing" => Owes(t, "end_write", h)

\* mx_reader is held exactly between its lock and its unlock.
ReaderMutex ==
    \A h \in Tables, t \in Threads :
        role[h][t] \in {"r_locked", "r_first", "r_entered", "x_locked", "x_last", "x_left"}
            => mx_reader[h] = t

\* mx_writer is held by the writer, or on behalf of the threads inside.
WriterMutex ==
    \A h \in Tables, t \in Threads :
        /\ role[h][t] = "writing" => mx_writer[h] = t
        /\ role[h][t] \in {"r_entered", "reading", "x_locked", "x_last"} =>
             /\ mx_writer[h] # None
             /\ \A u \in Threads : role[h][u] # "writing"
        /\ role[h][t] = "r_first" => Counted(h) = {t}
        /\ role[h][t] = "x_last" => Counted(h) = {}

TsHashInv ==
    TypeOK /\ Balanced /\ InStep /\ ReaderMutex /\ WriterMutex /\ ReadersCounted
=============================================================================
