------------------------------ MODULE RWTable -------------------------------
(***************************************************************************)
(* What a TsHashTable promises to the callers of Zend/zend_ts_hash.c: any  *)
(* number of threads read a table, or one thread modifies it.              *)
(***************************************************************************)
CONSTANTS Threads, Tables, Keys

VARIABLES
    readers,   \* readers[h]: threads between begin_read and end_read
    writers,   \* writers[h]: threads between begin_write and end_write
    hash       \* hash[h]: contents of the table

rwVars == <<readers, writers, hash>>

Init ==
    /\ readers = [h \in Tables |-> {}]
    /\ writers = [h \in Tables |-> {}]
    /\ hash = [h \in Tables |-> {}]

ReadLock(t, h) ==
    /\ writers[h] = {}
    /\ readers' = [readers EXCEPT ![h] = @ \cup {t}]
    /\ UNCHANGED <<writers, hash>>

ReadUnlock(t, h) ==
    /\ t \in readers[h]
    /\ readers' = [readers EXCEPT ![h] = @ \ {t}]
    /\ UNCHANGED <<writers, hash>>

WriteLock(t, h) ==
    /\ readers[h] = {} /\ writers[h] = {}
    /\ writers' = [writers EXCEPT ![h] = {t}]
    /\ UNCHANGED <<readers, hash>>

WriteUnlock(t, h) ==
    /\ writers[h] = {t}
    /\ writers' = [writers EXCEPT ![h] = {}]
    /\ UNCHANGED <<readers, hash>>

Modify(t, h) ==
    /\ t \in writers[h]
    /\ \E contents \in SUBSET Keys : hash' = [hash EXCEPT ![h] = contents]
    /\ UNCHANGED <<readers, writers>>

\* A table is created empty, before anybody uses it.
Create(h) ==
    /\ readers[h] = {} /\ writers[h] = {}
    /\ hash' = [hash EXCEPT ![h] = {}]
    /\ UNCHANGED <<readers, writers>>

Next ==
    \E h \in Tables :
        \/ Create(h)
        \/ \E t \in Threads :
             \/ ReadLock(t, h) \/ ReadUnlock(t, h)
             \/ WriteLock(t, h) \/ WriteUnlock(t, h) \/ Modify(t, h)

Spec == Init /\ [][Next]_rwVars
=============================================================================
