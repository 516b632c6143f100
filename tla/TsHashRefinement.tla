-------------------------- MODULE TsHashRefinement --------------------------
(***************************************************************************)
(* The two mutexes and the counter of Zend/zend_ts_hash.c implement the    *)
(* lock of RWTable.  A thread becomes a reader when begin_read returns, and *)
(* stops being one with the first step of end_read.                        *)
(***************************************************************************)
EXTENDS TsHash

ThreadsAt(r) == [h \in Tables |-> {t \in Threads : role[h][t] = r}]

RW == INSTANCE RWTable WITH readers <- ThreadsAt("reading"), writers <- ThreadsAt("writing")

\* Every behaviour of the API is one of a table with a reader-writer lock:
\* begin_read and begin_write return only when the lock is free for them, and
\* the contents change only under begin_write, by the thread that holds it.
ImplementsRWTable == RW!Spec
=============================================================================
