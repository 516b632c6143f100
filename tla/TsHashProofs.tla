---------------------------- MODULE TsHashProofs ----------------------------
(***************************************************************************)
(* Proofs about TsHash, for every set of threads and tables: the lock of   *)
(* zend_ts_hash.c excludes writers, and its counter counts the readers, as *)
(* long as zend_ts_hash_clean is not called.                               *)
(***************************************************************************)
EXTENDS TsHash, FiniteSetTheorems, SequenceTheorems, TLAPS

-----------------------------------------------------------------------------
(* Facts about programs.                                                   *)

\* Popping the call that has just been made keeps the rest of the program.
LEMMA TailFacts ==
  ASSUME NEW S, NEW s \in Seq(S), s # <<>>
  PROVE  /\ Head(s) = s[1] /\ Head(s) \in S
         /\ Tail(s) \in Seq(S)
         /\ Len(s) \in Nat /\ Len(s) > 0
         /\ Len(Tail(s)) = Len(s) - 1
         /\ \A i \in 1..(Len(s) - 1) : Tail(s)[i] = s[i+1]
  BY HeadTailProperties, LenProperties

\* What is left of a balanced program is balanced.
LEMMA BalancedTail ==
  ASSUME NEW s \in Seq(Steps), s # <<>>, BalancedProgram(s)
  PROVE  BalancedProgram(Tail(s))
  <1>1. SUFFICES ASSUME NEW i \in 1..Len(Tail(s))
        PROVE  /\ Tail(s)[i].op = "begin_read" =>
                    \E j \in (i+1)..Len(Tail(s)) :
                        Tail(s)[j].op = "end_read" /\ Tail(s)[j].table = Tail(s)[i].table
               /\ Tail(s)[i].op = "begin_write" =>
                    \E j \in (i+1)..Len(Tail(s)) :
                        Tail(s)[j].op = "end_write" /\ Tail(s)[j].table = Tail(s)[i].table
    BY Zenon DEF BalancedProgram
  <1>2. i + 1 \in 1..Len(s) /\ Tail(s)[i] = s[i+1]
    BY <1>1, TailFacts
  <1>3. ASSUME s[i+1].op = "begin_read"
        PROVE  \E j \in (i+1)..Len(Tail(s)) : Tail(s)[j].op = "end_read" /\ Tail(s)[j].table = s[i+1].table
    <2>1. PICK j \in (i+2)..Len(s) : s[j].op = "end_read" /\ s[j].table = s[i+1].table
      BY <1>2, <1>3, TailFacts DEF BalancedProgram
    <2>2. j - 1 \in (i+1)..Len(Tail(s)) /\ Tail(s)[j-1] = s[j]
      BY <1>1, <1>2, <2>1, TailFacts
    <2>3. QED BY <2>1, <2>2, Zenon
  <1>4. ASSUME s[i+1].op = "begin_write"
        PROVE  \E j \in (i+1)..Len(Tail(s)) : Tail(s)[j].op = "end_write" /\ Tail(s)[j].table = s[i+1].table
    <2>1. PICK j \in (i+2)..Len(s) : s[j].op = "end_write" /\ s[j].table = s[i+1].table
      BY <1>2, <1>4, TailFacts DEF BalancedProgram
    <2>2. j - 1 \in (i+1)..Len(Tail(s)) /\ Tail(s)[j-1] = s[j]
      BY <1>1, <1>2, <2>1, TailFacts
    <2>3. QED BY <2>1, <2>2, Zenon
  <1>5. QED BY <1>2, <1>3, <1>4, Zenon

\* The programs of the API functions are sequences of calls, and balanced.
LEMMA Programs ==
  ASSUME NEW h \in Tables, NEW g \in Tables
  PROVE  /\ ReadProgram(h) \in Seq(Steps) /\ BalancedProgram(ReadProgram(h))
         /\ WriteProgram(h) \in Seq(Steps) /\ BalancedProgram(WriteProgram(h))
         /\ DestroyProgram(h) \in Seq(Steps) /\ BalancedProgram(DestroyProgram(h))
         /\ CopyProgram(h, g) \in Seq(Steps) /\ BalancedProgram(CopyProgram(h, g))
         /\ CompareProgram(h, g) \in Seq(Steps) /\ BalancedProgram(CompareProgram(h, g))
         /\ CleanCalls => CleanProgram(h) \in Seq(Steps) /\ BalancedProgram(CleanProgram(h))
  <1> USE DEF Step, Steps, Ops, BalancedProgram
  <1>1. ReadProgram(h) \in Seq(Steps) /\ BalancedProgram(ReadProgram(h))
    BY DEF ReadProgram
  <1>2. WriteProgram(h) \in Seq(Steps) /\ BalancedProgram(WriteProgram(h))
    BY DEF WriteProgram
  <1>3. DestroyProgram(h) \in Seq(Steps) /\ BalancedProgram(DestroyProgram(h))
    BY DEF DestroyProgram
  <1>4. CopyProgram(h, g) \in Seq(Steps) /\ BalancedProgram(CopyProgram(h, g))
    BY DEF CopyProgram
  <1>5. CompareProgram(h, g) \in Seq(Steps) /\ BalancedProgram(CompareProgram(h, g))
    BY DEF CompareProgram
  <1>6. CleanCalls => CleanProgram(h) \in Seq(Steps) /\ BalancedProgram(CleanProgram(h))
    BY DEF CleanProgram
  <1>7. QED BY <1>1, <1>2, <1>3, <1>4, <1>5, <1>6, Zenon

-----------------------------------------------------------------------------
(* Steps that move a thread through its program.                           *)

\* A step that is done leaves the rest of the program, which is still balanced.
LEMMA ReturnFacts ==
  ASSUME TypeOK, Balanced, NEW t \in Threads, todo[t] # <<>>, Return(t)
  PROVE  /\ todo' \in [Threads -> Seq(Steps)]
         /\ Balanced'
         /\ \A u \in Threads \ {t} : todo'[u] = todo[u]
         /\ \A op, h : Owes(t, op, h) /\ ~At(t, op, h) => Owes(t, op, h)'
         /\ \A h : At(t, "begin_read", h) => Owes(t, "end_read", h)'
         /\ \A h : At(t, "begin_write", h) => Owes(t, "end_write", h)'
  <1> DEFINE s == todo[t]
  <1>1. s \in Seq(Steps) /\ BalancedProgram(s) /\ s # <<>>
    BY Zenon DEF TypeOK, Balanced
  <1>2. todo'[t] = Tail(s) /\ \A u \in Threads \ {t} : todo'[u] = todo[u]
    BY Zenon DEF TypeOK, Return
  <1>3. Tail(s) \in Seq(Steps) /\ BalancedProgram(Tail(s))
    BY <1>1, BalancedTail, TailFacts, Zenon
  <1>4. todo' \in [Threads -> Seq(Steps)]
    BY <1>3, Zenon DEF TypeOK, Return
  <1>5. Balanced'
    BY <1>2, <1>3, Zenon DEF Balanced
  <1> HIDE DEF s
  <1>6. ASSUME NEW op, NEW h, NEW i \in 2..Len(s), s[i].op = op, s[i].table = h
        PROVE  Owes(t, op, h)'
    <2>1. i - 1 \in 1..Len(Tail(s)) /\ Tail(s)[i-1] = s[i]
      BY <1>1, <1>6, TailFacts
    <2>2. QED BY <1>2, <1>6, <2>1, Zenon DEF Owes
  <1>7. Head(s) = s[1] /\ Len(s) \in Nat /\ Len(s) > 0
    BY <1>1, TailFacts, Zenon
  <1>8. ASSUME NEW op, NEW h, Owes(t, op, h), ~At(t, op, h)
        PROVE  Owes(t, op, h)'
    <2>1. PICK i \in 1..Len(s) : s[i].op = op /\ s[i].table = h
      BY <1>8, Zenon DEF Owes, s
    <2>2. i # 1
      BY <1>1, <1>7, <1>8, <2>1, Zenon DEF At, s
    <2>3. i \in 2..Len(s)
      BY <1>7, <2>1, <2>2
    <2>4. QED BY <1>6, <2>1, <2>3, Zenon
  <1>9. ASSUME NEW h, At(t, "begin_read", h)
        PROVE  Owes(t, "end_read", h)'
    <2>1. s[1].op = "begin_read" /\ s[1].table = h
      BY <1>7, <1>9, Zenon DEF At, s
    <2>2. PICK i \in 2..Len(s) : s[i].op = "end_read" /\ s[i].table = h
      BY <1>1, <1>7, <2>1 DEF BalancedProgram
    <2>3. QED BY <1>6, <2>2, Zenon
  <1>10. ASSUME NEW h, At(t, "begin_write", h)
         PROVE  Owes(t, "end_write", h)'
    <2>1. s[1].op = "begin_write" /\ s[1].table = h
      BY <1>7, <1>10, Zenon DEF At, s
    <2>2. PICK i \in 2..Len(s) : s[i].op = "end_write" /\ s[i].table = h
      BY <1>1, <1>7, <2>1 DEF BalancedProgram
    <2>3. QED BY <1>6, <2>2, Zenon
  <1>11. QED BY <1>2, <1>4, <1>5, <1>8, <1>9, <1>10, Zenon

\* A move changes the role of one thread at one table.
LEMMA MoveFacts ==
  ASSUME TypeOK, NEW t \in Threads, NEW h \in Tables, NEW from, NEW to \in Roles,
         Move(t, h, from, to)
  PROVE  /\ role' \in [Tables -> [Threads -> Roles]]
         /\ role[h][t] = from /\ role'[h][t] = to
         /\ \A g \in Tables, u \in Threads : g # h \/ u # t => role'[g][u] = role[g][u]
  BY Zenon DEF Move, TypeOK

\* The number of counted readers is a number that the counter can hold.
LEMMA CountedFacts ==
  ASSUME NEW h \in Tables
  PROVE  /\ Counted(h) \subseteq Threads /\ IsFiniteSet(Counted(h))
         /\ Cardinality(Counted(h)) \in Nat
         /\ Cardinality(Counted(h)) <= Cardinality(Threads)
         /\ Cardinality(Threads) \in Nat
         /\ Cardinality(Counted(h)) = 0 <=> Counted(h) = {}
  <1>1. Counted(h) \subseteq Threads
    BY Zenon DEF Counted
  <1>2. IsFiniteSet(Counted(h)) /\ Cardinality(Counted(h)) <= Cardinality(Threads)
    BY ThreadsAssumption, <1>1, FS_Subset, Zenon
  <1>3. QED BY ThreadsAssumption, <1>1, <1>2, FS_CardinalityType, FS_EmptySet, Zenon

\* A step that leaves role alone, or moves between two roles that are both
\* counted or both not, leaves Counted alone.
LEMMA CountedSame ==
  ASSUME NEW h \in Tables,
         \A u \in Threads :
            role'[h][u] = role[h][u]
            \/ (role[h][u] \in {"r_first", "r_entered", "reading", "x_locked"}
                <=> role'[h][u] \in {"r_first", "r_entered", "reading", "x_locked"})
  PROVE  Counted(h)' = Counted(h)
  BY Zenon DEF Counted

-----------------------------------------------------------------------------
(* Type correctness.                                                       *)

\* Starting a call keeps the types.
LEMMA TypeStart ==
  ASSUME TypeOK, NEW t \in Threads, Start(t)
  PROVE  TypeOK'
  <1>1. ASSUME NEW program \in Seq(Steps), Call(t, program)
        PROVE  TypeOK'
    BY <1>1 DEF Call, TypeOK
  <1>2. ASSUME NEW h \in Tables, InitTable(h)
        PROVE  TypeOK'
    <2>1. alive' \in [Tables -> BOOLEAN] /\ hash' \in [Tables -> SUBSET Keys]
      BY <1>2, Zenon DEF InitTable, TypeOK
    <2>2. QED BY UintAssumption, <1>2, <2>1 DEF InitTable, TypeOK
  <1>3. ASSUME NEW h \in Tables, CallRead(t, h)
        PROVE  TypeOK'
    BY <1>1, <1>3, Programs, Zenon DEF CallRead
  <1>4. ASSUME NEW h \in Tables, CallWrite(t, h)
        PROVE  TypeOK'
    BY <1>1, <1>4, Programs, Zenon DEF CallWrite
  <1>5. ASSUME NEW h \in Tables, CallClean(t, h)
        PROVE  TypeOK'
    BY <1>1, <1>5, Programs, Zenon DEF CallClean, CleanCalls
  <1>6. ASSUME NEW h \in Tables, CallDestroy(t, h)
        PROVE  TypeOK'
    BY <1>6, Programs DEF CallDestroy, TypeOK
  <1>7. ASSUME NEW p \in CopyPairs, CallCopy(t, p)
        PROVE  TypeOK'
    BY PairsAssumption, <1>1, <1>7, Programs, Zenon DEF CallCopy
  <1>8. ASSUME NEW p \in ComparePairs, CallCompare(t, p)
        PROVE  TypeOK'
    BY PairsAssumption, <1>1, <1>8, Programs, Zenon DEF CallCompare
  <1>9. QED BY <1>2, <1>3, <1>4, <1>5, <1>6, <1>7, <1>8, Zenon DEF Start

\* So does every step of a call.
LEMMA TypeRun ==
  ASSUME TypeOK, InStep, NEW t \in Threads, Run(t)
  PROVE  TypeOK'
  <1> PICK h \in Tables :
        \/ BeginRead(t, h) \/ EndRead(t, h) \/ BeginWrite(t, h) \/ EndWrite(t, h)
        \/ Read(t, h) \/ Write(t, h) \/ Clean(t, h) \/ Merge(t, h)
        \/ Reset(t, h) \/ Free(t, h)
    BY Zenon DEF Run
  <1>1. ASSUME todo[t] # <<>>, Return(t)
        PROVE  todo' \in [Threads -> Seq(Steps)]
    <2>1. Tail(todo[t]) \in Seq(Steps)
      BY <1>1, TailFacts, Zenon DEF TypeOK
    <2>2. QED BY <1>1, <2>1, Zenon DEF TypeOK, Return
  <1>2. \A r \in 0..(UintMod - 1) :
          (r + 1) % UintMod \in 0..(UintMod - 1) /\ (r - 1) % UintMod \in 0..(UintMod - 1)
    BY UintAssumption
  <1>3. CASE BeginReadLock(t, h)
    BY <1>3, MoveFacts, Zenon DEF BeginReadLock, Lock, TypeOK, Roles
  <1>4. CASE BeginReadCount(t, h)
    <2>1. reader' \in [Tables -> 0..(UintMod - 1)]
      BY <1>2, <1>4, Zenon DEF BeginReadCount, TypeOK
    <2>2. role' \in [Tables -> [Threads -> Roles]]
      BY <1>4, Zenon DEF BeginReadCount, Move, TypeOK, Roles
    <2>3. QED BY <1>4, <2>1, <2>2, Zenon DEF BeginReadCount, TypeOK
  <1>5. CASE BeginReadFirst(t, h)
    BY <1>5, MoveFacts, Zenon DEF BeginReadFirst, Lock, TypeOK, Roles
  <1>6. CASE BeginReadUnlock(t, h)
    <2>1. todo[t] # <<>>
      BY <1>6, Zenon DEF BeginReadUnlock, Move, InStep, At
    <2>2. QED BY <1>1, <1>6, <2>1, MoveFacts, Zenon DEF BeginReadUnlock, Unlock, TypeOK, Roles
  <1>7. CASE EndReadLock(t, h)
    BY <1>7, MoveFacts, Zenon DEF EndReadLock, Lock, TypeOK, Roles
  <1>8. CASE EndReadCount(t, h)
    <2>1. reader' \in [Tables -> 0..(UintMod - 1)]
      BY <1>2, <1>8, Zenon DEF EndReadCount, TypeOK
    <2>2. role' \in [Tables -> [Threads -> Roles]]
      BY <1>8, Zenon DEF EndReadCount, Move, TypeOK, Roles
    <2>3. QED BY <1>8, <2>1, <2>2, Zenon DEF EndReadCount, TypeOK
  <1>9. CASE EndReadLast(t, h)
    BY <1>9, MoveFacts, Zenon DEF EndReadLast, Unlock, TypeOK, Roles
  <1>10. CASE EndReadUnlock(t, h)
    <2>1. todo[t] # <<>>
      BY <1>10, Zenon DEF EndReadUnlock, Move, InStep, At
    <2>2. QED BY <1>1, <1>10, <2>1, MoveFacts, Zenon DEF EndReadUnlock, Unlock, TypeOK, Roles
  <1>11. CASE BeginWrite(t, h)
    BY <1>1, <1>11, MoveFacts, Zenon DEF BeginWrite, At, Lock, TypeOK, Roles
  <1>12. CASE EndWrite(t, h)
    BY <1>1, <1>12, MoveFacts, Zenon DEF EndWrite, At, Unlock, TypeOK, Roles
  <1>13. CASE Read(t, h) \/ Free(t, h)
    BY <1>1, <1>13, Zenon DEF Read, Free, At, TypeOK
  <1>14. CASE Write(t, h) \/ Clean(t, h)
    <2>1. hash' \in [Tables -> SUBSET Keys]
      <3>1. PICK S \in SUBSET Keys : hash' = [hash EXCEPT ![h] = S]
        <4>1. hash[h] \in SUBSET Keys
          BY Zenon DEF TypeOK
        <4>2. CASE Write(t, h)
          <5>1. PICK k \in Keys : \/ hash' = [hash EXCEPT ![h] = hash[h] \cup {k}]
                                \/ hash' = [hash EXCEPT ![h] = hash[h] \ {k}]
            BY <4>2, Zenon DEF Write
          <5>2. hash[h] \cup {k} \in SUBSET Keys /\ hash[h] \ {k} \in SUBSET Keys
            BY <4>1, <5>1, Zenon
          <5>3. QED BY <5>1, <5>2, Zenon
        <4>3. CASE Clean(t, h)
          BY <4>3, ZenonT(30) DEF Clean
        <4>4. QED BY <1>14, <4>2, <4>3, Zenon
      <3>2. QED BY <3>1, Zenon DEF TypeOK
    <2>2. QED BY <1>1, <1>14, <2>1, Zenon DEF Write, Clean, At, TypeOK
  <1>15. CASE Merge(t, h)
    <2>1. Head(todo[t]).source \in Tables
      <3>1. todo[t] \in Seq(Steps) /\ todo[t] # <<>>
        BY <1>15, Zenon DEF Merge, At, TypeOK
      <3>2. Head(todo[t]) \in Steps
        BY <3>1, TailFacts, Zenon
      <3>3. QED BY <3>2, Zenon DEF Steps
    <2>2. QED BY <1>1, <1>15, <2>1, Zenon DEF Merge, At, TypeOK
  <1>16. CASE Reset(t, h)
    <2>1. reader' \in [Tables -> 0..(UintMod - 1)]
      <3>1. reader' = [reader EXCEPT ![h] = 0] \/ reader' = reader
        BY <1>16, Zenon DEF Reset
      <3>2. 0 \in 0..(UintMod - 1)
        BY UintAssumption
      <3>3. QED BY <3>1, <3>2, ZenonT(30) DEF TypeOK
    <2>2. QED BY <1>1, <1>16, <2>1, Zenon DEF Reset, At, TypeOK
  <1>17. QED BY <1>3, <1>4, <1>5, <1>6, <1>7, <1>8, <1>9, <1>10, <1>11, <1>12,
                <1>13, <1>14, <1>15, <1>16, Zenon DEF BeginRead, EndRead

-----------------------------------------------------------------------------
(* A thread's role agrees with its program.                                *)

\* A step that leaves the programs alone, or only makes t return from a call
\* that is none of the four lock functions, keeps Balanced and InStep.
LEMMA ProtocolAccess ==
  ASSUME TypeOK, Balanced, InStep, NEW t \in Threads, NEW h \in Tables,
         NEW op \in {"read", "write", "clean", "merge", "reset", "free"},
         At(t, op, h), Return(t), role' = role
  PROVE  Balanced' /\ InStep'
  <1>1. todo[t] # <<>> /\ \A g : /\ ~At(t, "begin_read", g) /\ ~At(t, "begin_write", g)
                                 /\ ~At(t, "end_read", g) /\ ~At(t, "end_write", g)
    BY Zenon DEF At
  <1>2. Balanced' /\ \A u \in Threads \ {t} : todo'[u] = todo[u]
    BY <1>1, ReturnFacts, Zenon
  <1>3. \A g : /\ Owes(t, "end_read", g) => Owes(t, "end_read", g)'
               /\ Owes(t, "end_write", g) => Owes(t, "end_write", g)'
    BY <1>1, ReturnFacts, Zenon
  <1>4. \A u, o, g : u \in Threads \ {t} =>
            /\ At(u, o, g)' <=> At(u, o, g)
            /\ Owes(u, o, g)' <=> Owes(u, o, g)
    BY <1>2 DEF At, Owes
  <1>5. InStep'
    <2> SUFFICES ASSUME NEW u \in Threads, NEW g \in Tables
                 PROVE  /\ role[g][u] \in {"r_locked", "r_first", "r_entered"} => At(u, "begin_read", g)'
                        /\ role[g][u] = "reading" => Owes(u, "end_read", g)'
                        /\ role[g][u] \in {"x_locked", "x_last", "x_left"} => At(u, "end_read", g)'
                        /\ role[g][u] = "writing" => Owes(u, "end_write", g)'
      BY Zenon DEF InStep
    <2>1. CASE u # t
      BY <1>4, <2>1, Zenon DEF InStep
    <2>2. CASE u = t
      BY <1>1, <1>3, <2>2, Zenon DEF InStep
    <2>3. QED BY <2>1, <2>2, Zenon
  <1>6. QED BY <1>2, <1>5, Zenon

\* A step inside begin_read or end_read keeps them.
LEMMA ProtocolInside ==
  ASSUME TypeOK, Balanced, InStep, NEW t \in Threads, NEW h \in Tables,
         NEW from, NEW to \in Roles, Move(t, h, from, to), todo' = todo,
         \/ /\ At(t, "begin_read", h)
            /\ to \in {"r_locked", "r_first", "r_entered"}
         \/ /\ At(t, "end_read", h)
            /\ to \in {"x_locked", "x_last", "x_left"}
  PROVE  Balanced' /\ InStep'
  <1>1. Balanced'
    BY Zenon DEF Balanced
  <1>2. \A u, op, g : u \in Threads =>
            /\ At(u, op, g)' <=> At(u, op, g)
            /\ Owes(u, op, g)' <=> Owes(u, op, g)
    BY Zenon DEF At, Owes
  <1>3. QED BY <1>1, <1>2, MoveFacts DEF InStep

\* Returning from a lock function keeps them.
LEMMA ProtocolReturn ==
  ASSUME TypeOK, Balanced, InStep, NEW t \in Threads, NEW h \in Tables,
         NEW from, NEW to \in Roles, Move(t, h, from, to), Return(t),
         \/ At(t, "begin_read", h) /\ to = "reading"
         \/ At(t, "end_read", h) /\ to = "out"
         \/ At(t, "begin_write", h) /\ to = "writing"
         \/ At(t, "end_write", h) /\ to = "out"
  PROVE  Balanced' /\ InStep'
  <1>1. todo[t] # <<>>
    BY Zenon DEF At
  <1>2. Balanced' /\ \A u \in Threads \ {t} : todo'[u] = todo[u]
    BY <1>1, ReturnFacts, Zenon
  <1>3. \A u, op, g : u \in Threads \ {t} =>
            /\ At(u, op, g)' <=> At(u, op, g)
            /\ Owes(u, op, g)' <=> Owes(u, op, g)
    BY <1>2 DEF At, Owes
  <1>4. \A g \in Tables \ {h} : ~At(t, "begin_read", g) /\ ~At(t, "end_read", g)
    BY Zenon DEF At
  <1>5. \A g : g # h => /\ Owes(t, "end_read", g) => Owes(t, "end_read", g)'
                        /\ Owes(t, "end_write", g) => Owes(t, "end_write", g)'
    <2>1. \A g : g # h => ~At(t, "end_read", g) /\ ~At(t, "end_write", g)
      BY Zenon DEF At
    <2>2. QED BY <1>1, <2>1, ReturnFacts, Zenon
  <1>6. /\ to = "reading" => Owes(t, "end_read", h)'
        /\ to = "writing" => Owes(t, "end_write", h)'
    BY <1>1, ReturnFacts, Zenon
  <1>7. QED
    <2> SUFFICES ASSUME NEW u \in Threads, NEW g \in Tables
                 PROVE  /\ role'[g][u] \in {"r_locked", "r_first", "r_entered"} => At(u, "begin_read", g)'
                        /\ role'[g][u] = "reading" => Owes(u, "end_read", g)'
                        /\ role'[g][u] \in {"x_locked", "x_last", "x_left"} => At(u, "end_read", g)'
                        /\ role'[g][u] = "writing" => Owes(u, "end_write", g)'
      BY <1>2, Zenon DEF InStep
    <2>1. CASE u # t
      <3>1. role'[g][u] = role[g][u]
        BY <2>1, MoveFacts
      <3>2. QED BY <1>3, <2>1, <3>1, Zenon DEF InStep
    <2>2. CASE u = t /\ g # h
      <3>1. role'[g][u] = role[g][u]
        BY <2>2, MoveFacts
      <3>2. ~At(u, "begin_read", g) /\ ~At(u, "end_read", g)
        BY <1>4, <2>2, Zenon
      <3>3. /\ role[g][u] = "reading" => Owes(t, "end_read", g)
            /\ role[g][u] = "writing" => Owes(t, "end_write", g)
            /\ role[g][u] \notin {"r_locked", "r_first", "r_entered", "x_locked", "x_last", "x_left"}
        BY <2>2, <3>2, Zenon DEF InStep
      <3>4. /\ role[g][u] = "reading" => Owes(t, "end_read", g)'
            /\ role[g][u] = "writing" => Owes(t, "end_write", g)'
        BY <1>5, <2>2, <3>3, Zenon
      <3>5. QED BY <2>2, <3>1, <3>3, <3>4, Zenon
    <2>3. CASE u = t /\ g = h
      BY <1>6, <2>3, MoveFacts
    <2>4. QED BY <2>1, <2>2, <2>3, Zenon

\* A step of a call keeps roles and program in step.
LEMMA ProtocolRun ==
  ASSUME TypeOK, Balanced, InStep, NEW t \in Threads, Run(t)
  PROVE  Balanced' /\ InStep'
  <1> PICK h \in Tables :
        \/ BeginRead(t, h) \/ EndRead(t, h) \/ BeginWrite(t, h) \/ EndWrite(t, h)
        \/ Read(t, h) \/ Write(t, h) \/ Clean(t, h) \/ Merge(t, h)
        \/ Reset(t, h) \/ Free(t, h)
    BY Zenon DEF Run
  <1>1. role[h][t] \in {"r_locked", "r_first", "r_entered"} => At(t, "begin_read", h)
    BY Zenon DEF InStep
  <1>2. role[h][t] \in {"x_locked", "x_last", "x_left"} => At(t, "end_read", h)
    BY Zenon DEF InStep
  <1>3. CASE BeginReadLock(t, h)
    BY <1>1, <1>2, <1>3, ProtocolInside, ZenonT(30) DEF BeginReadLock, Move, Roles
  <1>4. CASE BeginReadCount(t, h)
    BY <1>1, <1>2, <1>4, ProtocolInside, ZenonT(30) DEF BeginReadCount, Move, Roles
  <1>5. CASE BeginReadFirst(t, h)
    BY <1>1, <1>2, <1>5, ProtocolInside, ZenonT(30) DEF BeginReadFirst, Move, Roles
  <1>6. CASE BeginReadUnlock(t, h)
    BY <1>1, <1>2, <1>6, ProtocolReturn, ZenonT(30) DEF BeginReadUnlock, Move, Roles
  <1>7. CASE EndReadLock(t, h)
    BY <1>1, <1>2, <1>7, ProtocolInside, ZenonT(30) DEF EndReadLock, Move, Roles
  <1>8. CASE EndReadCount(t, h)
    BY <1>1, <1>2, <1>8, ProtocolInside, ZenonT(30) DEF EndReadCount, Move, Roles
  <1>9. CASE EndReadLast(t, h)
    BY <1>1, <1>2, <1>9, ProtocolInside, ZenonT(30) DEF EndReadLast, Move, Roles
  <1>10. CASE EndReadUnlock(t, h)
    BY <1>1, <1>2, <1>10, ProtocolReturn, ZenonT(30) DEF EndReadUnlock, Move, Roles
  <1>11. CASE BeginWrite(t, h)
    BY <1>1, <1>2, <1>11, ProtocolReturn, ZenonT(30) DEF BeginWrite, Move, Roles
  <1>12. CASE EndWrite(t, h)
    BY <1>1, <1>2, <1>12, ProtocolReturn, ZenonT(30) DEF EndWrite, Move, Roles
  <1>13. CASE \/ Read(t, h) \/ Write(t, h) \/ Clean(t, h) \/ Merge(t, h)
               \/ Reset(t, h) \/ Free(t, h)
    BY <1>13, ProtocolAccess, ZenonT(30) DEF Read, Write, Clean, Merge, Reset, Free
  <1>14. QED BY <1>3, <1>4, <1>5, <1>6, <1>7, <1>8, <1>9, <1>10, <1>11, <1>12, <1>13, Zenon
             DEF BeginRead, EndRead

\* So does the start of a call, at which no thread has a role.
LEMMA ProtocolStart ==
  ASSUME TypeOK, Balanced, InStep, NEW t \in Threads, Start(t)
  PROVE  Balanced' /\ InStep' /\ role' = role
  <1>1. ASSUME NEW program \in Seq(Steps), BalancedProgram(program), Idle(t), role' = role,
               todo' = [todo EXCEPT ![t] = program]
        PROVE  Balanced' /\ InStep'
    <2>1. Balanced'
      BY <1>1, Zenon DEF Balanced, TypeOK
    <2>2. \A g \in Tables : role[g][t] = "out"
      <3>1. TAKE g \in Tables
      <3>2. todo[t] = <<>> /\ Len(todo[t]) = 0
        BY <1>1, Zenon DEF Idle
      <3>3. \A op : ~At(t, op, g) /\ ~Owes(t, op, g)
        BY <3>2 DEF At, Owes
      <3>4. role[g][t] \in Roles
        BY Zenon DEF TypeOK
      <3>5. QED BY <3>3, <3>4, Zenon DEF InStep, Roles
    <2>3. \A u, op, g : u \in Threads \ {t} =>
            /\ At(u, op, g)' <=> At(u, op, g)
            /\ Owes(u, op, g)' <=> Owes(u, op, g)
      BY <1>1 DEF At, Owes, TypeOK
    <2>4. QED BY <1>1, <2>1, <2>2, <2>3, Zenon DEF InStep
  <1>2. ASSUME NEW program \in Seq(Steps), BalancedProgram(program), Call(t, program)
        PROVE  Balanced' /\ InStep' /\ role' = role
    BY <1>1, <1>2, ZenonT(30) DEF Call
  <1>3. ASSUME NEW h \in Tables, InitTable(h)
        PROVE  Balanced' /\ InStep' /\ role' = role
    BY <1>3 DEF InitTable, Balanced, InStep, At, Owes
  <1>4. ASSUME NEW h \in Tables, CallRead(t, h) \/ CallWrite(t, h) \/ CallClean(t, h)
        PROVE  Balanced' /\ InStep' /\ role' = role
    BY <1>2, <1>4, Programs, Zenon DEF CallRead, CallWrite, CallClean, CleanCalls
  <1>5. ASSUME NEW h \in Tables, CallDestroy(t, h)
        PROVE  Balanced' /\ InStep' /\ role' = role
    BY <1>1, <1>5, Programs, ZenonT(30) DEF CallDestroy
  <1>6. ASSUME NEW p \in CopyPairs, CallCopy(t, p)
        PROVE  Balanced' /\ InStep' /\ role' = role
    BY PairsAssumption, <1>2, <1>6, Programs, Zenon DEF CallCopy
  <1>7. ASSUME NEW p \in ComparePairs, CallCompare(t, p)
        PROVE  Balanced' /\ InStep' /\ role' = role
    BY PairsAssumption, <1>2, <1>7, Programs, Zenon DEF CallCompare
  <1>8. QED BY <1>3, <1>4, <1>5, <1>6, <1>7, Zenon DEF Start

\* The variables keep their types, for callers of every function.
THEOREM TypeCorrect == Spec => []TypeOK
  <1> DEFINE Inv == TypeOK /\ Balanced /\ InStep
  <1>1. Init => Inv
    BY UintAssumption DEF Init, TypeOK, Balanced, BalancedProgram, InStep, Roles
  <1>2. Inv /\ [Next]_vars => Inv'
    <2> SUFFICES ASSUME Inv, [Next]_vars
                 PROVE  Inv'
      BY Zenon
    <2>1. CASE UNCHANGED vars
      BY <2>1 DEF vars, TypeOK, Balanced, InStep, At, Owes
    <2>2. ASSUME NEW t \in Threads, Run(t)
          PROVE  Inv'
      BY <2>2, TypeRun, ProtocolRun, Zenon
    <2>3. ASSUME NEW t \in Threads, Start(t)
          PROVE  Inv'
      BY <2>3, TypeStart, ProtocolStart, Zenon
    <2>4. QED BY <2>1, <2>2, <2>3, Zenon DEF Next
  <1>3. QED BY <1>1, <1>2, PTL DEF Spec

-----------------------------------------------------------------------------
(* The lock.                                                               *)

LockInv == ReaderMutex /\ WriterMutex /\ ReadersCounted

\* Only one thread at a time is between taking and releasing mx_reader.
LEMMA OneHolder ==
  ASSUME ReaderMutex, NEW h \in Tables, NEW t \in Threads, NEW u \in Threads,
         role[h][t] \in {"r_locked", "r_first", "r_entered", "x_locked", "x_last", "x_left"},
         role[h][u] \in {"r_locked", "r_first", "r_entered", "x_locked", "x_last", "x_left"}
  PROVE  t = u
  BY Zenon DEF ReaderMutex

\* A step that changes neither roles, mutexes nor counters.
LEMMA LockUnchanged ==
  ASSUME LockInv, UNCHANGED <<reader, mx_reader, mx_writer, role>>
  PROVE  LockInv'
  <1>1. \A h \in Tables : Counted(h)' = Counted(h)
    BY CountedSame, Zenon
  <1>2. QED BY <1>1, Zenon DEF LockInv, ReaderMutex, WriterMutex, ReadersCounted

\* begin_read takes mx_reader.
LEMMA LockBeginReadLock ==
  ASSUME TypeOK, LockInv, NEW t \in Threads, NEW h \in Tables, BeginReadLock(t, h)
  PROVE  LockInv'
  <1>1. /\ role[h][t] = "out" /\ role'[h][t] = "r_locked"
        /\ \A g \in Tables, u \in Threads : g # h \/ u # t => role'[g][u] = role[g][u]
    <2>1. Move(t, h, "out", "r_locked") /\ "r_locked" \in Roles
      BY Zenon DEF BeginReadLock, Roles
    <2>2. QED BY <2>1, MoveFacts
  <1>2. \A g \in Tables : Counted(g)' = Counted(g)
    BY <1>1, CountedSame, Zenon
  <1>3. /\ mx_reader[h] = None /\ mx_reader'[h] = t
        /\ \A g \in Tables : g # h => mx_reader'[g] = mx_reader[g]
    BY Zenon DEF BeginReadLock, Lock, TypeOK
  <1>4. ReaderMutex'
    BY NoneAssumption, <1>1, <1>3 DEF LockInv, ReaderMutex
  <1>5. WriterMutex'
    <2>1. mx_writer' = mx_writer
      BY Zenon DEF BeginReadLock
    <2>2. QED BY <1>1, <1>2, <2>1 DEF LockInv, WriterMutex
  <1>6. ReadersCounted'
    BY <1>2, Zenon DEF LockInv, ReadersCounted, BeginReadLock
  <1>7. QED BY <1>4, <1>5, <1>6, Zenon DEF LockInv

\* begin_read counts the reader.
LEMMA LockBeginReadCount ==
  ASSUME TypeOK, LockInv, NEW t \in Threads, NEW h \in Tables, BeginReadCount(t, h)
  PROVE  LockInv'
  <1> DEFINE to == IF reader'[h] = 1 THEN "r_first" ELSE "r_entered"
  <1>1. /\ role[h][t] = "r_locked" /\ role'[h][t] = to
        /\ \A g \in Tables, u \in Threads : g # h \/ u # t => role'[g][u] = role[g][u]
    BY MoveFacts, Zenon DEF BeginReadCount, Roles
  <1>2. \A g \in Tables : g # h => Counted(g)' = Counted(g)
    BY <1>1, CountedSame, Zenon
  <1>3. t \notin Counted(h) /\ Counted(h)' = Counted(h) \cup {t}
    BY <1>1, Zenon DEF Counted
  <1>4. Cardinality(Counted(h)') = Cardinality(Counted(h)) + 1
    BY <1>3, CountedFacts, FS_AddElement, Zenon
  <1>5. /\ Counted(h)' \subseteq Threads
        /\ Cardinality(Counted(h)') <= Cardinality(Threads)
    BY ThreadsAssumption, <1>3, CountedFacts, FS_Subset, Zenon
  <1>6. reader'[h] = Cardinality(Counted(h)) + 1
    <2>1. reader'[h] = (Cardinality(Counted(h)) + 1) % UintMod
      BY Zenon DEF BeginReadCount, TypeOK, LockInv, ReadersCounted
    <2>2. Cardinality(Counted(h)) + 1 \in 0..(UintMod - 1)
      BY UintAssumption, ThreadsAssumption, <1>4, <1>5, CountedFacts
    <2>3. QED BY UintAssumption, <2>1, <2>2
  <1>7. ReaderMutex'
    BY <1>1 DEF LockInv, ReaderMutex, BeginReadCount
  <1>8. ReadersCounted'
    BY <1>2, <1>4, <1>6, Zenon DEF LockInv, ReadersCounted, BeginReadCount, TypeOK
  <1>9. reader'[h] = 1 <=> Counted(h) = {}
    BY <1>6, CountedFacts
  <1>10. WriterMutex'
    <2>1. \A u \in Threads : u # t =>
             role[h][u] \notin {"r_locked", "r_first", "r_entered", "x_locked", "x_last", "x_left"}
      BY <1>1, OneHolder, Zenon DEF LockInv
    <2>2. Counted(h) # {} => /\ mx_writer[h] # None
                             /\ \A u \in Threads : role[h][u] # "writing"
      BY <1>1, <2>1 DEF Counted, LockInv, WriterMutex
    <2>3. mx_writer' = mx_writer
      BY Zenon DEF BeginReadCount
    <2>4. ASSUME NEW g \in Tables, g # h, NEW u \in Threads
          PROVE  /\ role'[g][u] = "writing" => mx_writer'[g] = u
                 /\ role'[g][u] \in {"r_entered", "reading", "x_locked", "x_last"} =>
                      /\ mx_writer'[g] # None
                      /\ \A v \in Threads : role'[g][v] # "writing"
                 /\ role'[g][u] = "r_first" => Counted(g)' = {u}
                 /\ role'[g][u] = "x_last" => Counted(g)' = {}
      BY <1>1, <1>2, <2>3, <2>4 DEF LockInv, WriterMutex
    <2>5. ASSUME NEW u \in Threads
          PROVE  /\ role'[h][u] = "writing" => mx_writer'[h] = u
                 /\ role'[h][u] \in {"r_entered", "reading", "x_locked", "x_last"} =>
                      /\ mx_writer'[h] # None
                      /\ \A v \in Threads : role'[h][v] # "writing"
                 /\ role'[h][u] = "r_first" => Counted(h)' = {u}
                 /\ role'[h][u] = "x_last" => Counted(h)' = {}
      <3>1. CASE u = t
        BY <1>1, <1>3, <1>9, <2>2, <2>3, <3>1, Zenon
      <3>2. CASE u # t
        BY <1>1, <2>1, <2>3, <3>2 DEF LockInv, WriterMutex
      <3>3. QED BY <3>1, <3>2, Zenon
    <2>6. QED BY <2>4, <2>5, Zenon DEF WriterMutex
  <1>11. QED BY <1>7, <1>8, <1>10, Zenon DEF LockInv

\* The first reader takes mx_writer.
LEMMA LockBeginReadFirst ==
  ASSUME TypeOK, LockInv, NEW t \in Threads, NEW h \in Tables, BeginReadFirst(t, h)
  PROVE  LockInv'
  <1>1. /\ role[h][t] = "r_first" /\ role'[h][t] = "r_entered"
        /\ \A g \in Tables, u \in Threads : g # h \/ u # t => role'[g][u] = role[g][u]
    <2>1. Move(t, h, "r_first", "r_entered") /\ "r_entered" \in Roles
      BY Zenon DEF BeginReadFirst, Roles
    <2>2. QED BY <2>1, MoveFacts
  <1>2. \A g \in Tables : Counted(g)' = Counted(g)
    BY <1>1, CountedSame, Zenon
  <1>3. /\ mx_writer[h] = None /\ mx_writer'[h] = t
        /\ \A g \in Tables : g # h => mx_writer'[g] = mx_writer[g]
    BY Zenon DEF BeginReadFirst, Lock, TypeOK
  <1>4. ReaderMutex'
    BY <1>1 DEF LockInv, ReaderMutex, BeginReadFirst
  <1>5. ReadersCounted'
    BY <1>2, Zenon DEF LockInv, ReadersCounted, BeginReadFirst
  <1>6. \A u \in Threads : role[h][u] # "writing"
    BY NoneAssumption, <1>3, Zenon DEF LockInv, WriterMutex
  <1>7. WriterMutex'
    BY NoneAssumption, <1>1, <1>2, <1>3, <1>6 DEF LockInv, WriterMutex
  <1>8. QED BY <1>4, <1>5, <1>7, Zenon DEF LockInv

\* begin_read gives mx_reader back.
LEMMA LockBeginReadUnlock ==
  ASSUME TypeOK, LockInv, NEW t \in Threads, NEW h \in Tables, BeginReadUnlock(t, h)
  PROVE  LockInv'
  <1>1. /\ role[h][t] = "r_entered" /\ role'[h][t] = "reading"
        /\ \A g \in Tables, u \in Threads : g # h \/ u # t => role'[g][u] = role[g][u]
    <2>1. Move(t, h, "r_entered", "reading") /\ "reading" \in Roles
      BY Zenon DEF BeginReadUnlock, Roles
    <2>2. QED BY <2>1, MoveFacts
  <1>2. \A g \in Tables : Counted(g)' = Counted(g)
    BY <1>1, CountedSame, Zenon
  <1>3. \A g \in Tables : g # h => mx_reader'[g] = mx_reader[g]
    BY Zenon DEF BeginReadUnlock, Unlock, TypeOK
  <1>4. \A u \in Threads : u # t =>
           role[h][u] \notin {"r_locked", "r_first", "r_entered", "x_locked", "x_last", "x_left"}
    BY <1>1, OneHolder, Zenon DEF LockInv
  <1>5. ReaderMutex'
    BY <1>1, <1>3, <1>4 DEF LockInv, ReaderMutex
  <1>6. ReadersCounted'
    BY <1>2, Zenon DEF LockInv, ReadersCounted, BeginReadUnlock
  <1>7. WriterMutex'
    <2>1. mx_writer' = mx_writer
      BY Zenon DEF BeginReadUnlock
    <2>2. QED BY <1>1, <1>2, <2>1 DEF LockInv, WriterMutex
  <1>8. QED BY <1>5, <1>6, <1>7, Zenon DEF LockInv

\* end_read gives mx_reader back.
LEMMA LockEndReadUnlock ==
  ASSUME TypeOK, LockInv, NEW t \in Threads, NEW h \in Tables, EndReadUnlock(t, h)
  PROVE  LockInv'
  <1>1. /\ role[h][t] = "x_left" /\ role'[h][t] = "out"
        /\ \A g \in Tables, u \in Threads : g # h \/ u # t => role'[g][u] = role[g][u]
    <2>1. Move(t, h, "x_left", "out") /\ "out" \in Roles
      BY Zenon DEF EndReadUnlock, Roles
    <2>2. QED BY <2>1, MoveFacts
  <1>2. \A g \in Tables : Counted(g)' = Counted(g)
    BY <1>1, CountedSame, Zenon
  <1>3. \A g \in Tables : g # h => mx_reader'[g] = mx_reader[g]
    BY Zenon DEF EndReadUnlock, Unlock, TypeOK
  <1>4. \A u \in Threads : u # t =>
           role[h][u] \notin {"r_locked", "r_first", "r_entered", "x_locked", "x_last", "x_left"}
    BY <1>1, OneHolder, Zenon DEF LockInv
  <1>5. ReaderMutex'
    BY <1>1, <1>3, <1>4 DEF LockInv, ReaderMutex
  <1>6. ReadersCounted'
    BY <1>2, Zenon DEF LockInv, ReadersCounted, EndReadUnlock
  <1>7. WriterMutex'
    <2>1. mx_writer' = mx_writer
      BY Zenon DEF EndReadUnlock
    <2>2. QED BY <1>1, <1>2, <2>1 DEF LockInv, WriterMutex
  <1>8. QED BY <1>5, <1>6, <1>7, Zenon DEF LockInv

\* end_read takes mx_reader.
LEMMA LockEndReadLock ==
  ASSUME TypeOK, LockInv, NEW t \in Threads, NEW h \in Tables, EndReadLock(t, h)
  PROVE  LockInv'
  <1>1. /\ role[h][t] = "reading" /\ role'[h][t] = "x_locked"
        /\ \A g \in Tables, u \in Threads : g # h \/ u # t => role'[g][u] = role[g][u]
    <2>1. Move(t, h, "reading", "x_locked") /\ "x_locked" \in Roles
      BY Zenon DEF EndReadLock, Roles
    <2>2. QED BY <2>1, MoveFacts
  <1>2. \A g \in Tables : Counted(g)' = Counted(g)
    BY <1>1, CountedSame, Zenon
  <1>3. /\ mx_reader[h] = None /\ mx_reader'[h] = t
        /\ \A g \in Tables : g # h => mx_reader'[g] = mx_reader[g]
    BY Zenon DEF EndReadLock, Lock, TypeOK
  <1>4. ReaderMutex'
    BY NoneAssumption, <1>1, <1>3 DEF LockInv, ReaderMutex
  <1>5. WriterMutex'
    <2>1. mx_writer' = mx_writer
      BY Zenon DEF EndReadLock
    <2>2. QED BY <1>1, <1>2, <2>1 DEF LockInv, WriterMutex
  <1>6. ReadersCounted'
    BY <1>2, Zenon DEF LockInv, ReadersCounted, EndReadLock
  <1>7. QED BY <1>4, <1>5, <1>6, Zenon DEF LockInv

\* end_read takes the reader off the count.
LEMMA LockEndReadCount ==
  ASSUME TypeOK, LockInv, NEW t \in Threads, NEW h \in Tables, EndReadCount(t, h)
  PROVE  LockInv'
  <1> DEFINE to == IF reader'[h] = 0 THEN "x_last" ELSE "x_left"
  <1>1. /\ role[h][t] = "x_locked" /\ role'[h][t] = to
        /\ \A g \in Tables, u \in Threads : g # h \/ u # t => role'[g][u] = role[g][u]
    BY MoveFacts, Zenon DEF EndReadCount, Roles
  <1>2. \A g \in Tables : g # h => Counted(g)' = Counted(g)
    BY <1>1, CountedSame, Zenon
  <1>3. t \in Counted(h) /\ Counted(h)' = Counted(h) \ {t}
    BY <1>1, Zenon DEF Counted
  <1>4. /\ IsFiniteSet(Counted(h)')
        /\ Cardinality(Counted(h)') = Cardinality(Counted(h)) - 1
    BY <1>3, CountedFacts, FS_RemoveElement
  <1>5. Cardinality(Counted(h)') \in Nat /\ (Cardinality(Counted(h)') = 0 <=> Counted(h)' = {})
    BY <1>4, FS_CardinalityType, FS_EmptySet, ZenonT(30)
  <1>6. reader'[h] = Cardinality(Counted(h)')
    <2>1. reader'[h] = (Cardinality(Counted(h)) - 1) % UintMod
      BY Zenon DEF EndReadCount, TypeOK, LockInv, ReadersCounted
    <2>2. Cardinality(Counted(h)) - 1 \in 0..(UintMod - 1)
      BY UintAssumption, ThreadsAssumption, <1>4, <1>5, CountedFacts
    <2>3. QED BY UintAssumption, <1>4, <2>1, <2>2
  <1>7. ReaderMutex'
    BY <1>1, Zenon DEF LockInv, ReaderMutex, EndReadCount
  <1>8. ReadersCounted'
    BY <1>2, <1>6, Zenon DEF LockInv, ReadersCounted, EndReadCount, TypeOK
  <1>9. WriterMutex'
    <2>1. \A u \in Threads : u # t =>
             role[h][u] \notin {"r_locked", "r_first", "r_entered", "x_locked", "x_last", "x_left"}
      BY <1>1, OneHolder, Zenon DEF LockInv
    <2>2. mx_writer' = mx_writer
      BY Zenon DEF EndReadCount
    <2>3. ASSUME NEW g \in Tables, g # h, NEW u \in Threads
          PROVE  /\ role'[g][u] = "writing" => mx_writer'[g] = u
                 /\ role'[g][u] \in {"r_entered", "reading", "x_locked", "x_last"} =>
                      /\ mx_writer'[g] # None
                      /\ \A v \in Threads : role'[g][v] # "writing"
                 /\ role'[g][u] = "r_first" => Counted(g)' = {u}
                 /\ role'[g][u] = "x_last" => Counted(g)' = {}
      BY <1>1, <1>2, <2>2, <2>3 DEF LockInv, WriterMutex
    <2>4. ASSUME NEW u \in Threads
          PROVE  /\ role'[h][u] = "writing" => mx_writer'[h] = u
                 /\ role'[h][u] \in {"r_entered", "reading", "x_locked", "x_last"} =>
                      /\ mx_writer'[h] # None
                      /\ \A v \in Threads : role'[h][v] # "writing"
                 /\ role'[h][u] = "r_first" => Counted(h)' = {u}
                 /\ role'[h][u] = "x_last" => Counted(h)' = {}
      <3>1. CASE u = t
        BY <1>1, <1>5, <1>6, <2>2, <3>1 DEF LockInv, WriterMutex
      <3>2. CASE u # t
        BY <1>1, <2>1, <2>2, <3>2 DEF LockInv, WriterMutex
      <3>3. QED BY <3>1, <3>2, Zenon
    <2>5. QED BY <2>3, <2>4, Zenon DEF WriterMutex
  <1>10. QED BY <1>7, <1>8, <1>9, Zenon DEF LockInv

\* The last reader gives mx_writer back.
LEMMA LockEndReadLast ==
  ASSUME TypeOK, LockInv, NEW t \in Threads, NEW h \in Tables, EndReadLast(t, h)
  PROVE  LockInv'
  <1>1. /\ role[h][t] = "x_last" /\ role'[h][t] = "x_left"
        /\ \A g \in Tables, u \in Threads : g # h \/ u # t => role'[g][u] = role[g][u]
    <2>1. Move(t, h, "x_last", "x_left") /\ "x_left" \in Roles
      BY Zenon DEF EndReadLast, Roles
    <2>2. QED BY <2>1, MoveFacts
  <1>2. \A g \in Tables : Counted(g)' = Counted(g)
    BY <1>1, CountedSame, Zenon
  <1>3. \A g \in Tables : g # h => mx_writer'[g] = mx_writer[g]
    BY Zenon DEF EndReadLast, Unlock, TypeOK
  <1>4. ReaderMutex'
    BY <1>1, Zenon DEF LockInv, ReaderMutex, EndReadLast
  <1>5. ReadersCounted'
    BY <1>2, Zenon DEF LockInv, ReadersCounted, EndReadLast
  <1>6. \A u \in Threads : u # t =>
           role[h][u] \notin {"r_locked", "r_first", "r_entered", "x_locked", "x_last", "x_left"}
    BY <1>1, OneHolder, Zenon DEF LockInv
  <1>7. \A u \in Threads : role[h][u] \notin {"reading", "writing"}
    BY <1>1, Zenon DEF LockInv, WriterMutex, Counted
  <1>8. WriterMutex'
    BY <1>1, <1>2, <1>3, <1>6, <1>7 DEF LockInv, WriterMutex
  <1>9. QED BY <1>4, <1>5, <1>8, Zenon DEF LockInv

\* begin_write takes mx_writer.
LEMMA LockBeginWrite ==
  ASSUME TypeOK, LockInv, NEW t \in Threads, NEW h \in Tables, BeginWrite(t, h)
  PROVE  LockInv'
  <1>1. /\ role[h][t] = "out" /\ role'[h][t] = "writing"
        /\ \A g \in Tables, u \in Threads : g # h \/ u # t => role'[g][u] = role[g][u]
    <2>1. Move(t, h, "out", "writing") /\ "writing" \in Roles
      BY Zenon DEF BeginWrite, Roles
    <2>2. QED BY <2>1, MoveFacts
  <1>2. \A g \in Tables : Counted(g)' = Counted(g)
    BY <1>1, CountedSame, Zenon
  <1>3. /\ mx_writer[h] = None /\ mx_writer'[h] = t
        /\ \A g \in Tables : g # h => mx_writer'[g] = mx_writer[g]
    BY Zenon DEF BeginWrite, Lock, TypeOK
  <1>4. ReaderMutex'
    BY <1>1, Zenon DEF LockInv, ReaderMutex, BeginWrite
  <1>5. ReadersCounted'
    BY <1>2, Zenon DEF LockInv, ReadersCounted, BeginWrite
  <1>6. \A u \in Threads : role[h][u] \notin {"writing", "r_entered", "reading", "x_locked", "x_last"}
    BY NoneAssumption, <1>3, Zenon DEF LockInv, WriterMutex
  <1>7. WriterMutex'
    BY <1>1, <1>2, <1>3, <1>6 DEF LockInv, WriterMutex
  <1>8. QED BY <1>4, <1>5, <1>7, Zenon DEF LockInv

\* end_write gives mx_writer back.
LEMMA LockEndWrite ==
  ASSUME TypeOK, LockInv, NEW t \in Threads, NEW h \in Tables, EndWrite(t, h)
  PROVE  LockInv'
  <1>1. /\ role[h][t] = "writing" /\ role'[h][t] = "out"
        /\ \A g \in Tables, u \in Threads : g # h \/ u # t => role'[g][u] = role[g][u]
    <2>1. Move(t, h, "writing", "out") /\ "out" \in Roles
      BY Zenon DEF EndWrite, Roles
    <2>2. QED BY <2>1, MoveFacts
  <1>2. \A g \in Tables : Counted(g)' = Counted(g)
    BY <1>1, CountedSame, Zenon
  <1>3. \A g \in Tables : g # h => mx_writer'[g] = mx_writer[g]
    BY Zenon DEF EndWrite, Unlock, TypeOK
  <1>4. ReaderMutex'
    BY <1>1, Zenon DEF LockInv, ReaderMutex, EndWrite
  <1>5. ReadersCounted'
    BY <1>2, Zenon DEF LockInv, ReadersCounted, EndWrite
  <1>6. \A u \in Threads : u # t =>
           role[h][u] \notin {"writing", "r_entered", "reading", "x_locked", "x_last"}
    BY <1>1, Zenon DEF LockInv, WriterMutex
  <1>7. WriterMutex'
    BY <1>1, <1>2, <1>3, <1>6 DEF LockInv, WriterMutex
  <1>8. QED BY <1>4, <1>5, <1>7, Zenon DEF LockInv

\* A call that starts finds no lock of its thread.
LEMMA LockStart ==
  ASSUME TypeOK, InStep, LockInv, NEW t \in Threads, Start(t), role' = role
  PROVE  LockInv'
  <1>1. ASSUME UNCHANGED <<reader, mx_reader, mx_writer>>
        PROVE  LockInv'
    BY <1>1, LockUnchanged, Zenon
  <1>2. ASSUME NEW h \in Tables, InitTable(h)
        PROVE  LockInv'
    <2>1. \A u \in Threads : todo[u] = <<>> /\ Len(todo[u]) = 0
      BY <1>2 DEF InitTable, Idle
    <2>2. \A u \in Threads, g \in Tables : role[g][u] = "out"
      <3>1. TAKE u \in Threads, g \in Tables
      <3>2. \A op : ~At(u, op, g) /\ ~Owes(u, op, g)
        BY <2>1 DEF At, Owes
      <3>3. role[g][u] \in Roles
        BY Zenon DEF TypeOK
      <3>4. QED BY <3>2, <3>3, Zenon DEF InStep, Roles
    <2>3. \A g \in Tables : Counted(g) = {} /\ Counted(g)' = {}
      BY <2>2, Zenon DEF Counted
    <2>4. \A g \in Tables : reader[g] = 0 /\ reader'[g] = 0
      BY <1>2, <2>3, FS_EmptySet, ZenonT(30) DEF LockInv, ReadersCounted, InitTable, TypeOK
    <2>5. ReaderMutex' /\ WriterMutex'
      BY <2>2, Zenon DEF ReaderMutex, WriterMutex
    <2>6. QED BY <2>3, <2>4, <2>5, FS_EmptySet, Zenon DEF LockInv, ReadersCounted
  <1>3. QED
    BY <1>1, <1>2, ZenonT(30)
    DEF Start, Call, CallRead, CallWrite, CallClean, CallDestroy, CallCopy, CallCompare

\* Without zend_ts_hash_clean every step of a thread keeps the invariant.
LEMMA InvRun ==
  ASSUME TsHashInv, ~CleanCalls, NEW t \in Threads, Run(t)
  PROVE  TsHashInv'
  <1>1. TypeOK' /\ Balanced' /\ InStep'
    BY TypeRun, ProtocolRun, Zenon DEF TsHashInv
  <1>2. LockInv
    BY Zenon DEF TsHashInv, LockInv
  <1> SUFFICES LockInv'
    BY <1>1, Zenon DEF TsHashInv, LockInv
  <1>3. PICK h \in Tables :
        \/ BeginRead(t, h) \/ EndRead(t, h) \/ BeginWrite(t, h) \/ EndWrite(t, h)
        \/ Read(t, h) \/ Write(t, h) \/ Clean(t, h) \/ Merge(t, h)
        \/ Reset(t, h) \/ Free(t, h)
    BY Zenon DEF Run
  <1>4. CASE BeginRead(t, h)
    BY <1>2, <1>4, LockBeginReadLock, LockBeginReadCount, LockBeginReadFirst, LockBeginReadUnlock, Zenon
       DEF BeginRead, TsHashInv
  <1>5. CASE EndRead(t, h)
    BY <1>2, <1>5, LockEndReadLock, LockEndReadCount, LockEndReadLast, LockEndReadUnlock, Zenon
       DEF EndRead, TsHashInv
  <1>6. CASE BeginWrite(t, h) \/ EndWrite(t, h)
    BY <1>2, <1>6, LockBeginWrite, LockEndWrite, Zenon DEF TsHashInv
  <1>7. CASE Read(t, h) \/ Write(t, h) \/ Clean(t, h) \/ Merge(t, h) \/ Free(t, h)
    BY <1>2, <1>7, LockUnchanged, Zenon DEF Read, Write, Clean, Merge, Free
  <1>8. ~Reset(t, h)
    <2>1. SUFFICES ASSUME At(t, "reset", h)
                   PROVE  FALSE
      BY Zenon DEF Reset
    <2>2. todo[t] \in Seq(Steps) /\ todo[t] # <<>>
      BY <2>1, Zenon DEF At, TsHashInv, TypeOK
    <2>3. Head(todo[t]) \in Steps
      BY <2>2, TailFacts, Zenon
    <2>4. QED BY <2>1, <2>3, Zenon DEF At, Steps, Ops
  <1>9. QED BY <1>3, <1>4, <1>5, <1>6, <1>7, <1>8, Zenon

\* The lock of a TsHashTable, whatever the numbers of threads and tables:
\* the inductive invariant holds as long as nobody calls zend_ts_hash_clean.
THEOREM LockInvariant ==
  ASSUME ~CleanCalls
  PROVE  Spec => []TsHashInv
  <1>1. Init => TsHashInv
    <2> SUFFICES ASSUME Init
                 PROVE  TsHashInv
      BY Zenon
    <2>1. TypeOK /\ Balanced /\ InStep
      BY UintAssumption DEF Init, TypeOK, Balanced, BalancedProgram, InStep, Roles
    <2>2. ReaderMutex /\ WriterMutex
      BY Zenon DEF Init, ReaderMutex, WriterMutex
    <2>3. \A h \in Tables : Counted(h) = {} /\ reader[h] = 0
      BY Zenon DEF Init, Counted
    <2>4. QED BY <2>1, <2>2, <2>3, FS_EmptySet, Zenon DEF TsHashInv, ReadersCounted
  <1>2. TsHashInv /\ [Next]_vars => TsHashInv'
    <2> SUFFICES ASSUME TsHashInv, [Next]_vars
                 PROVE  TsHashInv'
      BY Zenon
    <2>1. CASE UNCHANGED vars
      <3>1. TypeOK'
        BY <2>1, Zenon DEF vars, TsHashInv, TypeOK
      <3>2. Balanced' /\ InStep'
        BY <2>1 DEF vars, TsHashInv, Balanced, InStep, At, Owes
      <3>3. LockInv'
        BY <2>1, LockUnchanged, Zenon DEF vars, TsHashInv, LockInv
      <3>4. QED BY <3>1, <3>2, <3>3, Zenon DEF TsHashInv, LockInv
    <2>2. ASSUME NEW t \in Threads, Run(t)
          PROVE  TsHashInv'
      BY <2>2, InvRun, Zenon
    <2>3. ASSUME NEW t \in Threads, Start(t)
          PROVE  TsHashInv'
      BY <2>3, TypeStart, ProtocolStart, LockStart, Zenon DEF TsHashInv, LockInv
    <2>4. QED BY <2>1, <2>2, <2>3, Zenon DEF Next
  <1>3. QED BY <1>1, <1>2, PTL DEF Spec

\* Writers are alone in a table between begin_write and end_write.
THEOREM MutualExclusion ==
  ASSUME ~CleanCalls
  PROVE  Spec => []Exclusion
  <1>1. TsHashInv => Exclusion
    BY Zenon DEF TsHashInv, WriterMutex, Exclusion
  <1>2. QED BY <1>1, LockInvariant, PTL

\* The counter of begin_read and end_read is exact: it neither wraps nor
\* loses a reader.
THEOREM CounterExact ==
  ASSUME ~CleanCalls
  PROVE  Spec => []ReaderCount
  <1>1. TsHashInv => ReaderCount
    BY Zenon DEF TsHashInv, ReadersCounted, ReaderCount
  <1>2. QED BY <1>1, LockInvariant, PTL
=============================================================================
