----------------------- MODULE TsHashRefinementProofs -----------------------
(***************************************************************************)
(* The lock of Zend/zend_ts_hash.c implements the one of RWTable, and      *)
(* destroy frees mutexes that nobody holds, for every set of threads and   *)
(* tables, as long as zend_ts_hash_clean is not called.                    *)
(***************************************************************************)
EXTENDS TsHashRefinement, TsHashProofs

-----------------------------------------------------------------------------
(* The invariants, on top of TsHashInv.                                    *)

Modifying == {"write", "clean", "merge"}

\* Every access that changes a table directly follows a begin_write of it.
GuardedProgram(s) ==
    \A i \in 1..Len(s) : s[i].op \in Modifying =>
        i > 1 /\ s[i-1].op = "begin_write" /\ s[i-1].table = s[i].table

Guarded ==
    \A t \in Threads : \A i \in 1..Len(todo[t]) : todo[t][i].op \in Modifying =>
        \/ i = 1 /\ role[todo[t][1].table][t] = "writing"
        \/ i > 1 /\ todo[t][i-1].op = "begin_write" /\ todo[t][i-1].table = todo[t][i].table

\* Freeing the mutexes of a table ends a program, and from the start of that
\* program no other thread has a call to make on the table.
DestroyedAlone ==
    \A t \in Threads : \A i \in 1..Len(todo[t]) : todo[t][i].op = "free" =>
        /\ i = Len(todo[t])
        /\ ~alive[todo[t][i].table]
        /\ \A u \in Threads \ {t} : \A j \in 1..Len(todo[u]) :
              todo[u][j].table # todo[t][i].table

\* A locked mutex has a thread inside that will unlock it.
MutexOwned ==
    \A h \in Tables :
        /\ mx_reader[h] # None =>
             \E u \in Threads : role[h][u] \in {"r_locked", "r_first", "r_entered",
                                                "x_locked", "x_last", "x_left"}
        /\ mx_writer[h] # None =>
             \E u \in Threads : role[h][u] \in {"writing", "r_entered", "reading",
                                                "x_locked", "x_last"}

ExtraInv == Guarded /\ DestroyedAlone /\ MutexOwned

-----------------------------------------------------------------------------
(* The programs.                                                           *)

\* In the API functions every change of a table is guarded, only destroy frees
\* mutexes, at its end, and no call names a table the function was not given.
LEMMA ProgramShapes ==
  ASSUME NEW h \in Tables, NEW g \in Tables
  PROVE  /\ \A p \in {ReadProgram(h), WriteProgram(h), CopyProgram(h, g), CompareProgram(h, g)} :
              /\ GuardedProgram(p)
              /\ \A i \in 1..Len(p) : p[i].op # "free" /\ p[i].table \in {h, g}
         /\ GuardedProgram(DestroyProgram(h))
         /\ \A i \in 1..Len(DestroyProgram(h)) :
              /\ DestroyProgram(h)[i].op = "free" => i = Len(DestroyProgram(h))
              /\ DestroyProgram(h)[i].table = h
  <1> USE DEF Step, GuardedProgram, Modifying
  <1>1. GuardedProgram(ReadProgram(h)) /\ \A i \in 1..Len(ReadProgram(h)) :
           ReadProgram(h)[i].op # "free" /\ ReadProgram(h)[i].table \in {h, g}
    BY DEF ReadProgram
  <1>2. GuardedProgram(WriteProgram(h)) /\ \A i \in 1..Len(WriteProgram(h)) :
           WriteProgram(h)[i].op # "free" /\ WriteProgram(h)[i].table \in {h, g}
    BY DEF WriteProgram
  <1>3. GuardedProgram(CopyProgram(h, g)) /\ \A i \in 1..Len(CopyProgram(h, g)) :
           CopyProgram(h, g)[i].op # "free" /\ CopyProgram(h, g)[i].table \in {h, g}
    BY DEF CopyProgram
  <1>4. GuardedProgram(CompareProgram(h, g)) /\ \A i \in 1..Len(CompareProgram(h, g)) :
           CompareProgram(h, g)[i].op # "free" /\ CompareProgram(h, g)[i].table \in {h, g}
    BY DEF CompareProgram
  <1>5. /\ GuardedProgram(DestroyProgram(h))
        /\ \A i \in 1..Len(DestroyProgram(h)) :
              /\ DestroyProgram(h)[i].op = "free" => i = Len(DestroyProgram(h))
              /\ DestroyProgram(h)[i].table = h
    BY DEF DestroyProgram
  <1> HIDE DEF GuardedProgram
  <1>6. QED BY <1>1, <1>2, <1>3, <1>4, <1>5, Zenon

-----------------------------------------------------------------------------
(* Guarded and DestroyedAlone are about the programs.                      *)

\* A call returns inside an API function.
LEMMA ShapeReturn ==
  ASSUME TypeOK, Guarded, DestroyedAlone, NEW t \in Threads, todo[t] # <<>>, Return(t),
         alive' = alive,
         \A u \in Threads \ {t}, g \in Tables : role'[g][u] = role[g][u],
         \A g \in Tables : At(t, "begin_write", g) => role'[g][t] = "writing"
  PROVE  Guarded' /\ DestroyedAlone'
  <1> DEFINE s == todo[t]
  <1>1. s \in Seq(Steps) /\ s # <<>>
    BY Zenon DEF TypeOK
  <1>2. todo'[t] = Tail(s) /\ \A u \in Threads \ {t} : todo'[u] = todo[u]
    BY Zenon DEF TypeOK, Return
  <1>3. /\ Head(s) = s[1] /\ Len(s) \in Nat /\ Len(s) > 0 /\ Len(Tail(s)) = Len(s) - 1
        /\ \A i \in 1..(Len(s) - 1) : Tail(s)[i] = s[i+1]
        /\ \A i \in 1..Len(s) : s[i].table \in Tables
    <2>1. \A i \in 1..Len(s) : s[i] \in Steps
      BY <1>1
    <2>2. QED BY <1>1, <2>1, TailFacts, Zenon DEF Steps
  <1>4. \A u \in Threads : \A i \in 1..Len(todo[u]) : todo[u][i].table \in Tables
    <2>1. \A u \in Threads : \A i \in 1..Len(todo[u]) : todo[u][i] \in Steps
      BY DEF TypeOK
    <2>2. QED BY <2>1, Zenon DEF Steps
  <1>5. Guarded'
    <2> SUFFICES ASSUME NEW u \in Threads, NEW i \in 1..Len(todo'[u]), todo'[u][i].op \in Modifying
                 PROVE  \/ i = 1 /\ role'[todo'[u][1].table][u] = "writing"
                        \/ i > 1 /\ todo'[u][i-1].op = "begin_write"
                                 /\ todo'[u][i-1].table = todo'[u][i].table
      BY Zenon DEF Guarded
    <2>1. CASE u # t
      BY <1>2, <1>4, <2>1 DEF Guarded
    <2>2. CASE u = t
      <3>0. i \in 1..(Len(s) - 1)
        BY <1>2, <1>3, <2>2, ZenonT(30)
      <3>1. i + 1 \in 1..Len(s) /\ i \in 1..Len(s) /\ i + 1 > 1 /\ (i + 1) - 1 = i
            /\ i + 1 # 1 /\ todo'[u][i] = s[i+1]
        <4>1. i + 1 \in 1..Len(s) /\ i \in 1..Len(s) /\ i + 1 > 1 /\ (i + 1) - 1 = i /\ i + 1 # 1
          BY <1>3, <3>0
        <4>2. Tail(s)[i] = s[i+1]
          BY <1>3, <3>0, Zenon
        <4>3. QED BY <1>2, <2>2, <4>1, <4>2, ZenonT(30)
      <3>2. s[i].op = "begin_write" /\ s[i].table = s[i+1].table
        BY <3>1, <2>2 DEF Guarded
      <3>3. CASE i = 1
        <4>1. At(t, "begin_write", s[1].table)
          BY <1>1, <1>3, <3>2, <3>3, Zenon DEF At
        <4>2. QED BY <1>3, <3>1, <3>2, <3>3, <4>1, <2>2
      <3>4. CASE i > 1
        <4>1. todo'[u][i-1] = s[i]
          <5>1. i - 1 \in 1..(Len(s) - 1) /\ (i - 1) + 1 = i
            BY <1>3, <3>1, <3>4
          <5>2. QED BY <1>2, <1>3, <2>2, <5>1, ZenonT(30)
        <4>2. QED BY <3>1, <3>2, <3>4, <4>1, Zenon
      <3>5. QED BY <3>3, <3>4
    <2>3. QED BY <2>1, <2>2, Zenon
  <1>6. DestroyedAlone'
    <2> SUFFICES ASSUME NEW v \in Threads, NEW i \in 1..Len(todo'[v]), todo'[v][i].op = "free"
                 PROVE  /\ i = Len(todo'[v])
                        /\ ~alive[todo'[v][i].table]
                        /\ \A u \in Threads \ {v} : \A j \in 1..Len(todo'[u]) :
                             todo'[u][j].table # todo'[v][i].table
      BY Zenon DEF DestroyedAlone
    <2>1. \A u \in Threads : \A j \in 1..Len(todo'[u]) :
             \E k \in 1..Len(todo[u]) : todo'[u][j] = todo[u][k]
                                        /\ (k = Len(todo[u]) => j = Len(todo'[u]))
      <3> SUFFICES ASSUME NEW u \in Threads, NEW j \in 1..Len(todo'[u])
                   PROVE  \E k \in 1..Len(todo[u]) : todo'[u][j] = todo[u][k]
                                        /\ (k = Len(todo[u]) => j = Len(todo'[u]))
        BY Zenon
      <3>1. CASE u # t
        BY <1>2, <3>1, Zenon
      <3>2. CASE u = t
        <4>1. j \in 1..(Len(s) - 1)
          BY <1>2, <1>3, <3>2, ZenonT(30)
        <4>2. j + 1 \in 1..Len(s) /\ (j + 1 = Len(s) => j = Len(s) - 1)
          BY <1>3, <4>1
        <4>3. Tail(s)[j] = s[j+1]
          BY <1>3, <4>1, Zenon
        <4>4. QED BY <1>2, <1>3, <3>2, <4>2, <4>3, ZenonT(30)
      <3>3. QED BY <3>1, <3>2, Zenon
    <2>2. PICK k \in 1..Len(todo[v]) : todo'[v][i] = todo[v][k]
                                       /\ (k = Len(todo[v]) => i = Len(todo'[v]))
      BY <2>1, Zenon
    <2>3. /\ k = Len(todo[v]) /\ ~alive[todo[v][k].table]
          /\ \A u \in Threads \ {v} : \A j \in 1..Len(todo[u]) : todo[u][j].table # todo[v][k].table
      BY <2>2 DEF DestroyedAlone
    <2>4. i = Len(todo'[v])
      BY <2>2, <2>3, Zenon
    <2>5. ASSUME NEW u \in Threads \ {v}, NEW j \in 1..Len(todo'[u])
          PROVE  todo'[u][j].table # todo'[v][i].table
      <3>1. PICK m \in 1..Len(todo[u]) : todo'[u][j] = todo[u][m]
        BY <2>1, Zenon
      <3>2. QED BY <2>2, <2>3, <3>1
    <2>6. ~alive[todo'[v][i].table]
      BY <2>2, <2>3, Zenon
    <2>7. QED BY <2>4, <2>5, <2>6, Zenon
  <1>7. QED BY <1>5, <1>6, Zenon

\* A step inside a call.
LEMMA ShapeStay ==
  ASSUME TypeOK, Guarded, DestroyedAlone, UNCHANGED <<todo, alive>>,
         \A u \in Threads, g \in Tables : role[g][u] = "writing" => role'[g][u] = "writing"
  PROVE  Guarded' /\ DestroyedAlone'
  <1>1. \A u \in Threads : \A i \in 1..Len(todo[u]) : todo[u][i].table \in Tables
    <2>1. \A u \in Threads : \A i \in 1..Len(todo[u]) : todo[u][i] \in Steps
      BY DEF TypeOK
    <2>2. QED BY <2>1, Zenon DEF Steps
  <1>2. Guarded'
    <2> SUFFICES ASSUME NEW u \in Threads, NEW i \in 1..Len(todo[u]), todo[u][i].op \in Modifying
                 PROVE  \/ i = 1 /\ role'[todo[u][1].table][u] = "writing"
                        \/ i > 1 /\ todo[u][i-1].op = "begin_write"
                                 /\ todo[u][i-1].table = todo[u][i].table
      BY DEF Guarded
    <2>1. QED BY <1>1, Zenon DEF Guarded
  <1>3. DestroyedAlone'
    BY DEF DestroyedAlone
  <1>4. QED BY <1>2, <1>3, Zenon

\* An API function is called.
LEMMA ShapeStart ==
  ASSUME TypeOK, Guarded, DestroyedAlone, ~CleanCalls, NEW t \in Threads, Start(t), role' = role
  PROVE  Guarded' /\ DestroyedAlone'
  <1>1. ASSUME NEW program \in Seq(Steps), GuardedProgram(program), Idle(t),
               todo' = [todo EXCEPT ![t] = program]
        PROVE  Guarded'
    <2> SUFFICES ASSUME NEW u \in Threads, NEW i \in 1..Len(todo'[u]), todo'[u][i].op \in Modifying
                 PROVE  \/ i = 1 /\ role[todo'[u][1].table][u] = "writing"
                        \/ i > 1 /\ todo'[u][i-1].op = "begin_write"
                                 /\ todo'[u][i-1].table = todo'[u][i].table
      BY Zenon DEF Guarded
    <2>1. CASE u = t
      BY <1>1, <2>1, Zenon DEF GuardedProgram, TypeOK
    <2>2. CASE u # t
      <3>1. todo'[u] = todo[u]
        BY <1>1, <2>2, Zenon DEF TypeOK
      <3>2. QED BY <3>1 DEF Guarded
    <2>3. QED BY <2>1, <2>2, Zenon
  <1>2. ASSUME NEW program \in Seq(Steps), Call(t, program),
               \A i \in 1..Len(program) : program[i].op # "free" /\ alive[program[i].table]
        PROVE  DestroyedAlone'
    <2> SUFFICES ASSUME NEW v \in Threads, NEW i \in 1..Len(todo'[v]), todo'[v][i].op = "free"
                 PROVE  /\ i = Len(todo'[v])
                        /\ ~alive'[todo'[v][i].table]
                        /\ \A u \in Threads \ {v} : \A j \in 1..Len(todo'[u]) :
                             todo'[u][j].table # todo'[v][i].table
      BY Zenon DEF DestroyedAlone
    <2>1. todo'[t] = program /\ alive' = alive /\ \A u \in Threads \ {t} : todo'[u] = todo[u]
      BY <1>2, Zenon DEF Call, TypeOK
    <2>2. v # t
      BY <1>2, <2>1, Zenon
    <2>3. /\ i = Len(todo[v]) /\ ~alive[todo[v][i].table]
          /\ \A u \in Threads \ {v} : \A j \in 1..Len(todo[u]) : todo[u][j].table # todo[v][i].table
      BY <2>1, <2>2, Zenon DEF DestroyedAlone
    <2>4. \A j \in 1..Len(program) : program[j].table # todo[v][i].table
      BY <1>2, <2>3, Zenon
    <2>5. QED BY <2>1, <2>2, <2>3, <2>4
  <1>3. ASSUME NEW h \in Tables, InitTable(h)
        PROVE  Guarded' /\ DestroyedAlone'
    <2>1. \A u \in Threads : Len(todo'[u]) = 0
      BY <1>3 DEF InitTable, Idle
    <2>2. QED BY <2>1 DEF Guarded, DestroyedAlone
  <1>4. ASSUME NEW h \in Tables, CallRead(t, h)
        PROVE  Guarded' /\ DestroyedAlone'
    <2>1. ReadProgram(h) \in Seq(Steps) /\ GuardedProgram(ReadProgram(h))
      BY Programs, ProgramShapes, Zenon
    <2>2. \A i \in 1..Len(ReadProgram(h)) :
             ReadProgram(h)[i].op # "free" /\ ReadProgram(h)[i].table \in {h}
      BY ProgramShapes
    <2>3. alive[h] /\ Call(t, ReadProgram(h))
      BY <1>4, Zenon DEF CallRead
    <2>4. Guarded'
      BY <1>1, <2>1, <2>3, ZenonT(30) DEF Call
    <2>5. DestroyedAlone'
      BY <1>2, <2>1, <2>2, <2>3, Zenon
    <2>6. QED BY <2>4, <2>5, Zenon
  <1>5. ASSUME NEW h \in Tables, CallWrite(t, h)
        PROVE  Guarded' /\ DestroyedAlone'
    <2>1. WriteProgram(h) \in Seq(Steps) /\ GuardedProgram(WriteProgram(h))
      BY Programs, ProgramShapes, Zenon
    <2>2. \A i \in 1..Len(WriteProgram(h)) :
             WriteProgram(h)[i].op # "free" /\ WriteProgram(h)[i].table \in {h}
      BY ProgramShapes
    <2>3. alive[h] /\ Call(t, WriteProgram(h))
      BY <1>5, Zenon DEF CallWrite
    <2>4. Guarded'
      BY <1>1, <2>1, <2>3, ZenonT(30) DEF Call
    <2>5. DestroyedAlone'
      BY <1>2, <2>1, <2>2, <2>3, Zenon
    <2>6. QED BY <2>4, <2>5, Zenon
  <1>6. ASSUME NEW h \in Tables, CallDestroy(t, h)
        PROVE  Guarded' /\ DestroyedAlone'
    <2>1. Guarded'
      BY <1>1, <1>6, Programs, ProgramShapes, ZenonT(30) DEF CallDestroy, Idle
    <2>2. todo'[t] = DestroyProgram(h) /\ alive'[h] = FALSE
          /\ \A u \in Threads \ {t} : todo'[u] = <<>>
      BY <1>6, Zenon DEF CallDestroy, Idle, TypeOK
    <2>3. \A u \in Threads \ {t} : Len(todo'[u]) = 0
      BY <2>2
    <2>4. \A i \in 1..Len(DestroyProgram(h)) :
              /\ DestroyProgram(h)[i].op = "free" => i = Len(DestroyProgram(h))
              /\ DestroyProgram(h)[i].table = h
      BY ProgramShapes, Zenon
    <2>5. DestroyedAlone'
      BY <2>2, <2>3, <2>4 DEF DestroyedAlone
    <2>6. QED BY <2>1, <2>5, Zenon
  <1>7. ASSUME NEW p \in CopyPairs, CallCopy(t, p)
        PROVE  Guarded' /\ DestroyedAlone'
    <2>1. p[1] \in Tables /\ p[2] \in Tables
      BY PairsAssumption, Zenon
    <2>2. CopyProgram(p[1], p[2]) \in Seq(Steps) /\ GuardedProgram(CopyProgram(p[1], p[2]))
      BY <2>1, Programs, ProgramShapes, Zenon
    <2>3. \A i \in 1..Len(CopyProgram(p[1], p[2])) :
             CopyProgram(p[1], p[2])[i].op # "free" /\ CopyProgram(p[1], p[2])[i].table \in {p[1], p[2]}
      BY <2>1, ProgramShapes
    <2>4. alive[p[1]] /\ alive[p[2]] /\ Call(t, CopyProgram(p[1], p[2]))
      BY <1>7, Zenon DEF CallCopy
    <2>5. Guarded'
      BY <1>1, <2>2, <2>4, ZenonT(30) DEF Call
    <2>6. DestroyedAlone'
      BY <1>2, <2>2, <2>3, <2>4, Zenon
    <2>7. QED BY <2>5, <2>6, Zenon
  <1>8. ASSUME NEW p \in ComparePairs, CallCompare(t, p)
        PROVE  Guarded' /\ DestroyedAlone'
    <2>1. p[1] \in Tables /\ p[2] \in Tables
      BY PairsAssumption, Zenon
    <2>2. CompareProgram(p[1], p[2]) \in Seq(Steps) /\ GuardedProgram(CompareProgram(p[1], p[2]))
      BY <2>1, Programs, ProgramShapes, Zenon
    <2>3. \A i \in 1..Len(CompareProgram(p[1], p[2])) :
             CompareProgram(p[1], p[2])[i].op # "free" /\ CompareProgram(p[1], p[2])[i].table \in {p[1], p[2]}
      BY <2>1, ProgramShapes
    <2>4. alive[p[1]] /\ alive[p[2]] /\ Call(t, CompareProgram(p[1], p[2]))
      BY <1>8, Zenon DEF CallCompare
    <2>5. Guarded'
      BY <1>1, <2>2, <2>4, ZenonT(30) DEF Call
    <2>6. DestroyedAlone'
      BY <1>2, <2>2, <2>3, <2>4, Zenon
    <2>7. QED BY <2>5, <2>6, Zenon
  <1>9. \A h \in Tables : ~CallClean(t, h)
    BY Zenon DEF CallClean, CleanCalls
  <1>10. QED BY <1>3, <1>4, <1>5, <1>6, <1>7, <1>8, <1>9, Zenon DEF Start

-----------------------------------------------------------------------------
(* The extra invariant is inductive.                                       *)

\* What the first call of a program may be, given where its thread stands.
LEMMA NextCall ==
  ASSUME TsHashInv, NEW t \in Threads, NEW h \in Tables
  PROVE  /\ role[h][t] \in {"r_locked", "r_first", "r_entered"} => At(t, "begin_read", h)
         /\ role[h][t] \in {"x_locked", "x_last", "x_left"} => At(t, "end_read", h)
         /\ \A op1, op2, g1, g2 : At(t, op1, g1) /\ At(t, op2, g2) => op1 = op2 /\ g1 = g2
  BY Zenon DEF TsHashInv, InStep, At

\* Whoever takes a mutex is inside until it, or the last of those it let in,
\* gives it back.
LEMMA OwnedRun ==
  ASSUME TsHashInv, MutexOwned, ~CleanCalls, NEW t \in Threads, NEW h \in Tables,
         \/ BeginRead(t, h) \/ EndRead(t, h) \/ BeginWrite(t, h) \/ EndWrite(t, h)
  PROVE  MutexOwned'
  <1> DEFINE R == {"r_locked", "r_first", "r_entered", "x_locked", "x_last", "x_left"}
             W == {"writing", "r_entered", "reading", "x_locked", "x_last"}
  <1>0. /\ mx_reader \in [Tables -> Threads \cup {None}]
        /\ mx_writer \in [Tables -> Threads \cup {None}]
        /\ role \in [Tables -> [Threads -> Roles]]
        /\ reader \in [Tables -> 0..(UintMod - 1)]
    BY Zenon DEF TsHashInv, TypeOK
  <1>1. \A g \in Tables \ {h} : /\ mx_reader'[g] = mx_reader[g] /\ mx_writer'[g] = mx_writer[g]
                                /\ \A u \in Threads : role'[g][u] = role[g][u]
    BY <1>0, Zenon
    DEF BeginRead, EndRead, BeginReadLock, BeginReadCount, BeginReadFirst, BeginReadUnlock,
           EndReadLock, EndReadCount, EndReadLast, EndReadUnlock, BeginWrite, EndWrite,
           Move, Lock, Unlock
  <1>2. \A u \in Threads \ {t} : role'[h][u] = role[h][u]
    BY <1>0 DEF BeginRead, EndRead, BeginReadLock, BeginReadCount, BeginReadFirst, BeginReadUnlock,
           EndReadLock, EndReadCount, EndReadLast, EndReadUnlock, BeginWrite, EndWrite,
           Move
  <1>3. SUFFICES /\ mx_reader'[h] # None => \E u \in Threads : role'[h][u] \in R
                 /\ mx_writer'[h] # None => \E u \in Threads : role'[h][u] \in W
    BY <1>1 DEF MutexOwned
  <1>4. /\ mx_reader[h] # None => \E u \in Threads : role[h][u] \in R
        /\ mx_writer[h] # None => \E u \in Threads : role[h][u] \in W
    BY Zenon DEF MutexOwned
  <1>5. CASE BeginReadLock(t, h)
    <2>1. role[h][t] = "out" /\ role'[h][t] = "r_locked" /\ mx_writer' = mx_writer
      BY <1>0, <1>5, Zenon DEF BeginReadLock, Move
    <2>2. QED BY <1>2, <1>4, <2>1, Zenon
  <1>6. CASE BeginReadCount(t, h)
    <2>1. role[h][t] = "r_locked" /\ role'[h][t] \in {"r_first", "r_entered"} /\ mx_writer' = mx_writer
      BY <1>0, <1>6, Zenon DEF BeginReadCount, Move
    <2>2. QED BY <1>2, <1>4, <2>1, Zenon
  <1>7. CASE BeginReadFirst(t, h)
    <2>1. role'[h][t] = "r_entered"
      BY <1>0, <1>7, Zenon DEF BeginReadFirst, Move
    <2>2. QED BY <2>1, Zenon
  <1>8. CASE BeginReadUnlock(t, h)
    <2>1. role'[h][t] = "reading" /\ mx_reader'[h] = None
      BY <1>0, <1>8, Zenon DEF BeginReadUnlock, Move, Unlock
    <2>2. QED BY <2>1, Zenon
  <1>9. CASE EndReadLock(t, h)
    <2>1. role'[h][t] = "x_locked"
      BY <1>0, <1>9, Zenon DEF EndReadLock, Move
    <2>2. QED BY <2>1, Zenon
  <1>10. CASE EndReadCount(t, h)
    <2>1. role[h][t] = "x_locked" /\ role'[h][t] = IF reader'[h] = 0 THEN "x_last" ELSE "x_left"
      BY <1>0, <1>10, Zenon DEF EndReadCount, Move
    <2>2. CASE reader'[h] = 0
      BY <2>1, <2>2, Zenon
    <2>3. CASE reader'[h] # 0
      <3>1. Run(t)
        BY Zenon DEF Run
      <3>2. TsHashInv'
        BY <3>1, InvRun, Zenon
      <3>3. Cardinality(Counted(h)') # 0
        BY <2>3, <3>2, Zenon DEF TsHashInv, ReadersCounted
      <3>4. Counted(h)' # {}
        BY <3>3, FS_EmptySet, Zenon
      <3>5. PICK u \in Threads : role'[h][u] \in {"r_first", "r_entered", "reading", "x_locked"}
        BY <3>4, Zenon DEF Counted
      <3>6. role'[h][u] # "r_first"
        <4>1. u # t
          BY <2>1, <2>3, <3>5, Zenon
        <4>2. QED BY <1>2, <2>1, <4>1, Zenon DEF TsHashInv, ReaderMutex
      <3>7. QED BY <2>1, <2>3, <3>5, <3>6, Zenon
    <2>4. QED BY <2>2, <2>3, Zenon
  <1>11. CASE EndReadLast(t, h)
    <2>1. role'[h][t] = "x_left" /\ mx_writer'[h] = None
      BY <1>0, <1>11, Zenon DEF EndReadLast, Move, Unlock
    <2>2. QED BY <2>1, Zenon
  <1>12. CASE EndReadUnlock(t, h)
    <2>1. role[h][t] = "x_left" /\ mx_reader'[h] = None /\ mx_writer' = mx_writer
      BY <1>0, <1>12, Zenon DEF EndReadUnlock, Move, Unlock
    <2>2. QED BY <1>2, <1>4, <2>1, Zenon
  <1>13. CASE BeginWrite(t, h)
    <2>1. role[h][t] = "out" /\ role'[h][t] = "writing" /\ mx_reader' = mx_reader
      BY <1>0, <1>13, Zenon DEF BeginWrite, Move
    <2>2. QED BY <1>2, <1>4, <2>1, Zenon
  <1>14. CASE EndWrite(t, h)
    <2>1. role[h][t] = "writing" /\ mx_writer'[h] = None /\ mx_reader' = mx_reader
      BY <1>0, <1>14, Zenon DEF EndWrite, Move, Unlock
    <2>2. QED BY <1>2, <1>4, <2>1, Zenon
  <1>15. QED BY <1>5, <1>6, <1>7, <1>8, <1>9, <1>10, <1>11, <1>12, <1>13, <1>14, Zenon
             DEF BeginRead, EndRead

\* A step of a call keeps what the refinement needs.
LEMMA ExtraRun ==
  ASSUME TsHashInv, ExtraInv, ~CleanCalls, NEW t \in Threads, Run(t)
  PROVE  ExtraInv'
  <1>0. TypeOK /\ Guarded /\ DestroyedAlone /\ MutexOwned
    BY Zenon DEF TsHashInv, ExtraInv
  <1>1. PICK h \in Tables :
        \/ BeginRead(t, h) \/ EndRead(t, h) \/ BeginWrite(t, h) \/ EndWrite(t, h)
        \/ Read(t, h) \/ Write(t, h) \/ Clean(t, h) \/ Merge(t, h)
        \/ Reset(t, h) \/ Free(t, h)
    BY Zenon DEF Run
  <1>2. CASE Read(t, h) \/ Write(t, h) \/ Clean(t, h) \/ Merge(t, h) \/ Reset(t, h) \/ Free(t, h)
    <2>1. /\ todo[t] # <<>> /\ Return(t) /\ alive' = alive /\ role' = role
          /\ UNCHANGED <<mx_reader, mx_writer>>
          /\ \E op \in {"read", "write", "clean", "merge", "reset", "free"} : At(t, op, h)
      BY <1>2, Zenon DEF Read, Write, Clean, Merge, Reset, Free, At
    <2>2. \A g \in Tables : ~At(t, "begin_write", g)
      BY <2>1, NextCall, Zenon
    <2>3. Guarded' /\ DestroyedAlone'
      BY <1>0, <2>1, <2>2, ShapeReturn, Zenon
    <2>4. QED BY <1>0, <2>1, <2>3, Zenon DEF ExtraInv, MutexOwned
  <1>3. CASE BeginRead(t, h) \/ EndRead(t, h) \/ BeginWrite(t, h) \/ EndWrite(t, h)
    <2>1. MutexOwned'
      BY <1>0, <1>3, OwnedRun, Zenon
    <2>2. role \in [Tables -> [Threads -> Roles]]
      BY <1>0, Zenon DEF TypeOK
    <2>3. CASE \/ BeginReadLock(t, h) \/ BeginReadCount(t, h) \/ BeginReadFirst(t, h)
               \/ EndReadLock(t, h) \/ EndReadCount(t, h) \/ EndReadLast(t, h)
      <3>1. /\ UNCHANGED <<todo, alive>>
            /\ role[h][t] # "writing"
            /\ \A u \in Threads, g \in Tables : g # h \/ u # t => role'[g][u] = role[g][u]
        BY <2>2, <2>3 DEF BeginReadLock, BeginReadCount, BeginReadFirst,
                     EndReadLock, EndReadCount, EndReadLast, Move
      <3>2. Guarded' /\ DestroyedAlone'
        BY <1>0, <3>1, ShapeStay, Zenon
      <3>3. QED BY <2>1, <3>2, Zenon DEF ExtraInv
    <2>4. CASE BeginReadUnlock(t, h) \/ EndReadUnlock(t, h) \/ EndWrite(t, h)
      <3>1. /\ Return(t) /\ alive' = alive
            /\ \A u \in Threads \ {t}, g \in Tables : role'[g][u] = role[g][u]
            /\ At(t, "begin_read", h) \/ At(t, "end_read", h) \/ At(t, "end_write", h)
        BY <2>2, <2>4, NextCall DEF BeginReadUnlock, EndReadUnlock, EndWrite, Move
      <3>2. todo[t] # <<>> /\ \A g \in Tables : ~At(t, "begin_write", g)
        BY <3>1, Zenon DEF At
      <3>3. Guarded' /\ DestroyedAlone'
        BY <1>0, <3>1, <3>2, ShapeReturn, Zenon
      <3>4. QED BY <2>1, <3>3, Zenon DEF ExtraInv
    <2>5. CASE BeginWrite(t, h)
      <3>1. /\ Return(t) /\ alive' = alive /\ At(t, "begin_write", h)
            /\ \A u \in Threads \ {t}, g \in Tables : role'[g][u] = role[g][u]
            /\ role'[h][t] = "writing"
        BY <2>2, <2>5, Zenon DEF BeginWrite, Move
      <3>2. todo[t] # <<>> /\ \A g \in Tables : At(t, "begin_write", g) => role'[g][t] = "writing"
        BY <3>1, NextCall, Zenon DEF At
      <3>3. Guarded' /\ DestroyedAlone'
        BY <1>0, <3>1, <3>2, ShapeReturn, Zenon
      <3>4. QED BY <2>1, <3>3, Zenon DEF ExtraInv
    <2>6. QED BY <1>3, <2>3, <2>4, <2>5, Zenon DEF BeginRead, EndRead
  <1>4. QED BY <1>1, <1>2, <1>3, Zenon

\* So does the start of a call.
LEMMA ExtraStart ==
  ASSUME TsHashInv, ExtraInv, ~CleanCalls, NEW t \in Threads, Start(t)
  PROVE  ExtraInv' /\ role' = role
  <1>1. role' = role
    BY Zenon
    DEF Start, Call, InitTable, CallRead, CallWrite, CallClean, CallDestroy, CallCopy, CallCompare
  <1>2. Guarded' /\ DestroyedAlone'
    BY <1>1, ShapeStart, Zenon DEF TsHashInv, ExtraInv
  <1>3. \A h \in Tables : /\ mx_reader'[h] \in {mx_reader[h], None}
                          /\ mx_writer'[h] \in {mx_writer[h], None}
    BY DEF Start, Call, InitTable, CallRead, CallWrite, CallClean, CallDestroy, CallCopy, CallCompare,
           TsHashInv, TypeOK
  <1>4. MutexOwned'
    BY <1>1, <1>3, Zenon DEF MutexOwned, ExtraInv
  <1>5. QED BY <1>1, <1>2, <1>4, Zenon DEF ExtraInv

\* What the refinement needs holds throughout.
LEMMA ExtraInvariant ==
  ASSUME ~CleanCalls
  PROVE  Spec => [](TsHashInv /\ ExtraInv)
  <1>1. Init => ExtraInv
    BY DEF Init, ExtraInv, Guarded, DestroyedAlone, MutexOwned
  <1>2. TsHashInv /\ ExtraInv /\ [Next]_vars => ExtraInv'
    <2> SUFFICES ASSUME TsHashInv, ExtraInv, [Next]_vars
                 PROVE  ExtraInv'
      BY Zenon
    <2>1. CASE UNCHANGED vars
      BY <2>1 DEF vars, ExtraInv, Guarded, DestroyedAlone, MutexOwned
    <2>2. CASE Next
      BY <2>2, ExtraRun, ExtraStart, Zenon DEF Next
    <2>3. QED BY <2>1, <2>2, Zenon
  <1>3. QED BY <1>1, <1>2, LockInvariant, PTL DEF Spec

\* zend_ts_hash_destroy frees the two mutexes of a table when no thread holds
\* them, and none is inside the table.
THEOREM FreesUnlocked ==
  ASSUME ~CleanCalls
  PROVE  Spec => []FreedUnlocked
  <1>1. TsHashInv /\ ExtraInv => FreedUnlocked
    <2> SUFFICES ASSUME TsHashInv, ExtraInv, NEW t \in Threads, NEW h \in Tables, At(t, "free", h)
                 PROVE  mx_reader[h] = None /\ mx_writer[h] = None
      BY Zenon DEF FreedUnlocked
    <2>1. /\ todo[t] # <<>> /\ todo[t] \in Seq(Steps)
          /\ todo[t][1].op = "free" /\ todo[t][1].table = h /\ Len(todo[t]) = 1
      <3>1. todo[t] # <<>> /\ todo[t] \in Seq(Steps)
        BY Zenon DEF At, TsHashInv, TypeOK
      <3>2. todo[t][1] = Head(todo[t]) /\ 1 \in 1..Len(todo[t])
        BY <3>1, TailFacts
      <3>3. QED BY <3>1, <3>2, ZenonT(30) DEF At, ExtraInv, DestroyedAlone
    <2>2. \A u \in Threads \ {t} : \A j \in 1..Len(todo[u]) : todo[u][j].table # h
      <3>1. 1 \in 1..Len(todo[t])
        BY <2>1
      <3>2. QED BY <2>1, <3>1 DEF ExtraInv, DestroyedAlone
    <2>3. \A u \in Threads, op \in {"begin_read", "end_read", "end_write"} : ~Owes(u, op, h) /\ ~At(u, op, h)
      <3>1. ASSUME NEW u \in Threads, NEW op \in {"begin_read", "end_read", "end_write"}
            PROVE  ~Owes(u, op, h)
        BY <2>1, <2>2, <3>1 DEF Owes
      <3>2. ASSUME NEW u \in Threads, NEW op, At(u, op, h)
            PROVE  Owes(u, op, h)
        <4>1. todo[u] # <<>> /\ todo[u] \in Seq(Steps)
          BY <3>2, Zenon DEF At, TsHashInv, TypeOK
        <4>2. todo[u][1] = Head(todo[u]) /\ 1 \in 1..Len(todo[u])
          BY <4>1, TailFacts
        <4>3. QED BY <3>2, <4>2, Zenon DEF At, Owes
      <3>3. QED BY <3>1, <3>2, Zenon
    <2>4. \A u \in Threads : role[h][u] = "out"
      <3>1. \A u \in Threads : role[h][u] \in Roles
        BY Zenon DEF TsHashInv, TypeOK
      <3>2. QED BY <2>3, <3>1, Zenon DEF TsHashInv, InStep, Roles
    <2>5. QED BY <2>4, Zenon DEF ExtraInv, MutexOwned
  <1>2. QED BY <1>1, ExtraInvariant, PTL

-----------------------------------------------------------------------------
(* Every step of the lock is a step of RWTable, or none.                   *)

\* A step that lets nobody in or out and changes no content is a stutter.
LEMMA RWStutter ==
  ASSUME hash' = hash,
         \A h \in Tables, u \in Threads :
            /\ role[h][u] = "reading" <=> role'[h][u] = "reading"
            /\ role[h][u] = "writing" <=> role'[h][u] = "writing"
  PROVE  UNCHANGED RW!rwVars
  <1>1. UNCHANGED ThreadsAt("reading") /\ UNCHANGED ThreadsAt("writing")
    BY Zenon DEF ThreadsAt
  <1>2. QED BY <1>1, Zenon DEF RW!rwVars

\* t, and only t, changes its place at h.
LEMMA RWMove ==
  ASSUME TypeOK, NEW t \in Threads, NEW h \in Tables, NEW from, NEW to \in Roles,
         Move(t, h, from, to), NEW r
  PROVE  ThreadsAt(r)' = [ThreadsAt(r) EXCEPT ![h] =
            IF to = r THEN @ \cup {t} ELSE @ \ {t}]
  <1>1. /\ role'[h][t] = to
        /\ \A g \in Tables, u \in Threads : g # h \/ u # t => role'[g][u] = role[g][u]
    BY MoveFacts
  <1> DEFINE new == [ThreadsAt(r) EXCEPT ![h] = IF to = r THEN @ \cup {t} ELSE @ \ {t}]
  <1>2. ASSUME NEW g \in Tables
        PROVE  {u \in Threads : role'[g][u] = r} = new[g]
    BY <1>1 DEF ThreadsAt
  <1>3. new = [g \in Tables |-> new[g]]
    BY ZenonT(30) DEF ThreadsAt
  <1>4. ThreadsAt(r)' = [g \in Tables |-> {u \in Threads : role'[g][u] = r}]
    BY Zenon DEF ThreadsAt
  <1> HIDE DEF new
  <1>5. QED BY <1>2, <1>3, <1>4, ZenonT(30) DEF new

\* A change of a table is made by the thread that write-locked it.
LEMMA RWModify ==
  ASSUME TsHashInv, ExtraInv, NEW t \in Threads, NEW h \in Tables,
         NEW op \in Modifying, At(t, op, h), role' = role,
         NEW contents \in SUBSET Keys, hash' = [hash EXCEPT ![h] = contents]
  PROVE  RW!Modify(t, h)
  <1>1. todo[t] # <<>> /\ todo[t] \in Seq(Steps)
    BY Zenon DEF At, TsHashInv, TypeOK
  <1>2. todo[t][1] = Head(todo[t]) /\ 1 \in 1..Len(todo[t])
    BY <1>1, TailFacts
  <1>3. role[h][t] = "writing"
    BY <1>2 DEF At, ExtraInv, Guarded
  <1>4. UNCHANGED ThreadsAt("reading") /\ UNCHANGED ThreadsAt("writing")
    BY Zenon DEF ThreadsAt
  <1>5. t \in ThreadsAt("writing")[h]
    BY <1>3, Zenon DEF ThreadsAt
  <1>6. QED BY <1>4, <1>5, ZenonT(30) DEF RW!Modify

\* A step of a call is a step of the abstract table, or a stutter.
LEMMA RWRun ==
  ASSUME TsHashInv, ExtraInv, ~CleanCalls, NEW t \in Threads, Run(t)
  PROVE  [RW!Next]_RW!rwVars
  <1>0. TypeOK
    BY Zenon DEF TsHashInv
  <1>1. PICK h \in Tables :
        \/ BeginRead(t, h) \/ EndRead(t, h) \/ BeginWrite(t, h) \/ EndWrite(t, h)
        \/ Read(t, h) \/ Write(t, h) \/ Clean(t, h) \/ Merge(t, h)
        \/ Reset(t, h) \/ Free(t, h)
    BY Zenon DEF Run
  <1>2. CASE \/ BeginReadLock(t, h) \/ BeginReadCount(t, h) \/ BeginReadFirst(t, h)
             \/ EndReadCount(t, h) \/ EndReadLast(t, h) \/ EndReadUnlock(t, h)
    <2>1. PICK from \in Roles \ {"reading", "writing"}, to \in Roles \ {"reading", "writing"} :
             Move(t, h, from, to) /\ hash' = hash
      BY <1>2, Zenon DEF BeginReadLock, BeginReadCount, BeginReadFirst,
                  EndReadCount, EndReadLast, EndReadUnlock, Roles
    <2>2. /\ role[h][t] = from /\ role'[h][t] = to
          /\ \A g \in Tables, u \in Threads : g # h \/ u # t => role'[g][u] = role[g][u]
      BY <1>0, <2>1, MoveFacts
    <2>3. QED BY <2>1, <2>2, RWStutter, Zenon
  <1>3. CASE BeginReadUnlock(t, h)
    <2>1. Move(t, h, "r_entered", "reading") /\ hash' = hash /\ "reading" \in Roles
      BY <1>3, Zenon DEF BeginReadUnlock, Roles
    <2>2. role[h][t] = "r_entered"
      BY <2>1, Zenon DEF Move
    <2>3. ThreadsAt("writing")[h] = {}
      BY <2>2, Zenon DEF ThreadsAt, TsHashInv, WriterMutex
    <2>4. /\ ThreadsAt("reading")' = [ThreadsAt("reading") EXCEPT ![h] = @ \cup {t}]
          /\ ThreadsAt("writing")' = [ThreadsAt("writing") EXCEPT ![h] = @ \ {t}]
      BY <1>0, <2>1, RWMove
    <2>5. UNCHANGED ThreadsAt("writing")
      BY <2>3, <2>4, ZenonT(30) DEF ThreadsAt
    <2>6. QED BY <2>1, <2>3, <2>4, <2>5, Zenon DEF RW!Next, RW!ReadLock
  <1>4. CASE EndReadLock(t, h)
    <2>1. Move(t, h, "reading", "x_locked") /\ hash' = hash /\ "x_locked" \in Roles
      BY <1>4, Zenon DEF EndReadLock, Roles
    <2>2. role[h][t] = "reading"
      BY <2>1, Zenon DEF Move
    <2>3. ThreadsAt("writing")[h] = {} /\ t \in ThreadsAt("reading")[h]
      BY <2>2, Zenon DEF ThreadsAt, TsHashInv, WriterMutex
    <2>4. /\ ThreadsAt("reading")' = [ThreadsAt("reading") EXCEPT ![h] = @ \ {t}]
          /\ ThreadsAt("writing")' = [ThreadsAt("writing") EXCEPT ![h] = @ \ {t}]
      BY <1>0, <2>1, RWMove
    <2>5. UNCHANGED ThreadsAt("writing")
      BY <2>3, <2>4, ZenonT(30) DEF ThreadsAt
    <2>6. QED BY <2>1, <2>3, <2>4, <2>5, Zenon DEF RW!Next, RW!ReadUnlock
  <1>5. CASE BeginWrite(t, h)
    <2>1. Move(t, h, "out", "writing") /\ hash' = hash /\ "writing" \in Roles /\ mx_writer[h] = None
      BY <1>5, Zenon DEF BeginWrite, Lock, Roles
    <2>2. \A u \in Threads : role[h][u] \notin {"reading", "writing"}
      BY NoneAssumption, <2>1, Zenon DEF TsHashInv, WriterMutex
    <2>3. ThreadsAt("writing")[h] = {} /\ ThreadsAt("reading")[h] = {}
      BY <2>2, Zenon DEF ThreadsAt
    <2>4. /\ ThreadsAt("reading")' = [ThreadsAt("reading") EXCEPT ![h] = @ \ {t}]
          /\ ThreadsAt("writing")' = [ThreadsAt("writing") EXCEPT ![h] = @ \cup {t}]
      BY <1>0, <2>1, RWMove
    <2>5. UNCHANGED ThreadsAt("reading")
      BY <2>3, <2>4, ZenonT(30) DEF ThreadsAt
    <2>6. ThreadsAt("writing")' = [ThreadsAt("writing") EXCEPT ![h] = {t}]
      <3>1. ThreadsAt("writing")[h] \cup {t} = {t}
        BY <2>3, Zenon
      <3>2. QED BY <2>4, <3>1, Zenon
    <2>7. QED BY <2>1, <2>3, <2>5, <2>6, Zenon DEF RW!Next, RW!WriteLock
  <1>6. CASE EndWrite(t, h)
    <2>1. Move(t, h, "writing", "out") /\ hash' = hash /\ "out" \in Roles
      BY <1>6, Zenon DEF EndWrite, Roles
    <2>2. role[h][t] = "writing"
      BY <2>1, Zenon DEF Move
    <2>3. ThreadsAt("writing")[h] = {t} /\ ThreadsAt("reading")[h] = {}
      BY <2>2 DEF ThreadsAt, TsHashInv, WriterMutex
    <2>4. /\ ThreadsAt("reading")' = [ThreadsAt("reading") EXCEPT ![h] = @ \ {t}]
          /\ ThreadsAt("writing")' = [ThreadsAt("writing") EXCEPT ![h] = @ \ {t}]
      BY <1>0, <2>1, RWMove
    <2>5. /\ UNCHANGED ThreadsAt("reading")
          /\ ThreadsAt("writing")' = [ThreadsAt("writing") EXCEPT ![h] = {}]
      BY <2>3, <2>4, ZenonT(30) DEF ThreadsAt
    <2>6. QED BY <2>1, <2>3, <2>5, Zenon DEF RW!Next, RW!WriteUnlock
  <1>7. CASE Read(t, h) \/ Reset(t, h) \/ Free(t, h)
    BY <1>7, RWStutter, Zenon DEF Read, Reset, Free
  <1>8. CASE Write(t, h) \/ Clean(t, h) \/ Merge(t, h)
    <2>1. hash \in [Tables -> SUBSET Keys]
      BY <1>0, Zenon DEF TypeOK
    <2>2. CASE Write(t, h)
      <3>1. PICK k \in Keys : \/ hash' = [hash EXCEPT ![h] = @ \cup {k}]
                              \/ hash' = [hash EXCEPT ![h] = @ \ {k}]
        BY <2>2, Zenon DEF Write
      <3>2. PICK contents \in {hash[h] \cup {k}, hash[h] \ {k}} : hash' = [hash EXCEPT ![h] = contents]
        BY <3>1, Zenon
      <3>3. contents \in SUBSET Keys
        BY <2>1, <3>2, Zenon
      <3>4. RW!Modify(t, h)
        BY <2>2, <3>2, <3>3, RWModify, ZenonT(30) DEF Write, Modifying
      <3>5. QED BY <3>4, Zenon DEF RW!Next
    <2>3. CASE Clean(t, h)
      <3>1. RW!Modify(t, h)
        BY <2>3, RWModify, ZenonT(30) DEF Clean, Modifying
      <3>2. QED BY <3>1, Zenon DEF RW!Next
    <2>4. CASE Merge(t, h)
      <3>1. Head(todo[t]).source \in Tables
        <4>1. todo[t] # <<>> /\ todo[t] \in Seq(Steps)
          BY <1>0, <2>4, Zenon DEF Merge, At, TypeOK
        <4>2. Head(todo[t]) \in Steps
          BY <4>1, TailFacts, Zenon
        <4>3. QED BY <4>2, Zenon DEF Steps
      <3>2. hash[h] \cup hash[Head(todo[t]).source] \in SUBSET Keys
        BY <2>1, <3>1, Zenon
      <3>3. hash' = [hash EXCEPT ![h] = hash[h] \cup hash[Head(todo[t]).source]]
        BY <2>4, Zenon DEF Merge
      <3>4. RW!Modify(t, h)
        BY <2>4, <3>2, <3>3, RWModify, ZenonT(30) DEF Merge, Modifying
      <3>5. QED BY <3>4, Zenon DEF RW!Next
    <2>5. QED BY <1>8, <2>2, <2>3, <2>4, Zenon
  <1>9. QED
    BY <1>1, <1>2, <1>3, <1>4, <1>5, <1>6, <1>7, <1>8, Zenon DEF BeginRead, EndRead

\* So is the start of a call.
LEMMA RWStart ==
  ASSUME TsHashInv, ExtraInv, ~CleanCalls, NEW t \in Threads, Start(t)
  PROVE  [RW!Next]_RW!rwVars
  <1>1. role' = role
    BY ExtraStart, Zenon
  <1>2. ASSUME NEW h \in Tables, InitTable(h)
        PROVE  RW!Create(h)
    <2>1. \A u \in Threads : Len(todo[u]) = 0
      BY <1>2 DEF InitTable, Idle
    <2>2. \A u \in Threads : role[h][u] \notin {"reading", "writing"}
      BY <2>1 DEF TsHashInv, InStep, Owes
    <2>3. ThreadsAt("reading")[h] = {} /\ ThreadsAt("writing")[h] = {}
      BY <2>2, Zenon DEF ThreadsAt
    <2>4. UNCHANGED ThreadsAt("reading") /\ UNCHANGED ThreadsAt("writing")
      BY <1>1, Zenon DEF ThreadsAt
    <2>5. QED BY <1>2, <2>3, <2>4, Zenon DEF InitTable, RW!Create
  <1>3. ASSUME hash' = hash
        PROVE  UNCHANGED RW!rwVars
    BY <1>1, <1>3, RWStutter, Zenon
  <1>4. QED
    BY <1>2, <1>3, ZenonT(30)
    DEF Start, Call, CallRead, CallWrite, CallClean, CallDestroy, CallCopy, CallCompare,
                      RW!Next

\* The two mutexes and the counter implement a reader-writer lock, whatever
\* the numbers of threads and tables: begin_read and begin_write return only
\* when the lock is free for them, and the contents of a table change only
\* under begin_write, by the thread that holds it.
THEOREM RefinesRWTable ==
  ASSUME ~CleanCalls
  PROVE  Spec => ImplementsRWTable
  <1>1. Init => RW!Init
    BY DEF Init, RW!Init, ThreadsAt
  <1>2. TsHashInv /\ ExtraInv /\ [Next]_vars => [RW!Next]_RW!rwVars
    <2> SUFFICES ASSUME TsHashInv, ExtraInv, [Next]_vars
                 PROVE  [RW!Next]_RW!rwVars
      BY Zenon
    <2>1. CASE UNCHANGED vars
      BY <2>1, RWStutter, Zenon DEF vars
    <2>2. CASE Next
      BY <2>2, RWRun, RWStart, Zenon DEF Next
    <2>3. QED BY <2>1, <2>2, Zenon
  <1>3. QED BY <1>1, <1>2, ExtraInvariant, PTL DEF Spec, ImplementsRWTable, RW!Spec
=============================================================================
