-------------------------- MODULE ZendSignalProofs --------------------------
(***************************************************************************)
(* The invariants of ZendSignal, for every set of signals, size of the     *)
(* queue and bound.                                                        *)
(***************************************************************************)
EXTENDS ZendSignal, SequenceTheorems, TLAPS

\* While zend_signal_handler_defer runs, every signal is masked and no
\* deferred signal is announced; an invocation that handles the queue started
\* outside critical sections, a direct one has no local list, and neither
\* interrupts the start of a request inside a section.
HandlerInv ==
    pc \in HandlerPcs =>
        /\ masked = Sigs /\ blocked = -1
        /\ Top.direct => Top.rest = <<>>
        /\ ~Top.direct => nest = 0
        /\ Top.ret \in {"register", "reset"} => nest = 0

\* The program runs with the timer's signal deliverable, and depth counts at
\* least the critical sections it is in.
ProgramInv ==
    /\ pc \in ProgramPcs => masked \subseteq Others /\ running = 0
    /\ pc \in {"register", "reset"} => nest = 0
    /\ depth >= nest
    /\ active = 0 => blocked = -1
    /\ RunningIsTransient

\* Before zend_timeout has run, handlers do not nest and the program runs
\* with no signal masked.
QuietInv ==
    ~budget.timed_out =>
        /\ pc \in ProgramPcs => frames = <<>> /\ masked = {}
        /\ pc \in HandlerPcs => Front(frames) = <<>> /\ Top.saved = {}

IInv ==
    /\ TypeOK /\ HandlerInv /\ ProgramInv /\ QuietInv
    /\ StorageConserved /\ BlockedMeansQueued

-----------------------------------------------------------------------------
(* Frames                                                                  *)

\* A stack after a push: the new frame is the last one, the others stay.
LEMMA PushFacts ==
  ASSUME NEW S, NEW s \in Seq(S), NEW f \in S
  PROVE  /\ Append(s, f) \in Seq(S) /\ Append(s, f) # <<>>
         /\ Last(Append(s, f)) = f /\ Front(Append(s, f)) = s
<1>1. /\ Append(s, f) \in Seq(S) /\ Len(Append(s, f)) = Len(s) + 1
      /\ Append(s, f)[Len(s) + 1] = f /\ Append(s, f) # <<>>
  OBVIOUS
<1>2. Front(Append(s, f)) = s
  <2>1. Front(Append(s, f)) = SubSeq(Append(s, f), 1, Len(s))
    BY <1>1 DEF Front
  <2>2. /\ Front(Append(s, f)) \in Seq(S)
        /\ Len(Front(Append(s, f))) = Len(s)
        /\ \A i \in 1 .. Len(s) : Front(Append(s, f))[i] = s[i]
    BY <1>1, <2>1
  <2> QED
    BY <2>2, SeqEqual, Zenon
<1> QED
  BY <1>1, <1>2, Zenon DEF Last

\* A stack that is not empty: its last frame, and what is below it.
LEMMA TopFacts ==
  ASSUME NEW S, NEW s \in Seq(S), s # <<>>
  PROVE  Last(s) \in S /\ Front(s) \in Seq(S)
<1>1. Len(s) \in Nat /\ Len(s) >= 1
  OBVIOUS
<1>2. s[Len(s)] \in S
  BY <1>1
<1>3. SubSeq(s, 1, Len(s) - 1) \in Seq(S)
  BY <1>1
<1> QED
  BY <1>2, <1>3, Zenon DEF Last, Front

\* The frame of a new invocation.
LEMMA NewFrame ==
  ASSUME NEW s \in Sigs, NEW ret \in ProgramPcs, NEW direct \in BOOLEAN, masked \subseteq Others
  PROVE  /\ Frame(s, ret, direct) \in Frames
         /\ Frame(s, ret, direct).rest = <<>> /\ Frame(s, ret, direct).saved = masked
         /\ Frame(s, ret, direct).ret = ret /\ Frame(s, ret, direct).direct = direct
BY DEF Frame, Frames

\* What the fields of a frame are.
LEMMA FrameFields ==
  ASSUME NEW f \in Frames
  PROVE  /\ f.sig \in Sigs /\ f.rest \in Seq(Sigs) /\ f.saved \subseteq Others
         /\ f.ret \in ProgramPcs /\ f.direct \in BOOLEAN
BY Zenon DEF Frames

-----------------------------------------------------------------------------
(* zend_signal_handler_defer                                               *)

\* The body of zend_signal_handler_defer keeps the invariant, when it starts
\* in the program with the lists q and n that hold all the entries.
LEMMA DeferStep ==
  ASSUME IInv, pc \in ProgramPcs,
         NEW s \in Sigs, NEW ret \in ProgramPcs, NEW q \in Seq(Sigs), NEW n \in Nat,
         n + Len(q) <= QueueSize, budget.timed_out \/ n + Len(q) = QueueSize,
         ret \in {"register", "reset"} => nest = 0,
         Defer(s, ret, q, n), pending' \subseteq pending,
         UNCHANGED <<depth, active, handlers, installed, arg, nest, process, budget>>
  PROVE  IInv'
<1>1. masked \subseteq Others /\ running = 0 /\ frames \in Seq(Frames)
  BY Zenon DEF IInv, ProgramInv, TypeOK
<1>2. CASE DeferInactive(s, ret, q, n) \/ DeferHandle(s, ret, q, n)
  <2> PICK direct \in BOOLEAN : /\ frames' = Append(frames, Frame(s, ret, direct))
                                /\ direct <=> active = 0
    <3>1. CASE DeferInactive(s, ret, q, n)
      <4> WITNESS TRUE \in BOOLEAN
      <4> QED BY <3>1, Zenon DEF DeferInactive
    <3>2. CASE DeferHandle(s, ret, q, n)
      <4>1. active # 0
        BY <3>2 DEF DeferHandle
      <4> WITNESS FALSE \in BOOLEAN
      <4> QED BY <3>2, <4>1, Zenon DEF DeferHandle
    <3> QED BY <1>2, <3>1, <3>2, Zenon
  <2> DEFINE fr == Frame(s, ret, direct)
  <2>1. /\ pc' = "call" /\ masked' = Sigs
        /\ phead' = q /\ avail' = n
        /\ blocked' = -1 /\ running' \in {0, 1}
        /\ active = 0 => running' = 0
        /\ active = 1 => depth = 0
    <3>1. active = 0 => blocked = -1
      BY Zenon DEF IInv, ProgramInv
    <3>2. CASE DeferInactive(s, ret, q, n)
      BY <1>1, <3>1, <3>2 DEF DeferInactive
    <3>3. CASE DeferHandle(s, ret, q, n)
      BY <3>3, Zenon DEF DeferHandle
    <3> QED BY <1>2, <3>2, <3>3, Zenon
  <2>2. /\ fr \in Frames /\ fr.rest = <<>> /\ fr.saved = masked
        /\ fr.ret = ret /\ fr.direct = direct /\ frames' = Append(frames, fr)
    BY <1>1, NewFrame, Zenon
  <2> HIDE DEF fr
  <2>3. /\ frames' \in Seq(Frames) /\ frames' # <<>>
        /\ Top' = fr /\ Front(frames') = frames
    BY <1>1, <2>1, <2>2, PushFacts DEF Top
  <2>4. TypeOK'
    BY <2>1, <2>3, SizeAssumption DEF IInv, TypeOK, HandlerPcs, ProgramPcs
  <2>5. HandlerInv' /\ ProgramInv'
    BY <2>1, <2>2, <2>3 DEF IInv, TypeOK, HandlerInv, ProgramInv, RunningIsTransient,
                            HandlerPcs, ProgramPcs
  <2>6. QuietInv'
    BY <2>1, <2>2, <2>3, Zenon DEF IInv, QuietInv, HandlerPcs, ProgramPcs
  <2>7. Held' = 0
    BY <2>1, <2>2, <2>3, Zenon DEF Held, HandlerPcs
  <2>8. StorageConserved' /\ BlockedMeansQueued'
    BY <2>1, <2>7 DEF StorageConserved, Stored, BlockedMeansQueued
  <2> QED
    BY <2>4, <2>5, <2>6, <2>8, Zenon DEF IInv
<1>3. CASE DeferQueue(s, ret, q, n) \/ DeferDrop(s, ret, q, n)
  <2>1. /\ frames' = frames /\ pc' = ret /\ masked' = masked /\ running' = running
        /\ active = 1 /\ blocked' \in {-1, 0}
        /\ phead' \in Seq(Sigs) /\ avail' \in Nat
        /\ avail' + Len(phead') = n + Len(q)
        /\ blocked' = 0 => phead' # <<>> \/ avail' = 0
    <3>1. CASE DeferQueue(s, ret, q, n)
      BY <3>1, SMTT(30) DEF DeferQueue
    <3>2. CASE DeferDrop(s, ret, q, n)
      BY <3>2, SMTT(30) DEF DeferDrop
    <3> QED BY <1>3, <3>1, <3>2, Zenon
  <2>2. pc' \notin HandlerPcs /\ pc' \in ProgramPcs
    BY <2>1, Zenon DEF HandlerPcs, ProgramPcs
  <2>3. TypeOK'
    BY <2>1, <2>2, SizeAssumption DEF IInv, TypeOK
  <2>4. HandlerInv' /\ ProgramInv'
    BY <1>1, <2>1, <2>2 DEF IInv, HandlerInv, ProgramInv, RunningIsTransient, TypeOK
  <2>5. QuietInv'
    BY <2>1, <2>2, Zenon DEF IInv, QuietInv
  <2>6. Held' = 0
    BY <2>2, Zenon DEF Held
  <2>7. StorageConserved'
    BY <2>1, <2>6 DEF StorageConserved, Stored
  <2>8. BlockedMeansQueued'
    <3> SUFFICES ASSUME ~budget.timed_out, blocked' = 0, phead' = <<>>
                 PROVE  FALSE
      BY Zenon DEF BlockedMeansQueued
    <3> QED
      BY <2>1, SizeAssumption
  <2> QED
    BY <2>3, <2>4, <2>5, <2>7, <2>8, Zenon DEF IInv
<1> QED
  BY <1>2, <1>3, Zenon DEF Defer

\* The entries, when no handler runs.
LEMMA ProgramStorage ==
  ASSUME IInv, pc \in ProgramPcs
  PROVE  /\ pc \notin HandlerPcs /\ phead \in Seq(Sigs) /\ avail \in Nat /\ Len(phead) \in Nat
         /\ avail + Len(phead) <= QueueSize
         /\ budget.timed_out \/ avail + Len(phead) = QueueSize
<1>1. pc \notin HandlerPcs /\ phead \in Seq(Sigs) /\ avail \in Nat
  BY DEF IInv, TypeOK, ProgramPcs, HandlerPcs
<1>2. Held = 0
  BY <1>1, Zenon DEF Held
<1>3. Len(phead) \in Nat
  BY <1>1
<1> QED
  BY <1>1, <1>2, <1>3 DEF IInv, StorageConserved, Stored

\* Entries move between the lists, and none is lost.
LEMMA StorageKept ==
  ASSUME IInv, Stored' = Stored, budget'.timed_out = budget.timed_out
  PROVE  StorageConserved'
BY Zenon DEF IInv, StorageConserved

\* The kernel delivers only what is not masked, so no handler is running.
LEMMA DeliverStep ==
  ASSUME IInv, NEW s \in Sigs, Deliver(s)
  PROVE  IInv'
<1>1. pc \in ProgramPcs
  BY Zenon DEF IInv, HandlerInv, TypeOK, Deliver
<1>2. pc \in {"register", "reset"} => nest = 0
  BY Zenon DEF IInv, ProgramInv
<1>3. Defer(s, pc, phead, avail) /\ pending' \subseteq pending
  BY Zenon DEF Deliver
<1>4. UNCHANGED <<depth, active, handlers, installed, arg, nest, process, budget>>
  BY Zenon DEF Deliver
<1> QED
  BY <1>1, <1>2, <1>3, <1>4, ProgramStorage, DeferStep, Zenon

\* zend_signal_handler_unblock takes the first entry off the queue, and its
\* entry back.
LEMMA UnblockStep ==
  ASSUME IInv, HandlerUnblock
  PROVE  IInv'
<1>1. pc \in ProgramPcs /\ phead # <<>>
  BY Zenon DEF HandlerUnblock, ProgramPcs
<1>2. /\ phead \in Seq(Sigs) /\ avail \in Nat /\ Len(phead) \in Nat
      /\ avail + Len(phead) <= QueueSize
      /\ budget.timed_out \/ avail + Len(phead) = QueueSize
  BY <1>1, ProgramStorage, Zenon
<1>3. CASE active = 1
  <2>1. Head(phead) \in Sigs /\ Tail(phead) \in Seq(Sigs) /\ Len(Tail(phead)) = Len(phead) - 1
    BY <1>1, <1>2
  <2>2. /\ avail + 1 \in Nat /\ avail + 1 + Len(Tail(phead)) <= QueueSize
        /\ budget.timed_out \/ avail + 1 + Len(Tail(phead)) = QueueSize
    BY <1>2, <2>1
  <2>3. /\ Defer(Head(phead), "run", Tail(phead), avail + 1)
        /\ UNCHANGED <<depth, active, handlers, installed, arg, nest, process, budget>>
        /\ pending' \subseteq pending /\ "run" \in ProgramPcs
    BY <1>3, Zenon DEF HandlerUnblock, ProgramPcs
  <2> QED
    BY <1>1, <2>1, <2>2, <2>3, DeferStep, ZenonT(30)
<1>4. CASE active # 1
  <2>1. pc' = "run" /\ UNCHANGED <<depth, blocked, running, active, handlers, phead, avail, installed,
                                   pending, masked, frames, arg, nest, process, budget>>
    BY <1>4, Zenon DEF HandlerUnblock
  <2> QED
    BY <1>1, <2>1, ZenonT(30)
    DEF IInv, TypeOK, HandlerInv, ProgramInv, QuietInv, StorageConserved, Stored, Held,
          BlockedMeansQueued, RunningIsTransient, ProgramPcs, HandlerPcs
<1> QED
  BY <1>3, <1>4, Zenon

-----------------------------------------------------------------------------
(* The handlers                                                            *)

\* What an invocation in progress can rely on.
LEMMA Invoked ==
  ASSUME IInv, pc \in HandlerPcs
  PROVE  /\ pc \notin ProgramPcs
         /\ Top \in Frames /\ Front(frames) \in Seq(Frames) /\ Top.sig \in Sigs
         /\ Top.rest \in Seq(Sigs) /\ Top.saved \subseteq Others /\ Top.ret \in ProgramPcs
         /\ Top.direct \in BOOLEAN
<1>1. pc \notin ProgramPcs /\ frames \in Seq(Frames) /\ frames # <<>>
  BY Zenon DEF IInv, TypeOK, ProgramPcs, HandlerPcs
<1>2. Top \in Frames /\ Front(frames) \in Seq(Frames)
  BY <1>1, TopFacts, Zenon DEF Top
<1> QED
  BY <1>1, <1>2, FrameFields, Zenon

\* A handler that returns, or a default action that ends the process.
LEMMA CallStep ==
  ASSUME IInv, CallDefault \/ CallFunction
  PROVE  IInv'
<1>1. pc \in HandlerPcs /\ pc' \in HandlerPcs /\ pc' \notin ProgramPcs
  BY ZenonT(30) DEF CallDefault, CallFunction, HandlerPcs, ProgramPcs, program
<1>2. /\ UNCHANGED <<depth, blocked, running, active, phead, avail, installed, pending, masked,
                     frames, arg, nest, budget>>
      /\ process' \in {"up", "killed", "crashed"}
  BY ZenonT(30) DEF CallDefault, CallFunction, globals, kernel, program, IInv, TypeOK
<1>3. handlers' \in [Sigs -> Entries]
  <2>1. Entry("dfl", FALSE) \in Entries /\ handlers \in [Sigs -> Entries]
    BY Zenon DEF IInv, TypeOK, Entry, Entries, Fns
  <2>2. handlers' = handlers \/ handlers' = [handlers EXCEPT ![Top.sig] = Entry("dfl", FALSE)]
    BY ZenonT(30) DEF CallDefault, CallFunction, globals
  <2> QED
    BY <2>1, <2>2, ZenonT(30)
<1>4. Top' = Top /\ Front(frames)' = Front(frames) /\ Held' = Held
  BY <1>1, <1>2, Zenon DEF Top, Held
<1>5. TypeOK'
  BY <1>1, <1>2, <1>3, Zenon DEF IInv, TypeOK
<1>6. HandlerInv' /\ ProgramInv' /\ QuietInv'
  BY <1>1, <1>2, <1>4, Invoked, Zenon
  DEF IInv, HandlerInv, ProgramInv, QuietInv, RunningIsTransient,
        HandlerPcs, ProgramPcs
<1>7. StorageConserved' /\ BlockedMeansQueued'
  BY <1>2, <1>4, Zenon DEF IInv, StorageConserved, Stored, BlockedMeansQueued
<1> QED
  BY <1>5, <1>6, <1>7, Zenon DEF IInv

\* zend_timeout: the frame stays, but nothing will go on with it.
LEMMA TimeoutStep ==
  ASSUME IInv, CallTimeout
  PROVE  IInv'
<1>1. pc \in HandlerPcs /\ pc' = "run" /\ pc' \in ProgramPcs /\ pc' \notin HandlerPcs
  BY Zenon DEF CallTimeout, HandlerPcs, ProgramPcs
<1>2. /\ UNCHANGED <<depth, blocked, active, phead, avail, pending, frames, arg, process>>
      /\ running' = 0 /\ nest' = 0
      /\ installed' = installed \cup {Prof} /\ masked' = masked \ {Prof}
  BY Zenon DEF CallTimeout
<1>3. handlers' \in [Sigs -> Entries]
  BY ZenonT(30) DEF CallTimeout, IInv, TypeOK, Entry, Entries, Fns
<1>4. budget' \in Budgets /\ budget'.timed_out
  BY ZenonT(30) DEF CallTimeout, IInv, TypeOK, Budgets
<1>5. masked' \subseteq Others
  BY <1>2, Zenon DEF IInv, TypeOK, Sigs
<1>6. Held' = 0 /\ Len(Top.rest) \in Nat /\ Held = Len(Top.rest)
  BY <1>1, Invoked DEF Held
<1>7. TypeOK'
  BY <1>1, <1>2, <1>3, <1>4, Zenon DEF IInv, TypeOK, Sigs
<1>8. HandlerInv' /\ QuietInv' /\ BlockedMeansQueued'
  BY <1>1, <1>4, Zenon DEF HandlerInv, QuietInv, BlockedMeansQueued
<1>9. ProgramInv'
  <2>1. depth >= 0
    BY DEF IInv, TypeOK, ProgramInv
  <2> QED
    BY <1>1, <1>2, <1>5, <2>1 DEF IInv, ProgramInv, RunningIsTransient
<1>10. StorageConserved'
  <2>1. avail \in Nat /\ Len(phead) \in Nat /\ Held \in Nat
    BY <1>6 DEF IInv, TypeOK
  <2>2. avail + Len(phead) + 0 <= QueueSize
    BY <2>1, SizeAssumption DEF IInv, StorageConserved, Stored
  <2>3. Stored' = avail + Len(phead) + 0
    BY <1>2, <1>6, Zenon DEF Stored
  <2> QED
    BY <1>4, <2>2, <2>3, Zenon DEF StorageConserved
<1> QED
  BY <1>7, <1>8, <1>9, <1>10, Zenon DEF IInv

\* One entry goes from the local list to the free ones.
LEMMA MoveOne == \A a, b, c \in Nat : (a + 1) + b + (c - 1) = a + b + c
OBVIOUS

\* The loop goes on with the next entry: with the first of the whole queue
\* after the first handler, else with the next one of the local list.
LEMMA NextStep ==
  ASSUME IInv, NextInQueue
  PROVE  IInv'
<1> DEFINE queue == IF Top.rest = <<>> THEN phead ELSE Tail(Top.rest)
           fr == [Top EXCEPT !.rest = queue, !.sig = Head(queue)]
<1>1. /\ pc \in HandlerPcs /\ pc' = "call" /\ pc' \in HandlerPcs /\ pc' \notin ProgramPcs
      /\ ~Top.direct
  BY Zenon DEF NextInQueue, HandlerPcs, ProgramPcs
<1>2. /\ Top \in Frames /\ Front(frames) \in Seq(Frames) /\ Top.rest \in Seq(Sigs)
      /\ phead \in Seq(Sigs) /\ avail \in Nat
  BY <1>1, Invoked DEF IInv, TypeOK
<1>3. /\ queue \in Seq(Sigs) /\ queue # <<>> /\ Head(queue) \in Sigs
  <2>1. queue # <<>>
    BY Zenon DEF NextInQueue
  <2>2. queue \in Seq(Sigs)
    BY <1>2
  <2> HIDE DEF queue
  <2> QED
    BY <2>1, <2>2
<1>4. /\ UNCHANGED <<depth, blocked, running, active, handlers, installed, pending, masked, arg, nest,
                     process, budget>>
      /\ phead' = (IF Top.rest = <<>> THEN <<>> ELSE phead)
      /\ avail' = (IF Top.rest = <<>> THEN avail ELSE avail + 1)
      /\ frames' = Append(Front(frames), fr)
  BY Zenon DEF NextInQueue, SetTop, kernel
<1>5. /\ avail' + Len(phead') + Len(queue) = avail + Len(phead) + Len(Top.rest)
      /\ avail' \in Nat /\ phead' \in Seq(Sigs) /\ Len(phead') \in Nat /\ Len(queue) \in Nat
  <2>1. CASE Top.rest = <<>>
    BY <1>2, <1>4, <2>1
  <2>2. CASE Top.rest # <<>>
    <3>1. Len(queue) = Len(Top.rest) - 1 /\ Len(Top.rest) \in Nat /\ Len(phead) \in Nat
      BY <1>2, <2>2
    <3>2. avail' = avail + 1 /\ phead' = phead
      BY <1>4, <2>2, Zenon
    <3> HIDE DEF queue
    <3>3. Len(queue) \in Nat
      BY <1>3
    <3>4. (avail + 1) + Len(phead) + (Len(Top.rest) - 1) = avail + Len(phead) + Len(Top.rest)
      BY <1>2, <3>1, MoveOne, ZenonT(30)
    <3>5. avail' + Len(phead') + Len(queue) = avail + Len(phead) + Len(Top.rest)
      BY <3>1, <3>2, <3>4, Zenon
    <3>6. avail' \in Nat /\ phead' \in Seq(Sigs) /\ Len(phead') \in Nat
      BY <1>2, <3>1, <3>2
    <3> QED
      BY <3>3, <3>5, <3>6, Zenon
  <2> QED
    BY <2>1, <2>2, Zenon
<1> HIDE DEF queue
<1>6. fr \in Frames /\ fr.rest = queue /\ fr.saved = Top.saved /\ fr.ret = Top.ret
  BY <1>2, <1>3, ZenonT(30) DEF Frames
<1>7. ~fr.direct
  BY <1>1, <1>2, Zenon DEF Frames
<1> HIDE DEF fr
<1>8. /\ frames' \in Seq(Frames) /\ frames' # <<>>
      /\ Top' = fr /\ Front(frames') = Front(frames)
  BY <1>2, <1>4, <1>6, PushFacts, Zenon DEF Top
<1>9. Held' = Len(queue) /\ Held = Len(Top.rest)
  BY <1>1, <1>6, <1>8, Zenon DEF Held
<1>10. StorageConserved'
  <2>1. Stored' = Stored
    BY <1>5, <1>9, Zenon DEF Stored
  <2> QED
    BY <1>4, <2>1, StorageKept, Zenon
<1>10a. avail' \in 0 .. QueueSize
  <2>1. Held' \in Nat /\ avail' + Len(phead') + Held' <= QueueSize
    BY <1>5, <1>9, <1>10, Zenon DEF StorageConserved, Stored
  <2> QED
    BY <1>5, <2>1, SizeAssumption
<1>11. TypeOK'
  BY <1>1, <1>4, <1>5, <1>8, <1>10a, Zenon DEF IInv, TypeOK
<1>12. HandlerInv' /\ ProgramInv' /\ QuietInv' /\ BlockedMeansQueued'
  BY <1>1, <1>4, <1>6, <1>7, <1>8 DEF IInv, HandlerInv, ProgramInv, QuietInv, RunningIsTransient,
        BlockedMeansQueued, HandlerPcs, ProgramPcs
<1> QED
  BY <1>10, <1>11, <1>12, Zenon DEF IInv

\* The invocation returns: the mask and the step are those it interrupted.
LEMMA DoneStep ==
  ASSUME IInv, QueueDone \/ DirectDone
  PROVE  IInv'
<1>1. /\ pc \in HandlerPcs /\ pc' = Top.ret /\ masked' = Top.saved /\ frames' = Front(frames)
      /\ UNCHANGED <<depth, blocked, active, handlers, phead, installed, pending, arg, nest,
                     process, budget>>
  BY Zenon DEF QueueDone, DirectDone, HandlerPcs, globals
<1>2. /\ Top \in Frames /\ Front(frames) \in Seq(Frames) /\ Top.rest \in Seq(Sigs)
      /\ Top.saved \subseteq Others /\ Top.ret \in ProgramPcs
  BY <1>1, Invoked, Zenon
<1>3. pc' \in ProgramPcs /\ pc' \notin HandlerPcs /\ masked' \subseteq Others
  BY <1>1, <1>2, Zenon DEF ProgramPcs, HandlerPcs
<1>4. running' = 0 /\ blocked = -1 /\ (pc' \in {"register", "reset"} => nest = 0)
  BY <1>1, Zenon
  DEF QueueDone, DirectDone, globals, IInv, HandlerInv, ProgramInv, RunningIsTransient, TypeOK
<1>5. avail' + Len(phead') = avail + Len(phead) + Len(Top.rest) /\ avail' \in Nat
  <2>1. avail \in Nat /\ Len(phead) \in Nat /\ (Top.direct => Top.rest = <<>>)
    BY <1>1 DEF IInv, TypeOK, HandlerInv
  <2>2. /\ avail' = IF Top.rest = <<>> THEN avail ELSE avail + 1
        /\ Top.rest # <<>> => Len(Top.rest) = 1
    BY <2>1, Zenon DEF QueueDone, DirectDone, globals
  <2>3. CASE Top.rest = <<>>
    <3>1. Len(Top.rest) = 0
      BY <2>3
    <3>2. avail' = avail /\ phead' = phead
      BY <1>1, <2>2, <2>3, Zenon
    <3> QED
      BY <2>1, <3>1, <3>2
  <2>4. CASE Top.rest # <<>>
    <3>1. avail' = avail + 1 /\ phead' = phead /\ Len(Top.rest) = 1
      BY <1>1, <2>2, <2>4, Zenon
    <3> QED
      BY <2>1, <3>1
  <2> QED
    BY <2>3, <2>4, Zenon
<1>6. Held' = 0 /\ Held = Len(Top.rest)
  BY <1>1, <1>3, Zenon DEF Held
<1>7. StorageConserved' /\ avail' \in 0 .. QueueSize
  <2>1. Len(phead') \in Nat
    BY <1>1 DEF IInv, TypeOK
  <2>2. Stored' = avail' + Len(phead')
    BY <1>5, <1>6, <2>1 DEF Stored
  <2>3. Stored' = Stored
    BY <1>5, <1>6, <2>2, Zenon DEF Stored
  <2>4. StorageConserved'
    BY <1>1, <2>3, StorageKept, Zenon
  <2> QED
    BY <1>5, <2>1, <2>2, <2>4, SizeAssumption DEF StorageConserved
<1>8. TypeOK'
  BY <1>1, <1>2, <1>3, <1>4, <1>7, Zenon DEF IInv, TypeOK, Sigs
<1>9. HandlerInv' /\ ProgramInv' /\ BlockedMeansQueued'
  BY <1>1, <1>3, <1>4 DEF IInv, HandlerInv, ProgramInv, RunningIsTransient, BlockedMeansQueued
<1>10. QuietInv'
  BY <1>1, <1>3, Zenon DEF IInv, QuietInv
<1> QED
  BY <1>7, <1>8, <1>9, <1>10, Zenon DEF IInv

-----------------------------------------------------------------------------
(* The program                                                             *)

\* A step of the program that leaves the queue alone: what remains to be
\* shown is its types and what the program relies on.
LEMMA ProgramStep ==
  ASSUME IInv, pc \in ProgramPcs, pc' \in ProgramPcs, TypeOK', ProgramInv',
         UNCHANGED <<phead, avail>>, blocked' \in {blocked, -1},
         budget'.timed_out = budget.timed_out,
         masked' \subseteq masked, frames' \in {frames, <<>>}
  PROVE  IInv'
<1>1. pc \notin HandlerPcs /\ pc' \notin HandlerPcs
  BY Zenon DEF ProgramPcs, HandlerPcs
<1>2. Held = 0 /\ Held' = 0
  BY <1>1, Zenon DEF Held
<1>3. StorageConserved'
  BY <1>2, StorageKept, Zenon DEF Stored
<1>4. HandlerInv' /\ QuietInv' /\ BlockedMeansQueued'
  BY <1>1 DEF IInv, HandlerInv, QuietInv, BlockedMeansQueued
<1> QED
  BY <1>3, <1>4, Zenon DEF IInv

\* The bounds go down, and only CallTimeout writes timed_out.
LEMMA SpendFacts ==
  ASSUME NEW what \in {"raised", "blocks", "requests", "installs", "bailouts"},
         budget \in Budgets, Spend(what)
  PROVE  budget' \in Budgets /\ budget'.timed_out = budget.timed_out
BY DEF Budgets, Spend

\* A signal becomes pending, or goes to the disposition the process had
\* before its first request: neither touches the state of the engine.
LEMMA RaiseStep ==
  ASSUME IInv, NEW s \in Sigs, Raise(s) \/ DeliverOrig(s)
  PROVE  IInv'
<1>1. UNCHANGED <<depth, blocked, running, active, handlers, phead, avail, installed, masked,
                  pc, frames, arg, nest>>
  BY Zenon DEF Raise, DeliverOrig, globals, program
<1>2. /\ pending' \subseteq Sigs /\ process' \in {"up", "killed", "crashed"}
      /\ budget' \in Budgets /\ budget'.timed_out = budget.timed_out
  BY SpendFacts, Zenon DEF Raise, DeliverOrig, IInv, TypeOK
<1>3. Top' = Top /\ Front(frames)' = Front(frames) /\ Stored' = Stored
  BY <1>1, Zenon DEF Top, Stored, Held
<1>4. TypeOK'
  BY <1>1, <1>2, Zenon DEF IInv, TypeOK
<1>5. HandlerInv' /\ ProgramInv' /\ QuietInv' /\ BlockedMeansQueued'
  BY <1>1, <1>2, <1>3, Zenon DEF IInv, HandlerInv, ProgramInv, RunningIsTransient, QuietInv,
        BlockedMeansQueued
<1> QED
  BY <1>2, <1>3, <1>4, <1>5, StorageKept, Zenon DEF IInv

\* The ends of critical sections, and HANDLE_UNBLOCK_INTERRUPTIONS up to the
\* call of zend_signal_handler_unblock.
LEMMA SectionStep ==
  ASSUME IInv, Block \/ Unblock \/ Test \/ HandlerUnblockEmpty
  PROVE  IInv'
<1>1. /\ pc \in ProgramPcs /\ pc' \in ProgramPcs
      /\ pc' \in {"run", "test", "unblock"} /\ pc' \notin HandlerPcs
      /\ UNCHANGED <<blocked, running, active, handlers, phead, avail, installed, pending, masked,
                     frames, arg>>
      /\ process' \in {"up", "killed", "crashed"}
  BY Zenon
  DEF Block, Unblock, Test, HandlerUnblockEmpty, ProgramPcs, HandlerPcs, globals, kernel, IInv, TypeOK
<1>2. budget' \in Budgets /\ budget'.timed_out = budget.timed_out
  BY SpendFacts, Zenon DEF Block, Unblock, Test, HandlerUnblockEmpty, IInv, TypeOK
<1>3. depth' \in Int /\ nest' \in Nat /\ depth' >= nest'
  BY SMTT(30) DEF Block, Unblock, Test, HandlerUnblockEmpty, globals, IInv, TypeOK, ProgramInv
<1>4. TypeOK'
  BY <1>1, <1>2, <1>3, Zenon DEF IInv, TypeOK
<1>5. ProgramInv'
  BY <1>1, <1>3 DEF IInv, ProgramInv, RunningIsTransient
<1> QED
  BY <1>1, <1>2, <1>4, <1>5, ProgramStep, Zenon

\* A longjmp to the zend_try of the program.
LEMMA JumpStep ==
  ASSUME IInv, TimeoutBailout \/ Bailout
  PROVE  IInv'
<1>1. /\ pc = "run" /\ pc \in ProgramPcs
      /\ frames' = <<>> /\ nest' = 0 /\ arg' = {}
      /\ UNCHANGED <<depth, blocked, running, active, handlers, phead, avail, installed, pending,
                     masked, pc, process>>
  BY Zenon DEF TimeoutBailout, Bailout, Jump, ProgramPcs, globals, kernel
<1>2. budget' \in Budgets /\ budget'.timed_out = budget.timed_out
  BY SpendFacts, Zenon DEF TimeoutBailout, Bailout, IInv, TypeOK
<1>3. TypeOK'
  BY <1>1, <1>2 DEF IInv, TypeOK, HandlerPcs
<1>4. ProgramInv'
  BY <1>1 DEF IInv, TypeOK, ProgramInv, RunningIsTransient, HandlerPcs
<1> QED
  BY <1>1, <1>2, <1>3, <1>4, ProgramStep, Zenon

\* The signals and functions a request is about to install.
LEMMA RequestTypes ==
  ASSUME IInv, NEW s \in Sigs, NEW fn \in Fns, NEW once \in BOOLEAN
  PROVE  /\ Entry(fn, once) \in Entries
         /\ [handlers EXCEPT ![s] = Entry(fn, once)] \in [Sigs -> Entries]
         /\ [handlers EXCEPT ![s].once = once] \in [Sigs -> Entries]
         /\ [handlers EXCEPT ![s].fn = fn] \in [Sigs -> Entries]
<1>1. handlers \in [Sigs -> Entries] /\ Entry(fn, once) \in Entries
  BY Zenon DEF IInv, TypeOK, Entry, Entries
<1>2. /\ [handlers[s] EXCEPT !.once = once] \in Entries
      /\ [handlers[s] EXCEPT !.fn = fn] \in Entries
  <2>1. handlers[s] \in Entries
    BY <1>1, Zenon
  <2> QED
    BY <2>1, Zenon DEF Entries
<1> QED
  BY <1>1, <1>2, Zenon

\* The first half of zend_sigaction stores flags of the right type.
LEMMA StoreFlagsFacts ==
  ASSUME IInv, NEW s \in Sigs, NEW entry \in Entries, StoreFlags(s, entry)
  PROVE  /\ handlers' \in [Sigs -> Entries] /\ pc' = "sigaction" /\ arg' \subseteq Sigs \X Fns
<1>1. entry.once \in BOOLEAN /\ entry.fn \in Fns
  BY Zenon DEF Entries
<1>2. [handlers EXCEPT ![s].once = entry.once] \in [Sigs -> Entries]
  BY <1>1, RequestTypes, ZenonT(30)
<1>3. handlers' \in [Sigs -> Entries]
  BY <1>2, Zenon DEF StoreFlags
<1>4. pc' = "sigaction" /\ arg' = {<<s, entry.fn>>}
  BY Zenon DEF StoreFlags
<1> QED
  BY <1>1, <1>3, <1>4

\* The steps of zend_signal_activate, zend_signal_deactivate and
\* zend_sigaction.
LEMMA RequestStep ==
  ASSUME IInv, Request
  PROVE  IInv'
<1>0. Prof \in Sigs /\ Entry("timeout", FALSE) \in Entries
  BY Zenon DEF Sigs, Entry, Entries, Fns
<1>1. /\ pc \in ProgramPcs /\ UNCHANGED <<phead, avail, pending, frames, process, nest>>
      /\ blocked' \in {blocked, -1} /\ running' \in {running, 0}
      /\ masked' \subseteq masked
  BY ZenonT(30)
  DEF Request, Activate, Register, SetActive, ResetDepth, StoreHandler, Deactivate, Sigaction,
         InProgram, ProgramPcs, kernel, program
<1>2. budget' \in Budgets /\ budget'.timed_out = budget.timed_out
  BY SpendFacts, ZenonT(30)
  DEF Request, Activate, Register, SetActive, ResetDepth, StoreHandler, Deactivate,
         Sigaction, IInv, TypeOK
<1>3. handlers' \in [Sigs -> Entries] /\ arg' \subseteq Sigs \X Fns /\ installed' \subseteq Sigs
  <2>1. CASE Activate
    BY <2>1, OrigAssumption DEF Activate, IInv, TypeOK, Entry, Entries, Fns, kernel
  <2>2. CASE Register \/ StoreHandler
    <3>1. PICK a \in arg :
             /\ installed' = installed \cup {a[1]}
             /\ arg' = arg \ {a} \/ arg' = {}
             /\ handlers' = [handlers EXCEPT ![a[1]] = Entry(a[2], FALSE)]
                \/ handlers' = [handlers EXCEPT ![a[1]].fn = a[2]]
      BY <2>2, ZenonT(30) DEF Register, StoreHandler
    <3>2. a[1] \in Sigs /\ a[2] \in Fns /\ arg \subseteq Sigs \X Fns /\ installed \subseteq Sigs
      BY <3>1, Zenon DEF IInv, TypeOK
    <3>3. /\ [handlers EXCEPT ![a[1]] = Entry(a[2], FALSE)] \in [Sigs -> Entries]
          /\ [handlers EXCEPT ![a[1]].fn = a[2]] \in [Sigs -> Entries]
      BY <3>2, RequestTypes, ZenonT(30)
    <3>4. handlers' \in [Sigs -> Entries]
      BY <3>1, <3>3, Zenon
    <3>5. arg' \subseteq Sigs \X Fns /\ installed' \subseteq Sigs
      <4>1. (arg' = arg \ {a} \/ arg' = {}) /\ installed' = installed \cup {a[1]}
        BY <3>1, Zenon
      <4> QED
        BY <3>2, <4>1, Zenon
    <3> QED
      BY <3>4, <3>5, Zenon
  <2>3. CASE ResetDepth
    BY <1>0, <2>3, StoreFlagsFacts, ZenonT(30) DEF ResetDepth, IInv, TypeOK, kernel
  <2>4. CASE \E s \in Sigs, entry \in UserFns : Sigaction(s, entry)
    BY <2>4, StoreFlagsFacts, UserAssumption, Zenon DEF Sigaction, IInv, TypeOK, kernel
  <2>5. CASE SetActive \/ Deactivate
    BY <2>5, Zenon DEF SetActive, Deactivate, IInv, TypeOK, kernel, program
  <2> QED
    BY <2>1, <2>2, <2>3, <2>4, <2>5, Zenon DEF Request
<1>4. pc' \in ProgramPcs /\ pc' \notin HandlerPcs /\ active' \in {0, 1}
  BY StoreFlagsFacts, ZenonT(30)
  DEF Request, Activate, Register, SetActive, ResetDepth, StoreHandler, Deactivate,
         Sigaction, StoreFlags, InProgram, ProgramPcs, HandlerPcs, kernel, program, IInv, TypeOK
<1>5. /\ depth' \in Int /\ depth' >= nest'
      /\ pc' \in {"register", "reset"} => nest' = 0
      /\ active' = 0 => blocked' = -1
  <2>1. nest \in Nat /\ depth \in Int /\ depth >= nest
    BY Zenon DEF IInv, TypeOK, ProgramInv
  <2>2. CASE Activate
    BY <2>1, <2>2, Zenon DEF Activate, IInv, ProgramInv
  <2>3. CASE Register \/ SetActive
    <3>1. UNCHANGED <<depth, blocked, nest>> /\ pc = "register" /\ active' \in {active, 1}
      BY <2>3, Zenon DEF Register, SetActive
    <3> QED
      BY <2>1, <3>1 DEF IInv, ProgramInv
  <2>4. CASE ResetDepth
    BY <2>1, <2>4 DEF ResetDepth, StoreFlags, IInv, ProgramInv
  <2>5. CASE StoreHandler \/ Deactivate
    BY <2>1, <2>5 DEF StoreHandler, Deactivate, InProgram, program, IInv, ProgramInv
  <2>6. CASE \E s \in Sigs, entry \in UserFns : Sigaction(s, entry)
    BY <2>1, <2>6, Zenon DEF Sigaction, StoreFlags, IInv, ProgramInv
  <2> QED
    BY <2>2, <2>3, <2>4, <2>5, <2>6, Zenon DEF Request
<1>6. TypeOK'
  BY <1>1, <1>2, <1>3, <1>4, <1>5, Zenon DEF IInv, TypeOK
<1>7. ProgramInv'
  BY <1>1, <1>4, <1>5 DEF IInv, ProgramInv, RunningIsTransient
<1> QED
  BY <1>1, <1>2, <1>4, <1>6, <1>7, ProgramStep, Zenon

-----------------------------------------------------------------------------
(* Theorems                                                                *)

\* zend_signal_startup establishes the invariant.
LEMMA InitIInv == Init => IInv
<1> SUFFICES ASSUME Init PROVE IInv
  BY Zenon
<1>1. pc = "run" /\ pc \in ProgramPcs /\ pc \notin HandlerPcs
  BY Zenon DEF Init, ProgramPcs, HandlerPcs
<1>2. handlers \in [Sigs -> Entries]
  BY Zenon DEF Init, Entry, Entries, Fns
<1>3. budget \in Budgets
  BY BoundsAssumption, Zenon DEF Init, Budgets
<1>4. phead = <<>> /\ frames = <<>> /\ Held = 0
  BY <1>1, Zenon DEF Init, Held
<1>5. TypeOK
  <2>1. /\ depth \in Int /\ blocked \in {-1, 0} /\ running \in {0, 1} /\ active \in {0, 1}
        /\ avail \in 0 .. QueueSize /\ nest \in Nat
    BY SizeAssumption DEF Init
  <2>2. /\ installed \subseteq Sigs /\ pending \subseteq Sigs /\ masked \subseteq Sigs
        /\ arg \subseteq Sigs \X Fns /\ process \in {"up", "killed", "crashed"}
    BY Zenon DEF Init
  <2>3. phead \in Seq(Sigs) /\ frames \in Seq(Frames)
    BY <1>4
  <2> QED
    BY <1>1, <1>2, <1>3, <2>1, <2>2, <2>3, Zenon DEF TypeOK
<1>6. HandlerInv /\ ProgramInv /\ QuietInv /\ BlockedMeansQueued
  BY <1>1, <1>4 DEF Init, HandlerInv, ProgramInv, QuietInv, BlockedMeansQueued, RunningIsTransient
<1>7. StorageConserved
  BY <1>4, SizeAssumption DEF Init, StorageConserved, Stored
<1> QED
  BY <1>5, <1>6, <1>7, Zenon DEF IInv

\* Every step keeps the invariant.
LEMMA NextIInv == IInv /\ [Next]_vars => IInv'
<1> SUFFICES ASSUME IInv, [Next]_vars PROVE IInv'
  BY Zenon
<1>1. CASE UNCHANGED vars
  <2>1. UNCHANGED <<depth, blocked, running, active, handlers, phead, avail, installed, pending,
                    masked, pc, frames, arg, nest, process, budget>>
    BY <1>1, Zenon DEF vars, globals, kernel, program
  <2>2. TypeOK' /\ BlockedMeansQueued'
    BY <2>1, ZenonT(30) DEF IInv, TypeOK, BlockedMeansQueued
  <2>3. HandlerInv' /\ ProgramInv' /\ QuietInv'
    BY <2>1, ZenonT(30)
    DEF IInv, HandlerInv, ProgramInv, QuietInv, BlockedMeansQueued, RunningIsTransient, Top
  <2>4. StorageConserved'
    BY <2>1, ZenonT(30) DEF IInv, StorageConserved, Stored, Held, Top
  <2> QED BY <2>2, <2>3, <2>4, Zenon DEF IInv
<1>2. CASE Next
  BY <1>2, DeliverStep, UnblockStep, CallStep, TimeoutStep, NextStep, DoneStep, RaiseStep,
     SectionStep, JumpStep, RequestStep, Zenon DEF Next, Handle
<1> QED
  BY <1>1, <1>2, Zenon

\* The inductive invariant holds throughout.
THEOREM SignalInvariant == Spec => []IInv
BY InitIInv, NextIInv, PTL DEF Spec

\* The globals of zend_signal.c, the kernel's state and the frames of the
\* handlers have their types.
THEOREM TypeCorrect == Spec => []TypeOK
<1>1. IInv => TypeOK
  BY Zenon DEF IInv
<1> QED
  BY <1>1, SignalInvariant, PTL

\* No handler starts in the middle of a critical section while the engine is
\* active (zend_signal_handler_defer runs one only at depth 0, and depth never
\* counts less than the sections the program is in).
THEOREM SectionsAreProtected == Spec => []CriticalSection
<1>1. IInv => CriticalSection
  BY Zenon DEF IInv, HandlerInv, CriticalSection, HandlerPcs
<1> QED
  BY <1>1, SignalInvariant, PTL

\* running is set only while an invocation that will clear it is in progress.
THEOREM RunningIsCleared == Spec => []RunningIsTransient
<1>1. IInv => RunningIsTransient
  BY Zenon DEF IInv, ProgramInv
<1> QED
  BY <1>1, SignalInvariant, PTL

\* Whatever longjmps there were, the program can be timed out again.
THEOREM TimerIsDeliverable == Spec => []TimerStaysDeliverable
<1>1. IInv => TimerStaysDeliverable
  BY ProfAssumption, Zenon DEF IInv, TypeOK, ProgramInv, TimerStaysDeliverable
<1> QED
  BY <1>1, SignalInvariant, PTL

\* Entries of pstorage are never on two lists, and until zend_timeout jumps
\* out of the loop none is lost.
THEOREM StorageIsConserved == Spec => []StorageConserved
<1>1. IInv => StorageConserved
  BY Zenon DEF IInv
<1> QED
  BY <1>1, SignalInvariant, PTL

\* The flag blocked announces a signal that is in the queue, until storage
\* has leaked.
THEOREM BlockedSignalIsQueued == Spec => []BlockedMeansQueued
<1>1. IInv => BlockedMeansQueued
  BY Zenon DEF IInv
<1> QED
  BY <1>1, SignalInvariant, PTL

\* Handlers that return leave the mask of the program as it was.
THEOREM MaskIsRestored == Spec => []MaskRestored
<1>1. IInv => MaskRestored
  BY Zenon DEF IInv, TypeOK, QuietInv, MaskRestored
<1> QED
  BY <1>1, SignalInvariant, PTL
=============================================================================
