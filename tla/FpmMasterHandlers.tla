------------------------- MODULE FpmMasterHandlers --------------------------
(***************************************************************************)
(* The steps of fpm_children_make, fpm_children_bury, fpm_pctl and of the  *)
(* event loop keep the invariant.                                          *)
(***************************************************************************)
EXTENDS FpmMasterInvariant

-----------------------------------------------------------------------------
(* The lists and the scoreboard when no child comes or goes.               *)

(* Steps that move no child and write no slot.                             *)
LEMMA RegistrySame ==
  ASSUME Registry, UNCHANGED <<children, scoreboard_i, request_stage, status>>,
         idle_kill' \subseteq Linked, long_idle' \subseteq Linked,
         free_proc' \in [Pools -> Nat], \A w \in Pools : free_proc'[w] \in Slots(w)
  PROVE  Registry' /\ Linked' = Linked
  <1>1. Linked' = Linked
    BY Zenon DEF Linked
  <1>2. ChildrenKnown'
    BY <1>1, Zenon DEF Registry, ChildrenKnown
  <1>3. SlotsOwned'
    BY DEF Registry, SlotsOwned
  <1>4. StageIsOwn'
    BY Zenon DEF Registry, StageIsOwn
  <1>5. QED BY <1>1, <1>2, <1>3, <1>4, Zenon DEF Registry

(* A child goes on, or ends, and may report its stage.                     *)
LEMMA RegistryChild ==
  ASSUME Registry, NEW p \in Pids, status[p] # "none",
         NEW new \in Statuses \ {"none"}, status' = [status EXCEPT ![p] = new],
         UNCHANGED <<structs, free_proc>>,
         \/ /\ UNCHANGED <<request_stage, long_idle>>
            /\ new \notin {"starting", "accepting", "busy"}
         \/ \E stage \in Stages \ {"unused"} :
              /\ Report(p, stage)
              /\ new = "starting" => stage = "none"
              /\ new = "accepting" => stage = "accepting"
              /\ new = "busy" => stage = "running"
  PROVE  Registry' /\ Linked' = Linked
  <1> DEFINE wp == PoolOf(p)
             i == scoreboard_i[p]
  <1>1. UNCHANGED <<children, scoreboard_i, idle_kill>> /\ Linked' = Linked
    BY Zenon DEF structs, Linked
  <1>2. /\ wp \in Pools /\ p \in Range(children[wp]) /\ i \in Slots(wp)
        /\ \A w \in Pools : p \in Range(children[w]) => w = wp
    BY PoolOfFacts, Zenon
  <1>2a. \A q \in Range(children[wp]) : scoreboard_i[q] = i => q = p
    BY <1>2 DEF Registry, SlotsOwned
  <1>2b. request_stage[wp][i] # "unused"
    BY <1>2, Zenon DEF Registry, SlotsOwned
  <1>3. PICK stage \in Stages \ {"unused"} :
          /\ DOMAIN request_stage' = Pools
          /\ \A w \in Pools : request_stage'[w] \in [Slots(w) -> Stages]
          /\ \A w \in Pools : \A j \in Slots(w) :
               request_stage'[w][j] = IF w = wp /\ j = i THEN stage ELSE request_stage[w][j]
          /\ new = "starting" => stage = "none"
          /\ new = "accepting" => stage = "accepting"
          /\ new = "busy" => stage = "running"
    <2>1. CASE UNCHANGED <<request_stage, long_idle>> /\ new \notin {"starting", "accepting", "busy"}
      <3>1. request_stage[wp][i] \in Stages \ {"unused"}
        BY <1>2, <1>2b, Zenon DEF Registry
      <3>2. /\ DOMAIN request_stage' = Pools
            /\ \A w \in Pools : request_stage'[w] \in [Slots(w) -> Stages]
            /\ \A w \in Pools : \A j \in Slots(w) : request_stage'[w][j] = request_stage[w][j]
        BY <2>1, Zenon DEF Registry
      <3>3. QED BY <2>1, <3>1, <3>2, Zenon
    <2>2. CASE \E stage \in Stages \ {"unused"} :
                 /\ Report(p, stage)
                 /\ new = "starting" => stage = "none"
                 /\ new = "accepting" => stage = "accepting"
                 /\ new = "busy" => stage = "running"
      <3>1. PICK stage \in Stages \ {"unused"} :
                 /\ Report(p, stage)
                 /\ new = "starting" => stage = "none"
                 /\ new = "accepting" => stage = "accepting"
                 /\ new = "busy" => stage = "running"
        BY <2>2, Zenon
      <3>2. request_stage' = [request_stage EXCEPT ![wp][i] = stage]
        BY <3>1, Zenon DEF Report
      <3> HIDE DEF wp, i
      <3>3. /\ DOMAIN request_stage' = Pools
            /\ \A w \in Pools : request_stage'[w] \in [Slots(w) -> Stages]
            /\ \A w \in Pools : \A j \in Slots(w) :
                 request_stage'[w][j] = IF w = wp /\ j = i THEN stage ELSE request_stage[w][j]
        BY <1>2, <3>1, <3>2, StageFacts DEF Registry
      <3>4. QED BY <3>1, <3>3, Zenon
    <2>3. QED BY <2>1, <2>2, Zenon
  <1>4. long_idle' \subseteq long_idle
    BY Zenon DEF Report
  <1> HIDE DEF wp, i
  <1>5. /\ status' \in [Pids -> Statuses] /\ status'[p] = new
        /\ \A q \in Pids \ {p} : status'[q] = status[q]
    BY Zenon DEF Registry
  <1>6. ChildrenKnown'
    <2>1. Linked = {q \in Pids : status[q] # "none"}
      BY Zenon DEF Registry, ChildrenKnown
    <2>2. Linked' = {q \in Pids : status'[q] # "none"}
      BY <1>1, <1>5, <2>1, Zenon
    <2>3. QED BY <1>1, <2>2, Zenon DEF Registry, ChildrenKnown
  <1>7. SlotsOwned'
    <2> SUFFICES ASSUME NEW w \in Pools, NEW j \in Slots(w)
                 PROVE  request_stage'[w][j] # "unused" <=> request_stage[w][j] # "unused"
      BY <1>1 DEF Registry, SlotsOwned
    <2>1. QED BY <1>2b, <1>3, Zenon
  <1>8. StageIsOwn'
    <2> SUFFICES ASSUME NEW w \in Pools, NEW q \in Range(children[w])
                 PROVE  LET stg == request_stage'[w][scoreboard_i[q]] IN
                        /\ status'[q] = "starting" => stg = "none"
                        /\ status'[q] = "accepting" => stg = "accepting"
                        /\ status'[q] = "busy" => stg = "running"
      BY <1>1, Zenon DEF StageIsOwn
    <2>1. q \in Pids /\ scoreboard_i[q] \in Slots(w)
      BY LinkedFacts, Zenon DEF Registry
    <2>2. CASE q = p
      <3>1. w = wp /\ scoreboard_i[q] = i
        BY <1>2, <2>2, Zenon DEF i
      <3>2. QED BY <1>2, <1>3, <1>5, <2>2, <3>1, Zenon
    <2>3. CASE q # p
      <3>1. request_stage'[w][scoreboard_i[q]] = request_stage[w][scoreboard_i[q]]
        BY <1>2a, <1>3, <2>1, <2>3
      <3>2. QED BY <1>5, <2>1, <2>3, <3>1, Zenon DEF Registry, StageIsOwn
    <2>4. QED BY <2>2, <2>3, Zenon
  <1>9. QED BY <1>1, <1>3, <1>4, <1>5, <1>6, <1>7, <1>8, Zenon DEF Registry

(* The memory of a master that starts, when it has no children.            *)
Fresh ==
  /\ children = NoChildren /\ scoreboard_i = NoSlot /\ idle_kill = {}
  /\ request_stage = AllUnused /\ long_idle = {} /\ free_proc = FirstSlot
  /\ status \in [Pids -> Statuses] /\ \A p \in Pids : status[p] = "none"

(* A master that starts has no child and all slots free.                   *)
LEMMA RegistryFresh == Fresh => Registry /\ Linked = {}
  <1> SUFFICES ASSUME Fresh
               PROVE  Registry /\ Linked = {}
    BY Zenon
  <1> USE DEF Fresh
  <1>1. /\ children \in [Pools -> Seq(Pids)]
        /\ \A w \in Pools : children[w] = <<>>
    BY DEF NoChildren
  <1>2. \A w \in Pools : Range(children[w]) = {} /\ IsInjective(children[w])
    BY <1>1 DEF Range, IsInjective
  <1>3. Linked = {}
    BY <1>2, Zenon DEF Linked
  <1>4. /\ DOMAIN request_stage = Pools
        /\ \A w \in Pools : request_stage[w] = [i \in Slots(w) |-> "unused"]
    BY Zenon DEF AllUnused
  <1>5. \A w \in Pools : /\ request_stage[w] \in [Slots(w) -> Stages]
                         /\ \A i \in Slots(w) : request_stage[w][i] = "unused"
    BY <1>4 DEF Stages
  <1>6. free_proc \in [Pools -> Nat] /\ \A w \in Pools : free_proc[w] \in Slots(w)
    BY ConfigAssumption DEF FirstSlot, Slots
  <1>7. scoreboard_i \in [Pids -> Nat]
    BY Zenon DEF NoSlot
  <1>8. ChildrenKnown
    BY <1>2, <1>3, Zenon DEF ChildrenKnown
  <1>9. SlotsOwned /\ StageIsOwn
    BY <1>2, <1>5, Zenon DEF SlotsOwned, StageIsOwn
  <1>10. QED
    BY <1>1, <1>2, <1>3, <1>4, <1>5, <1>6, <1>7, <1>8, <1>9, Zenon DEF Registry

-----------------------------------------------------------------------------
(* The other parts of the invariant.                                       *)

(* The facts about processes depend on the processes alone.                *)
LEMMA ProcessesSame ==
  ASSUME Processes, UNCHANGED process
  PROVE  Processes'
  BY Zenon DEF Processes, process, Alive, Zombie

(* kill()                                                                  *)
LEMMA ProcessesSignal ==
  ASSUME Processes, NEW kids, NEW sig \in Signals, pending' = Signalled(kids, sig),
         UNCHANGED <<status, in_shutdown>>
  PROVE  Processes'
  <1>1. \A p \in Pids : Alive(p)' <=> Alive(p)
    BY Zenon DEF Alive, Zombie
  <1>2. pending' = [p \in Pids |-> IF p \in kids /\ Alive(p) THEN pending[p] \cup {sig}
                                                             ELSE pending[p]]
    BY Zenon DEF Signalled
  <1>3. pending' \in [Pids -> SUBSET Signals]
    BY <1>2, Zenon DEF Processes
  <1>4. \A p \in Pids : pending'[p] # {} => Alive(p)
    BY <1>2, Zenon DEF Processes
  <1>5. QED BY <1>1, <1>3, <1>4, Zenon DEF Processes

(* The limits depend on the lists alone.                                   *)
LEMMA MaxSame ==
  ASSUME Mastering, UNCHANGED children
  PROVE  MaxChildren'
  BY DEF Mastering, MaxChildren, running_children, AllRunning, Linked

(* The master goes on with what it does.                                   *)
LEMMA MasterSame ==
  ASSUME Mastering, UNCHANGED <<children, master>>
  PROVE  Mastering'
  <1>1. MaxChildren'
    BY MaxSame, Zenon
  <1>2. QED BY <1>1, ZenonT(30) DEF Mastering, Linked, pool

(* The master turns to something other than making children.               *)
LEMMA MasterDoing ==
  ASSUME MaxChildren', NEW op \in Ops \ {"make"}, NEW rest \in Seq(Pools),
         master' = Doing(op, rest), op \in {"exec", "exit"} => Linked' = {}
  PROVE  Mastering'
  BY Zenon DEF Mastering, Doing

(* The master turns to making children, within the limit of the pool.      *)
LEMMA MasterMaking ==
  ASSUME MaxChildren', NEW rest \in Seq(Pools), rest # <<>>, NEW max \in Nat,
         max <= pm_max_children[Head(rest)],
         NEW then \in {"start", "maintain", "bury", "loop"},
         master' = Making(rest, max, then)
  PROVE  Mastering'
  BY Zenon DEF Mastering, Making, Ops, pool

(* The master returns to its event loop.                                   *)
LEMMA MasterLoop ==
  ASSUME MaxChildren', master' = Loop
  PROVE  Mastering'
  <1>1. "loop" \in Ops \ {"make"} /\ <<>> \in Seq(Pools) /\ "loop" \notin {"exec", "exit"}
    BY DEF Ops
  <1>2. QED BY <1>1, MasterDoing, ZenonT(30) DEF Loop

(* fpm_pctl_action_next, and fpm_pctl with FPM_PCTL_ACTION_SET: who is     *)
(* signalled, and what the master does next.                               *)
LEMMA ActionNextFacts ==
  ASSUME NEW state \in {"normal", "reloading", "terminating", "finishing"},
         NEW sent \in {"none"} \cup Signals, NEW kids, NEW next,
         ActionNext(state, sent, kids, next)
  PROVE  /\ fpm_state' \in {"normal", "reloading", "terminating", "finishing"}
         /\ fpm_signal_sent' \in {"none"} \cup Signals
         /\ UNCHANGED pending \/ \E sig \in Signals : pending' = Signalled(kids, sig)
         /\ \/ master' = next
            \/ kids = {} /\ \E op \in {"exec", "exit"} : master' = Doing(op, <<>>)
  <1>1. NextSignal(state, sent) \in Signals
    BY Zenon DEF NextSignal, Signals
  <1>2. QED BY <1>1, Zenon DEF ActionNext, ActionLast

(* fpm_pctl signals the children, or exits or calls execvp() without any.  *)
LEMMA PctlSetFacts ==
  ASSUME Scalars, NEW new \in {"reloading", "terminating", "finishing"}, NEW kids, NEW next,
         PctlSet(new, kids, next)
  PROVE  /\ fpm_state' \in {"normal", "reloading", "terminating", "finishing"}
         /\ fpm_signal_sent' \in {"none"} \cup Signals
         /\ pctl_event' \in BOOLEAN
         /\ UNCHANGED pending \/ \E sig \in Signals : pending' = Signalled(kids, sig)
         /\ \/ master' = next
            \/ kids = {} /\ \E op \in {"exec", "exit"} : master' = Doing(op, <<>>)
  <1>1. CASE MayOverride(fpm_state, new)
    BY <1>1, ActionNextFacts DEF PctlSet
  <1>2. CASE ~MayOverride(fpm_state, new)
    BY <1>2, Zenon DEF PctlSet, pctl, Scalars
  <1>3. QED BY <1>1, <1>2, Zenon

(* After such a step.                                                      *)
LEMMA MasterAfterPctl ==
  ASSUME MaxChildren', NEW kids, NEW next, kids = Linked',
         master' = next => Mastering',
         \/ master' = next
         \/ kids = {} /\ \E op \in {"exec", "exit"} : master' = Doing(op, <<>>)
  PROVE  Mastering'
  <1>1. CASE kids = {} /\ \E op \in {"exec", "exit"} : master' = Doing(op, <<>>)
    <2>1. PICK op \in {"exec", "exit"} : master' = Doing(op, <<>>)
      BY <1>1, Zenon
    <2>2. op \in Ops \ {"make"} /\ <<>> \in Seq(Pools) /\ Linked' = {}
      BY <1>1 DEF Ops
    <2>3. QED BY <2>1, <2>2, MasterDoing, ZenonT(30)
  <1>2. QED BY <1>1, Zenon

(* Signals sent to children leave the facts about processes alone.         *)
LEMMA ProcessesAfterPctl ==
  ASSUME Processes, NEW kids, UNCHANGED <<status, in_shutdown>>,
         UNCHANGED pending \/ \E sig \in Signals : pending' = Signalled(kids, sig)
  PROVE  Processes'
  BY ProcessesSame, ProcessesSignal, Zenon DEF process

(* Steps that leave the lists and the scoreboard alone.                    *)
LEMMA RegistryFrame ==
  ASSUME IInv, UNCHANGED <<structs, slots, status>>
  PROVE  Registry' /\ Linked' = Linked /\ MaxChildren'
  <1>1. /\ UNCHANGED <<children, scoreboard_i, request_stage, status>>
        /\ UNCHANGED <<idle_kill, long_idle, free_proc>>
    BY Zenon DEF structs, slots
  <1>2. Registry' /\ Linked' = Linked
    BY <1>1, RegistrySame, Zenon DEF IInv, Registry
  <1>3. MaxChildren'
    BY <1>1, MaxSame, Zenon DEF IInv
  <1>4. QED BY <1>2, <1>3, Zenon

-----------------------------------------------------------------------------
(* fpm_children_make and fpm_run.                                          *)

(* fpm_children_make forks a child.                                        *)
LEMMA StepFork ==
  ASSUME IInv, NEW p \in Pids, Fork(p)
  PROVE  IInv'
  <1>1. Registry'
    BY RegistryFork, Zenon DEF IInv
  <1>2. /\ pool \in Pools /\ p \notin Linked /\ Linked' = Linked \cup {p}
        /\ Len(children'[pool]) = Len(children[pool]) + 1
        /\ \A w \in Pools \ {pool} : children'[w] = children[w]
    BY ForkChildren, Zenon DEF IInv
  <1>3. Processes'
    <2>1. /\ status' = [status EXCEPT ![p] = "starting"]
          /\ UNCHANGED <<pending, in_shutdown>> /\ status \in [Pids -> Statuses]
      BY Zenon DEF Fork, IInv, Registry
    <2>2. \A q \in Pids : Alive(q) => Alive(q)'
      BY <2>1, Zenon DEF Alive, Zombie, Zombies
    <2>3. QED BY <2>1, <2>2, Zenon DEF IInv, Processes
  <1>4. MaxChildren'
    <2>1. /\ running_children(pool) < master.max /\ master.max <= pm_max_children[pool]
          /\ master.max \in Nat /\ pm_max_children[pool] \in Nat
      BY <1>2, ConfigAssumption, Zenon DEF Fork, CanMake, IInv, Mastering
    <2>2. Len(children[pool]) \in Nat
      BY <1>2, LinkedFacts, Zenon DEF IInv
    <2>3. Len(children'[pool]) <= pm_max_children[pool]
      BY <1>2, <2>1, <2>2 DEF running_children
    <2>4. \A w \in Pools : Len(children'[w]) <= pm_max_children[w]
      BY <1>2, <2>3, Zenon DEF IInv, Mastering, MaxChildren, running_children
    <2>5. ASSUME process_max > 0
          PROVE  Cardinality(Linked') <= process_max
      <3>1. Cardinality(Linked) < process_max
        BY <2>5, ConfigAssumption DEF Fork, CanMake, AllRunning
      <3>2. Cardinality(Linked') = Cardinality(Linked) + 1 /\ Cardinality(Linked) \in Nat
        BY <1>2, LinkedFacts, FS_AddElement, FS_CardinalityType, Zenon DEF IInv
      <3>3. QED BY <3>1, <3>2, ConfigAssumption
    <2>6. QED BY <2>4, <2>5, Zenon DEF MaxChildren, running_children, AllRunning
  <1>5. Mastering'
    BY <1>4, Zenon DEF Fork, IInv, Mastering, pool
  <1>6. Scalars'
    BY Zenon DEF Fork, IInv, Scalars, pctl, network, faults
  <1>7. QED BY <1>1, <1>3, <1>5, <1>6, Zenon DEF IInv

(* The caller of fpm_children_make goes on.                                *)
LEMMA MakeReturnsFacts ==
  ASSUME IInv, master.op = "make", MakeReturns, UNCHANGED children
  PROVE  Mastering' /\ idle_spawn_rate' \in [Pools -> 1 .. 2 * FPM_MAX_SPAWN_RATE]
  <1>1. /\ pool \in Pools /\ Tail(master.rest) \in Seq(Pools) /\ <<>> \in Seq(Pools)
        /\ master.then \in {"start", "maintain", "bury", "loop"}
    BY PoolFacts DEF IInv, Mastering
  <1>2. MaxChildren'
    BY MaxSame, Zenon DEF IInv
  <1>3. \E op \in {"start", "maintain", "bury", "loop"}, rest \in Seq(Pools) : master' = Doing(op, rest)
    BY <1>1, ZenonT(30) DEF MakeReturns
  <1>4. Mastering'
    <2>1. PICK op \in {"start", "maintain", "bury", "loop"}, rest \in Seq(Pools) : master' = Doing(op, rest)
      BY <1>3, Zenon
    <2>2. op \in Ops \ {"make"} /\ op \notin {"exec", "exit"}
      BY Zenon DEF Ops
    <2>3. QED BY <1>2, <2>1, <2>2, MasterDoing, Zenon
  <1>5. idle_spawn_rate' \in [Pools -> 1 .. 2 * FPM_MAX_SPAWN_RATE]
    <2>1. idle_spawn_rate \in [Pools -> 1 .. 2 * FPM_MAX_SPAWN_RATE] /\ FPM_MAX_SPAWN_RATE \in Nat
      BY ConfigAssumption, Zenon DEF IInv, Scalars
    <2>2. CASE idle_spawn_rate' = idle_spawn_rate
      BY <2>1, <2>2, Zenon
    <2>3. CASE idle_spawn_rate[pool] < FPM_MAX_SPAWN_RATE
               /\ idle_spawn_rate' = [idle_spawn_rate EXCEPT ![pool] = 2 * @]
      <3>1. 2 * idle_spawn_rate[pool] \in 1 .. 2 * FPM_MAX_SPAWN_RATE
        BY <1>1, <2>1, <2>3
      <3>2. QED BY <1>1, <2>1, <2>3, <3>1, Zenon
    <2>4. QED BY <2>2, <2>3, Zenon DEF MakeReturns
  <1>6. QED BY <1>4, <1>5, Zenon

(* fpm_children_make ends with the limit reached or the pool stopped.      *)
LEMMA StepMakeDone ==
  ASSUME IInv, MakeDone
  PROVE  IInv'
  <1>1. UNCHANGED <<pctl, pipe, network, structs, slots, faults, process>>
    BY Zenon DEF MakeDone
  <1>2. UNCHANGED children /\ UNCHANGED status
    BY <1>1, Zenon DEF structs, process
  <1>3. Registry' /\ Processes'
    BY <1>1, <1>2, RegistryFrame, ProcessesSame, Zenon DEF IInv
  <1>4. Mastering' /\ idle_spawn_rate' \in [Pools -> 1 .. 2 * FPM_MAX_SPAWN_RATE]
    BY <1>2, MakeReturnsFacts, Zenon DEF MakeDone
  <1>5. Scalars'
    BY <1>1, <1>4, Zenon DEF IInv, Scalars, pctl, network, faults
  <1>6. QED BY <1>3, <1>4, <1>5, Zenon DEF IInv

(* A fork that fails gives the slot back.                                  *)
LEMMA MakeFailedFacts ==
  ASSUME IInv, MakeFailed
  PROVE  /\ Registry' /\ Linked' = Linked /\ MaxChildren'
         /\ UNCHANGED <<pipe, network, children, faults, status, in_shutdown>>
  <1>1. /\ UNCHANGED <<pipe, network, faults, status, in_shutdown>>
        /\ UNCHANGED <<children, scoreboard_i, idle_kill, request_stage, long_idle>>
    BY Zenon DEF MakeFailed, structs
  <1>2. pool \in Pools
    BY PoolFacts, Zenon DEF MakeFailed, IInv, Mastering
  <1>3. free_proc' \in [Pools -> Nat] /\ \A w \in Pools : free_proc'[w] \in Slots(w)
    <2>1. free_proc \in [Pools -> Nat] /\ \A w \in Pools : free_proc[w] \in Slots(w)
      BY Zenon DEF IInv, Registry
    <2>2. CASE free_proc' = free_proc
      BY <2>1, <2>2, Zenon
    <2>3. CASE FreeSlot(pool) # 0 /\ free_proc' = [free_proc EXCEPT ![pool] = FreeSlot(pool)]
      <3>1. FreeSlot(pool) \in Slots(pool) /\ FreeSlot(pool) \in Nat
        BY <1>2, <2>3, FreeSlotFacts, ConfigAssumption DEF IInv, Slots
      <3>2. QED BY <1>2, <2>1, <2>3, <3>1, Zenon
    <2>4. QED BY <2>2, <2>3, Zenon DEF MakeFailed
  <1>4. Registry' /\ Linked' = Linked
    BY <1>1, <1>3, RegistrySame, Zenon DEF IInv, Registry
  <1>5. MaxChildren'
    BY <1>1, MaxSame, Zenon DEF IInv
  <1>6. QED BY <1>1, <1>4, <1>5, Zenon

(* A fork fails in the event loop, and its caller goes on.                 *)
LEMMA StepMakeFails ==
  ASSUME IInv, MakeFails
  PROVE  IInv'
  <1>1. /\ Registry' /\ UNCHANGED <<pipe, network, children, faults, status, in_shutdown>>
        /\ UNCHANGED <<pctl, pending>> /\ master.op = "make" /\ MakeReturns
    BY MakeFailedFacts, Zenon DEF MakeFails, MakeFailed
  <1>2. Mastering' /\ idle_spawn_rate' \in [Pools -> 1 .. 2 * FPM_MAX_SPAWN_RATE]
    BY <1>1, MakeReturnsFacts, Zenon
  <1>3. Processes'
    BY <1>1, ProcessesSame, Zenon DEF IInv, process
  <1>4. Scalars'
    BY <1>1, <1>2, Zenon DEF IInv, Scalars, pctl, network, faults
  <1>5. QED BY <1>1, <1>2, <1>3, <1>4, Zenon DEF IInv

(* A fork fails in fpm_run, and the master stops.                          *)
LEMMA StepStartFailed ==
  ASSUME IInv, StartFailed
  PROVE  IInv'
  <1>1. /\ Registry' /\ Linked' = Linked /\ MaxChildren'
        /\ UNCHANGED <<pipe, network, children, faults, status, in_shutdown>>
    BY MakeFailedFacts, Zenon DEF StartFailed
  <1>2. PctlSet("terminating", Linked, Loop) /\ UNCHANGED idle_spawn_rate
    BY Zenon DEF StartFailed
  <1>3. /\ fpm_state' \in {"normal", "reloading", "terminating", "finishing"}
        /\ fpm_signal_sent' \in {"none"} \cup Signals
        /\ pctl_event' \in BOOLEAN
        /\ UNCHANGED pending \/ \E sig \in Signals : pending' = Signalled(Linked, sig)
        /\ \/ master' = Loop
           \/ Linked = {} /\ \E op \in {"exec", "exit"} : master' = Doing(op, <<>>)
    BY <1>2, PctlSetFacts, Zenon DEF IInv
  <1>4. Mastering'
    BY <1>1, <1>3, MasterLoop, MasterAfterPctl, ZenonT(30)
  <1>5. Processes'
    BY <1>1, <1>3, ProcessesAfterPctl, Zenon DEF IInv
  <1>6. Scalars'
    BY <1>1, <1>2, <1>3, Zenon DEF IInv, Scalars, network, faults
  <1>7. QED BY <1>1, <1>4, <1>5, <1>6, Zenon DEF IInv

(* fpm_run starts the children of a pool.                                  *)
LEMMA StepStartPool ==
  ASSUME IInv, StartPool
  PROVE  IInv'
  <1>1. UNCHANGED <<pctl, pipe, backlog, structs, slots, idle_spawn_rate, faults, process>>
    BY Zenon DEF StartPool
  <1>2. Registry' /\ MaxChildren' /\ Processes'
    BY <1>1, RegistryFrame, ProcessesSame, Zenon DEF IInv, process
  <1>3. /\ master.rest \in Seq(Pools) /\ master.rest # <<>> /\ pool \in Pools
        /\ Tail(master.rest) \in Seq(Pools) /\ pool = Head(master.rest)
    BY PoolFacts, Zenon DEF IInv, Mastering, StartPool, pool
  <1>4. CASE pm[pool] = "ondemand"
    <2>1. /\ master' = Doing("start", Tail(master.rest))
          /\ socket_event' \subseteq socket_event \cup {pool}
      BY <1>4, Zenon DEF StartPool
    <2>2. Mastering'
      <3>1. "start" \in Ops \ {"make"} /\ "start" \notin {"exec", "exit"}
        BY Zenon DEF Ops
      <3>2. QED BY <1>2, <1>3, <2>1, <3>1, MasterDoing, ZenonT(30)
    <2>3. socket_event' \subseteq OndemandPools
      BY <1>3, <1>4, <2>1, Zenon DEF IInv, Scalars, OndemandPools
    <2>4. Scalars'
      BY <1>1, <2>3, Zenon DEF IInv, Scalars, pctl, faults
    <2>5. QED BY <1>2, <2>2, <2>4, Zenon DEF IInv
  <1>5. CASE pm[pool] # "ondemand"
    <2>1. master' = Making(master.rest, MakeMaxInitial(pool), "start") /\ UNCHANGED socket_event
      BY <1>5, Zenon DEF StartPool
    <2>2. MakeMaxInitial(pool) \in Nat /\ MakeMaxInitial(pool) <= pm_max_children[pool]
      <3>1. /\ pm[pool] \in {"static", "dynamic", "ondemand"}
            /\ pm_max_children[pool] \in Nat /\ pm_start_servers[pool] \in 0 .. pm_max_children[pool]
        BY <1>3, ConfigAssumption, Zenon
      <3>2. QED BY <3>1 DEF MakeMaxInitial
    <2>3. Mastering'
      BY <1>2, <1>3, <2>1, <2>2, MasterMaking, Zenon
    <2>4. Scalars'
      BY <1>1, <2>1, Zenon DEF IInv, Scalars, pctl, faults
    <2>5. QED BY <1>2, <2>3, <2>4, Zenon DEF IInv
  <1>6. QED BY <1>4, <1>5, Zenon

(* Steps that only change what the master is doing, to nothing much.       *)
LEMMA StepTurn ==
  ASSUME IInv, NEW op \in {"loop", "bury", "maintain"}, NEW rest \in Seq(Pools),
         master' = Doing(op, rest), pipe' \subseteq pipe,
         UNCHANGED <<pctl, network, structs, slots, idle_spawn_rate, faults, process>>
  PROVE  IInv'
  <1>1. Registry' /\ MaxChildren' /\ Processes'
    BY RegistryFrame, ProcessesSame, Zenon DEF IInv, process
  <1>2. op \in Ops \ {"make"} /\ op \notin {"exec", "exit"}
    BY Zenon DEF Ops
  <1>3. Mastering'
    BY <1>1, <1>2, MasterDoing, Zenon
  <1>4. Scalars'
    BY Zenon DEF IInv, Scalars, pctl, network, faults
  <1>5. QED BY <1>1, <1>3, <1>4, Zenon DEF IInv

(* The master turns to burying, to maintenance, or back to its loop.       *)
LEMMA StepTurns ==
  ASSUME IInv, PoolsDone \/ BuryDone \/ GotSigchld \/ MaintenanceHeartbeat
  PROVE  IInv'
  <1>1. <<>> \in Seq(Pools) /\ PoolList \in Seq(Pools)
    BY ConfigAssumption
  <1>2. QED BY <1>1, StepTurn, ZenonT(30)
            DEF PoolsDone, BuryDone, GotSigchld, MaintenanceHeartbeat, Loop

-----------------------------------------------------------------------------
(* fpm_children_bury.                                                      *)

(* The lists after a burial, and what the master goes on with.             *)
LEMMA BuryFacts ==
  ASSUME IInv, NEW p \in Pids, Zombie(p), Unlink(p)
  PROVE  /\ Registry' /\ Linked' = Linked \ {p} /\ MaxChildren'
         /\ master' = AfterBurying(p) => Mastering'
  <1> DEFINE wp == PoolOf(p)
  <1>0. status[p] # "none"
    BY Zenon DEF Zombie, Zombies
  <1>1. Registry'
    BY <1>0, RegistryUnlink, Zenon DEF IInv
  <1>2. wp \in Pools /\ p \in Linked
    BY <1>0, PoolOfFacts, Zenon DEF IInv
  <1>3. /\ Linked' = Linked \ {p}
        /\ Len(children'[wp]) = Len(children[wp]) - 1
        /\ \A w \in Pools \ {wp} : children'[w] = children[w]
    BY <1>0, UnlinkChildren, Zenon DEF IInv
  <1>4. /\ Len(children[wp]) \in Nat /\ pm_max_children[wp] \in Nat
        /\ Len(children[wp]) <= pm_max_children[wp]
    BY <1>2, LinkedFacts, ConfigAssumption, Zenon DEF IInv, Mastering, MaxChildren, running_children
  <1> HIDE DEF wp
  <1>5. MaxChildren'
    <2>1. Len(children'[wp]) <= pm_max_children[wp]
      BY <1>3, <1>4
    <2>2. \A w \in Pools : Len(children'[w]) <= pm_max_children[w]
      BY <1>3, <2>1, Zenon DEF IInv, Mastering, MaxChildren, running_children
    <2>3. ASSUME process_max > 0
          PROVE  Cardinality(Linked') <= process_max
      <3>1. Cardinality(Linked) <= process_max
        BY <2>3, Zenon DEF IInv, Mastering, MaxChildren, AllRunning
      <3>2. IsFiniteSet(Linked) /\ Linked' \subseteq Linked
        BY <1>3, LinkedFacts, Zenon DEF IInv
      <3>3. Cardinality(Linked') <= Cardinality(Linked) /\ IsFiniteSet(Linked')
        BY <3>2, FS_Subset, Zenon
      <3>4. Cardinality(Linked') \in Nat /\ Cardinality(Linked) \in Nat /\ process_max \in Nat
        BY <3>2, <3>3, FS_CardinalityType, ConfigAssumption, Zenon
      <3>5. QED BY <3>1, <3>3, <3>4
    <2>4. QED BY <2>2, <2>3, Zenon DEF MaxChildren, running_children, AllRunning
  <1>6. ASSUME master' = AfterBurying(p)
        PROVE  Mastering'
    <2>1. CASE RestartChild(p)
      <3> DEFINE max == MakeMax(wp, running_children(wp) - 1, 1)
      <3>1. master' = Making(<<wp>>, max, "bury")
        BY <1>6, <2>1, Zenon DEF AfterBurying, wp
      <3>2. max \in Nat /\ max <= pm_max_children[wp]
        BY <1>4 DEF MakeMax, running_children
      <3>3. <<wp>> \in Seq(Pools) /\ <<wp>> # <<>> /\ Head(<<wp>>) = wp
        BY <1>2
      <3> HIDE DEF max
      <3>4. QED BY <1>5, <3>1, <3>2, <3>3, MasterMaking, ZenonT(30)
    <2>2. CASE ~RestartChild(p)
      <3>1. master' = Doing("bury", <<>>)
        BY <1>6, <2>2, Zenon DEF AfterBurying
      <3>2. "bury" \in Ops \ {"make"} /\ "bury" \notin {"exec", "exit"} /\ <<>> \in Seq(Pools)
        BY DEF Ops
      <3>3. QED BY <1>5, <3>1, <3>2, MasterDoing, ZenonT(30)
    <2>3. QED BY <2>1, <2>2, Zenon
  <1>7. QED BY <1>1, <1>3, <1>5, <1>6, Zenon

(* The process that is buried is gone, and signals go to the others only.  *)
LEMMA ProcessesUnlink ==
  ASSUME IInv, NEW p \in Pids, Zombie(p), Unlink(p),
         UNCHANGED pending \/ \E sig \in Signals : pending' = Signalled(Linked \ {p}, sig)
  PROVE  Processes'
  <1>1. /\ status' = [status EXCEPT ![p] = "none"] /\ status \in [Pids -> Statuses]
        /\ in_shutdown' = [in_shutdown EXCEPT ![p] = FALSE]
        /\ in_shutdown \in [Pids -> BOOLEAN] /\ pending \in [Pids -> SUBSET Signals]
        /\ \A q \in Pids : pending[q] # {} => Alive(q)
    BY Zenon DEF Unlink, IInv, Registry, Processes
  <1>2. pending[p] = {}
    BY <1>1, Zenon DEF Alive, Zombie
  <1>3. \A q \in Pids : pending[q] # {} => Alive(q)'
    BY <1>1, <1>2, Zenon DEF Alive, Zombie
  <1>4. in_shutdown' \in [Pids -> BOOLEAN]
    BY <1>1, Zenon
  <1>5. CASE UNCHANGED pending
    BY <1>1, <1>3, <1>4, <1>5, Zenon DEF Processes
  <1>6. CASE \E sig \in Signals : pending' = Signalled(Linked \ {p}, sig)
    <2>1. PICK sig \in Signals : pending' = Signalled(Linked \ {p}, sig)
      BY <1>6, Zenon
    <2>2. pending' = [q \in Pids |-> IF q \in Linked \ {p} /\ Alive(q) THEN pending[q] \cup {sig}
                                                                      ELSE pending[q]]
      BY <2>1, Zenon DEF Signalled
    <2>3. pending' \in [Pids -> SUBSET Signals]
      BY <1>1, <2>2, Zenon
    <2>4. \A q \in Pids \ {p} : Alive(q) => Alive(q)'
      BY <1>1, Zenon DEF Alive, Zombie
    <2>5. \A q \in Pids : pending'[q] # {} => Alive(q)'
      BY <1>3, <2>2, <2>4, Zenon
    <2>6. QED BY <1>4, <2>3, <2>5, Zenon DEF Processes
  <1>7. QED BY <1>5, <1>6, Zenon

(* fpm_children_bury buries the last child of a stop or of a reload.       *)
LEMMA StepBuryLast ==
  ASSUME IInv, NEW p \in Pids, BuryLast(p)
  PROVE  IInv'
  <1>1. /\ Zombie(p) /\ Unlink(p) /\ Linked = {p}
        /\ master' = ActionLast(fpm_state)
        /\ UNCHANGED <<pctl, pipe, network, idle_spawn_rate, faults, pending>>
    BY Zenon DEF BuryLast, LastOfAll
  <1>2. Registry' /\ Linked' = {} /\ MaxChildren'
    BY <1>1, BuryFacts, Zenon
  <1>3. Mastering'
    <2>1. PICK op \in {"exec", "exit"} : master' = Doing(op, <<>>)
      BY <1>1, Zenon DEF ActionLast
    <2>2. op \in Ops \ {"make"} /\ <<>> \in Seq(Pools)
      BY DEF Ops
    <2>3. QED BY <1>2, <2>1, <2>2, MasterDoing, ZenonT(30)
  <1>4. Processes'
    BY <1>1, ProcessesUnlink, Zenon
  <1>5. Scalars'
    BY <1>1, Zenon DEF IInv, Scalars, pctl, network, faults
  <1>6. QED BY <1>2, <1>3, <1>4, <1>5, Zenon DEF IInv

(* fpm_children_bury buries a child, and may replace it.                   *)
LEMMA StepBury ==
  ASSUME IInv, NEW p \in Pids, Bury(p)
  PROVE  IInv'
  <1>1. /\ Zombie(p) /\ Unlink(p) /\ master' = AfterBurying(p)
        /\ UNCHANGED <<pctl, pipe, network, idle_spawn_rate, faults, pending>>
    BY Zenon DEF Bury
  <1>2. Registry' /\ Mastering'
    BY <1>1, BuryFacts, Zenon
  <1>3. Processes'
    BY <1>1, ProcessesUnlink, Zenon
  <1>4. Scalars'
    BY <1>1, Zenon DEF IInv, Scalars, pctl, network, faults
  <1>5. QED BY <1>2, <1>3, <1>4, Zenon DEF IInv

(* fpm_children_bury counts a crash, which may start a reload.             *)
LEMMA StepBuryFault ==
  ASSUME IInv, NEW p \in Pids, BuryFault(p)
  PROVE  IInv'
  <1>1. /\ Zombie(p) /\ Unlink(p) /\ CountsAsFault(p)
        /\ last_faults' = [last_faults EXCEPT ![fault] = TRUE]
        /\ fault' = IF fault = emergency_restart_threshold THEN 1 ELSE fault + 1
        /\ UNCHANGED <<pipe, network, idle_spawn_rate>>
    BY Zenon DEF BuryFault
  <1>2. /\ Registry' /\ Linked' = Linked \ {p} /\ MaxChildren'
        /\ master' = AfterBurying(p) => Mastering'
    BY <1>1, BuryFacts, Zenon
  <1>3. /\ fpm_state' \in {"normal", "reloading", "terminating", "finishing"}
        /\ fpm_signal_sent' \in {"none"} \cup Signals
        /\ pctl_event' \in BOOLEAN
        /\ UNCHANGED pending \/ \E sig \in Signals : pending' = Signalled(Linked \ {p}, sig)
        /\ \/ master' = AfterBurying(p)
           \/ Linked \ {p} = {} /\ \E op \in {"exec", "exit"} : master' = Doing(op, <<>>)
    <2>1. CASE PctlSet("reloading", Linked \ {p}, AfterBurying(p))
      BY <2>1, PctlSetFacts, Zenon DEF IInv
    <2>2. CASE master' = AfterBurying(p) /\ UNCHANGED <<pctl, pending>>
      BY <2>2, Zenon DEF IInv, Scalars, pctl
    <2>3. QED BY <2>1, <2>2, Zenon DEF BuryFault
  <1>4. Mastering'
    BY <1>2, <1>3, MasterAfterPctl, ZenonT(30)
  <1>5. Processes'
    BY <1>1, <1>3, ProcessesUnlink, ZenonT(30)
  <1>6. last_faults' \in [1 .. emergency_restart_threshold -> BOOLEAN]
    BY <1>1, ZenonT(30) DEF IInv, Scalars
  <1>7. fault' \in {1} \cup 1 .. emergency_restart_threshold
    <2>1. /\ emergency_restart_threshold \in Nat /\ emergency_restart_threshold > 0
          /\ fault \in {1} \cup 1 .. emergency_restart_threshold
      BY <1>1, ConfigAssumption, Zenon DEF CountsAsFault, IInv, Scalars
    <2>2. QED BY <1>1, <2>1
  <1>8. Scalars'
    BY <1>1, <1>3, <1>6, <1>7, Zenon DEF IInv, Scalars, network
  <1>9. QED BY <1>2, <1>4, <1>5, <1>8, Zenon DEF IInv

-----------------------------------------------------------------------------
(* The stop and the reload, and the replacement of the master.             *)

(* A signal to the master, or the timeout of fpm_pctl.                     *)
LEMMA StepPctl ==
  ASSUME IInv, PctlTimeout \/ \E c \in Operator : GotSignal(c)
  PROVE  IInv'
  <1>1. /\ UNCHANGED <<network, structs, slots, idle_spawn_rate, faults, status, in_shutdown>>
        /\ pipe' \subseteq pipe
    BY Zenon DEF PctlTimeout, GotSignal
  <1>2. Registry' /\ Linked' = Linked /\ MaxChildren'
    BY <1>1, RegistryFrame, Zenon
  <1>3. /\ fpm_state' \in {"normal", "reloading", "terminating", "finishing"}
        /\ fpm_signal_sent' \in {"none"} \cup Signals
        /\ pctl_event' \in BOOLEAN
        /\ UNCHANGED pending \/ \E sig \in Signals : pending' = Signalled(Linked, sig)
        /\ \/ master' = Loop
           \/ Linked = {} /\ \E op \in {"exec", "exit"} : master' = Doing(op, <<>>)
    <2>1. CASE PctlTimeout
      BY <2>1, ActionNextFacts, ZenonT(30) DEF PctlTimeout, IInv, Scalars
    <2>2. ASSUME NEW c \in Operator, GotSignal(c)
          PROVE  PctlSet(StateOf(c), Linked, Loop) /\ StateOf(c) \in {"reloading", "terminating", "finishing"}
      BY <2>2, ConfigAssumption, Zenon DEF GotSignal, StateOf
    <2>3. CASE \E c \in Operator : GotSignal(c)
      BY <2>2, <2>3, PctlSetFacts, Zenon DEF IInv
    <2>4. QED BY <2>1, <2>3, Zenon
  <1>4. Mastering'
    BY <1>2, <1>3, MasterLoop, MasterAfterPctl, Zenon
  <1>5. Processes'
    BY <1>1, <1>3, ProcessesAfterPctl, Zenon DEF IInv
  <1>6. Scalars'
    BY <1>1, <1>3, Zenon DEF IInv, Scalars, network, faults
  <1>7. QED BY <1>2, <1>4, <1>5, <1>6, Zenon DEF IInv

(* execvp() fails and the master exits.                                    *)
LEMMA StepExecFails ==
  ASSUME IInv, ExecFails
  PROVE  IInv'
  <1>1. /\ UNCHANGED <<pctl, pipe, network, structs, slots, idle_spawn_rate, faults, process>>
        /\ master' = Doing("exit", <<>>) /\ Linked = {}
    BY Zenon DEF ExecFails, IInv, Mastering
  <1>2. Registry' /\ Linked' = {} /\ MaxChildren' /\ Processes'
    BY <1>1, RegistryFrame, ProcessesSame, Zenon DEF IInv, process
  <1>3. "exit" \in Ops \ {"make"} /\ <<>> \in Seq(Pools)
    BY DEF Ops
  <1>4. Mastering'
    BY <1>1, <1>2, <1>3, MasterDoing, ZenonT(30)
  <1>5. Scalars'
    BY <1>1, Zenon DEF IInv, Scalars, pctl, network, faults
  <1>6. QED BY <1>2, <1>4, <1>5, Zenon DEF IInv

(* The other variables of a master that starts.                            *)
FreshScalars ==
  /\ fpm_state = "normal" /\ fpm_signal_sent = "none" /\ pctl_event = FALSE
  /\ pipe = {} /\ socket_event = {} /\ idle_spawn_rate = SlowRate
  /\ last_faults = NoFaults /\ fault = 1 /\ backlog \in [Pools -> 0 .. Backlog]
  /\ master = Doing("start", PoolList)

(* What a new master finds.                                                *)
LEMMA FreshMaster == Fresh /\ FreshScalars => Registry /\ Mastering /\ Scalars
  <1> SUFFICES ASSUME Fresh, FreshScalars
               PROVE  Registry /\ Mastering /\ Scalars
    BY Zenon
  <1>1. Registry /\ Linked = {}
    BY RegistryFresh, Zenon
  <1>2. MaxChildren
    <2>1. \A w \in Pools : Len(children[w]) = 0 /\ pm_max_children[w] \in Nat
      BY ConfigAssumption, Zenon DEF Fresh, NoChildren
    <2>2. Cardinality(Linked) = 0 /\ process_max \in Nat
      BY <1>1, FS_EmptySet, ConfigAssumption, Zenon
    <2>3. QED BY <2>1, <2>2 DEF MaxChildren, running_children, AllRunning
  <1>3. Mastering
    BY <1>2, ConfigAssumption, Zenon DEF Mastering, FreshScalars, Doing, Ops
  <1>4. idle_spawn_rate \in [Pools -> 1 .. 2 * FPM_MAX_SPAWN_RATE]
    BY ConfigAssumption DEF FreshScalars, SlowRate
  <1>5. last_faults \in [1 .. emergency_restart_threshold -> BOOLEAN]
    BY Zenon DEF FreshScalars, NoFaults
  <1>6. Scalars
    BY <1>4, <1>5, ZenonT(30) DEF Scalars, FreshScalars
  <1>7. QED BY <1>1, <1>3, <1>6, Zenon

(* execvp() replaces the master by a new one.                              *)
LEMMA StepExec ==
  ASSUME IInv, Exec
  PROVE  IInv'
  <1>1. Linked = {} /\ UNCHANGED process
    BY Zenon DEF Exec, IInv, Mastering
  <1>2. status \in [Pids -> Statuses] /\ \A p \in Pids : status[p] = "none"
    BY <1>1, Zenon DEF IInv, Registry, ChildrenKnown
  <1>3. Fresh'
    BY <1>1, <1>2, Zenon DEF Exec, Fresh, process
  <1>4. FreshScalars'
    BY Zenon DEF Exec, FreshScalars, IInv, Scalars
  <1>5. (Fresh /\ FreshScalars)' => (Registry /\ Mastering /\ Scalars)'
    BY FreshMaster, PTL
  <1>6. Processes'
    BY <1>1, ProcessesSame, Zenon DEF IInv
  <1>7. QED BY <1>3, <1>4, <1>5, <1>6, Zenon DEF IInv
=============================================================================
