-------------------------- MODULE FpmMasterProofs ---------------------------
(***************************************************************************)
(* Proofs about FpmMaster, for every list of pools, every configuration    *)
(* and every number of process ids: what the master knows of its children  *)
(* is what the kernel knows, a slot of the scoreboard has one owner, the   *)
(* limits on the number of children hold, and the master never leaves a    *)
(* child behind.  The remaining actions, and the theorems.                 *)
(***************************************************************************)
EXTENDS FpmMasterHandlers

-----------------------------------------------------------------------------
(* The idle maintenance, and a connection to an ondemand pool.             *)

(* The idle child that maintenance stops is one of the children.           *)
LEMMA IdleFacts ==
  ASSUME IInv, NEW wp \in Pools
  PROVE  /\ Cardinality(Idle(wp)) \in Nat
         /\ Cardinality(Idle(wp)) > 0 => Idle(wp) # {}
         /\ Idle(wp) # {} => OldestIdle(wp) \in Linked
  <1>1. /\ Range(children[wp]) \subseteq Linked /\ IsFiniteSet(Linked)
        /\ Len(children[wp]) \in Nat /\ DOMAIN children[wp] = 1 .. Len(children[wp])
    BY LinkedFacts, Zenon DEF IInv
  <1>2. Idle(wp) \subseteq Range(children[wp])
    BY Zenon DEF Idle
  <1>3. IsFiniteSet(Idle(wp))
    BY <1>1, <1>2, FS_Subset, Zenon
  <1>4. Cardinality(Idle(wp)) \in Nat
    BY <1>3, FS_CardinalityType, Zenon
  <1>5. Cardinality(Idle(wp)) > 0 => Idle(wp) # {}
    BY FS_EmptySet
  <1>6. ASSUME Idle(wp) # {}
        PROVE  OldestIdle(wp) \in Linked
    <2> DEFINE T == {k \in DOMAIN children[wp] : children[wp][k] \in Idle(wp)}
    <2>1. T \subseteq 1 .. Len(children[wp])
      BY <1>1, Zenon
    <2>2. T # {}
      <3>1. PICK q : q \in Idle(wp)
        BY <1>6, Zenon
      <3>2. PICK k \in DOMAIN children[wp] : children[wp][k] = q
        BY <1>2, <3>1, Zenon DEF Range
      <3>3. k \in T
        BY <3>1, <3>2, Zenon
      <3>4. QED BY <3>3, Zenon
    <2> HIDE DEF T
    <2>3. Max(T) \in T
      BY <1>1, <2>1, <2>2, MaxFacts, ZenonT(30)
    <2>4. children[wp][Max(T)] \in Idle(wp)
      BY <2>3, Zenon DEF T
    <2>5. OldestIdle(wp) = children[wp][Max(T)]
      BY Zenon DEF OldestIdle, T
    <2>6. QED BY <1>1, <1>2, <2>4, <2>5, Zenon
  <1>7. QED BY <1>4, <1>5, <1>6, Zenon

(* The maintenance of a pool, but for the spawn rate.                      *)
LEMMA StepMaintaining ==
  ASSUME IInv, NEW kind, Maintaining(kind),
         KeepAll \/ \E q \in Linked : KillIdle(q),
         idle_spawn_rate' = idle_spawn_rate \/ ResetRate
  PROVE  IInv'
  <1>1. /\ UNCHANGED <<children, scoreboard_i, status, in_shutdown>>
        /\ UNCHANGED <<request_stage, free_proc, long_idle>>
        /\ UNCHANGED <<pctl, pipe, network, faults>>
    BY Zenon DEF Maintaining, slots
  <1>2. pool \in Pools /\ Tail(master.rest) \in Seq(Pools)
    BY PoolFacts, Zenon DEF Maintaining, IInv
  <1>3. idle_kill' \subseteq Linked
    BY ZenonT(30) DEF KeepAll, KillIdle, IInv, Registry
  <1>4. Registry' /\ Linked' = Linked
    BY <1>1, <1>3, RegistrySame, Zenon DEF IInv, Registry
  <1>5. MaxChildren'
    BY <1>1, MaxSame, Zenon DEF IInv
  <1>6. Mastering'
    <2>1. master' = Doing("maintain", Tail(master.rest))
      BY ZenonT(30) DEF KeepAll, KillIdle, NextPool
    <2>2. "maintain" \in Ops \ {"make"} /\ "maintain" \notin {"exec", "exit"}
      BY Zenon DEF Ops
    <2>3. QED BY <1>2, <1>5, <2>1, <2>2, MasterDoing, ZenonT(30)
  <1>7. Processes'
    <2>1. CASE KeepAll
      BY <1>1, <2>1, ProcessesSame, Zenon DEF KeepAll, process, IInv
    <2>2. ASSUME NEW q \in Linked, KillIdle(q)
          PROVE  Processes'
      <3>1. "QUIT" \in Signals /\ pending' = Signalled({q}, "QUIT")
        BY <2>2, Zenon DEF KillIdle, Signals
      <3>2. QED BY <1>1, <3>1, ProcessesSignal, Zenon DEF IInv
    <2>3. QED BY <2>1, <2>2, Zenon
  <1>8. idle_spawn_rate' \in [Pools -> 1 .. 2 * FPM_MAX_SPAWN_RATE]
    <2>1. 1 \in 1 .. 2 * FPM_MAX_SPAWN_RATE
      BY ConfigAssumption
    <2>2. QED BY <1>2, <2>1, ZenonT(30) DEF ResetRate, IInv, Scalars
  <1>9. Scalars'
    BY <1>1, <1>8, Zenon DEF IInv, Scalars, pctl, network, faults
  <1>10. QED BY <1>4, <1>6, <1>7, <1>9, Zenon DEF IInv

(* Maintenance of a pool that forks nobody.                                *)
LEMMA StepMaintain ==
  ASSUME IInv, MaintainStatic \/ MaintainOndemand \/ MaintainKill \/ MaintainKeep
  PROVE  IInv'
  <1>1. CASE MaintainStatic
    BY <1>1, StepMaintaining, Zenon DEF MaintainStatic
  <1>2. CASE MaintainOndemand
    <2>1. pool \in Pools
      BY <1>2, PoolFacts, Zenon DEF MaintainOndemand, Maintaining, IInv
    <2>2. KeepAll \/ \E q \in Linked : KillIdle(q)
      BY <1>2, <2>1, IdleFacts, Zenon DEF MaintainOndemand
    <2>3. QED BY <1>2, <2>2, StepMaintaining, Zenon DEF MaintainOndemand
  <1>3. CASE MaintainKill
    <2>1. pool \in Pools
      BY <1>3, PoolFacts, Zenon DEF MaintainKill, Maintaining, IInv
    <2>2. Cardinality(Idle(pool)) > 0
      <3>1. Cardinality(Idle(pool)) > pm_max_spare_servers[pool]
        BY <1>3, Zenon DEF MaintainKill, TooManyIdle
      <3>2. pm_max_spare_servers[pool] \in Nat /\ Cardinality(Idle(pool)) \in Nat
        BY <2>1, IdleFacts, ConfigAssumption
      <3>3. QED BY <3>1, <3>2
    <2>3. \E q \in Linked : KillIdle(q)
      BY <1>3, <2>1, <2>2, IdleFacts, Zenon DEF MaintainKill
    <2>4. QED BY <1>3, <2>3, StepMaintaining, Zenon DEF MaintainKill
  <1>4. CASE MaintainKeep
    BY <1>4, StepMaintaining, Zenon DEF MaintainKeep
  <1>5. QED BY <1>1, <1>2, <1>3, <1>4, Zenon

(* fpm_children_make is called from the event loop.                        *)
LEMMA StepMaking ==
  ASSUME IInv, NEW rest \in Seq(Pools), rest # <<>>, NEW max \in Nat,
         max <= pm_max_children[Head(rest)],
         NEW then \in {"start", "maintain", "bury", "loop"},
         master' = Making(rest, max, then), socket_event' \subseteq socket_event,
         UNCHANGED <<pctl, pipe, backlog, structs, slots, idle_spawn_rate, faults, process>>
  PROVE  IInv'
  <1>1. Registry' /\ MaxChildren' /\ Processes'
    BY RegistryFrame, ProcessesSame, Zenon DEF IInv, process
  <1>2. Mastering'
    BY <1>1, MasterMaking, Zenon
  <1>3. Scalars'
    BY Zenon DEF IInv, Scalars, pctl, faults
  <1>4. QED BY <1>1, <1>2, <1>3, Zenon DEF IInv

(* Maintenance that asks for more children, as many as there may be.       *)
LEMMA StepMaintainSpawn ==
  ASSUME IInv, MaintainSpawn
  PROVE  IInv'
  <1> DEFINE n == running_children(pool)
             idle == Cardinality(Idle(pool))
             T == {idle_spawn_rate[pool], pm_min_spare_servers[pool] - idle,
                   pm_max_children[pool] - n}
             max == MakeMax(pool, running_children(pool), ChildrenToFork)
  <1>1. /\ pool \in Pools /\ pool = Head(master.rest)
        /\ master.rest \in Seq(Pools) /\ master.rest # <<>>
    BY PoolFacts, Zenon DEF MaintainSpawn, Maintaining, IInv, Mastering, pool
  <1>2. /\ n \in Nat /\ pm_max_children[pool] \in Nat /\ n <= pm_max_children[pool]
        /\ idle \in Nat /\ pm_min_spare_servers[pool] \in Nat /\ idle < pm_min_spare_servers[pool]
        /\ idle_spawn_rate[pool] \in Nat
    <2>1. n \in Nat /\ n <= pm_max_children[pool]
      BY <1>1, LinkedFacts, Zenon DEF IInv, Mastering, MaxChildren, running_children
    <2>2. idle \in Nat
      BY <1>1, IdleFacts, Zenon
    <2>3. pm_max_children[pool] \in Nat /\ pm_min_spare_servers[pool] \in Nat
      BY <1>1, ConfigAssumption
    <2>4. idle < pm_min_spare_servers[pool]
      BY Zenon DEF MaintainSpawn, TooFewIdle
    <2>5. idle_spawn_rate[pool] \in Nat
      BY <1>1, ConfigAssumption DEF IInv, Scalars
    <2>6. QED BY <2>1, <2>2, <2>3, <2>4, <2>5, Zenon
  <1>3. ChildrenToFork = Min(T)
    BY Zenon DEF ChildrenToFork
  <1> HIDE DEF n, idle
  <1>4. T \subseteq Nat /\ T # {} /\ pm_max_children[pool] - n \in T
    BY <1>2
  <1> HIDE DEF T
  <1>5. ChildrenToFork \in Nat /\ ChildrenToFork <= pm_max_children[pool] - n
    BY <1>3, <1>4, MinFacts, ZenonT(30)
  <1>6. max = IF pm[pool] = "static" THEN pm_max_children[pool] ELSE n + ChildrenToFork
    BY Zenon DEF MakeMax, n
  <1> HIDE DEF max
  <1>7. max \in Nat /\ max <= pm_max_children[pool]
    BY <1>2, <1>5, <1>6
  <1>8. /\ master' = Making(master.rest, max, "maintain") /\ UNCHANGED socket_event
        /\ UNCHANGED <<pctl, pipe, backlog, structs, slots, idle_spawn_rate, faults, process>>
    BY Zenon DEF MaintainSpawn, Maintaining, max, structs, network, process
  <1>9. QED BY <1>1, <1>7, <1>8, StepMaking, Zenon

(* A connection wakes an ondemand pool, which may ask for one child.       *)
LEMMA StepOnSocketAccept ==
  ASSUME IInv, NEW wp \in Pools, OnSocketAccept(wp)
  PROVE  IInv'
  <1>1. /\ socket_event' \subseteq socket_event
        /\ UNCHANGED <<pctl, pipe, backlog, structs, slots, idle_spawn_rate, faults, process>>
    BY Zenon DEF OnSocketAccept
  <1>2. CASE master' = Loop
    <2>1. Registry' /\ MaxChildren' /\ Processes'
      BY <1>1, RegistryFrame, ProcessesSame, Zenon DEF IInv, process
    <2>2. Mastering'
      BY <1>2, <2>1, MasterLoop, Zenon
    <2>3. Scalars'
      BY <1>1, Zenon DEF IInv, Scalars, pctl, faults
    <2>4. QED BY <2>1, <2>2, <2>3, Zenon DEF IInv
  <1>3. CASE /\ ~(running_children(wp) >= pm_max_children[wp])
             /\ master' = Making(<<wp>>, MakeMax(wp, running_children(wp), 1), "loop")
    <2> DEFINE max == MakeMax(wp, running_children(wp), 1)
    <2>1. running_children(wp) \in Nat /\ pm_max_children[wp] \in Nat
      BY LinkedFacts, ConfigAssumption, Zenon DEF IInv, running_children
    <2>2. max \in Nat /\ max <= pm_max_children[wp]
      BY <1>3, <2>1 DEF MakeMax
    <2>3. <<wp>> \in Seq(Pools) /\ <<wp>> # <<>> /\ Head(<<wp>>) = wp
      OBVIOUS
    <2>4. master' = Making(<<wp>>, max, "loop")
      BY <1>3, Zenon
    <2> HIDE DEF max
    <2>5. QED BY <1>1, <2>2, <2>3, <2>4, StepMaking, ZenonT(30)
  <1>4. QED BY <1>2, <1>3, Zenon DEF OnSocketAccept

(* fpm_pctl_check_request_timeout stops a slow request.                    *)
LEMMA StepRequestTimeout ==
  ASSUME IInv, NEW p \in Pids, RequestTimeout(p)
  PROVE  IInv'
  <1>1. /\ pending' = Signalled({p}, "TERM") /\ "TERM" \in Signals
        /\ UNCHANGED <<pctl, pipe, network, structs, slots, idle_spawn_rate,
                       faults, master, status, in_shutdown>>
    BY Zenon DEF RequestTimeout, Signals
  <1>2. Registry'
    BY <1>1, RegistryFrame, Zenon
  <1>3. Mastering'
    BY <1>1, MasterSame, Zenon DEF IInv, structs
  <1>4. Processes'
    BY <1>1, ProcessesSignal, Zenon DEF IInv
  <1>5. Scalars'
    BY <1>1, Zenon DEF IInv, Scalars, pctl, network, faults
  <1>6. QED BY <1>2, <1>3, <1>4, <1>5, Zenon DEF IInv

-----------------------------------------------------------------------------
(* The children.                                                           *)

(* A child ends, or goes on in another state.                              *)
LEMMA ProcessesChild ==
  ASSUME Processes, status \in [Pids -> Statuses], NEW p \in Pids, Alive(p),
         NEW new \in Statuses \ {"none"},
         Ends(p, new) \/ (new \notin Zombies /\ Becomes(p, new))
  PROVE  Processes'
  <1>1. status' = [status EXCEPT ![p] = new] /\ UNCHANGED in_shutdown
    BY Zenon DEF Ends, Becomes
  <1>2. \A q \in Pids : q # p => (Alive(q)' <=> Alive(q))
    BY <1>1, Zenon DEF Alive, Zombie
  <1>3. CASE Ends(p, new)
    <2>1. pending' = [pending EXCEPT ![p] = {}]
      BY <1>3, Zenon DEF Ends
    <2>2. pending' \in [Pids -> SUBSET Signals]
      BY <2>1, Zenon DEF Processes
    <2>3. \A q \in Pids : pending'[q] # {} => Alive(q)'
      BY <1>2, <2>1, Zenon DEF Processes
    <2>4. QED BY <1>1, <2>2, <2>3, ZenonT(30) DEF Processes
  <1>4. CASE new \notin Zombies /\ Becomes(p, new)
    <2>1. Alive(p)'
      BY <1>1, <1>4, Zenon DEF Alive, Zombie
    <2>2. UNCHANGED pending
      BY <1>4, Zenon DEF Becomes
    <2>3. QED BY <1>1, <1>2, <2>1, <2>2, Zenon DEF Processes
  <1>5. QED BY <1>3, <1>4, Zenon

(* A child's step leaves the master's scalars alone.                       *)
LEMMA ScalarsChild ==
  ASSUME Scalars, ChildUnchanged, UNCHANGED network, pipe' \subseteq pipe \cup {"C"}
  PROVE  Scalars'
  BY Zenon DEF Scalars, ChildUnchanged, pctl, network, faults

(* A child changes its state, and reports a stage that fits it.            *)
LEMMA StepChildState ==
  ASSUME IInv, NEW p \in Pids, Alive(p), ChildUnchanged, Scalars',
         NEW new \in Statuses \ {"none"},
         Ends(p, new) \/ (new \notin Zombies /\ Becomes(p, new)),
         \/ /\ UNCHANGED <<request_stage, long_idle>>
            /\ new \notin {"starting", "accepting", "busy"}
         \/ \E stage \in Stages \ {"unused"} :
              /\ Report(p, stage)
              /\ new = "starting" => stage = "none"
              /\ new = "accepting" => stage = "accepting"
              /\ new = "busy" => stage = "running"
  PROVE  IInv'
  <1>1. status' = [status EXCEPT ![p] = new] /\ status[p] # "none"
    BY Zenon DEF Ends, Becomes, Alive
  <1>2. UNCHANGED <<structs, free_proc>> /\ UNCHANGED <<children, master>>
    BY Zenon DEF ChildUnchanged, structs
  <1>3. Registry'
    BY <1>1, <1>2, RegistryChild, ZenonT(30) DEF IInv
  <1>4. Processes'
    BY ProcessesChild, Zenon DEF IInv, Registry
  <1>5. Mastering'
    BY <1>2, MasterSame, Zenon DEF IInv
  <1>6. QED BY <1>3, <1>4, <1>5, Zenon DEF IInv

(* Every step of a child.                                                  *)
LEMMA StepChild ==
  ASSUME IInv, NEW p \in Pids, Child(p)
  PROVE  IInv'
  <1> USE DEF Statuses, Zombies, Stages
  <1>1. CASE ChildInit(p)
    <2>1. PICK new \in {"ready", "exited"} :
            \/ new = "exited" /\ Ends(p, new)
            \/ new = "ready" /\ Becomes(p, new)
      BY <1>1, Zenon DEF ChildInit
    <2>2. Alive(p) /\ ChildUnchanged /\ UNCHANGED <<request_stage, long_idle>> /\ UNCHANGED network
      BY <1>1, Zenon DEF ChildInit, Alive, Zombie
    <2>3. Scalars'
      BY <2>1, <2>2, ScalarsChild, Zenon DEF IInv, Ends, Becomes
    <2>4. QED BY <2>1, <2>2, <2>3, StepChildState, Zenon
  <1>2. CASE Accepting(p)
    <2>1. /\ Alive(p) /\ ChildUnchanged /\ UNCHANGED network
          /\ Becomes(p, "accepting") /\ Report(p, "accepting")
      BY <1>2, Zenon DEF Accepting, Alive, Zombie
    <2>2. Scalars'
      BY <2>1, ScalarsChild, Zenon DEF IInv, Becomes
    <2>3. QED BY <2>1, <2>2, StepChildState, Zenon
  <1>3. CASE Accept(p)
    <2>1. /\ Alive(p) /\ ChildUnchanged /\ UNCHANGED socket_event
          /\ Becomes(p, "busy") /\ Report(p, "running")
      BY <1>3, Zenon DEF Accept, Alive, Zombie
    <2>2. backlog' \in [Pools -> 0 .. Backlog]
      <3>1. PoolOf(p) \in Pools
        BY <2>1, PoolOfFacts, Zenon DEF IInv, Alive
      <3>2. backlog[PoolOf(p)] \in 0 .. Backlog /\ backlog[PoolOf(p)] > 0
        BY <1>3, <3>1, Zenon DEF IInv, Scalars, Accept
      <3>3. backlog[PoolOf(p)] - 1 \in 0 .. Backlog
        <4> DEFINE n == backlog[PoolOf(p)]
        <4>1. n \in 0 .. Backlog /\ n > 0 /\ Backlog \in Nat
          BY <3>2, ConfigAssumption, Zenon
        <4> HIDE DEF n
        <4>2. n - 1 \in 0 .. Backlog
          BY <4>1
        <4>3. QED BY <4>2, Zenon DEF n
      <3>4. backlog' = [backlog EXCEPT ![PoolOf(p)] = backlog[PoolOf(p)] - 1]
        BY <1>3, Zenon DEF Accept
      <3>5. QED BY <3>3, <3>4, ZenonT(30) DEF IInv, Scalars
    <2>3. Scalars'
      BY <2>1, <2>2, Zenon DEF IInv, Scalars, Becomes, ChildUnchanged, pctl, faults
    <2>4. QED BY <2>1, <2>3, StepChildState, Zenon
  <1>4. CASE Leave(p) \/ Crash(p)
    <2>1. /\ Alive(p) /\ ChildUnchanged /\ UNCHANGED network
          /\ UNCHANGED <<request_stage, long_idle>>
      BY <1>4, Zenon DEF Leave, Crash, Alive, Zombie
    <2>2. PICK new \in {"exited", "SEGV"} : Ends(p, new)
      BY <1>4, Zenon DEF Leave, Crash
    <2>3. Scalars'
      BY <2>1, <2>2, ScalarsChild, Zenon DEF IInv, Ends
    <2>4. QED BY <2>1, <2>2, <2>3, StepChildState, Zenon
  <1>5. CASE FinishRequest(p)
    <2>1. PICK new \in {"ready", "exited"} :
            \/ new = "exited" /\ Ends(p, new)
            \/ new = "ready" /\ Becomes(p, new)
      BY <1>5, Zenon DEF FinishRequest
    <2>2. Alive(p) /\ ChildUnchanged /\ UNCHANGED network /\ Report(p, "finished")
      BY <1>5, Zenon DEF FinishRequest, Alive, Zombie
    <2>3. Scalars'
      BY <2>1, <2>2, ScalarsChild, Zenon DEF IInv, Ends, Becomes
    <2>4. QED BY <2>1, <2>2, <2>3, StepChildState, Zenon
  <1>6. QED BY <1>1, <1>2, <1>3, <1>4, <1>5, Zenon DEF Child

(* A signal is delivered.                                                  *)
LEMMA StepDeliver ==
  ASSUME IInv, NEW p \in Pids, Deliver(p)
  PROVE  IInv'
  <1>1. ASSUME ChildUnchanged, NEW gone \in SUBSET Signals,
               pending' = [pending EXCEPT ![p] = @ \ gone],
               in_shutdown' \in [Pids -> BOOLEAN],
               UNCHANGED <<pipe, network, request_stage, long_idle, status>>
        PROVE  IInv'
    <2>1. UNCHANGED <<structs, slots, status>> /\ UNCHANGED <<children, master>>
      BY <1>1, Zenon DEF ChildUnchanged, structs, slots
    <2>2. Registry' /\ Mastering'
      BY <2>1, RegistryFrame, MasterSame, Zenon DEF IInv
    <2>3. Scalars'
      BY <1>1, ScalarsChild, Zenon DEF IInv
    <2>4. Processes'
      <3>1. pending' \in [Pids -> SUBSET Signals]
        BY <1>1, Zenon DEF IInv, Processes
      <3>2. \A q \in Pids : pending'[q] \subseteq pending[q]
        BY <1>1, Zenon DEF IInv, Processes
      <3>3. \A q \in Pids : Alive(q)' <=> Alive(q)
        BY <2>1, Zenon DEF Alive, Zombie
      <3>4. \A q \in Pids : pending'[q] # {} => Alive(q)'
        BY <3>2, <3>3, Zenon DEF IInv, Processes
      <3>5. QED BY <1>1, <3>1, <3>4, Zenon DEF Processes
    <2>5. QED BY <2>2, <2>3, <2>4, Zenon DEF IInv
  <1>2. CASE SoftQuit(p)
    <2>1. in_shutdown' \in [Pids -> BOOLEAN]
      BY <1>2, Zenon DEF SoftQuit, IInv, Processes
    <2>2. {"QUIT"} \in SUBSET Signals
      BY Zenon DEF Signals
    <2>3. QED BY <1>1, <1>2, <2>1, <2>2, ZenonT(30) DEF SoftQuit
  <1>3. ASSUME NEW sig \in {"QUIT", "TERM", "KILL"}, Ignore(p, sig)
        PROVE  IInv'
    <2>1. in_shutdown' \in [Pids -> BOOLEAN]
      BY <1>3, Zenon DEF Ignore, IInv, Processes
    <2>2. {sig} \in SUBSET Signals
      BY Zenon DEF Signals
    <2>3. QED BY <1>1, <1>3, <2>1, <2>2, ZenonT(30) DEF Ignore
  <1>4. ASSUME NEW sig \in {"QUIT", "TERM", "KILL"}, Killed(p, sig)
        PROVE  IInv'
    <2>1. sig \in Zombies /\ sig \in Statuses \ {"none", "starting", "accepting", "busy"}
      BY <1>4, Zenon DEF Killed, Statuses, Zombies
    <2>2. /\ Alive(p) /\ ChildUnchanged /\ Ends(p, sig) /\ UNCHANGED network
          /\ UNCHANGED <<request_stage, long_idle>>
      BY <1>4, Zenon DEF Killed
    <2>3. Scalars'
      BY <2>2, ScalarsChild, Zenon DEF IInv, Ends
    <2>4. QED BY <2>1, <2>2, <2>3, StepChildState, Zenon
  <1>5. QED BY <1>2, <1>3, <1>4, Zenon DEF Deliver

-----------------------------------------------------------------------------
(* The environment.                                                        *)

(* Connections arrive, the operator sends signals, and time passes.        *)
LEMMA StepEnvironment ==
  ASSUME IInv, Environment
  PROVE  IInv'
  <1>1. ASSUME UNCHANGED <<structs, slots, master, process>>, Scalars'
        PROVE  IInv'
    <2>1. UNCHANGED status /\ UNCHANGED <<children, master>>
      BY <1>1, Zenon DEF process, structs
    <2>2. Registry' /\ Mastering' /\ Processes'
      BY <1>1, <2>1, RegistryFrame, MasterSame, ProcessesSame, Zenon DEF IInv
    <2>3. QED BY <1>1, <2>2, Zenon DEF IInv
  <1>2. ASSUME NEW wp \in Pools, Connect(wp)
        PROVE  IInv'
    <2>1. backlog' \in [Pools -> 0 .. Backlog]
      <3>1. backlog[wp] \in 0 .. Backlog /\ backlog[wp] < Backlog
        BY <1>2, Zenon DEF IInv, Scalars, Connect
      <3>2. backlog[wp] + 1 \in 0 .. Backlog
        BY <3>1, ConfigAssumption
      <3>3. backlog' = [backlog EXCEPT ![wp] = backlog[wp] + 1]
        BY <1>2, Zenon DEF Connect
      <3>4. QED BY <3>2, <3>3, Zenon DEF IInv, Scalars
    <2>2. socket_event' \subseteq OndemandPools
      BY <1>2, Zenon DEF IInv, Scalars, Connect, OndemandPools
    <2>3. Scalars'
      BY <1>2, <2>1, <2>2, Zenon DEF IInv, Scalars, Connect, pctl, faults
    <2>4. QED BY <1>1, <1>2, <2>3, Zenon DEF Connect
  <1>3. ASSUME NEW c \in Operator, Raise(c)
        PROVE  IInv'
    <2>1. c \in {"C", "T", "Q", "2"}
      BY ConfigAssumption, Zenon
    <2>2. Scalars'
      BY <1>3, <2>1, Zenon DEF IInv, Scalars, Raise, pctl, network, faults
    <2>3. QED BY <1>1, <1>3, <2>2, Zenon DEF Raise
  <1>4. ASSUME NEW p \in Pids, IdleTimePasses(p)
        PROVE  IInv'
    <2>1. /\ UNCHANGED <<children, scoreboard_i, request_stage, status>>
          /\ UNCHANGED <<idle_kill, free_proc, master>> /\ UNCHANGED process
          /\ ChildUnchanged /\ UNCHANGED network /\ pipe' = pipe
      BY <1>4, Zenon DEF IdleTimePasses, ChildUnchanged, structs, process
    <2>2. p \in Linked
      BY <1>4, Zenon DEF IdleTimePasses, IInv, Registry, ChildrenKnown
    <2>3. Registry'
      BY <1>4, <2>1, <2>2, RegistrySame, ZenonT(30) DEF IdleTimePasses, IInv, Registry
    <2>4. Mastering' /\ Processes' /\ Scalars'
      BY <2>1, MasterSame, ProcessesSame, ScalarsChild, Zenon DEF IInv
    <2>5. QED BY <2>3, <2>4, Zenon DEF IInv
  <1>5. CASE FaultAges
    <2>1. last_faults' \in [1 .. emergency_restart_threshold -> BOOLEAN]
      BY <1>5, ZenonT(30) DEF FaultAges, IInv, Scalars
    <2>2. Scalars'
      BY <1>5, <2>1, Zenon DEF FaultAges, IInv, Scalars, pctl, network
    <2>3. QED BY <1>1, <1>5, <2>2, Zenon DEF FaultAges
  <1>6. CASE Exited
    BY <1>1, <1>6, Zenon DEF Exited, vars, IInv, Scalars, pctl, network, faults
  <1>7. QED BY <1>2, <1>3, <1>4, <1>5, <1>6, Zenon DEF Environment

(* Every step of the system keeps the invariant.                           *)
LEMMA StepNext ==
  ASSUME IInv, [Next]_vars
  PROVE  IInv'
  <1>1. CASE Handler
    BY <1>1, StepFork, StepBuryLast, StepBury, StepBuryFault, StepMakeDone, StepMakeFails,
       StepStartFailed, StepStartPool, StepTurns, StepMaintain, StepMaintainSpawn,
       StepExec, StepExecFails DEF Handler
  <1>2. CASE EventLoop
    BY <1>2, StepPctl, StepTurns, StepOnSocketAccept, StepRequestTimeout, Zenon DEF EventLoop
  <1>3. CASE Environment
    BY <1>3, StepEnvironment, Zenon
  <1>4. CASE \E p \in Pids : Deliver(p) \/ Child(p)
    BY <1>4, StepDeliver, StepChild, Zenon
  <1>5. CASE UNCHANGED vars
    <2>1. /\ UNCHANGED <<structs, slots, status>> /\ UNCHANGED <<children, master>>
          /\ UNCHANGED process
      BY <1>5, Zenon DEF vars, structs, process
    <2>2. Registry' /\ Mastering' /\ Processes'
      BY <2>1, RegistryFrame, MasterSame, ProcessesSame, Zenon DEF IInv
    <2>3. Scalars'
      BY <1>5, Zenon DEF vars, IInv, Scalars, pctl, network, faults
    <2>4. QED BY <2>2, <2>3, Zenon DEF IInv
  <1>6. QED BY <1>1, <1>2, <1>3, <1>4, <1>5, Zenon DEF Next

-----------------------------------------------------------------------------
(* The theorems.                                                           *)

(* The four parts of the invariant hold together in every state that the   *)
(* master, its children and the kernel can reach.                          *)
THEOREM MasterInvariant == Spec => []IInv
  <1>1. Init => IInv
    <2> SUFFICES ASSUME Init
                 PROVE  IInv
      BY Zenon
    <2>1. Fresh
      BY Zenon DEF Init, Fresh, Statuses
    <2>2. FreshScalars
      <3>1. 0 \in 0 .. Backlog
        BY ConfigAssumption
      <3>2. backlog \in [Pools -> 0 .. Backlog]
        BY <3>1, Zenon DEF Init
      <3>3. QED BY <3>2, Zenon DEF Init, FreshScalars
    <2>3. Processes
      BY Zenon DEF Init, Processes
    <2>4. QED BY <2>1, <2>2, <2>3, FreshMaster, Zenon DEF IInv
  <1>2. IInv /\ [Next]_vars => IInv'
    BY StepNext, Zenon
  <1>3. QED BY <1>1, <1>2, PTL DEF Spec

(* Every variable of the master has its type: in particular the free slot  *)
(* hint and every child's slot are slots of the child's own pool, and no   *)
(* signal is pending for a process that does not live.                     *)
THEOREM TypeCorrect == Spec => []TypeOK
  <1>1. IInv => TypeOK
    BY ZenonT(30) DEF IInv, TypeOK, Registry, Processes, Mastering, Scalars
  <1>2. QED BY <1>1, MasterInvariant, PTL

(* The list of the master and the process table of the kernel agree at     *)
(* every moment (fpm_children_make, fpm_children_bury, execvp).            *)
THEOREM ListIsProcessTable == Spec => []ChildrenKnown
  <1>1. IInv => ChildrenKnown
    BY Zenon DEF IInv, Registry
  <1>2. QED BY <1>1, MasterInvariant, PTL

(* A slot of the scoreboard is in use exactly when one child has it        *)
(* (fpm_scoreboard_proc_alloc, fpm_scoreboard_proc_free).                  *)
THEOREM SlotsAreExact == Spec => []SlotsExact
  <1>1. IInv => SlotsExact
    <2> SUFFICES ASSUME IInv, NEW wp \in Pools, NEW i \in Slots(wp)
                 PROVE  Cardinality({p \in Range(children[wp]) : scoreboard_i[p] = i})
                          = IF request_stage[wp][i] = "unused" THEN 0 ELSE 1
      BY Zenon DEF SlotsExact
    <2> DEFINE T == {p \in Range(children[wp]) : scoreboard_i[p] = i}
    <2>0. /\ \A p, q \in Range(children[wp]) : scoreboard_i[p] = scoreboard_i[q] => p = q
          /\ request_stage[wp][i] # "unused" <=>
               \E p \in Range(children[wp]) : scoreboard_i[p] = i
      BY Zenon DEF IInv, Registry, SlotsOwned
    <2>1. /\ \A p, q \in T : p = q
          /\ request_stage[wp][i] # "unused" <=> T # {}
      BY <2>0, Zenon
    <2> HIDE DEF T
    <2>2. CASE T = {}
      BY <2>1, <2>2, FS_EmptySet, Zenon DEF T
    <2>3. ASSUME NEW p \in T
          PROVE  Cardinality(T) = 1 /\ request_stage[wp][i] # "unused"
      <3>1. T = {p}
        BY <2>1, Zenon
      <3>2. Cardinality({p}) = 1
        BY FS_Singleton, Zenon
      <3>3. QED BY <2>1, <3>1, <3>2, Zenon
    <2>4. QED BY <2>2, <2>3, Zenon DEF T
  <1>2. QED BY <1>1, MasterInvariant, PTL

(* What the scoreboard shows of a child is the child's own report: its     *)
(* slot was wiped before it was forked (fpm_idle_server_maintenance and    *)
(* fpm_pctl_on_socket_accept read it).                                     *)
THEOREM ReportsAreOwn == Spec => []StageIsOwn
  <1>1. IInv => StageIsOwn
    BY Zenon DEF IInv, Registry
  <1>2. QED BY <1>1, MasterInvariant, PTL

(* pm.max_children and process.max bound the children, whoever asks        *)
(* fpm_children_make for more.                                             *)
THEOREM ChildrenAreBounded == Spec => []MaxChildren
  <1>1. IInv => MaxChildren
    BY Zenon DEF IInv, Mastering
  <1>2. QED BY <1>1, MasterInvariant, PTL

(* The master leaves no process behind when it exits or calls execvp()     *)
(* (fpm_pctl_child_exited, fpm_pctl_action_last).                          *)
THEOREM NoChildIsLeft == Spec => []NoOrphans
  <1>1. IInv => NoOrphans
    BY Zenon DEF IInv, Mastering, Registry, ChildrenKnown, NoOrphans
  <1>2. QED BY <1>1, MasterInvariant, PTL
=============================================================================
