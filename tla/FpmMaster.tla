------------------------------ MODULE FpmMaster ------------------------------
(***************************************************************************)
(* The FPM master process and its children (sapi/fpm/fpm/):                *)
(*   fpm_process_ctl.c  the state machine of a stop or a reload, the idle  *)
(*                      maintenance of the pools, the request timeout;     *)
(*   fpm_children.c     fork, the list of children, waitpid;               *)
(*   fpm_signals.c      the handlers of the master and of a child;         *)
(*   fpm_events.c       the event loop that runs all of it;                *)
(*   fpm_scoreboard.c   the slots of shared memory the children report in. *)
(*                                                                         *)
(* The master is one thread.  It waits in the event loop ("loop") and runs *)
(* one handler at a time; a handler that forks or that buries children     *)
(* takes one step for each child, because the children run in between.     *)
(*                                                                         *)
(* The signal pipe is the set of the bytes in it: reading a byte twice in  *)
(* a row does nothing the first reading has not done, and the kernel may   *)
(* deliver two signals in either order.                                    *)
(***************************************************************************)
EXTENDS Integers, Sequences, FiniteSetsExt

CONSTANTS
  PoolList,               \* fpm_worker_all_pools, a sequence
  Pids,                   \* the process ids the kernel gives out
  pm,                     \* of a pool: "static", "dynamic" or "ondemand"
  pm_max_children,
  pm_start_servers,
  pm_min_spare_servers,
  pm_max_spare_servers,
  process_max,            \* 0: no limit
  FPM_MAX_SPAWN_RATE,
  emergency_restart_threshold,    \* 0: no emergency restart
  max_requests,           \* may a child end because of pm.max_requests?
  request_terminate_timeout,      \* is it set?
  StartFails,             \* may fork(), malloc() or a child's start fail?
  Crashes,                \* may a request end with SIGSEGV?
  Catches,                \* may a script handle SIGTERM itself?
  Operator,               \* the signals sent to the master from outside
  Backlog                 \* bound: the connections waiting in a pool

Pools == Range(PoolList)
Slots(wp) == 1 .. pm_max_children[wp]

ASSUME ConfigAssumption ==
  /\ PoolList \in Seq(Pools) /\ IsInjective(PoolList)
  /\ IsFiniteSet(Pids)
  /\ \A wp \in Pools :
       /\ pm[wp] \in {"static", "dynamic", "ondemand"}
       /\ pm_max_children[wp] \in Nat \ {0}
       /\ pm_start_servers[wp] \in 0 .. pm_max_children[wp]
       /\ pm_min_spare_servers[wp] \in 0 .. pm_max_spare_servers[wp]
       /\ pm_max_spare_servers[wp] \in 0 .. pm_max_children[wp]
       /\ pm[wp] = "dynamic" => pm_min_spare_servers[wp] > 0
  /\ process_max \in Nat
  /\ FPM_MAX_SPAWN_RATE \in Nat \ {0}
  /\ emergency_restart_threshold \in Nat
  /\ Operator \subseteq {"T", "Q", "2"}
  /\ Backlog \in Nat

VARIABLES
  fpm_state, fpm_signal_sent,
  pctl_event,        \* is the timer in fpm_event_queue_timer?
  pipe,              \* the bytes in the signal pipe
  socket_event,      \* the ondemand pools whose socket has an edge to report
  children,          \* wp->children, the newest first
  scoreboard_i, idle_kill,         \* fields of a child's struct
  request_stage,     \* scoreboard->procs: "unused" or the stage
  long_idle,         \* the children whose last report in the scoreboard is
                     \* older than pm.process_idle_timeout
  free_proc, idle_spawn_rate,
  last_faults, fault,
  master,            \* what the master is doing
  status,            \* of a process: the kernel's and the child's state
  pending,           \* of a process: the signals not yet delivered
  in_shutdown,       \* of a child
  backlog            \* of a pool: connections not yet accepted

pctl == <<fpm_state, fpm_signal_sent, pctl_event>>
slots == <<request_stage, free_proc, long_idle>>
structs == <<children, scoreboard_i, idle_kill>>
faults == <<last_faults, fault>>
process == <<status, pending, in_shutdown>>
network == <<socket_event, backlog>>
vars == <<pctl, pipe, network, structs, slots, idle_spawn_rate, faults,
          master, process>>

(* What the master is doing: an operation, the pools it has still to look  *)
(* at, and for fpm_children_make the number of children to reach and the   *)
(* caller.                                                                 *)
Doing(op, rest) == [op |-> op, rest |-> rest, max |-> 0, then |-> "none"]
Making(rest, max, then) ==
  [op |-> "make", rest |-> rest, max |-> max, then |-> then]
Loop == Doing("loop", <<>>)

Zombies == {"exited", "SEGV", "TERM", "KILL"}
Statuses == {"none", "starting", "ready", "accepting", "busy"} \cup Zombies
Zombie(p) == status[p] \in Zombies
Alive(p) == status[p] # "none" /\ ~Zombie(p)

Linked == UNION {Range(children[wp]) : wp \in Pools}
PoolOf(p) == CHOOSE wp \in Pools : p \in Range(children[wp])
running_children(wp) == Len(children[wp])
AllRunning == Cardinality(Linked)

NoFaults == [i \in 1 .. emergency_restart_threshold |-> FALSE]

(* The memory of a master that has read its configuration.                 *)
NoChildren == [wp \in Pools |-> <<>>]
NoSlot == [p \in Pids |-> 0]
AllUnused == [wp \in Pools |-> [i \in Slots(wp) |-> "unused"]]
FirstSlot == [wp \in Pools |-> 1]
SlowRate == [wp \in Pools |-> 1]

Init ==
  /\ fpm_state = "normal"
  /\ fpm_signal_sent = "none"
  /\ pctl_event = FALSE
  /\ pipe = {}
  /\ socket_event = {}
  /\ children = NoChildren
  /\ scoreboard_i = NoSlot
  /\ idle_kill = {}
  /\ request_stage = AllUnused
  /\ long_idle = {}
  /\ free_proc = FirstSlot
  /\ idle_spawn_rate = SlowRate
  /\ last_faults = NoFaults
  /\ fault = 1
  /\ master = Doing("start", PoolList)
  /\ status = [p \in Pids |-> "none"]
  /\ pending = [p \in Pids |-> {}]
  /\ in_shutdown = [p \in Pids |-> FALSE]
  /\ backlog = [wp \in Pools |-> 0]
-----------------------------------------------------------------------------
(* kill(): a signal to processes of the master's own children.             *)
Signalled(pids, sig) ==
  [p \in Pids |-> IF p \in pids /\ Alive(p) THEN pending[p] \cup {sig}
                                            ELSE pending[p]]

(* fpm_pctl_action_last: execvp() or exit().                               *)
ActionLast(state) ==
  Doing(IF state = "reloading" THEN "exec" ELSE "exit", <<>>)

NextSignal(state, sent) ==
  CASE sent = "none" -> IF state = "terminating" THEN "TERM" ELSE "QUIT"
    [] sent = "QUIT" -> "TERM"
    [] OTHER         -> "KILL"

(* Mutant: dead children that wait to be buried do not count.              *)
ActionNextAlive(state, sent, kids, next) ==
  /\ fpm_state' = state
  /\ IF \A p \in kids : Zombie(p)
       THEN /\ master' = ActionLast(state)
            /\ fpm_signal_sent' = sent
            /\ UNCHANGED pending
       ELSE /\ master' = next
            /\ fpm_signal_sent' = NextSignal(state, sent)
            /\ pending' = Signalled(kids, NextSignal(state, sent))

(* fpm_pctl_action_next but for the timer, with the children kids; the     *)
(* master then goes on with next.                                          *)
ActionNext(state, sent, kids, next) ==
  /\ fpm_state' = state
  /\ IF kids = {}
       THEN /\ master' = ActionLast(state)
            /\ fpm_signal_sent' = sent
            /\ UNCHANGED pending
       ELSE /\ master' = next
            /\ fpm_signal_sent' = NextSignal(state, sent)
            /\ pending' = Signalled(kids, NextSignal(state, sent))

MayOverride(state, new) ==
  /\ state # new
  /\ \/ state = "normal"
     \/ state = "reloading" /\ new = "finishing"
     \/ state \in {"reloading", "finishing"} /\ new = "terminating"

(* fpm_pctl(new, FPM_PCTL_ACTION_SET).  The timer is put in the queue, or  *)
(* is there already and gets a new time.                                   *)
PctlSet(new, kids, next) ==
  IF MayOverride(fpm_state, new)
    THEN ActionNext(new, "none", kids, next) /\ pctl_event' = TRUE
    ELSE master' = next /\ UNCHANGED <<pctl, pending>>

(* The timer fires: fpm_pctl_action, then the event loop takes the element *)
(* of the timer out of the queue.  The fpm_event_add of the callback found *)
(* the timer in the queue and did not put it there a second time.          *)
PctlTimeout ==
  /\ master.op = "loop" /\ pctl_event
  /\ ActionNext(fpm_state, fpm_signal_sent, Linked, Loop)
  /\ pctl_event' = FALSE
  /\ UNCHANGED <<pipe, network, structs, slots, idle_spawn_rate, faults,
                 status, in_shutdown>>

(* fpm_got_signal: SIGINT or SIGTERM, SIGQUIT, SIGUSR2.                    *)
StateOf(c) ==
  CASE c = "T" -> "terminating" [] c = "Q" -> "finishing"
    [] c = "2" -> "reloading"

GotSignal(c) ==
  /\ master.op = "loop" /\ c \in pipe
  /\ pipe' = pipe \ {c}
  /\ PctlSet(StateOf(c), Linked, Loop)
  /\ UNCHANGED <<network, structs, slots, idle_spawn_rate, faults, status,
                 in_shutdown>>

(* fpm_got_signal: SIGCHLD.                                                *)
GotSigchld ==
  /\ master.op = "loop" /\ "C" \in pipe
  /\ pipe' = pipe \ {"C"}
  /\ master' = Doing("bury", <<>>)
  /\ UNCHANGED <<pctl, network, structs, slots, idle_spawn_rate, faults,
                 process>>
-----------------------------------------------------------------------------
(* fpm_children_make: the number of children to reach, when n are to be    *)
(* made from the event loop and running are there.                         *)
MakeMax(wp, running, n) ==
  IF pm[wp] = "static" THEN pm_max_children[wp] ELSE running + n

MakeMaxInitial(wp) ==
  CASE pm[wp] = "static"   -> pm_max_children[wp]
    [] pm[wp] = "dynamic"  -> pm_start_servers[wp]
    [] pm[wp] = "ondemand" -> 0

(* fpm_scoreboard_proc_alloc: the slot that is supposed to be free, else   *)
(* the first free one; 0 when there is none.                               *)
FreeSlot(wp) ==
  LET free == {i \in Slots(wp) : request_stage[wp][i] = "unused"}
  IN  CASE free_proc[wp] \in free -> free_proc[wp]
        [] free = {}              -> 0
        [] OTHER                  -> Min(free)

(* Mutant: no way back to the first slot.                                  *)
AfterSlotNoWrap(wp, i) == i + 1

AfterSlot(wp, i) == IF i + 1 > pm_max_children[wp] THEN 1 ELSE i + 1

pool == Head(master.rest)

(* Mutant: children are made in every state of the master.                 *)
CanMakeInAnyState ==
  /\ running_children(pool) < master.max
  /\ process_max < 1 \/ AllRunning < process_max

(* Mutant: process.max is compared with the children of the pool.          *)
CanMakePoolCount ==
  /\ fpm_state = "normal"
  /\ running_children(pool) < master.max
  /\ process_max < 1 \/ running_children(pool) < process_max

CanMake ==
  /\ fpm_state = "normal"
  /\ running_children(pool) < master.max
  /\ process_max < 1 \/ AllRunning < process_max

(* One round of the loop: fpm_resources_prepare, fork and, in the master,  *)
(* fpm_parent_resources_use.                                               *)
Fork(p) ==
  LET i == FreeSlot(pool) IN
  /\ master.op = "make" /\ CanMake
  /\ i # 0
  /\ status[p] = "none"
  /\ request_stage' = [request_stage EXCEPT ![pool][i] = "none"]
  /\ free_proc' = [free_proc EXCEPT ![pool] = AfterSlot(pool, i)]
  /\ children' = [children EXCEPT ![pool] = <<p>> \o @]
  /\ scoreboard_i' = [scoreboard_i EXCEPT ![p] = i]
  /\ status' = [status EXCEPT ![p] = "starting"]
  /\ UNCHANGED <<pctl, pipe, network, idle_kill, long_idle, idle_spawn_rate,
                 faults, master, pending, in_shutdown>>

(* The caller goes on: fpm_run with the next pool, the maintenance after   *)
(* doubling the spawn rate, fpm_children_bury with the next zombie.        *)
MakeReturns ==
  /\ master' = IF master.then \in {"start", "maintain"}
                 THEN Doing(master.then, Tail(master.rest))
                 ELSE Doing(master.then, <<>>)
  /\ idle_spawn_rate' =
       IF master.then = "maintain" /\ idle_spawn_rate[pool] < FPM_MAX_SPAWN_RATE
         THEN [idle_spawn_rate EXCEPT ![pool] = 2 * @]
         ELSE idle_spawn_rate

MakeDone ==
  /\ master.op = "make" /\ ~CanMake
  /\ MakeReturns
  /\ UNCHANGED <<pctl, pipe, network, structs, slots, faults, process>>

(* Mutant: a fork that fails keeps its slot.                               *)
MakeFailedKeepsSlot ==
  /\ master.op = "make" /\ CanMake
  /\ StartFails /\ FreeSlot(pool) # 0
  /\ request_stage' = [request_stage EXCEPT ![pool][FreeSlot(pool)] = "none"]
  /\ UNCHANGED <<pipe, network, structs, free_proc, long_idle, faults,
                 status, in_shutdown>>

(* The slot after fpm_resources_prepare fails before it has a slot, or     *)
(* fork fails and fpm_resources_discard gives the slot back.               *)
MakeFailed ==
  /\ master.op = "make" /\ CanMake
  /\ StartFails \/ FreeSlot(pool) = 0
  /\ free_proc' \in
       {free_proc} \cup
       {[free_proc EXCEPT ![pool] = i] : i \in {FreeSlot(pool)} \ {0}}
  /\ UNCHANGED <<pipe, network, structs, request_stage, long_idle, faults,
                 status, in_shutdown>>

(* fork failed in the event loop: the callers look at nothing.             *)
MakeFails ==
  /\ MakeFailed
  /\ master.then # "start"
  /\ MakeReturns
  /\ UNCHANGED <<pctl, pending>>

(* fork failed in fpm_run: the master stops.                               *)
StartFailed ==
  /\ MakeFailed
  /\ master.then = "start"
  /\ PctlSet("terminating", Linked, Loop)
  /\ UNCHANGED idle_spawn_rate

(* fpm_run, fpm_children_create_initial.                                   *)
StartPool ==
  /\ master.op = "start" /\ master.rest # <<>>
  /\ IF pm[pool] = "ondemand"
       THEN /\ socket_event' = IF backlog[pool] > 0
                                 THEN socket_event \cup {pool}
                                 ELSE socket_event
            /\ master' = Doing("start", Tail(master.rest))
       ELSE /\ master' = Making(master.rest, MakeMaxInitial(pool), "start")
            /\ UNCHANGED socket_event
  /\ UNCHANGED <<pctl, pipe, backlog, structs, slots, idle_spawn_rate,
                 faults, process>>

(* fpm_run enters the event loop; the maintenance returns to it.           *)
PoolsDone ==
  /\ master.op \in {"start", "maintain"} /\ master.rest = <<>>
  /\ master' = Loop
  /\ UNCHANGED <<pctl, pipe, network, structs, slots, idle_spawn_rate,
                 faults, process>>
-----------------------------------------------------------------------------
(* Mutant: the newest child is taken out of the list.                      *)
UnlinkFirst(p) ==
  LET wp == PoolOf(p)
      i  == scoreboard_i[p] IN
  /\ children' = [children EXCEPT ![wp] = Tail(@)]
  /\ idle_kill' = idle_kill \ {p}
  /\ scoreboard_i' = [scoreboard_i EXCEPT ![p] = 0]
  /\ request_stage' = [request_stage EXCEPT ![wp][i] = "unused"]
  /\ long_idle' = long_idle \ {p}
  /\ free_proc' = [free_proc EXCEPT ![wp] = i]
  /\ status' = [status EXCEPT ![p] = "none"]
  /\ in_shutdown' = [in_shutdown EXCEPT ![p] = FALSE]

(* fpm_child_find: where p is in the list of its pool.                     *)
PlaceOf(p) ==
  CHOOSE k \in DOMAIN children[PoolOf(p)] : children[PoolOf(p)][k] = p

(* fpm_child_unlink: the neighbours of the k-th child are joined.          *)
Without(kids, k) == SubSeq(kids, 1, k - 1) \o SubSeq(kids, k + 1, Len(kids))

(* fpm_children_bury: what every buried child p leaves behind, and         *)
(* waitpid() has let go of it.                                             *)
Unlink(p) ==
  LET wp == PoolOf(p)
      i  == scoreboard_i[p] IN
  /\ children' = [children EXCEPT ![wp] = Without(@, PlaceOf(p))]
  /\ idle_kill' = idle_kill \ {p}
  /\ scoreboard_i' = [scoreboard_i EXCEPT ![p] = 0]
  /\ request_stage' = [request_stage EXCEPT ![wp][i] = "unused"]
  /\ long_idle' = long_idle \ {p}
  /\ free_proc' = [free_proc EXCEPT ![wp] = i]
  /\ status' = [status EXCEPT ![p] = "none"]
  /\ in_shutdown' = [in_shutdown EXCEPT ![p] = FALSE]

(* Mutant: only a child that was killed is replaced.                       *)
RestartChildKilled(p) == status[p] # "exited"

(* A child that the idle maintenance told to go is not replaced.           *)
RestartChild(p) == ~(p \in idle_kill /\ status[p] = "exited")

(* Mutant: waitpid() is called once for a SIGCHLD.                         *)
AfterBuryingOne(p) ==
  LET wp == PoolOf(p)
  IN  IF RestartChild(p)
        THEN Making(<<wp>>, MakeMax(wp, running_children(wp) - 1, 1), "loop")
        ELSE Loop

AfterBurying(p) ==
  LET wp == PoolOf(p)
  IN  IF RestartChild(p)
        THEN Making(<<wp>>, MakeMax(wp, running_children(wp) - 1, 1), "bury")
        ELSE Doing("bury", <<>>)

CountsAsFault(p) ==
  status[p] = "SEGV" /\ emergency_restart_threshold > 0

(* fpm_pctl_child_exited: it was the last child of a master that stops.    *)
LastOfAll(p) == fpm_state # "normal" /\ Linked = {p}

BuryLast(p) ==
  /\ master.op = "bury" /\ Zombie(p)
  /\ LastOfAll(p)
  /\ Unlink(p)
  /\ master' = ActionLast(fpm_state)
  /\ UNCHANGED <<pctl, pipe, network, idle_spawn_rate, faults, pending>>

Bury(p) ==
  /\ master.op = "bury" /\ Zombie(p)
  /\ ~LastOfAll(p) /\ ~CountsAsFault(p)
  /\ Unlink(p)
  /\ master' = AfterBurying(p)
  /\ UNCHANGED <<pctl, pipe, network, idle_spawn_rate, faults, pending>>

(* A fault is noted; when all the noted ones are within                    *)
(* emergency_restart_interval, the master reloads.                         *)
BuryFault(p) ==
  /\ master.op = "bury" /\ Zombie(p)
  /\ ~LastOfAll(p) /\ CountsAsFault(p)
  /\ Unlink(p)
  /\ last_faults' = [last_faults EXCEPT ![fault] = TRUE]
  /\ fault' = IF fault = emergency_restart_threshold THEN 1 ELSE fault + 1
  /\ IF \A i \in DOMAIN last_faults : last_faults'[i]
       THEN PctlSet("reloading", Linked \ {p}, AfterBurying(p))
       ELSE master' = AfterBurying(p) /\ UNCHANGED <<pctl, pending>>
  /\ UNCHANGED <<pipe, network, idle_spawn_rate>>

(* The clock: the oldest fault noted is older than the interval now.       *)
FaultAges ==
  LET noted == {i \in DOMAIN last_faults : last_faults[i]}
      oldest == IF \E i \in noted : i >= fault
                  THEN Min({i \in noted : i >= fault}) ELSE Min(noted)
  IN  /\ noted # {}
      /\ last_faults' = [last_faults EXCEPT ![oldest] = FALSE]
      /\ UNCHANGED <<pctl, pipe, network, structs, slots, idle_spawn_rate,
                     fault, master, process>>

(* waitpid() has no more to report.                                        *)
BuryDone ==
  /\ master.op = "bury" /\ \A p \in Pids : ~Zombie(p)
  /\ master' = Loop
  /\ UNCHANGED <<pctl, pipe, network, structs, slots, idle_spawn_rate,
                 faults, process>>
-----------------------------------------------------------------------------
(* fpm_pctl_perform_idle_server_maintenance                                *)
Idle(wp) ==
  {p \in Range(children[wp]) :
     request_stage[wp][scoreboard_i[p]] = "accepting"}

(* last_idle_child: the one that was started first.                        *)
OldestIdle(wp) ==
  children[wp][Max({k \in DOMAIN children[wp] : children[wp][k] \in Idle(wp)})]

MaintenanceHeartbeat ==
  /\ master.op = "loop" /\ fpm_state = "normal"
  /\ master' = Doing("maintain", PoolList)
  /\ UNCHANGED <<pctl, pipe, network, structs, slots, idle_spawn_rate,
                 faults, process>>

(* The maintenance is at a pool of this kind.                              *)
Maintaining(kind) ==
  /\ master.op = "maintain" /\ master.rest # <<>>
  /\ pm[pool] = kind
  /\ UNCHANGED <<pctl, pipe, network, children, scoreboard_i, slots, faults,
                 status, in_shutdown>>

NextPool == master' = Doing("maintain", Tail(master.rest))

KillIdle(p) ==
  /\ idle_kill' = idle_kill \cup {p}
  /\ pending' = Signalled({p}, "QUIT")
  /\ NextPool

KeepAll == NextPool /\ UNCHANGED <<idle_kill, pending>>

ResetRate == idle_spawn_rate' = [idle_spawn_rate EXCEPT ![pool] = 1]

MaintainStatic ==
  Maintaining("static") /\ KeepAll /\ UNCHANGED idle_spawn_rate

MaintainOndemand ==
  /\ Maintaining("ondemand")
  /\ IF Idle(pool) # {} /\ OldestIdle(pool) \in long_idle
       THEN KillIdle(OldestIdle(pool)) ELSE KeepAll
  /\ UNCHANGED idle_spawn_rate

TooManyIdle == Cardinality(Idle(pool)) > pm_max_spare_servers[pool]

TooFewIdle == Cardinality(Idle(pool)) < pm_min_spare_servers[pool]

ChildrenToFork ==
  Min({idle_spawn_rate[pool],
       pm_min_spare_servers[pool] - Cardinality(Idle(pool)),
       pm_max_children[pool] - running_children(pool)})

MaintainKill ==
  /\ Maintaining("dynamic")
  /\ TooManyIdle
  /\ KillIdle(OldestIdle(pool)) /\ ResetRate

MaintainSpawn ==
  /\ Maintaining("dynamic")
  /\ ~TooManyIdle /\ TooFewIdle /\ ChildrenToFork > 0
  /\ master' = Making(master.rest,
                      MakeMax(pool, running_children(pool), ChildrenToFork),
                      "maintain")
  /\ UNCHANGED <<idle_kill, pending, idle_spawn_rate>>

(* Enough idle children, or as many children as there may be.              *)
MaintainKeep ==
  /\ Maintaining("dynamic")
  /\ ~TooManyIdle /\ (TooFewIdle => ChildrenToFork <= 0)
  /\ KeepAll /\ ResetRate

(* fpm_pctl_on_socket_accept                                               *)
OnSocketAccept(wp) ==
  /\ master.op = "loop" /\ wp \in socket_event
  /\ socket_event' = socket_event \ {wp}
  /\ master' = IF running_children(wp) >= pm_max_children[wp] \/ Idle(wp) # {}
                 THEN Loop
                 ELSE Making(<<wp>>, MakeMax(wp, running_children(wp), 1),
                             "loop")
  /\ UNCHANGED <<pctl, pipe, backlog, structs, slots, idle_spawn_rate,
                 faults, process>>

(* fpm_pctl_check_request_timeout, fpm_request_check_timed_out: p has been *)
(* found at a request that takes too long.                                 *)
RequestTimeout(p) ==
  /\ master.op = "loop" /\ request_terminate_timeout
  /\ p \in Linked
  /\ request_stage[PoolOf(p)][scoreboard_i[p]] = "running"
  /\ pending' = Signalled({p}, "TERM")
  /\ UNCHANGED <<pctl, pipe, network, structs, slots, idle_spawn_rate,
                 faults, master, status, in_shutdown>>

(* fpm_pctl_exec: the descriptors of the signal pipe are closed, the       *)
(* listening sockets stay open.                                            *)
Exec ==
  /\ master.op = "exec"
  /\ fpm_state' = "normal"
  /\ fpm_signal_sent' = "none"
  /\ pctl_event' = FALSE
  /\ pipe' = {}
  /\ socket_event' = {}
  /\ children' = NoChildren
  /\ scoreboard_i' = NoSlot
  /\ idle_kill' = {}
  /\ request_stage' = AllUnused
  /\ long_idle' = {}
  /\ free_proc' = FirstSlot
  /\ idle_spawn_rate' = SlowRate
  /\ last_faults' = NoFaults
  /\ fault' = 1
  /\ master' = Doing("start", PoolList)
  /\ UNCHANGED <<process, backlog>>

ExecFails ==
  /\ master.op = "exec" /\ StartFails
  /\ master' = Doing("exit", <<>>)
  /\ UNCHANGED <<pctl, pipe, network, structs, slots, idle_spawn_rate,
                 faults, process>>
-----------------------------------------------------------------------------
(* Mutant: every child reports in the first slot.                          *)
ReportFirst(p, stage) ==
  /\ request_stage' = [request_stage EXCEPT ![PoolOf(p)][1] = stage]
  /\ long_idle' = long_idle \ {p}

(* A child.  It reports its stage in its own slot.                         *)
Report(p, stage) ==
  /\ request_stage' =
       [request_stage EXCEPT ![PoolOf(p)][scoreboard_i[p]] = stage]
  /\ long_idle' = long_idle \ {p}

ChildUnchanged ==
  UNCHANGED <<pctl, structs, free_proc, idle_spawn_rate, faults, master>>

(* The kernel keeps how p ended for waitpid() and sends SIGCHLD.           *)
Ends(p, how) ==
  /\ status' = [status EXCEPT ![p] = how]
  /\ pending' = [pending EXCEPT ![p] = {}]
  /\ pipe' = pipe \cup {"C"}
  /\ UNCHANGED in_shutdown

Becomes(p, s) ==
  /\ status' = [status EXCEPT ![p] = s]
  /\ UNCHANGED <<pipe, pending, in_shutdown>>

(* fpm_child_init: with fpm_signals_init_child the child has handlers of   *)
(* its own.                                                                *)
ChildInit(p) ==
  /\ status[p] = "starting"
  /\ Becomes(p, "ready") \/ (StartFails /\ Ends(p, "exited"))
  /\ ChildUnchanged /\ UNCHANGED <<network, request_stage, long_idle>>

(* fcgi_accept_request: unless it is to stop, the child waits in accept(). *)
Accepting(p) ==
  /\ status[p] = "ready" /\ ~in_shutdown[p]
  /\ Becomes(p, "accepting")
  /\ Report(p, "accepting")
  /\ ChildUnchanged /\ UNCHANGED network

(* accept() gives it a connection.                                         *)
Accept(p) ==
  LET wp == PoolOf(p) IN
  /\ status[p] = "accepting" /\ ~in_shutdown[p]
  /\ backlog[wp] > 0
  /\ backlog' = [backlog EXCEPT ![wp] = @ - 1]
  /\ Becomes(p, "busy")
  /\ Report(p, "running")
  /\ ChildUnchanged /\ UNCHANGED socket_event

(* The socket was closed by sig_soft_quit, or in_shutdown is seen first.   *)
Leave(p) ==
  /\ status[p] \in {"ready", "accepting"} /\ in_shutdown[p]
  /\ Ends(p, "exited")
  /\ ChildUnchanged /\ UNCHANGED <<network, request_stage, long_idle>>

(* fpm_request_end; with pm.max_requests the request may be the last.      *)
FinishRequest(p) ==
  /\ status[p] = "busy"
  /\ Becomes(p, "ready") \/ (max_requests /\ Ends(p, "exited"))
  /\ Report(p, "finished")
  /\ ChildUnchanged /\ UNCHANGED network

Crash(p) ==
  /\ Crashes /\ status[p] = "busy"
  /\ Ends(p, "SEGV")
  /\ ChildUnchanged /\ UNCHANGED <<network, request_stage, long_idle>>

(* Until fpm_signals_init_child a child has the master's sig_handler,      *)
(* which does nothing in a process that is not the master.                 *)
Ignores(p, sig) ==
  \/ status[p] = "starting" /\ sig # "KILL"
  \/ Catches /\ status[p] = "busy" /\ sig = "TERM"

Ignore(p, sig) ==
  /\ Alive(p) /\ sig \in pending[p]
  /\ Ignores(p, sig)
  /\ pending' = [pending EXCEPT ![p] = @ \ {sig}]
  /\ ChildUnchanged
  /\ UNCHANGED <<pipe, network, request_stage, long_idle, status, in_shutdown>>

(* sig_soft_quit                                                           *)
SoftQuit(p) ==
  /\ Alive(p) /\ "QUIT" \in pending[p]
  /\ ~Ignores(p, "QUIT")
  /\ pending' = [pending EXCEPT ![p] = @ \ {"QUIT"}]
  /\ in_shutdown' = [in_shutdown EXCEPT ![p] = TRUE]
  /\ ChildUnchanged
  /\ UNCHANGED <<pipe, network, request_stage, long_idle, status>>

(* The default action of the signal.                                       *)
Killed(p, sig) ==
  /\ Alive(p) /\ sig \in pending[p] \ {"QUIT"}
  /\ sig = "TERM" => status[p] # "starting"
  /\ Ends(p, sig)
  /\ ChildUnchanged /\ UNCHANGED <<network, request_stage, long_idle>>

(* The clock: p has waited in accept() for pm.process_idle_timeout.  It is *)
(* assumed that accept() does not leave a connection lying for so long.    *)
IdleTimePasses(p) ==
  /\ status[p] = "accepting" /\ pm[PoolOf(p)] = "ondemand"
  /\ backlog[PoolOf(p)] = 0
  /\ long_idle' = long_idle \cup {p}
  /\ ChildUnchanged /\ UNCHANGED <<pipe, network, request_stage, process>>

(* A client connects; a listening socket that is watched reports the edge. *)
Connect(wp) ==
  /\ backlog[wp] < Backlog
  /\ master.op # "exit"
  /\ backlog' = [backlog EXCEPT ![wp] = @ + 1]
  /\ socket_event' = IF pm[wp] = "ondemand"
                       THEN socket_event \cup {wp} ELSE socket_event
  /\ UNCHANGED <<pctl, pipe, structs, slots, idle_spawn_rate, faults,
                 master, process>>

(* sig_handler of the master.                                              *)
Raise(c) ==
  /\ master.op \notin {"exit", "exec"}
  /\ pipe' = pipe \cup {c}
  /\ UNCHANGED <<pctl, network, structs, slots, idle_spawn_rate, faults,
                 master, process>>

(* The master has exited and stays so.                                     *)
Exited == master.op = "exit" /\ UNCHANGED vars
-----------------------------------------------------------------------------
(* A handler of the event loop, once it is called.                         *)
Handler ==
  \/ \E p \in Pids : Fork(p) \/ BuryLast(p) \/ Bury(p) \/ BuryFault(p)
  \/ MakeDone \/ MakeFails \/ StartFailed \/ StartPool \/ PoolsDone
  \/ BuryDone
  \/ MaintainStatic \/ MaintainOndemand \/ MaintainKill \/ MaintainSpawn
  \/ MaintainKeep
  \/ Exec \/ ExecFails

EventLoop ==
  \/ PctlTimeout \/ GotSigchld \/ MaintenanceHeartbeat
  \/ \E c \in Operator : GotSignal(c)
  \/ \E wp \in Pools : OnSocketAccept(wp)
  \/ \E p \in Pids : RequestTimeout(p)

Deliver(p) ==
  \/ SoftQuit(p)
  \/ \E sig \in {"QUIT", "TERM", "KILL"} : Ignore(p, sig) \/ Killed(p, sig)

Child(p) ==
  \/ ChildInit(p) \/ Accepting(p) \/ Accept(p) \/ Leave(p)
  \/ FinishRequest(p) \/ Crash(p)

Environment ==
  \/ \E wp \in Pools : Connect(wp)
  \/ \E c \in Operator : Raise(c)
  \/ \E p \in Pids : IdleTimePasses(p)
  \/ FaultAges
  \/ Exited

Next ==
  \/ Handler \/ EventLoop \/ Environment
  \/ \E p \in Pids : Deliver(p) \/ Child(p)

Spec == Init /\ [][Next]_vars

OndemandPools == {wp \in Pools : pm[wp] = "ondemand"}

(* A handler returns, the event loop gets round to every event it waits    *)
(* for and to the timer of a stop, waitpid() to every zombie, and the      *)
(* kernel delivers signals, SIGKILL whatever other signals there are.      *)
(* Nothing is assumed of the children: a script may run for ever.          *)
FairSpec ==
  /\ Spec
  /\ WF_vars(Handler)
  /\ SF_vars(PctlTimeout) /\ SF_vars(GotSigchld)
  /\ \A c \in Operator : SF_vars(GotSignal(c))
  /\ \A wp \in OndemandPools : SF_vars(OnSocketAccept(wp))
  /\ \A p \in Pids : /\ SF_vars(BuryLast(p) \/ Bury(p) \/ BuryFault(p))
                     /\ WF_vars(Deliver(p)) /\ WF_vars(Killed(p, "KILL"))

(* As FairSpec, the maintenance is called again and again, and every child *)
(* runs: it ends its requests, takes the connections there are and leaves  *)
(* when it is told to.  fork() does not fail for ever.                     *)
ChildRuns(p) ==
  \/ ChildInit(p) \/ Accepting(p) \/ Accept(p) \/ Leave(p)
  \/ FinishRequest(p)

ServingSpec ==
  /\ FairSpec
  /\ SF_vars(MaintenanceHeartbeat)
  /\ \A p \in Pids : WF_vars(ChildRuns(p))
  /\ SF_vars(\E p \in Pids : Fork(p))
-----------------------------------------------------------------------------
Ops == {"start", "loop", "make", "bury", "maintain", "exec", "exit"}
Stages == {"unused", "none", "accepting", "running", "finished"}
Signals == {"QUIT", "TERM", "KILL"}

(* The types of the variables.  Signals wait only for living processes,    *)
(* and a slot that a child has is one of its pool's.                       *)
TypeOK ==
  /\ fpm_state \in {"normal", "reloading", "terminating", "finishing"}
  /\ fpm_signal_sent \in {"none"} \cup Signals
  /\ pctl_event \in BOOLEAN
  /\ pipe \subseteq {"C", "T", "Q", "2"}
  /\ socket_event \subseteq OndemandPools
  /\ children \in [Pools -> Seq(Pids)]
  /\ scoreboard_i \in [Pids -> Nat]
  /\ \A wp \in Pools : \A p \in Range(children[wp]) : scoreboard_i[p] \in Slots(wp)
  /\ idle_kill \subseteq Linked /\ long_idle \subseteq Linked
  /\ DOMAIN request_stage = Pools
  /\ \A wp \in Pools : request_stage[wp] \in [Slots(wp) -> Stages]
  /\ free_proc \in [Pools -> Nat]
  /\ \A wp \in Pools : free_proc[wp] \in Slots(wp)
  /\ idle_spawn_rate \in [Pools -> 1 .. 2 * FPM_MAX_SPAWN_RATE]
  /\ last_faults \in [1 .. emergency_restart_threshold -> BOOLEAN]
  /\ fault \in {1} \cup 1 .. emergency_restart_threshold
  /\ master \in [op : Ops, rest : Seq(Pools), max : Nat,
                  then : {"none", "start", "maintain", "bury", "loop"}]
  /\ status \in [Pids -> Statuses]
  /\ pending \in [Pids -> SUBSET Signals]
  /\ \A p \in Pids : pending[p] # {} => Alive(p)
  /\ in_shutdown \in [Pids -> BOOLEAN]
  /\ backlog \in [Pools -> 0 .. Backlog]

(* The master's list and the kernel's process table agree: every process   *)
(* that was forked and not waited for is in the list of exactly one pool,  *)
(* once.  fpm_children_bury relies on it: a child it cannot find is an     *)
(* "oops, unknown child", and kill() to a pid that was waited for would    *)
(* hit a stranger.                                                         *)
ChildrenKnown ==
  /\ Linked = {p \in Pids : status[p] # "none"}
  /\ \A wp \in Pools : IsInjective(children[wp])
  /\ \A wp, other \in Pools :
       wp # other => Range(children[wp]) \cap Range(children[other]) = {}

(* Every slot of the scoreboard in use belongs to one child, and every     *)
(* child has a slot of its own: a fork that fails and a child that is      *)
(* buried give the slot back, so that fpm_scoreboard_proc_alloc always     *)
(* finds one.                                                              *)
SlotsExact ==
  \A wp \in Pools : \A i \in Slots(wp) :
    Cardinality({p \in Range(children[wp]) : scoreboard_i[p] = i})
      = IF request_stage[wp][i] = "unused" THEN 0 ELSE 1

(* A child is only taken for idle, and only told to go or counted on to    *)
(* serve a connection, when it has reported that it waits in accept():     *)
(* a slot that is given to a new child does not show what the old one did. *)
StageIsOwn ==
  \A wp \in Pools : \A p \in Range(children[wp]) :
    LET stage == request_stage[wp][scoreboard_i[p]] IN
    /\ status[p] = "starting" => stage = "none"
    /\ status[p] = "accepting" => stage = "accepting"
    /\ status[p] = "busy" => stage = "running"

(* pm.max_children and process.max bound the children at every moment,     *)
(* whatever mixture of restarts, maintenance and accepts makes them.       *)
MaxChildren ==
  /\ \A wp \in Pools : running_children(wp) <= pm_max_children[wp]
  /\ process_max > 0 => AllRunning <= process_max

(* The master never exits and never replaces itself by execvp() while a    *)
(* child of it lives or waits to be buried.                                *)
NoOrphans ==
  master.op \in {"exec", "exit"} => \A p \in Pids : status[p] = "none"

(* SIGTERM and SIGINT always stop the master: once it is terminating it    *)
(* exits, though a child may be starting and lose the SIGTERM, may handle  *)
(* SIGTERM itself, and may never end its request.                          *)
TerminateFinishes == (fpm_state = "terminating") ~> (master.op = "exit")

(* Every child that ends is buried, also when several end before the       *)
(* master reads the one byte that SIGCHLD has left in the pipe.            *)
ZombiesBuried ==
  \A p \in Pids : Zombie(p) ~> ~Zombie(p)

(* "static - a fixed number (pm.max_children) of child processes": a       *)
(* static pool that has lost a child is full again, or the master stops.   *)
StaticPoolFull ==
  \A wp \in Pools :
    pm[wp] = "static" =>
      []<>(running_children(wp) = pm_max_children[wp] \/ fpm_state # "normal")

(* A reload comes to an end: process_control_timeout limits how long the   *)
(* master waits for the children.                                          *)
ReloadFinishes == (fpm_state = "reloading") ~> (fpm_state # "reloading")

(* "if there is at least on idle child, it will handle the connection": a  *)
(* connection to an ondemand pool does not wait for ever.                  *)
ConnectionServed ==
  \A wp \in Pools :
    pm[wp] = "ondemand" =>
      []<>(backlog[wp] = 0 \/ fpm_state # "normal")
=============================================================================
