------------------------- MODULE FpmMasterInvariant -------------------------
(***************************************************************************)
(* The inductive invariant of FpmMaster, and what the changes that its     *)
(* actions make of the lists, the scoreboard and the process table do to   *)
(* the parts of it.                                                        *)
(***************************************************************************)
EXTENDS FpmMaster, FiniteSetTheorems, SequenceTheorems, WellFoundedInduction, TLAPS

-----------------------------------------------------------------------------
(* The inductive invariant, in four parts.                                 *)

(* A slot is in use exactly when a child of the pool has it, and no two    *)
(* children have the same.                                                 *)
SlotsOwned ==
  \A wp \in Pools :
    /\ \A p, q \in Range(children[wp]) :
         scoreboard_i[p] = scoreboard_i[q] => p = q
    /\ \A i \in Slots(wp) :
         request_stage[wp][i] # "unused" <=>
           \E p \in Range(children[wp]) : scoreboard_i[p] = i

(* The children: the list of the master, the process table of the kernel   *)
(* and the scoreboard.                                                     *)
Registry ==
  /\ children \in [Pools -> Seq(Pids)]
  /\ scoreboard_i \in [Pids -> Nat]
  /\ \A wp \in Pools : \A p \in Range(children[wp]) : scoreboard_i[p] \in Slots(wp)
  /\ idle_kill \subseteq Linked /\ long_idle \subseteq Linked
  /\ DOMAIN request_stage = Pools
  /\ \A wp \in Pools : request_stage[wp] \in [Slots(wp) -> Stages]
  /\ free_proc \in [Pools -> Nat]
  /\ \A wp \in Pools : free_proc[wp] \in Slots(wp)
  /\ status \in [Pids -> Statuses]
  /\ ChildrenKnown /\ SlotsOwned /\ StageIsOwn

Processes ==
  /\ pending \in [Pids -> SUBSET Signals]
  /\ \A p \in Pids : pending[p] # {} => Alive(p)
  /\ in_shutdown \in [Pids -> BOOLEAN]

(* What the master is doing.  fpm_children_make never aims at more than    *)
(* pm.max_children, and there are no children when the master goes.        *)
Mastering ==
  /\ master \in [op : Ops, rest : Seq(Pools), max : Nat,
                 then : {"none", "start", "maintain", "bury", "loop"}]
  /\ master.op = "make" =>
       /\ master.rest # <<>>
       /\ master.max <= pm_max_children[pool]
       /\ master.then # "none"
  /\ master.op \in {"exec", "exit"} => Linked = {}
  /\ MaxChildren

Scalars ==
  /\ fpm_state \in {"normal", "reloading", "terminating", "finishing"}
  /\ fpm_signal_sent \in {"none"} \cup Signals
  /\ pctl_event \in BOOLEAN
  /\ pipe \subseteq {"C", "T", "Q", "2"}
  /\ socket_event \subseteq OndemandPools
  /\ idle_spawn_rate \in [Pools -> 1 .. 2 * FPM_MAX_SPAWN_RATE]
  /\ last_faults \in [1 .. emergency_restart_threshold -> BOOLEAN]
  /\ fault \in {1} \cup 1 .. emergency_restart_threshold
  /\ backlog \in [Pools -> 0 .. Backlog]

IInv == Registry /\ Processes /\ Mastering /\ Scalars

-----------------------------------------------------------------------------
(* Facts about sequences and sets of numbers.                              *)

(* A new element at the front of a list without repetitions.               *)
LEMMA PrependFacts ==
  ASSUME NEW S, NEW s \in Seq(S), NEW e \in S
  PROVE  /\ <<e>> \o s \in Seq(S)
         /\ Len(<<e>> \o s) = Len(s) + 1
         /\ Range(<<e>> \o s) = Range(s) \cup {e}
         /\ IsInjective(s) /\ e \notin Range(s) => IsInjective(<<e>> \o s)
  <1> DEFINE r == <<e>> \o s
  <1>1. /\ r \in Seq(S) /\ Len(r) = Len(s) + 1 /\ Len(s) \in Nat
        /\ DOMAIN r = 1 .. (Len(s) + 1) /\ DOMAIN s = 1 .. Len(s)
        /\ r[1] = e /\ \A k \in 2 .. (Len(s) + 1) : r[k] = s[k-1]
    OBVIOUS
  <1> HIDE DEF r
  <1>2. Range(r) = Range(s) \cup {e}
    <2>1. ASSUME NEW x \in Range(r)
          PROVE  x \in Range(s) \cup {e}
      <3>1. PICK k \in 1 .. (Len(s) + 1) : r[k] = x
        BY <1>1, Zenon DEF Range
      <3>2. CASE k = 1
        BY <1>1, <3>1, <3>2, Zenon
      <3>3. CASE k # 1
        <4>1. k \in 2 .. (Len(s) + 1) /\ k - 1 \in 1 .. Len(s)
          BY <1>1, <3>1, <3>3
        <4>2. QED BY <1>1, <3>1, <4>1, Zenon DEF Range
      <3>4. QED BY <3>2, <3>3, Zenon
    <2>2. ASSUME NEW x \in Range(s)
          PROVE  x \in Range(r)
      <3>1. PICK k \in 1 .. Len(s) : s[k] = x
        BY <1>1, Zenon DEF Range
      <3>2. k + 1 \in 2 .. (Len(s) + 1) /\ (k + 1) - 1 = k /\ k + 1 \in 1 .. (Len(s) + 1)
        BY <1>1, <3>1
      <3>3. r[k+1] = x
        BY <1>1, <3>1, <3>2, Zenon
      <3>4. QED BY <1>1, <3>2, <3>3, Zenon DEF Range
    <2>3. e \in Range(r)
      <3>1. 1 \in DOMAIN r
        BY <1>1
      <3>2. QED BY <1>1, <3>1, Zenon DEF Range
    <2>4. QED BY <2>1, <2>2, <2>3, Zenon
  <1>3. ASSUME IsInjective(s), e \notin Range(s)
        PROVE  IsInjective(r)
    <2> SUFFICES ASSUME NEW j \in 1 .. (Len(s) + 1), NEW k \in 1 .. (Len(s) + 1), r[j] = r[k]
                 PROVE  j = k
      BY <1>1, Zenon DEF IsInjective
    <2>1. \A m \in 1 .. (Len(s) + 1) : m = 1 \/ (m \in 2 .. (Len(s) + 1) /\ m - 1 \in DOMAIN s)
      BY <1>1
    <2>2. \A m \in 1 .. (Len(s) + 1) : m # 1 => r[m] # e
      <3> SUFFICES ASSUME NEW m \in 1 .. (Len(s) + 1), m # 1
                   PROVE  r[m] # e
        BY Zenon
      <3>1. r[m] = s[m-1] /\ m - 1 \in DOMAIN s
        BY <1>1, <2>1, Zenon
      <3>2. s[m-1] \in Range(s)
        BY <3>1, Zenon DEF Range
      <3>3. QED BY <1>3, <3>1, <3>2, Zenon
    <2>3. CASE j = 1 \/ k = 1
      BY <1>1, <2>2, <2>3, Zenon
    <2>4. CASE j # 1 /\ k # 1
      <3>1. s[j-1] = s[k-1] /\ j - 1 \in DOMAIN s /\ k - 1 \in DOMAIN s
        BY <1>1, <2>1, <2>4, Zenon
      <3>2. j - 1 = k - 1
        BY <1>3, <3>1, Zenon DEF IsInjective
      <3>3. QED BY <3>2
    <2>5. QED BY <2>3, <2>4, Zenon
  <1>4. QED BY <1>1, <1>2, <1>3, Zenon DEF r

(* An element is taken out of a list without repetitions.                  *)
LEMMA WithoutFacts ==
  ASSUME NEW S, NEW s \in Seq(S), NEW k \in DOMAIN s, IsInjective(s)
  PROVE  /\ Without(s, k) \in Seq(S)
         /\ Len(Without(s, k)) = Len(s) - 1
         /\ Range(Without(s, k)) = Range(s) \ {s[k]}
         /\ IsInjective(Without(s, k))
  <1> DEFINE a == SubSeq(s, 1, k-1)
             b == SubSeq(s, k+1, Len(s))
             r == a \o b
  <1>0. Len(s) \in Nat /\ DOMAIN s = 1 .. Len(s) /\ k \in 1 .. Len(s)
    OBVIOUS
  <1>1. a \in Seq(S) /\ Len(a) = k - 1 /\ \A j \in 1 .. (k-1) : a[j] = s[j]
    BY <1>0, SubSeqProperties
  <1>2. b \in Seq(S) /\ Len(b) = Len(s) - k /\ \A j \in 1 .. (Len(s) - k) : b[j] = s[j+k]
    BY <1>0, SubSeqProperties
  <1> HIDE DEF a, b
  <1>3. /\ r \in Seq(S) /\ Len(r) = Len(s) - 1
        /\ \A j \in 1 .. (k-1) : r[j] = s[j]
        /\ \A j \in k .. (Len(s) - 1) : r[j] = s[j+1]
    <2>1. /\ r \in Seq(S) /\ Len(r) = Len(a) + Len(b)
          /\ \A j \in 1 .. Len(a) + Len(b) : r[j] = IF j <= Len(a) THEN a[j] ELSE b[j - Len(a)]
      BY <1>1, <1>2, ConcatProperties, ZenonT(30)
    <2>2. Len(a) + Len(b) = Len(s) - 1 /\ Len(r) = Len(s) - 1
      BY <1>0, <1>1, <1>2, <2>1
    <2>3. ASSUME NEW j \in 1 .. (k-1)
          PROVE  r[j] = s[j]
      <3>1. j \in 1 .. Len(a) + Len(b) /\ j <= Len(a)
        BY <1>0, <1>1, <2>2
      <3>2. QED BY <1>1, <2>1, <3>1, Zenon
    <2>4. ASSUME NEW j \in k .. (Len(s) - 1)
          PROVE  r[j] = s[j+1]
      <3>1. j \in 1 .. Len(a) + Len(b) /\ ~(j <= Len(a)) /\ j - Len(a) = j - k + 1
            /\ j - k + 1 \in 1 .. (Len(s) - k) /\ (j - k + 1) + k = j + 1
        BY <1>0, <1>1, <2>2
      <3>2. r[j] = b[j - k + 1]
        BY <2>1, <3>1, Zenon
      <3>3. QED BY <1>2, <3>1, <3>2, Zenon
    <2>5. QED BY <2>1, <2>2, <2>3, <2>4, Zenon
  <1> HIDE DEF r
  <1>4. DOMAIN r = 1 .. (Len(s) - 1)
    BY <1>3
  <1>5. \A j \in 1 .. (Len(s) - 1) : j \in 1 .. (k-1) \/ j \in k .. (Len(s) - 1)
    BY <1>0
  <1>6. Range(r) = Range(s) \ {s[k]}
    <2>1. ASSUME NEW x \in Range(r)
          PROVE  x \in Range(s) /\ x # s[k]
      <3>1. PICK j \in 1 .. (Len(s) - 1) : r[j] = x
        BY <1>4, Zenon DEF Range
      <3>2. CASE j \in 1 .. (k-1)
        <4>1. j \in DOMAIN s /\ j # k /\ x = s[j]
          BY <1>0, <1>3, <3>1, <3>2
        <4>2. QED BY <4>1, Zenon DEF Range, IsInjective
      <3>3. CASE j \in k .. (Len(s) - 1)
        <4>1. j + 1 \in DOMAIN s /\ j + 1 # k /\ x = s[j+1]
          BY <1>0, <1>3, <3>1, <3>3
        <4>2. QED BY <4>1, Zenon DEF Range, IsInjective
      <3>4. QED BY <1>5, <3>1, <3>2, <3>3, Zenon
    <2>2. ASSUME NEW x \in Range(s), x # s[k]
          PROVE  x \in Range(r)
      <3>1. PICK j \in 1 .. Len(s) : s[j] = x
        BY <1>0, Zenon DEF Range
      <3>2. CASE j < k
        <4>1. j \in DOMAIN r /\ r[j] = x
          <5>1. j \in 1 .. (k-1) /\ j \in 1 .. (Len(s) - 1)
            BY <1>0, <3>1, <3>2
          <5>2. QED BY <1>3, <1>4, <3>1, <5>1, Zenon
        <4>2. QED BY <4>1, Zenon DEF Range
      <3>3. CASE j > k
        <4>1. j - 1 \in DOMAIN r /\ r[j-1] = x
          <5>1. j - 1 \in k .. (Len(s) - 1) /\ j - 1 \in 1 .. (Len(s) - 1) /\ (j - 1) + 1 = j
            BY <1>0, <3>1, <3>3
          <5>2. QED BY <1>3, <1>4, <3>1, <5>1, Zenon
        <4>2. QED BY <4>1, Zenon DEF Range
      <3>4. QED BY <1>0, <2>2, <3>1, <3>2, <3>3
    <2>3. QED BY <2>1, <2>2, Zenon
  <1>7. IsInjective(r)
    <2> SUFFICES ASSUME NEW i \in DOMAIN r, NEW j \in DOMAIN r, r[i] = r[j]
                 PROVE  i = j
      BY Zenon DEF IsInjective
    <2> DEFINE up(m) == IF m < k THEN m ELSE m + 1
    <2>1. \A m \in DOMAIN r : up(m) \in DOMAIN s /\ r[m] = s[up(m)]
      <3> SUFFICES ASSUME NEW m \in 1 .. (Len(s) - 1)
                   PROVE  up(m) \in DOMAIN s /\ r[m] = s[up(m)]
        BY <1>4, Zenon
      <3>1. CASE m < k
        <4>1. m \in 1 .. (k-1) /\ m \in DOMAIN s
          BY <1>0, <3>1
        <4>2. QED BY <1>3, <3>1, <4>1, Zenon
      <3>2. CASE ~(m < k)
        <4>1. m \in k .. (Len(s) - 1) /\ m + 1 \in DOMAIN s
          BY <1>0, <3>2
        <4>2. QED BY <1>3, <3>2, <4>1, Zenon
      <3>3. QED BY <3>1, <3>2, Zenon
    <2>2. up(i) = up(j)
      BY <2>1, Zenon DEF IsInjective
    <2>3. QED BY <1>0, <1>4, <2>2
  <1>8. Without(s, k) = r
    BY Zenon DEF Without, r, a, b
  <1>9. QED BY <1>3, <1>6, <1>7, <1>8, Zenon

(* A set of numbers has a smallest one, and one of a range a largest.      *)
LEMMA SmallestOf ==
  ASSUME NEW T, T \subseteq Nat, T # {}
  PROVE  \E x \in T : \A y \in T : x <= y
  <1> DEFINE R == OpToRel(<, Nat)
  <1>1. IsWellFoundedOn(R, Nat)
    BY NatLessThanWellFounded, ZenonT(30)
  <1>2. \A x, y \in Nat : <<y, x>> \in R <=> y < x
    BY Zenon DEF OpToRel
  <1> HIDE DEF R
  <1>3. PICK x \in T : \A y \in T : ~ (<<y, x>> \in R)
    BY <1>1, WFMin, ZenonT(30)
  <1>4. ASSUME NEW y \in T
        PROVE  x <= y
    <2>1. x \in Nat /\ y \in Nat
      BY Zenon
    <2>2. ~ (y < x)
      BY <1>2, <1>3, <2>1, ZenonT(30)
    <2>3. QED BY <2>1, <2>2
  <1>5. QED BY <1>4, Zenon

(* The smallest of some numbers is one of them.                            *)
LEMMA MinFacts ==
  ASSUME NEW T, T \subseteq Nat, T # {}
  PROVE  Min(T) \in T /\ \A y \in T : Min(T) <= y
  BY SmallestOf, ZenonT(30) DEF Min

(* So is the largest of some numbers up to n.                              *)
LEMMA MaxFacts ==
  ASSUME NEW n \in Nat, NEW T, T \subseteq 1 .. n, T # {}
  PROVE  Max(T) \in T
  <1> DEFINE U == {n - x : x \in T}
  <1>1. U \subseteq Nat
    OBVIOUS
  <1>2. U # {}
    <2>1. PICK x : x \in T
      BY Zenon
    <2>2. n - x \in U
      BY <2>1, Zenon
    <2>3. QED BY <2>2, Zenon
  <1>3. PICK u \in U : \A v \in U : u <= v
    <2> HIDE DEF U
    <2>1. QED BY <1>1, <1>2, SmallestOf, ZenonT(30)
  <1>4. PICK x \in T : u = n - x
    BY <1>3, Zenon
  <1>5. \A y \in T : x >= y
    <2> SUFFICES ASSUME NEW y \in T
                 PROVE  x >= y
      BY Zenon
    <2>1. n - y \in U
      BY Zenon
    <2>2. n - x <= n - y
      BY <1>3, <1>4, <2>1, Zenon
    <2>3. x \in 1 .. n /\ y \in 1 .. n
      BY Zenon
    <2>4. QED BY <2>2, <2>3
  <1>6. QED BY <1>5, Zenon DEF Max

-----------------------------------------------------------------------------
(* Facts about the lists of children and the scoreboard.                   *)

(* Every forked process has one pool, and a place in its list.             *)
LEMMA PoolOfFacts ==
  ASSUME Registry, NEW p \in Pids, status[p] # "none"
  PROVE  /\ PoolOf(p) \in Pools /\ p \in Range(children[PoolOf(p)])
         /\ \A wp \in Pools : p \in Range(children[wp]) => wp = PoolOf(p)
         /\ PlaceOf(p) \in DOMAIN children[PoolOf(p)]
         /\ children[PoolOf(p)][PlaceOf(p)] = p
         /\ p \in Linked
         /\ scoreboard_i[p] \in Slots(PoolOf(p))
  <1>1. p \in Linked
    BY Zenon DEF Registry, ChildrenKnown
  <1>2. \E wp \in Pools : p \in Range(children[wp])
    BY <1>1, Zenon DEF Linked
  <1>3. PoolOf(p) \in Pools /\ p \in Range(children[PoolOf(p)])
    BY <1>2, Zenon DEF PoolOf
  <1>4. \A wp \in Pools : p \in Range(children[wp]) => wp = PoolOf(p)
    BY <1>3, Zenon DEF Registry, ChildrenKnown
  <1>5. \E k \in DOMAIN children[PoolOf(p)] : children[PoolOf(p)][k] = p
    BY <1>3, Zenon DEF Range
  <1>6. PlaceOf(p) \in DOMAIN children[PoolOf(p)] /\ children[PoolOf(p)][PlaceOf(p)] = p
    BY <1>5, Zenon DEF PlaceOf
  <1>7. QED BY <1>1, <1>3, <1>4, <1>6, Zenon DEF Registry

(* The children are finitely many processes, and the lists are sequences.  *)
LEMMA LinkedFacts ==
  ASSUME Registry
  PROVE  /\ Linked \subseteq Pids /\ IsFiniteSet(Linked)
         /\ \A wp \in Pools : /\ Range(children[wp]) \subseteq Linked
                              /\ Len(children[wp]) \in Nat
                              /\ DOMAIN children[wp] = 1 .. Len(children[wp])
  <1>1. Linked \subseteq Pids
    BY Zenon DEF Registry, ChildrenKnown
  <1>2. IsFiniteSet(Linked)
    BY <1>1, ConfigAssumption, FS_Subset, Zenon
  <1>3. QED BY <1>1, <1>2 DEF Registry, Linked

(* One slot is written.                                                    *)
LEMMA StageFacts ==
  ASSUME DOMAIN request_stage = Pools,
         \A w \in Pools : request_stage[w] \in [Slots(w) -> Stages],
         NEW wp \in Pools, NEW i \in Slots(wp), NEW x \in Stages,
         request_stage' = [request_stage EXCEPT ![wp][i] = x]
  PROVE  /\ DOMAIN request_stage' = Pools
         /\ \A w \in Pools : request_stage'[w] \in [Slots(w) -> Stages]
         /\ \A w \in Pools : \A j \in Slots(w) :
              request_stage'[w][j] = IF w = wp /\ j = i THEN x ELSE request_stage[w][j]
  <1>1. DOMAIN request_stage' = Pools
    BY Zenon
  <1>2. request_stage'[wp] = [request_stage[wp] EXCEPT ![i] = x]
        /\ \A w \in Pools \ {wp} : request_stage'[w] = request_stage[w]
    BY Zenon
  <1>3. request_stage'[wp] \in [Slots(wp) -> Stages]
        /\ \A j \in Slots(wp) : request_stage'[wp][j] = IF j = i THEN x ELSE request_stage[wp][j]
    BY <1>2, Zenon
  <1>4. QED BY <1>1, <1>2, <1>3, Zenon

(* The pool that is looked at.                                             *)
LEMMA PoolFacts ==
  ASSUME Mastering, master.rest # <<>>
  PROVE  /\ pool \in Pools
         /\ Tail(master.rest) \in Seq(Pools)
         /\ pm_max_children[pool] \in Nat \ {0}
  <1>1. master.rest \in Seq(Pools)
    BY Zenon DEF Mastering
  <1>2. QED BY <1>1, ConfigAssumption, HeadTailProperties, Zenon DEF pool

(* fpm_scoreboard_proc_alloc finds a slot that nobody has.                 *)
LEMMA FreeSlotFacts ==
  ASSUME Registry, NEW wp \in Pools, FreeSlot(wp) # 0
  PROVE  FreeSlot(wp) \in Slots(wp) /\ request_stage[wp][FreeSlot(wp)] = "unused"
  <1> DEFINE free == {i \in Slots(wp) : request_stage[wp][i] = "unused"}
  <1>1. FreeSlot(wp) = CASE free_proc[wp] \in free -> free_proc[wp]
                         [] free = {}              -> 0
                         [] OTHER                  -> Min(free)
    BY Zenon DEF FreeSlot
  <1>2. free \subseteq Nat
    BY ConfigAssumption DEF Slots
  <1> HIDE DEF free
  <1>3. free # {} => Min(free) \in free
    BY <1>2, MinFacts, ZenonT(30)
  <1>4. FreeSlot(wp) \in free
    BY <1>1, <1>3, Zenon
  <1>5. QED BY <1>4, Zenon DEF free

(* The hint for the next free slot stays within the pool.                  *)
LEMMA AfterSlotFacts ==
  ASSUME NEW wp \in Pools, NEW i \in Slots(wp)
  PROVE  AfterSlot(wp, i) \in Slots(wp) /\ AfterSlot(wp, i) \in Nat
  BY ConfigAssumption DEF AfterSlot, Slots

-----------------------------------------------------------------------------
(* Registry: steps that fork, bury, replace the master, or are a child's.  *)

(* fpm_child_link puts a process that is not listed at the head of its pool. *)
LEMMA ForkChildren ==
  ASSUME Registry, Mastering, NEW p \in Pids, Fork(p)
  PROVE  /\ pool \in Pools /\ p \notin Linked /\ Linked' = Linked \cup {p}
         /\ children' \in [Pools -> Seq(Pids)]
         /\ Range(children'[pool]) = Range(children[pool]) \cup {p}
         /\ Len(children'[pool]) = Len(children[pool]) + 1
         /\ \A w \in Pools \ {pool} : children'[w] = children[w]
         /\ \A w \in Pools : IsInjective(children'[w])
  <1>1. pool \in Pools
    BY PoolFacts, Zenon DEF Fork, Mastering
  <1>2. p \notin Linked
    BY Zenon DEF Fork, Registry, ChildrenKnown
  <1>3. children[pool] \in Seq(Pids) /\ IsInjective(children[pool]) /\ p \notin Range(children[pool])
    BY <1>1, <1>2, LinkedFacts, Zenon DEF Registry, ChildrenKnown
  <1>4. /\ children'[pool] = <<p>> \o children[pool]
        /\ \A w \in Pools \ {pool} : children'[w] = children[w]
        /\ DOMAIN children' = Pools
    BY <1>1, Zenon DEF Fork, Registry
  <1>5. /\ children'[pool] \in Seq(Pids)
        /\ Range(children'[pool]) = Range(children[pool]) \cup {p}
        /\ Len(children'[pool]) = Len(children[pool]) + 1
        /\ IsInjective(children'[pool])
    BY <1>3, <1>4, PrependFacts
  <1>6. children' \in [Pools -> Seq(Pids)]
    BY <1>1, <1>3, <1>5, Zenon DEF Fork, Registry
  <1>7. Linked' = Linked \cup {p}
    BY <1>1, <1>4, <1>5, ZenonT(30) DEF Linked
  <1>8. QED BY <1>1, <1>2, <1>4, <1>5, <1>6, <1>7, ZenonT(30) DEF Registry, ChildrenKnown

(* A fork keeps lists, slots and process table together.                   *)
LEMMA RegistryFork ==
  ASSUME Registry, Mastering, NEW p \in Pids, Fork(p)
  PROVE  Registry'
  <1> DEFINE i == FreeSlot(pool)
  <1>1. /\ pool \in Pools /\ p \notin Linked /\ Linked' = Linked \cup {p}
        /\ children' \in [Pools -> Seq(Pids)]
        /\ Range(children'[pool]) = Range(children[pool]) \cup {p}
        /\ \A w \in Pools \ {pool} : children'[w] = children[w]
        /\ \A w \in Pools : IsInjective(children'[w])
    BY ForkChildren, Zenon
  <1>2. i \in Slots(pool) /\ request_stage[pool][i] = "unused" /\ i \in Nat
    BY <1>1, FreeSlotFacts, ConfigAssumption DEF Fork, Slots
  <1>3. /\ request_stage' = [request_stage EXCEPT ![pool][i] = "none"]
        /\ free_proc' = [free_proc EXCEPT ![pool] = AfterSlot(pool, i)]
        /\ scoreboard_i' = [scoreboard_i EXCEPT ![p] = i]
        /\ status[p] = "none" /\ status' = [status EXCEPT ![p] = "starting"]
        /\ UNCHANGED <<idle_kill, long_idle>>
    BY Zenon DEF Fork
  <1> HIDE DEF i
  <1>4. /\ DOMAIN request_stage' = Pools
        /\ \A w \in Pools : request_stage'[w] \in [Slots(w) -> Stages]
        /\ \A w \in Pools : \A j \in Slots(w) :
              request_stage'[w][j] = IF w = pool /\ j = i THEN "none" ELSE request_stage[w][j]
    <2>1. "none" \in Stages
      BY Zenon DEF Stages
    <2>2. QED BY <1>1, <1>2, <1>3, <2>1, StageFacts DEF Registry
  <1>5. free_proc' \in [Pools -> Nat] /\ \A w \in Pools : free_proc'[w] \in Slots(w)
    BY <1>1, <1>2, <1>3, AfterSlotFacts, Zenon DEF Registry
  <1>6. /\ scoreboard_i' \in [Pids -> Nat] /\ scoreboard_i'[p] = i
        /\ \A q \in Pids \ {p} : scoreboard_i'[q] = scoreboard_i[q]
        /\ status' \in [Pids -> Statuses] /\ status'[p] = "starting"
        /\ \A q \in Pids \ {p} : status'[q] = status[q]
    BY <1>2, <1>3, Zenon DEF Registry, Statuses
  <1>7. \A w \in Pools : /\ Range(children[w]) \subseteq Linked
                         /\ Range(children[w]) \subseteq Pids \ {p}
    BY <1>1, LinkedFacts, Zenon
  <1>8. \A w \in Pools : \A q \in Range(children'[w]) :
           (q = p /\ w = pool) \/ (q # p /\ q \in Pids /\ q \in Range(children[w]))
    BY <1>1, <1>7, Zenon
  <1>9. \A w \in Pools : \A q \in Range(children'[w]) : scoreboard_i'[q] \in Slots(w)
    BY <1>2, <1>6, <1>8 DEF Registry
  <1>10. idle_kill' \subseteq Linked' /\ long_idle' \subseteq Linked'
    BY <1>1, <1>3, Zenon DEF Registry
  <1>11. ChildrenKnown'
    <2>1. Linked' = {q \in Pids : status'[q] # "none"}
      <3>1. Linked = {q \in Pids : status[q] # "none"}
        BY Zenon DEF Registry, ChildrenKnown
      <3>2. QED BY <1>1, <1>6, <3>1, Zenon
    <2>2. ASSUME NEW w \in Pools, NEW other \in Pools, w # other
          PROVE  Range(children'[w]) \cap Range(children'[other]) = {}
      <3> SUFFICES ASSUME NEW q \in Range(children'[w]), q \in Range(children'[other])
                   PROVE  FALSE
        BY Zenon
      <3>1. q \in Range(children[w]) /\ q \in Range(children[other])
        BY <1>8, <2>2, Zenon
      <3>2. QED BY <2>2, <3>1, Zenon DEF Registry, ChildrenKnown
    <2>3. QED BY <1>1, <2>1, <2>2, Zenon DEF ChildrenKnown
  <1>12. SlotsOwned'
    <2> SUFFICES ASSUME NEW w \in Pools
                 PROVE  /\ \A q, r \in Range(children'[w]) :
                             scoreboard_i'[q] = scoreboard_i'[r] => q = r
                        /\ \A j \in Slots(w) :
                             request_stage'[w][j] # "unused" <=>
                               \E q \in Range(children'[w]) : scoreboard_i'[q] = j
      BY Zenon DEF SlotsOwned
    <2>1. /\ \A q, r \in Range(children[w]) : scoreboard_i[q] = scoreboard_i[r] => q = r
          /\ \A j \in Slots(w) : request_stage[w][j] # "unused" <=>
                               \E q \in Range(children[w]) : scoreboard_i[q] = j
      BY Zenon DEF Registry, SlotsOwned
    <2>2. CASE w # pool
      <3>1. children'[w] = children[w]
        BY <1>1, <2>2, Zenon
      <3>2. \A q \in Range(children[w]) : scoreboard_i'[q] = scoreboard_i[q]
        BY <1>6, <1>7, Zenon
      <3>3. \A j \in Slots(w) : request_stage'[w][j] = request_stage[w][j]
        BY <1>4, <2>2, Zenon
      <3>4. QED BY <2>1, <3>1, <3>2, <3>3
    <2>3. CASE w = pool
      <3>1. \A q \in Range(children[w]) : scoreboard_i'[q] = scoreboard_i[q] /\ scoreboard_i[q] # i
        BY <1>2, <1>6, <1>7, <2>1, <2>3
      <3>2. \A q, r \in Range(children'[w]) : scoreboard_i'[q] = scoreboard_i'[r] => q = r
        BY <1>6, <1>8, <2>1, <3>1
      <3>3. ASSUME NEW j \in Slots(w)
            PROVE  request_stage'[w][j] # "unused" <=>
                               \E q \in Range(children'[w]) : scoreboard_i'[q] = j
        <4>1. CASE j = i
          BY <1>1, <1>4, <1>6, <2>3, <4>1, Zenon
        <4>2. CASE j # i
          <5>1. request_stage'[w][j] = request_stage[w][j]
            BY <1>4, <4>2, Zenon
          <5>2. (\E q \in Range(children'[w]) : scoreboard_i'[q] = j)
                <=> (\E q \in Range(children[w]) : scoreboard_i[q] = j)
            BY <1>1, <1>6, <1>8, <2>3, <3>1, <4>2, Zenon
          <5>3. QED BY <2>1, <5>1, <5>2, Zenon
        <4>3. QED BY <4>1, <4>2, Zenon
      <3>4. QED BY <3>2, <3>3, Zenon
    <2>4. QED BY <2>2, <2>3, Zenon
  <1>13. StageIsOwn'
    <2> SUFFICES ASSUME NEW w \in Pools, NEW q \in Range(children'[w])
                 PROVE  LET stage == request_stage'[w][scoreboard_i'[q]] IN
                        /\ status'[q] = "starting" => stage = "none"
                        /\ status'[q] = "accepting" => stage = "accepting"
                        /\ status'[q] = "busy" => stage = "running"
      BY Zenon DEF StageIsOwn
    <2>1. CASE q = p
      BY <1>2, <1>4, <1>6, <1>8, <2>1, Zenon
    <2>2. CASE q # p
      <3>1. q \in Pids \ {p} /\ q \in Range(children[w]) /\ scoreboard_i[q] \in Slots(w)
        BY <1>8, <2>2, Zenon DEF Registry
      <3>2. request_stage[w][scoreboard_i[q]] # "unused"
        BY <3>1, Zenon DEF Registry, SlotsOwned
      <3>3. request_stage'[w][scoreboard_i[q]] = request_stage[w][scoreboard_i[q]]
        BY <1>2, <1>4, <3>1, <3>2, Zenon
      <3>4. QED BY <1>6, <3>1, <3>3 DEF Registry, StageIsOwn
    <2>3. QED BY <2>1, <2>2, Zenon
  <1>14. QED
    BY <1>1, <1>4, <1>5, <1>6, <1>9, <1>10, <1>11, <1>12, <1>13, Zenon DEF Registry

(* fpm_child_unlink takes one process out of its list, and out of no other. *)
LEMMA UnlinkChildren ==
  ASSUME Registry, NEW p \in Pids, status[p] # "none", Unlink(p)
  PROVE  /\ Linked' = Linked \ {p}
         /\ children' \in [Pools -> Seq(Pids)]
         /\ Range(children'[PoolOf(p)]) = Range(children[PoolOf(p)]) \ {p}
         /\ Len(children'[PoolOf(p)]) = Len(children[PoolOf(p)]) - 1
         /\ \A w \in Pools \ {PoolOf(p)} : children'[w] = children[w] /\ p \notin Range(children[w])
         /\ \A w \in Pools : IsInjective(children'[w])
  <1> DEFINE wp == PoolOf(p)
             k == PlaceOf(p)
  <1>1. /\ wp \in Pools /\ p \in Range(children[wp])
        /\ \A w \in Pools : p \in Range(children[w]) => w = wp
        /\ k \in DOMAIN children[wp] /\ children[wp][k] = p
    BY PoolOfFacts, Zenon
  <1>2. children' = [children EXCEPT ![wp] = Without(children[wp], k)]
    BY Zenon DEF Unlink
  <1> HIDE DEF wp, k
  <1>3. children[wp] \in Seq(Pids) /\ IsInjective(children[wp]) /\ DOMAIN children = Pools
    BY <1>1, Zenon DEF Registry, ChildrenKnown
  <1>4. /\ children'[wp] = Without(children[wp], k)
        /\ \A w \in Pools \ {wp} : children'[w] = children[w]
    BY <1>1, <1>2, <1>3, Zenon
  <1>5. /\ children'[wp] \in Seq(Pids)
        /\ Range(children'[wp]) = Range(children[wp]) \ {p}
        /\ Len(children'[wp]) = Len(children[wp]) - 1
        /\ IsInjective(children'[wp])
    BY <1>1, <1>3, <1>4, WithoutFacts
  <1>6. children' \in [Pools -> Seq(Pids)]
    BY <1>1, <1>2, <1>4, <1>5, Zenon DEF Registry
  <1>7. Linked' = Linked \ {p}
    BY <1>1, <1>4, <1>5 DEF Linked
  <1>8. \A w \in Pools : IsInjective(children'[w])
    BY <1>4, <1>5, ZenonT(30) DEF Registry, ChildrenKnown
  <1>9. QED BY <1>1, <1>4, <1>5, <1>6, <1>7, <1>8, Zenon DEF wp

(* A burial keeps lists, slots and process table together.                 *)
LEMMA RegistryUnlink ==
  ASSUME Registry, NEW p \in Pids, status[p] # "none", Unlink(p)
  PROVE  Registry'
  <1> DEFINE wp == PoolOf(p)
             i == scoreboard_i[p]
  <1>1. /\ wp \in Pools /\ p \in Range(children[wp]) /\ i \in Slots(wp) /\ i \in Nat
    BY PoolOfFacts, Zenon DEF Registry
  <1>2. /\ Linked' = Linked \ {p}
        /\ children' \in [Pools -> Seq(Pids)]
        /\ Range(children'[wp]) = Range(children[wp]) \ {p}
        /\ \A w \in Pools \ {wp} : children'[w] = children[w] /\ p \notin Range(children[w])
        /\ \A w \in Pools : IsInjective(children'[w])
    BY UnlinkChildren, Zenon
  <1>3. /\ idle_kill' = idle_kill \ {p} /\ long_idle' = long_idle \ {p}
        /\ scoreboard_i' = [scoreboard_i EXCEPT ![p] = 0]
        /\ request_stage' = [request_stage EXCEPT ![wp][i] = "unused"]
        /\ free_proc' = [free_proc EXCEPT ![wp] = i]
        /\ status' = [status EXCEPT ![p] = "none"]
    BY Zenon DEF Unlink
  <1>3a. \A q \in Range(children[wp]) : scoreboard_i[q] = i => q = p
    BY <1>1 DEF Registry, SlotsOwned
  <1> HIDE DEF wp, i
  <1>4. /\ DOMAIN request_stage' = Pools
        /\ \A w \in Pools : request_stage'[w] \in [Slots(w) -> Stages]
        /\ \A w \in Pools : \A j \in Slots(w) :
              request_stage'[w][j] = IF w = wp /\ j = i THEN "unused" ELSE request_stage[w][j]
    <2>1. "unused" \in Stages
      BY Zenon DEF Stages
    <2>2. QED BY <1>1, <1>3, <2>1, StageFacts DEF Registry
  <1>5. free_proc' \in [Pools -> Nat] /\ \A w \in Pools : free_proc'[w] \in Slots(w)
    BY <1>1, <1>3, Zenon DEF Registry
  <1>6. /\ scoreboard_i' \in [Pids -> Nat]
        /\ \A q \in Pids \ {p} : scoreboard_i'[q] = scoreboard_i[q]
        /\ status' \in [Pids -> Statuses] /\ status'[p] = "none"
        /\ \A q \in Pids \ {p} : status'[q] = status[q]
    BY <1>3, Zenon DEF Registry, Statuses
  <1>7. \A w \in Pools : \A q : q \in Range(children'[w])
           <=> q \in Range(children[w]) /\ q # p
    BY <1>1, <1>2, Zenon
  <1>8. \A w \in Pools : \A q \in Range(children'[w]) :
           q \in Pids \ {p} /\ q \in Range(children[w])
    BY <1>7, LinkedFacts, Zenon
  <1>9. \A w \in Pools : \A q \in Range(children'[w]) : scoreboard_i'[q] \in Slots(w)
    BY <1>6, <1>8, Zenon DEF Registry
  <1>10. idle_kill' \subseteq Linked' /\ long_idle' \subseteq Linked'
    BY <1>2, <1>3, Zenon DEF Registry
  <1>11. ChildrenKnown'
    <2>1. Linked' = {q \in Pids : status'[q] # "none"}
      <3>1. Linked = {q \in Pids : status[q] # "none"}
        BY Zenon DEF Registry, ChildrenKnown
      <3>2. QED BY <1>2, <1>6, <3>1, Zenon
    <2>2. ASSUME NEW w \in Pools, NEW other \in Pools, w # other
          PROVE  Range(children'[w]) \cap Range(children'[other]) = {}
      <3>1. Range(children[w]) \cap Range(children[other]) = {}
        BY <2>2, Zenon DEF Registry, ChildrenKnown
      <3>2. QED BY <1>7, <3>1, Zenon
    <2>3. QED BY <1>2, <2>1, <2>2, Zenon DEF ChildrenKnown
  <1>12. SlotsOwned'
    <2> SUFFICES ASSUME NEW w \in Pools
                 PROVE  /\ \A q, r \in Range(children'[w]) :
                             scoreboard_i'[q] = scoreboard_i'[r] => q = r
                        /\ \A j \in Slots(w) :
                             request_stage'[w][j] # "unused" <=>
                               \E q \in Range(children'[w]) : scoreboard_i'[q] = j
      BY Zenon DEF SlotsOwned
    <2>1. /\ \A q, r \in Range(children[w]) : scoreboard_i[q] = scoreboard_i[r] => q = r
          /\ \A j \in Slots(w) : request_stage[w][j] # "unused" <=>
                               \E q \in Range(children[w]) : scoreboard_i[q] = j
      BY Zenon DEF Registry, SlotsOwned
    <2>2. \A q, r \in Range(children'[w]) : scoreboard_i'[q] = scoreboard_i'[r] => q = r
      BY <1>6, <1>8, <2>1, Zenon
    <2>3. ASSUME NEW j \in Slots(w)
          PROVE  request_stage'[w][j] # "unused" <=>
                               \E q \in Range(children'[w]) : scoreboard_i'[q] = j
      <3>1. (\E q \in Range(children'[w]) : scoreboard_i'[q] = j)
             <=> \E q \in Range(children[w]) : q # p /\ scoreboard_i[q] = j
        BY <1>6, <1>7, <1>8, Zenon
      <3>2. CASE w = wp /\ j = i
        BY <1>3a, <1>4, <3>1, <3>2, Zenon
      <3>3. CASE w = wp /\ j # i
        <4>1. \A q \in Range(children[w]) : scoreboard_i[q] = j => q # p
          BY <3>3, Zenon DEF i
        <4>2. QED BY <1>4, <2>1, <3>1, <3>3, <4>1
      <3>4. CASE w # wp
        BY <1>2, <1>4, <2>1, <3>1, <3>4
      <3>5. QED BY <3>2, <3>3, <3>4, Zenon
    <2>4. QED BY <2>2, <2>3, Zenon
  <1>13. StageIsOwn'
    <2> SUFFICES ASSUME NEW w \in Pools, NEW q \in Range(children'[w])
                 PROVE  LET stage == request_stage'[w][scoreboard_i'[q]] IN
                        /\ status'[q] = "starting" => stage = "none"
                        /\ status'[q] = "accepting" => stage = "accepting"
                        /\ status'[q] = "busy" => stage = "running"
      BY Zenon DEF StageIsOwn
    <2>1. q \in Pids \ {p} /\ q \in Range(children[w]) /\ scoreboard_i[q] \in Slots(w)
      BY <1>8, Zenon DEF Registry
    <2>2. ~(w = wp /\ scoreboard_i[q] = i)
      BY <1>3a, <2>1, Zenon
    <2>3. request_stage'[w][scoreboard_i[q]] = request_stage[w][scoreboard_i[q]]
      BY <1>4, <2>1, <2>2, Zenon
    <2>4. QED BY <1>6, <2>1, <2>3 DEF Registry, StageIsOwn
  <1>14. QED
    BY <1>2, <1>4, <1>5, <1>6, <1>9, <1>10, <1>11, <1>12, <1>13, Zenon DEF Registry
=============================================================================
