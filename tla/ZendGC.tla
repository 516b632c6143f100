------------------------------- MODULE ZendGC -------------------------------
(***************************************************************************)
(* Reference counting and the cycle collector of the Zend engine           *)
(* (Zend/zend_gc.c and .h), with the parts of zval destruction             *)
(* (zend_execute.h, zend_variables.c) and of the object store              *)
(* (zend_objects_API.c) that call it and that it calls.                    *)
(*                                                                         *)
(* A zval is an array, which holds zvals, or a handle of an object, which  *)
(* holds zvals as properties and has a reference count of its own.         *)
(* Scripts hold zvals in variables.  Whatever a C function still has to do *)
(* is on `stack', so that a collection can run inside zval_ptr_dtor, a     *)
(* destructor inside a collection, and a collection inside that.           *)
(* Colours and counts change one edge per step, in the order of the code.  *)
(***************************************************************************)
EXTENDS Integers, SequencesExt, FiniteSetsExt

CONSTANTS
    Zvals,          \* addresses of zvals
    Objects,        \* handles of the object store
    Slots,          \* GC_ROOT_BUFFER_MAX_ENTRIES
    Destructors,    \* objects whose class has a __destruct method
    Unsets,         \* whether destructors unset properties of their object
    Resurrects,     \* destructors that store $this in a variable: of objects that
                    \* lose their last reference ("last"), of garbage ("garbage")
    Collections,    \* whether scripts call gc_collect_cycles
    MaxVariables,   \* bound on the variables that share a zval
    MaxStored       \* bound on the zvals stored in arrays and properties

Nodes == Zvals \cup Objects
None == 0

ASSUME NodesAssumption ==
    /\ Zvals \cup Objects \subseteq Nat \ {None}
    /\ Zvals \cap Objects = {}
    /\ IsFiniteSet(Zvals) /\ IsFiniteSet(Objects)
ASSUME SlotsAssumption == Slots \in Nat \ {0}
ASSUME ScriptAssumption ==
    /\ Destructors \subseteq Objects
    /\ Unsets \in BOOLEAN /\ Collections \in BOOLEAN
    /\ Resurrects \subseteq {"last", "garbage"}
    /\ MaxVariables \in Nat /\ MaxStored \in Nat

VARIABLES
    type,        \* Z_TYPE: "array", "object", "null", or "free" after efree
    handle,      \* Z_OBJ_HANDLE
    holds,       \* the zvals in an array or in the properties of an object
    refs,        \* variables of the scripts that refer to a zval
    refcount,    \* refcount__gc of a zval, refcount of an object
    color,       \* GC_COLOR bits of `buffered'
    address,     \* GC_ADDRESS of `buffered': "null", "buf" or "list" (u.next)
    valid, destructor_called,                    \* object store buckets
    roots,       \* the root buffer, most recent first
    zval_to_free,                                \* the garbage found so far
    stack        \* what the active C functions have to do, innermost first

heap == <<type, handle, holds, refs>>
marks == <<refcount, color, address>>
store == <<valid, destructor_called>>
buffer == <<roots, zval_to_free>>
vars == <<heap, marks, store, buffer, stack>>

\* A frame: the operation, the node it is about, the nodes it has yet to see.
Frame(op, node, rest) == [op |-> op, node |-> node, rest |-> rest]
Top == Head(stack)
Below == Tail(stack)
Running(op) == stack # <<>> /\ Top.op = op

\* One frame per zval of the set Z, in the order of the hash table.
Each(op, Z) ==
    LET ordered == SetToSortSeq(Z, <)
    IN [i \in 1 .. Len(ordered) |-> Frame(op, ordered[i], <<>>)]

\* The object a zval refers to, as a set.
ObjectOf(z) == IF type[z] = "object" THEN {handle[z]} ELSE {}

\* What get_gc of an object, or the hash table of an array, yields.
Contents(n) ==
    IF n \in Objects THEN (IF valid[n] THEN holds[n] ELSE {})
    ELSE IF type[n] = "array" THEN holds[n] ELSE {}

\* f with the value of every member of S changed by d.
Add(f, S, d) == [n \in DOMAIN f |-> IF n \in S THEN f[n] + d ELSE f[n]]
Set(f, S, v) == [n \in DOMAIN f |-> IF n \in S THEN v ELSE f[n]]

Init ==
    /\ type = [z \in Zvals |-> "free"]
    /\ handle = [z \in Zvals |-> None]
    /\ holds = [n \in Nodes |-> {}]
    /\ refs = [z \in Zvals |-> 0]
    /\ refcount = [n \in Nodes |-> 0]
    /\ color = [n \in Nodes |-> "black"]
    /\ address = [n \in Nodes |-> "null"]
    /\ valid = [o \in Objects |-> FALSE]
    /\ destructor_called = [o \in Objects |-> FALSE]
    /\ roots = <<>> /\ zval_to_free = <<>>
    /\ stack = <<>>

-----------------------------------------------------------------------------
(* Possible roots                                                          *)

\* Puts n at the head of the root buffer (gc_zval_possible_root from line 172).
Buffer(n) ==
    /\ color' = [color EXCEPT ![n] = "purple"]
    /\ address' = [address EXCEPT ![n] = "buf"]
    /\ roots' = <<n>> \o roots

\* Mutant: an entry is taken although all are in use.
PossibleRootNoLimit(n, zv, rc, next) ==
    /\ refcount' = rc /\ stack' = next
    /\ IF color[n] = "purple" \/ address[n] # "null"
       THEN UNCHANGED <<color, address, roots>>
       ELSE Buffer(n)

\* gc_zval_possible_root and gc_zobj_possible_root for the node n, reached
\* through the zval zv, with the counts rc and the frames `next' to go on with.
\* Without a free entry a collection runs first, with zv held.
PossibleRoot(n, zv, rc, next) ==
    IF color[n] = "purple" \/ address[n] # "null"
    THEN /\ refcount' = rc /\ stack' = next
         /\ UNCHANGED <<color, address, roots>>
    ELSE IF Len(roots) < Slots
    THEN /\ Buffer(n)
         /\ refcount' = rc /\ stack' = next
    ELSE /\ refcount' = Add(rc, {zv}, 1)
         /\ stack' = <<Frame("collect_cycles", None, <<>>), Frame("new_root", n, <<zv>>)>> \o next
         /\ UNCHANGED <<color, address, roots>>

\* The rest of it, after the collection (lines 164-181 and 217-235).
NewRoot ==
    /\ Running("new_root")
    /\ refcount' = Add(refcount, {Head(Top.rest)}, -1)
    /\ stack' = Below
    /\ IF Len(roots) < Slots THEN Buffer(Top.node) ELSE UNCHANGED <<color, address, roots>>
    /\ UNCHANGED <<heap, store, zval_to_free>>

\* Mutant: the entry stays in the buffer.
UnbufferedNot(n) == roots

\* GC_REMOVE_ZVAL_FROM_BUFFER and GC_REMOVE_ZOBJ_FROM_BUFFER unlink the entry
\* that the address of n points to: the most recent one.
Unbuffered(n) ==
    IF address[n] = "buf" THEN RemoveFirst(roots, n) ELSE roots

\* The collection that is about to destroy z skips it (next_to_free).
SkipNext(z, frames) ==
    [i \in DOMAIN frames |->
        IF frames[i].op = "destroy" /\ frames[i].rest # <<>> /\ Head(frames[i].rest) = z
        THEN [frames[i] EXCEPT !.rest = Tail(@)]
        ELSE frames[i]]

-----------------------------------------------------------------------------
(* zval_ptr_dtor and the object store                                      *)

\* Z_DELREF_P leaves no reference.
LastReference(z) == refcount[z] = 1

\* Mutant: no possible root, as in i_zval_ptr_dtor_nogc.
ZvalPtrDtorSharedNoGC ==
    /\ Running("zval_ptr_dtor")
    /\ ~LastReference(Top.node)
    /\ refcount' = Add(refcount, {Top.node}, -1) /\ stack' = Below
    /\ UNCHANGED <<heap, color, address, store, buffer>>

\* i_zval_ptr_dtor when other references remain.
ZvalPtrDtorShared ==
    /\ Running("zval_ptr_dtor")
    /\ LET z == Top.node
           rc == Add(refcount, {z}, -1)
       IN /\ ~LastReference(z)
          /\ IF type[z] = "null" \/ address[z] = "list" \/ \E o \in ObjectOf(z) : ~valid[o]
             THEN /\ refcount' = rc /\ stack' = Below
                  /\ UNCHANGED <<color, address, roots>>
             ELSE PossibleRoot(IF type[z] = "object" THEN handle[z] ELSE z, z, rc, Below)
    /\ UNCHANGED <<heap, store, zval_to_free>>

\* i_zval_ptr_dtor of the last reference: zval_dtor, then efree.
ZvalPtrDtorLast ==
    /\ Running("zval_ptr_dtor")
    /\ LET z == Top.node
           del_ref(o) == <<Frame("del_ref_by_handle", o, <<>>), Frame("check_root", o, <<z>>)>>
       IN /\ LastReference(z)
          /\ refcount' = [refcount EXCEPT ![z] = 0]
          /\ roots' = Unbuffered(z)
          /\ color' = [color EXCEPT ![z] = IF address[z] = "buf" THEN "black" ELSE @]
          /\ address' = [address EXCEPT ![z] = IF @ = "buf" THEN "null" ELSE @]
          /\ type' = [type EXCEPT ![z] = IF @ = "array" THEN "null" ELSE @]
          /\ holds' = [holds EXCEPT ![z] = {}]
          /\ stack' = Each("zval_ptr_dtor", Contents(z))
                      \o (IF type[z] = "object" THEN del_ref(handle[z]) ELSE <<>>)
                      \o <<Frame("efree", z, <<>>)>>
                      \o (IF address[z] = "list" THEN SkipNext(z, Below) ELSE Below)
    /\ UNCHANGED <<handle, refs, store, zval_to_free>>

\* The memory of a freed zval is not looked at again: it gets fixed values.
Released(Z) ==
    /\ type' = Set(type, Z, "free")
    /\ handle' = Set(handle, Z, None)
    /\ refcount' = Set(refcount, Z, 0)
    /\ color' = Set(color, Z, "black")
    /\ address' = Set(address, Z, "null")
    /\ UNCHANGED <<holds, refs>>

Efree ==
    /\ Running("efree")
    /\ Released({Top.node})
    /\ stack' = Below
    /\ UNCHANGED <<store, buffer>>

\* GC_ZOBJ_CHECK_POSSIBLE_ROOT at the end of zend_objects_store_del_ref.
CheckRoot ==
    /\ Running("check_root")
    /\ IF valid[Top.node]
       THEN PossibleRoot(Top.node, Head(Top.rest), refcount, Below)
       ELSE stack' = Below /\ UNCHANGED <<marks, roots>>
    /\ UNCHANGED <<heap, store, zval_to_free>>

\* The call of obj->dtor: zend_objects_destroy_object holds $this meanwhile.
CallDestructor(o, next) ==
    IF o \in Destructors
    THEN /\ refcount' = Add(refcount, {o}, 1)
         /\ stack' = <<Frame("__destruct", o, <<>>)>> \o next
    ELSE UNCHANGED refcount /\ stack' = next

\* zend_objects_store_del_ref_by_handle_ex, up to the return of the destructor.
DelRefByHandle ==
    /\ Running("del_ref_by_handle")
    /\ LET o == Top.node
           next == <<Frame("free_storage", o, <<>>)>> \o Below
       IN IF valid[o] /\ refcount[o] = 1
          THEN /\ destructor_called' = [destructor_called EXCEPT ![o] = TRUE]
               /\ IF destructor_called[o]
                  THEN UNCHANGED refcount /\ stack' = next
                  ELSE CallDestructor(o, next)
          ELSE /\ refcount' = [refcount EXCEPT ![o] = @ - 1]
               /\ stack' = Below
               /\ UNCHANGED destructor_called
    /\ UNCHANGED <<heap, color, address, valid, buffer>>

\* Mutant: the storage is freed whatever the destructor has done.
FreeStorageAlways ==
    /\ Running("free_storage")
    /\ LET o == Top.node IN
       /\ roots' = Unbuffered(o)
       /\ address' = [address EXCEPT ![o] = "null"]
       /\ holds' = [holds EXCEPT ![o] = {}]
       /\ stack' = Each("zval_ptr_dtor", holds[o]) \o <<Frame("add_to_free_list", o, <<>>)>> \o Below
    /\ UNCHANGED <<type, handle, refs, refcount, color, store, zval_to_free>>

\* The rest of it: the destructor may have stored the object somewhere.
FreeStorage ==
    /\ Running("free_storage")
    /\ LET o == Top.node IN
       IF refcount[o] = 1
       THEN /\ roots' = Unbuffered(o)
            /\ color' = [color EXCEPT ![o] = IF address[o] = "buf" THEN "black" ELSE @]
            /\ address' = [address EXCEPT ![o] = "null"]
            /\ holds' = [holds EXCEPT ![o] = {}]
            /\ stack' = Each("zval_ptr_dtor", holds[o]) \o <<Frame("add_to_free_list", o, <<>>)>> \o Below
            /\ UNCHANGED refcount
       ELSE /\ refcount' = [refcount EXCEPT ![o] = @ - 1]
            /\ stack' = Below
            /\ UNCHANGED <<roots, color, address, holds>>
    /\ UNCHANGED <<type, handle, refs, store, zval_to_free>>

AddToFreeList ==
    /\ Running("add_to_free_list")
    /\ valid' = [valid EXCEPT ![Top.node] = FALSE]
    /\ refcount' = [refcount EXCEPT ![Top.node] = @ - 1]
    /\ stack' = Below
    /\ UNCHANGED <<heap, color, address, destructor_called, buffer>>

-----------------------------------------------------------------------------
(* gc_collect_cycles: marking, scanning, collecting                        *)

\* Nothing to do without roots; mark, scan and collect run nothing that could
\* call gc_collect_cycles again (gc_active).
CollectCycles ==
    /\ Running("collect_cycles")
    /\ stack' = IF roots = <<>> THEN Below ELSE <<Frame("mark_roots", None, roots)>> \o Below
    /\ UNCHANGED <<heap, marks, store, buffer>>

\* zval_mark_grey(z), with the counts rc: the object z refers to loses a count,
\* and the contents of what turns grey here are visited over their edges.
ZvalMarkGrey(z, rc, next) ==
    LET grey == IF color[z] = "grey" THEN {} ELSE {z} \cup {o \in ObjectOf(z) : color[o] # "grey"}
    IN /\ refcount' = IF color[z] = "grey" THEN rc ELSE Add(rc, ObjectOf(z), -1)
       /\ color' = Set(color, grey, "grey")
       /\ stack' = Each("mark_grey", UNION {Contents(n) : n \in grey}) \o next

\* zobj_mark_grey(o)
ZobjMarkGrey(o, next) ==
    /\ color' = [color EXCEPT ![o] = "grey"]
    /\ stack' = Each("mark_grey", Contents(o)) \o next
    /\ UNCHANGED refcount

MarkEdge ==
    /\ Running("mark_grey")
    /\ ZvalMarkGrey(Top.node, Add(refcount, {Top.node}, -1), Below)
    /\ UNCHANGED <<heap, address, store, buffer>>

\* gc_mark_roots: an entry that is not purple any more leaves the buffer.
MarkRoots ==
    /\ Running("mark_roots")
    /\ LET rest == Top.rest
           next == <<[Top EXCEPT !.rest = Tail(rest)]>> \o Below
           n == Head(rest)
       IN IF rest = <<>>
          THEN /\ stack' = <<Frame("scan_roots", None, roots)>> \o Below
               /\ UNCHANGED <<marks, roots>>
          ELSE IF color[n] = "purple"
          THEN /\ IF n \in Zvals THEN ZvalMarkGrey(n, refcount, next) ELSE ZobjMarkGrey(n, next)
               /\ UNCHANGED <<address, roots>>
          ELSE /\ address' = [address EXCEPT ![n] = "null"]
               /\ roots' = SubSeq(roots, 1, Len(roots) - Len(rest)) \o Tail(rest)
               /\ stack' = next
               /\ UNCHANGED <<refcount, color>>
    /\ UNCHANGED <<heap, store, zval_to_free>>

\* zval_scan_black(z), with the counts rc.
ZvalScanBlack(z, rc, next) ==
    LET black == {z} \cup {o \in ObjectOf(z) : color[o] # "black"}
    IN /\ refcount' = Add(rc, ObjectOf(z), 1)
       /\ color' = Set(color, black, "black")
       /\ stack' = Each("scan_black", UNION {Contents(n) : n \in black}) \o next

\* Mutant: the count is put back only when the zval is visited for the first time.
BlackEdgeOnce ==
    /\ Running("scan_black")
    /\ LET z == Top.node IN
       IF color[z] = "black"
       THEN stack' = Below /\ UNCHANGED <<refcount, color>>
       ELSE ZvalScanBlack(z, Add(refcount, {z}, 1), Below)
    /\ UNCHANGED <<heap, address, store, buffer>>

BlackEdge ==
    /\ Running("scan_black")
    /\ LET z == Top.node
           rc == Add(refcount, {z}, 1)
       IN IF color[z] = "black"
          THEN refcount' = rc /\ stack' = Below /\ UNCHANGED color
          ELSE ZvalScanBlack(z, rc, Below)
    /\ UNCHANGED <<heap, address, store, buffer>>

\* zobj_scan(o), and what zval_scan does with the object of a white zval: a
\* grey object without references turns white, any other one black.  `white'
\* is the zval that turns white with it, if any.
ZobjScan(o, white, next) ==
    LET live == refcount[o] > 0 IN
    /\ color' = IF color[o] # "grey" THEN Set(color, white, "white")
                ELSE [Set(color, white, "white") EXCEPT ![o] = IF live THEN "black" ELSE "white"]
    /\ stack' = IF color[o] # "grey" THEN next
                ELSE Each(IF live THEN "scan_black" ELSE "scan", Contents(o)) \o next
    /\ UNCHANGED refcount

\* Mutant: a zval with references from outside turns white.
ZvalScanAllWhite(z, next) ==
    IF color[z] # "grey"
    THEN stack' = next /\ UNCHANGED <<refcount, color>>
    ELSE IF type[z] = "object"
    THEN ZobjScan(handle[z], {z}, next)
    ELSE /\ color' = [color EXCEPT ![z] = "white"]
         /\ stack' = Each("scan", Contents(z)) \o next
         /\ UNCHANGED refcount

\* zval_scan(z)
ZvalScan(z, next) ==
    IF color[z] # "grey"
    THEN stack' = next /\ UNCHANGED <<refcount, color>>
    ELSE IF refcount[z] > 0
    THEN ZvalScanBlack(z, refcount, next)
    ELSE IF type[z] = "object"
    THEN ZobjScan(handle[z], {z}, next)
    ELSE /\ color' = [color EXCEPT ![z] = "white"]
         /\ stack' = Each("scan", Contents(z)) \o next
         /\ UNCHANGED refcount

ScanEdge ==
    /\ Running("scan")
    /\ ZvalScan(Top.node, Below)
    /\ UNCHANGED <<heap, address, store, buffer>>

\* Mutant: the loop does not advance.
ScanRootsStuck ==
    /\ Running("scan_roots")
    /\ LET rest == Top.rest
       IN IF rest = <<>>
          THEN stack' = <<Frame("collect_roots", None, roots)>> \o Below /\ UNCHANGED <<refcount, color>>
          ELSE IF Head(rest) \in Zvals THEN ZvalScan(Head(rest), stack) ELSE ZobjScan(Head(rest), {}, stack)
    /\ UNCHANGED <<heap, address, store, buffer>>

\* gc_scan_roots
ScanRoots ==
    /\ Running("scan_roots")
    /\ LET rest == Top.rest
           next == <<[Top EXCEPT !.rest = Tail(rest)]>> \o Below
       IN IF rest = <<>>
          THEN stack' = <<Frame("collect_roots", None, roots)>> \o Below /\ UNCHANGED <<refcount, color>>
          ELSE IF Head(rest) \in Zvals THEN ZvalScan(Head(rest), next) ELSE ZobjScan(Head(rest), {}, next)
    /\ UNCHANGED <<heap, address, store, buffer>>

\* zobj_collect_white(o), and what zval_collect_white does with its object:
\* the object turns purple, so that nothing buffers it again.
WhiteObject(o, addr) == color[o] = "white" /\ addr[o] = "null"

\* Mutant: the garbage is listed without a count of its own.
ZvalCollectWhiteUnheld(z, rc, addr, next) ==
    IF color[z] # "white" \/ addr[z] # "null"
    THEN refcount' = rc /\ address' = addr /\ stack' = next /\ UNCHANGED <<color, zval_to_free>>
    ELSE LET o == {x \in ObjectOf(z) : WhiteObject(x, addr)} IN
         /\ color' = Set([color EXCEPT ![z] = "black"], o, "purple")
         /\ refcount' = rc
         /\ address' = [addr EXCEPT ![z] = "list"]
         /\ zval_to_free' = <<z>> \o zval_to_free
         /\ stack' = Each("collect_white", UNION {Contents(n) : n \in o \cup {z}}) \o next

\* zval_collect_white(z), with the counts rc and the addresses addr.
ZvalCollectWhite(z, rc, addr, next) ==
    IF color[z] # "white" \/ addr[z] # "null"
    THEN refcount' = rc /\ address' = addr /\ stack' = next /\ UNCHANGED <<color, zval_to_free>>
    ELSE LET o == {x \in ObjectOf(z) : WhiteObject(x, addr)} IN
         /\ color' = Set([color EXCEPT ![z] = "black"], o, "purple")
         /\ refcount' = Add(rc, {z}, 1)
         /\ address' = [addr EXCEPT ![z] = "list"]
         /\ zval_to_free' = <<z>> \o zval_to_free
         /\ stack' = Each("collect_white", UNION {Contents(n) : n \in o \cup {z}}) \o next

CollectEdge ==
    /\ Running("collect_white")
    /\ ZvalCollectWhite(Top.node, Add(refcount, {Top.node}, 1), address, Below)
    /\ UNCHANGED <<heap, store, roots>>

\* gc_collect_roots empties the buffer.  Then gc_collect_cycles calls the
\* destructors, destroys the contents of the garbage and frees it.
CollectRoots ==
    /\ Running("collect_roots")
    /\ LET rest == Top.rest
           next == <<[Top EXCEPT !.rest = Tail(rest)]>> \o Below
           n == Head(rest)
           addr == [address EXCEPT ![n] = "null"]
       IN IF rest = <<>>
          THEN /\ stack' = <<Frame("destructors", None, zval_to_free),
                             Frame("destroy", None, zval_to_free),
                             Frame("free_zvals", None, zval_to_free)>> \o Below
               /\ zval_to_free' = <<>>
               /\ UNCHANGED <<marks, roots>>
          ELSE /\ roots' = Tail(roots)
               /\ IF n \in Zvals
                  THEN ZvalCollectWhite(n, refcount, addr, next)
                  ELSE /\ address' = addr
                       /\ color' = IF WhiteObject(n, addr) THEN [color EXCEPT ![n] = "purple"] ELSE color
                       /\ stack' = (IF WhiteObject(n, addr) THEN Each("collect_white", Contents(n)) ELSE <<>>)
                                   \o next
                       /\ UNCHANGED <<refcount, zval_to_free>>
    /\ UNCHANGED <<heap, store>>

-----------------------------------------------------------------------------
(* gc_collect_cycles: destructors, destruction, release                    *)

\* The top frame has dealt with the first of its zvals, or with all of them.
Following == IF Top.rest = <<>> THEN Below ELSE <<[Top EXCEPT !.rest = Tail(@)]>> \o Below
Garbage == ToSet(SubSeq(Top.rest, 1, IF Top.rest = <<>> THEN 0 ELSE 1))

\* The collection holds the object during its destructor.
CallDestructors ==
    /\ Running("destructors")
    /\ LET dying == {o \in UNION {ObjectOf(z) : z \in Garbage} :
                        valid[o] /\ refcount[o] <= 0 /\ ~destructor_called[o]}
       IN /\ destructor_called' = Set(destructor_called, dying, TRUE)
          /\ refcount' = Add(refcount, dying \cap Destructors, 2)
          /\ stack' = Each("__destruct", dying \cap Destructors)
                      \o Each("destructed", dying \cap Destructors) \o Following
    /\ UNCHANGED <<heap, color, address, valid, buffer>>

\* The end of a destructor: zend_objects_destroy_object drops $this.
EndDestruct ==
    /\ Running("__destruct")
    /\ PossibleRoot(Top.node, None, Add(refcount, {Top.node}, -1), Below)
    /\ UNCHANGED <<heap, store, zval_to_free>>

Destructed ==
    /\ Running("destructed")
    /\ refcount' = [refcount EXCEPT ![Top.node] = @ - 1]
    /\ stack' = Below
    /\ UNCHANGED <<heap, color, address, store, buffer>>

\* An object that somebody refers to again is left alone.
Destroy ==
    /\ Running("destroy")
    /\ LET arrays == {z \in Garbage : type[z] = "array"}
           dying == {o \in UNION {ObjectOf(z) : z \in Garbage} : valid[o] /\ refcount[o] <= 0}
           dead == arrays \cup {z \in Garbage : ObjectOf(z) \cap dying # {}}
       IN /\ type' = Set(type, dead, "null")
          /\ refcount' = Set(refcount, dying, 1)
          /\ holds' = Set(holds, arrays, {})
          /\ stack' = Each("zval_ptr_dtor", UNION {holds[z] : z \in arrays})
                      \o Each("del_ref_by_handle", dying) \o Following
    /\ UNCHANGED <<handle, refs, color, address, store, buffer>>

FreeZvals ==
    /\ Running("free_zvals")
    /\ Released(Garbage)
    /\ stack' = Following
    /\ UNCHANGED <<store, buffer>>

-----------------------------------------------------------------------------
(* Scripts                                                                 *)

InScript == stack = <<>>

\* What the variables of the scripts reach.
Successors(S) == UNION {Contents(n) : n \in S} \cup UNION {ObjectOf(z) : z \in S \cap Zvals}
ReachableFrom[S \in SUBSET Nodes] ==
    IF Successors(S) \subseteq S THEN S ELSE ReachableFrom[S \cup Successors(S)]
Reachable == ReachableFrom[{z \in Zvals : refs[z] > 0}]

FreeZval(z) == type[z] = "free" /\ \A y \in Zvals : type[y] = "free" => z <= y
FreeHandle(o) == ~valid[o] /\ \A p \in Objects : ~valid[p] => o <= p

\* A new zval in a variable (ALLOC_ZVAL).
NewZval(z, t, h) ==
    /\ FreeZval(z)
    /\ type' = [type EXCEPT ![z] = t]
    /\ handle' = [handle EXCEPT ![z] = h]
    /\ refs' = [refs EXCEPT ![z] = 1]
    /\ holds' = [holds EXCEPT ![z] = {}]

NewArray(z) ==
    /\ InScript
    /\ NewZval(z, "array", None)
    /\ refcount' = [refcount EXCEPT ![z] = 1]
    /\ color' = [color EXCEPT ![z] = "black"]
    /\ UNCHANGED <<address, store, buffer, stack>>

\* zend_objects_store_put
NewObject(z, o) ==
    /\ InScript
    /\ FreeHandle(o)
    /\ NewZval(z, "object", o)
    /\ refcount' = Set(refcount, {z, o}, 1)
    /\ color' = Set(color, {z, o}, "black")
    /\ address' = [address EXCEPT ![o] = "null"]
    /\ valid' = [valid EXCEPT ![o] = TRUE]
    /\ destructor_called' = [destructor_called EXCEPT ![o] = FALSE]
    /\ UNCHANGED <<buffer, stack>>

\* Mutant: the object does not count the new handle.
CopyHandleUncounted(z, o) ==
    /\ NewZval(z, "object", o)
    /\ refcount' = [refcount EXCEPT ![z] = 1]
    /\ color' = [color EXCEPT ![z] = "black"]
    /\ UNCHANGED <<address, store, buffer, stack>>

\* zval_copy_ctor of an object zval (zend_objects_store_add_ref).
CopyHandle(z, o) ==
    /\ NewZval(z, "object", o)
    /\ refcount' = [refcount EXCEPT ![z] = 1, ![o] = @ + 1]
    /\ color' = [color EXCEPT ![z] = "black"]
    /\ UNCHANGED <<address, store, buffer, stack>>

CopyObject(z, o) ==
    /\ InScript
    /\ o \in Reachable
    /\ CopyHandle(z, o)

\* Another variable refers to the zval.
Share(z) ==
    /\ InScript
    /\ z \in Reachable /\ refs[z] < MaxVariables
    /\ refs' = [refs EXCEPT ![z] = @ + 1]
    /\ refcount' = [refcount EXCEPT ![z] = @ + 1]
    /\ UNCHANGED <<type, handle, holds, color, address, store, buffer, stack>>

\* A zval is stored in an array or as a property, and taken out again.
Store(n, z) ==
    /\ InScript
    /\ {n, z} \subseteq Reachable
    /\ n \in Objects \cup {y \in Zvals : type[y] = "array"}
    /\ z \notin holds[n]
    /\ Cardinality({<<m, y>> \in Nodes \X Zvals : y \in holds[m]}) < MaxStored
    /\ holds' = [holds EXCEPT ![n] = @ \cup {z}]
    /\ refcount' = [refcount EXCEPT ![z] = @ + 1]
    /\ UNCHANGED <<type, handle, refs, color, address, store, buffer, stack>>

TakeOut(n, z) ==
    /\ z \in holds[n]
    /\ holds' = [holds EXCEPT ![n] = @ \ {z}]
    /\ stack' = <<Frame("zval_ptr_dtor", z, <<>>)>> \o stack
    /\ UNCHANGED <<type, handle, refs, marks, store, buffer>>

TakeFrom(n, z) ==
    /\ InScript
    /\ n \in Reachable
    /\ TakeOut(n, z)

Unset(z) ==
    /\ InScript
    /\ refs[z] > 0
    /\ refs' = [refs EXCEPT ![z] = @ - 1]
    /\ stack' = <<Frame("zval_ptr_dtor", z, <<>>)>>
    /\ UNCHANGED <<type, handle, holds, marks, store, buffer>>

\* gc_collect_cycles(), called by a script or by a destructor.
GcCollectCycles ==
    /\ Collections
    /\ stack = <<>> \/ Running("__destruct")
    /\ stack' = <<Frame("collect_cycles", None, <<>>)>> \o stack
    /\ UNCHANGED <<heap, marks, store, buffer>>

\* unset($this->property) in a destructor.
DestructUnsets(z) ==
    /\ Unsets
    /\ Running("__destruct")
    /\ TakeOut(Top.node, z)

\* $variable = $this in a destructor.
DestructStores(z) ==
    /\ Running("__destruct")
    /\ (IF Head(Below).op = "destructed" THEN "garbage" ELSE "last") \in Resurrects
    /\ CopyHandle(z, Top.node)

-----------------------------------------------------------------------------
Script ==
    \/ \E z \in Zvals : NewArray(z) \/ Share(z) \/ Unset(z) \/ DestructUnsets(z) \/ DestructStores(z)
    \/ \E z \in Zvals, o \in Objects : NewObject(z, o) \/ CopyObject(z, o)
    \/ \E n \in Nodes, z \in Zvals : Store(n, z) \/ TakeFrom(n, z)
    \/ GcCollectCycles

Engine ==
    \/ ZvalPtrDtorShared \/ ZvalPtrDtorLast \/ Efree \/ CheckRoot \/ NewRoot
    \/ DelRefByHandle \/ FreeStorage \/ AddToFreeList
    \/ CollectCycles \/ MarkRoots \/ MarkEdge \/ ScanRoots \/ ScanEdge \/ BlackEdge
    \/ CollectRoots \/ CollectEdge
    \/ CallDestructors \/ EndDestruct \/ Destructed \/ Destroy \/ FreeZvals

Next == Script \/ Engine

Spec == Init /\ [][Next]_vars

\* The engine goes on, and no destructor runs for ever.
FairSpec == Spec /\ WF_vars(Engine) /\ SF_vars(EndDestruct)

-----------------------------------------------------------------------------
(* Properties                                                              *)

Ops == {"zval_ptr_dtor", "efree", "del_ref_by_handle", "check_root", "free_storage",
        "add_to_free_list", "new_root", "collect_cycles", "mark_roots", "mark_grey",
        "scan_roots", "scan", "scan_black", "collect_roots", "collect_white",
        "destructors", "__destruct", "destructed", "destroy", "free_zvals"}

\* Variables have the types of the C structures; a count below zero would wrap.
TypeOK ==
    /\ type \in [Zvals -> {"array", "object", "null", "free"}]
    /\ handle \in [Zvals -> Objects \cup {None}]
    /\ holds \in [Nodes -> SUBSET Zvals]
    /\ refs \in [Zvals -> Nat]
    /\ refcount \in [Nodes -> Nat]
    /\ color \in [Nodes -> {"black", "white", "grey", "purple"}]
    /\ address \in [Nodes -> {"null", "buf", "list"}]
    /\ valid \in [Objects -> BOOLEAN] /\ destructor_called \in [Objects -> BOOLEAN]
    /\ roots \in Seq(Nodes) /\ Len(roots) <= Slots
    /\ zval_to_free \in Seq(Zvals)
    /\ \A i \in DOMAIN stack : stack[i] \in [op : Ops, node : Nodes \cup {None}, rest : Seq(Nodes \cup {None})]

\* No variable, array, property, pending zval_ptr_dtor or garbage list refers to
\* a zval that has been freed: neither the collector nor a last zval_ptr_dtor
\* frees what somebody can still use, and nothing is freed twice.
NoDanglingZval ==
    \A z \in Zvals : type[z] = "free" =>
        /\ refs[z] = 0
        /\ \A n \in Nodes : z \notin holds[n]
        /\ \A i \in DOMAIN stack :
            /\ stack[i].op \in {"zval_ptr_dtor", "efree"} => stack[i].node # z
            /\ stack[i].op \in {"destructors", "destroy", "free_zvals"} => z \notin ToSet(stack[i].rest)

\* Every object that a script can reach is in the object store, also one that
\* its destructor stored in a variable while the collector was destroying it.
ReachableObjectsValid ==
    \A z \in Reachable \cap Zvals : type[z] = "object" => valid[handle[z]]

\* Between two operations of the scripts every count is the number of
\* references: what marking subtracts, scanning and collecting put back.
RefcountsExact ==
    stack = <<>> =>
        /\ \A z \in Zvals : type[z] # "free" =>
            refcount[z] = refs[z] + Cardinality({n \in Nodes : z \in holds[n]})
        /\ \A o \in Objects : valid[o] =>
            refcount[o] = Cardinality({z \in Zvals : type[z] = "object" /\ handle[z] = o})

\* A collection that a script asks for finds exactly the zvals that no variable
\* reaches: the root buffer lists every cycle that has become garbage, and no
\* live zval turns white.
CollectsExactlyGarbage ==
    Running("destructors") /\ Len(stack) = 3 /\ Top.rest = stack[2].rest =>
        ToSet(Top.rest) = {z \in Zvals : type[z] # "free"} \ Reachable

\* While the collector destroys its garbage, the count it added to each garbage
\* zval keeps every zval_ptr_dtor from freeing it.
GarbageIsHeld ==
    \A i \in DOMAIN stack : stack[i].op \in {"destroy", "free_zvals"} =>
        \A z \in ToSet(stack[i].rest) : refcount[z] > 0

\* The root buffer is a list of possible roots of cycles: no entry refers to a
\* zval that has been freed.
RootsAllocated == \A z \in ToSet(roots) \cap Zvals : type[z] # "free"

\* Every destruction and every collection ends.
EngineReturns == []<>(stack = <<>>)
=============================================================================
