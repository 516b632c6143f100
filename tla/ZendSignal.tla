----------------------------- MODULE ZendSignal -----------------------------
(***************************************************************************)
(* Deferred signal handling of the Zend engine (Zend/zend_signal.c and .h, *)
(* and zend_timeout in Zend/zend_execute_API.c), in a build without ZTS.   *)
(*                                                                         *)
(* A process runs one program, which enters and leaves critical sections   *)
(* (HANDLE_BLOCK_INTERRUPTIONS, HANDLE_UNBLOCK_INTERRUPTIONS).  The kernel *)
(* may run zend_signal_handler_defer between any two steps of it, unless   *)
(* the signal is masked.  Inside a critical section the signal goes to a   *)
(* queue with fixed storage, and the end of the section hands it on.       *)
(* A handler may return, or leave by longjmp as zend_timeout does.         *)
(***************************************************************************)
EXTENDS Integers, SequencesExt

CONSTANTS
    Prof,         \* the signal of the execution timer (TIMEOUT_SIG)
    Others,       \* the other signals the engine manages
    QueueSize,    \* ZEND_SIGNAL_QUEUE_SIZE
    Orig,         \* Orig[s]: disposition of s that zend_signal_startup finds
    UserFns,      \* dispositions scripts install with zend_sigaction
    Timeouts,     \* time limits of requests: whether zend_timeout handles Prof
    MaxRaised,    \* bound on the signals raised
    MaxBlocks,    \* bound on the critical sections entered
    MaxRequests,  \* bound on the requests
    MaxInstalls,  \* bound on the calls of zend_sigaction by scripts
    MaxBailouts   \* bound on the bailouts of the program itself

Sigs == {Prof} \cup Others

\* What a handler does: SIG_DFL kills the process, SIG_IGN nothing, a function
\* returns, and zend_timeout leaves by longjmp.
Fns == {"dfl", "ign", "func", "timeout"}

\* zend_signal_entry_t: the function, and whether SA_SIGINFO|SA_RESETHAND is set.
Entries == [fn : Fns, once : BOOLEAN]
Entry(fn, once) == [fn |-> fn, once |-> once]

ASSUME ProfAssumption == Prof \notin Others
ASSUME OrigAssumption == Orig \in [Sigs -> {"dfl", "ign"}]
ASSUME SizeAssumption == QueueSize \in Nat /\ QueueSize > 0
ASSUME TimeoutsAssumption == Timeouts \subseteq BOOLEAN
ASSUME BoundsAssumption ==
    /\ MaxRaised \in Nat /\ MaxBlocks \in Nat /\ MaxRequests \in Nat
    /\ MaxInstalls \in Nat /\ MaxBailouts \in Nat
ASSUME UserAssumption == UserFns \subseteq Entries \ [fn : {"timeout"}, once : BOOLEAN]

VARIABLES
    depth, blocked, running, active, handlers,  \* zend_signal_globals
    phead,        \* the pending queue, as the sequence of its signals
    avail,        \* number of entries on the list pavail
    installed,    \* signals whose kernel handler is zend_signal_handler_defer
    pending,      \* signals the kernel has not delivered yet
    masked,       \* signal mask of the process
    pc,           \* next step of what runs now
    frames,       \* invocations of zend_signal_handler_defer, innermost last
    arg,          \* <<signal, function>> pairs the program is about to install
    nest,         \* critical sections the code that runs now really is in
    process,      \* "up", "killed" (by a SIG_DFL signal) or "crashed"
    budget        \* what is left of the bounds, and whether zend_timeout has run

globals == <<depth, blocked, running, active, handlers, phead, avail>>
kernel == <<installed, pending, masked>>
program == <<pc, frames, arg, nest>>
vars == <<globals, kernel, program, process, budget>>

\* [sig, rest, saved, ret, direct]: the signal being handled, the entries
\* that are still on the local list `queue', the mask and the step to go back
\* to, and whether the engine is inactive, so that only `sig' is handled.
Frame(sig, ret, direct) ==
    [sig |-> sig, rest |-> <<>>, saved |-> masked, ret |-> ret, direct |-> direct]

\* The steps of an invocation of zend_signal_handler_defer; the program never
\* continues with one of them.
HandlerPcs == {"call", "returned"}
ProgramPcs == {"run", "test", "unblock", "register", "reset", "sigaction"}

Frames == [sig : Sigs, rest : Seq(Sigs), saved : SUBSET Others, ret : ProgramPcs, direct : BOOLEAN]

Top == Last(frames)
SetTop(f) == frames' = Append(Front(frames), f)

Spend(what) == budget[what] > 0 /\ budget' = [budget EXCEPT ![what] = @ - 1]

-----------------------------------------------------------------------------
\* zend_signal_startup and zend_signal_globals_ctor
Init ==
    /\ depth = 0 /\ blocked = -1 /\ running = 0 /\ active = 0
    /\ handlers = [s \in Sigs |-> Entry("dfl", FALSE)]
    /\ phead = <<>> /\ avail = QueueSize
    /\ installed = {} /\ pending = {} /\ masked = {}
    /\ pc = "run" /\ frames = <<>> /\ arg = {} /\ nest = 0
    /\ process = "up"
    /\ budget = [raised |-> MaxRaised, blocks |-> MaxBlocks, requests |-> MaxRequests,
                 installs |-> MaxInstalls, bailouts |-> MaxBailouts, timed_out |-> FALSE]

\* The timer expires, or somebody sends a signal; standard signals do not queue.
Raise(s) ==
    /\ Spend("raised")
    /\ pending' = pending \cup {s}
    /\ UNCHANGED <<globals, installed, masked, program, process>>

-----------------------------------------------------------------------------
(* zend_signal_handler_defer                                               *)

\* The body of zend_signal_handler_defer(s), called with every managed signal
\* masked and with the queue q and the free entries n; `ret' is the step that
\* follows its return.

\* The engine is inactive: just run the handler.
DeferInactive(s, ret, q, n) ==
    /\ active = 0
    /\ frames' = Append(frames, Frame(s, ret, TRUE))
    /\ pc' = "call" /\ masked' = Sigs
    /\ phead' = q /\ avail' = n
    /\ UNCHANGED <<blocked, running>>

\* Mutant: the flag of the last critical section is not reset.
DeferHandleKeepBlocked(s, ret, q, n) ==
    /\ active = 1 /\ depth = 0 /\ running = 0
    /\ running' = 1
    /\ frames' = Append(frames, Frame(s, ret, FALSE))
    /\ pc' = "call" /\ masked' = Sigs
    /\ phead' = q /\ avail' = n
    /\ UNCHANGED blocked

\* Outside critical sections the handler runs, and then those of the queue.
DeferHandle(s, ret, q, n) ==
    /\ active = 1 /\ depth = 0 /\ running = 0
    /\ blocked' = -1 /\ running' = 1
    /\ frames' = Append(frames, Frame(s, ret, FALSE))
    /\ pc' = "call" /\ masked' = Sigs
    /\ phead' = q /\ avail' = n

\* Mutant: the flag of a deferred signal is the depth it came at.
DeferQueueAtDepth(s, ret, q, n) ==
    /\ active = 1 /\ depth # 0
    /\ blocked' = depth
    /\ IF n > 0 THEN phead' = Append(q, s) /\ avail' = n - 1
                ELSE phead' = q /\ avail' = n
    /\ pc' = ret
    /\ UNCHANGED <<running, frames, masked>>

\* Inside a critical section the signal is queued, or forgotten when the
\* storage is used up.
DeferQueue(s, ret, q, n) ==
    /\ active = 1 /\ depth # 0
    /\ blocked' = 0
    /\ IF n > 0 THEN phead' = Append(q, s) /\ avail' = n - 1
                ELSE phead' = q /\ avail' = n
    /\ pc' = ret
    /\ UNCHANGED <<running, frames, masked>>

\* A signal that finds running set is dropped.
DeferDrop(s, ret, q, n) ==
    /\ active = 1 /\ depth = 0 /\ running = 1
    /\ blocked' = -1
    /\ pc' = ret
    /\ phead' = q /\ avail' = n
    /\ UNCHANGED <<running, frames, masked>>

Defer(s, ret, q, n) ==
    \/ DeferInactive(s, ret, q, n) \/ DeferHandle(s, ret, q, n)
    \/ DeferQueue(s, ret, q, n) \/ DeferDrop(s, ret, q, n)

\* The kernel delivers s to zend_signal_handler_defer.
Deliver(s) ==
    /\ s \in pending \ masked
    /\ s \in installed
    /\ pending' = pending \ {s}
    /\ Defer(s, pc, phead, avail)
    /\ UNCHANGED <<depth, active, handlers, installed, arg, nest, process, budget>>

\* The kernel delivers s to the disposition it had before the first request.
DeliverOrig(s) ==
    /\ s \in pending \ masked
    /\ s \notin installed
    /\ pending' = pending \ {s}
    /\ process' = IF Orig[s] = "dfl" THEN "killed" ELSE process
    /\ UNCHANGED <<globals, installed, masked, program, budget>>

\* zend_signal_handler: call what is registered for the signal of the frame.
CallDefault ==
    /\ pc = "call" /\ handlers[Top.sig].fn = "dfl"
    /\ process' = "killed"
    /\ UNCHANGED <<globals, kernel, program, budget>>

CallFunction ==
    /\ pc = "call" /\ handlers[Top.sig].fn \in {"ign", "func"}
    /\ handlers' = IF handlers[Top.sig] = Entry("func", TRUE)
                   THEN [handlers EXCEPT ![Top.sig] = Entry("dfl", FALSE)] ELSE handlers
    /\ pc' = "returned"
    /\ UNCHANGED <<depth, blocked, running, active, phead, avail, kernel, frames, arg, nest,
                   process, budget>>

\* Mutant: zend_timeout does not reset the flag running.
CallTimeoutStillRunning ==
    /\ pc = "call" /\ handlers[Top.sig].fn = "timeout"
    /\ handlers' = [handlers EXCEPT ![Prof] = Entry("timeout", FALSE)]
    /\ installed' = installed \cup {Prof}
    /\ masked' = masked \ {Prof}
    /\ pc' = "run" /\ nest' = 0
    /\ budget' = [budget EXCEPT !.timed_out = TRUE]
    /\ UNCHANGED <<depth, blocked, running, active, phead, avail, pending, frames, arg, process>>

\* Mutant: php_on_timeout arms the timer without reset_signals.
CallTimeoutMasked ==
    /\ pc = "call" /\ handlers[Top.sig].fn = "timeout"
    /\ running' = 0
    /\ pc' = "run" /\ nest' = 0
    /\ budget' = [budget EXCEPT !.timed_out = TRUE]
    /\ UNCHANGED <<depth, blocked, active, handlers, phead, avail, kernel, frames, arg, process>>

\* zend_timeout up to the end of zend_on_timeout: php_on_timeout arms the
\* timer again, which installs zend_timeout anew and unmasks its signal.  The
\* rest of it runs as a program of its own, until zend_error bails out.
CallTimeout ==
    /\ pc = "call" /\ handlers[Top.sig].fn = "timeout"
    /\ running' = 0
    /\ handlers' = [handlers EXCEPT ![Prof] = Entry("timeout", FALSE)]
    /\ installed' = installed \cup {Prof}
    /\ masked' = masked \ {Prof}
    /\ pc' = "run" /\ nest' = 0
    /\ budget' = [budget EXCEPT !.timed_out = TRUE]
    /\ UNCHANGED <<depth, blocked, active, phead, avail, pending, frames, arg, process>>

\* After the first handler the loop takes the whole queue; after each later
\* one it recycles the entry.
NextInQueue ==
    /\ pc = "returned" /\ ~Top.direct
    /\ LET queue == IF Top.rest = <<>> THEN phead ELSE Tail(Top.rest) IN
         /\ queue # <<>>
         /\ SetTop([Top EXCEPT !.rest = queue, !.sig = Head(queue)])
    /\ phead' = IF Top.rest = <<>> THEN <<>> ELSE phead
    /\ avail' = IF Top.rest = <<>> THEN avail ELSE avail + 1
    /\ pc' = "call"
    /\ UNCHANGED <<depth, blocked, running, active, handlers, kernel, arg, nest, process, budget>>

\* Mutant: the last entry of the queue is not recycled.
QueueDoneLoseLast ==
    /\ pc = "returned" /\ ~Top.direct
    /\ IF Top.rest = <<>> THEN phead = <<>> ELSE Len(Top.rest) = 1
    /\ running' = 0
    /\ pc' = Top.ret /\ masked' = Top.saved /\ frames' = Front(frames)
    /\ UNCHANGED <<depth, blocked, active, handlers, phead, avail, installed, pending, arg, nest,
                   process, budget>>

\* Mutant: SIGNAL_END_CRITICAL is forgotten.
QueueDoneMasked ==
    /\ pc = "returned" /\ ~Top.direct
    /\ IF Top.rest = <<>> THEN phead = <<>> /\ UNCHANGED avail
                          ELSE Len(Top.rest) = 1 /\ avail' = avail + 1
    /\ running' = 0
    /\ pc' = Top.ret /\ frames' = Front(frames)
    /\ UNCHANGED <<depth, blocked, active, handlers, phead, kernel, arg, nest, process, budget>>

QueueDone ==
    /\ pc = "returned" /\ ~Top.direct
    /\ IF Top.rest = <<>> THEN phead = <<>> /\ UNCHANGED avail
                          ELSE Len(Top.rest) = 1 /\ avail' = avail + 1
    /\ running' = 0
    /\ pc' = Top.ret /\ masked' = Top.saved /\ frames' = Front(frames)
    /\ UNCHANGED <<depth, blocked, active, handlers, phead, installed, pending, arg, nest,
                   process, budget>>

DirectDone ==
    /\ pc = "returned" /\ Top.direct
    /\ pc' = Top.ret /\ masked' = Top.saved /\ frames' = Front(frames)
    /\ UNCHANGED <<globals, installed, pending, arg, nest, process, budget>>

-----------------------------------------------------------------------------
(* Critical sections of the program                                        *)

\* Mutant: depth is a flag.
BlockFlag ==
    /\ pc = "run" /\ Spend("blocks")
    /\ depth' = 1 /\ nest' = nest + 1
    /\ UNCHANGED <<blocked, running, active, handlers, phead, avail, kernel, pc, frames, arg, process>>

Block ==
    /\ pc = "run" /\ Spend("blocks")
    /\ depth' = depth + 1 /\ nest' = nest + 1
    /\ UNCHANGED <<blocked, running, active, handlers, phead, avail, kernel, pc, frames, arg, process>>

\* --SIGG(depth)
Unblock ==
    /\ pc = "run" /\ nest > 0
    /\ depth' = depth - 1 /\ nest' = nest - 1
    /\ pc' = "test"
    /\ UNCHANGED <<blocked, running, active, handlers, phead, avail, kernel, frames, arg, process,
                   budget>>

\* Mutant: the test sees the value before the decrement.
TestPostDecrement ==
    /\ pc = "test"
    /\ pc' = IF depth + 1 = blocked THEN "unblock" ELSE "run"
    /\ UNCHANGED <<globals, kernel, frames, arg, nest, process, budget>>

\* ... == SIGG(blocked)
Test ==
    /\ pc = "test"
    /\ pc' = IF depth = blocked THEN "unblock" ELSE "run"
    /\ UNCHANGED <<globals, kernel, frames, arg, nest, process, budget>>

\* zend_signal_handler_unblock.  The mask is set only here, after the test; a
\* null phead is dereferenced.
HandlerUnblock ==
    /\ pc = "unblock" /\ phead # <<>>
    /\ IF active = 1 THEN Defer(Head(phead), "run", Tail(phead), avail + 1)
                     ELSE pc' = "run" /\ UNCHANGED <<blocked, running, phead, avail, masked, frames>>
    /\ UNCHANGED <<depth, active, handlers, installed, pending, arg, nest, process, budget>>

HandlerUnblockEmpty ==
    /\ pc = "unblock" /\ phead = <<>>
    /\ IF active = 1 THEN process' = "crashed" /\ UNCHANGED pc
                     ELSE pc' = "run" /\ UNCHANGED process
    /\ UNCHANGED <<globals, kernel, frames, arg, nest, budget>>

-----------------------------------------------------------------------------
(* Longjmp                                                                 *)

\* _zend_bailout jumps to the zend_try of the program: every frame and every
\* open critical section is gone.  The mask stays as it is (sigsetjmp(a, 0)),
\* and so does depth.
Jump ==
    /\ frames' = <<>> /\ nest' = 0 /\ arg' = {}
    /\ UNCHANGED <<globals, kernel, pc, process>>

\* The zend_error(E_ERROR) that ends zend_timeout.
TimeoutBailout == pc = "run" /\ frames # <<>> /\ Jump /\ UNCHANGED budget

\* A fatal error of the program, for instance in a destructor that a hash
\* table calls inside its critical section.
Bailout == pc = "run" /\ frames = <<>> /\ Spend("bailouts") /\ Jump

-----------------------------------------------------------------------------
(* Requests                                                                *)

InProgram == pc = "run" /\ frames = <<>>

\* zend_signal_activate, at the start of a request: memcpy of the handlers ...
Activate ==
    /\ InProgram /\ nest = 0
    /\ Spend("requests")
    /\ handlers' = [s \in Sigs |-> Entry(Orig[s], FALSE)]
    /\ pc' = "register" /\ arg' = {<<s, Orig[s]>> : s \in Sigs \ installed}
    /\ UNCHANGED <<depth, blocked, running, active, phead, avail, kernel, frames, nest, process>>

\* ... zend_signal_register for each signal that has another handler ...
Register ==
    /\ pc = "register"
    /\ \E a \in arg :
         /\ handlers' = [handlers EXCEPT ![a[1]] = Entry(a[2], FALSE)]
         /\ installed' = installed \cup {a[1]}
         /\ arg' = arg \ {a}
    /\ UNCHANGED <<depth, blocked, running, active, phead, avail, pending, masked, pc, frames, nest,
                   process, budget>>

\* ... active = 1 ...
SetActive ==
    /\ pc = "register" /\ arg = {}
    /\ active' = 1
    /\ pc' = "reset"
    /\ UNCHANGED <<depth, blocked, running, handlers, phead, avail, kernel, frames, arg, nest,
                   process, budget>>

\* zend_sigaction(s, act): the flags are stored first ...
StoreFlags(s, entry) ==
    /\ handlers' = [handlers EXCEPT ![s].once = entry.once]
    /\ pc' = "sigaction" /\ arg' = {<<s, entry.fn>>}

\* ... depth = 0; php_request_startup goes on to zend_set_timeout.
ResetDepth ==
    /\ pc = "reset"
    /\ depth' = 0
    /\ \E limited \in Timeouts :
         IF limited THEN StoreFlags(Prof, Entry("timeout", FALSE))
                    ELSE pc' = "run" /\ UNCHANGED <<handlers, arg>>
    /\ UNCHANGED <<blocked, running, active, phead, avail, kernel, frames, nest, process, budget>>

\* A script installs a handler (pcntl_signal).
Sigaction(s, entry) ==
    /\ InProgram /\ active = 1
    /\ Spend("installs")
    /\ StoreFlags(s, entry)
    /\ UNCHANGED <<depth, blocked, running, active, phead, avail, kernel, frames, nest, process>>

\* ... then the function; sigaction and the unmasking of s follow.
StoreHandler ==
    /\ pc = "sigaction"
    /\ \E a \in arg :
         /\ handlers' = [handlers EXCEPT ![a[1]].fn = a[2]]
         /\ installed' = installed \cup {a[1]}
         /\ masked' = masked \ {a[1]}
    /\ pc' = "run" /\ arg' = {}
    /\ UNCHANGED <<depth, blocked, running, active, phead, avail, pending, frames, nest, process, budget>>

\* zend_signal_deactivate (php_request_shutdown_for_hook)
Deactivate ==
    /\ InProgram /\ nest = 0 /\ active = 1
    /\ active' = 0 /\ running' = 0 /\ blocked' = -1 /\ depth' = 0
    /\ UNCHANGED <<handlers, phead, avail, kernel, program, process, budget>>

-----------------------------------------------------------------------------
\* One step of the handler or of the code that ends a critical section; the
\* machine always goes on with these.
Handle ==
    \/ CallDefault \/ CallFunction \/ CallTimeout
    \/ NextInQueue \/ QueueDone \/ DirectDone
    \/ Test \/ HandlerUnblock \/ HandlerUnblockEmpty
    \/ TimeoutBailout

Request ==
    \/ Activate \/ Register \/ SetActive \/ ResetDepth \/ StoreHandler \/ Deactivate
    \/ \E s \in Sigs, entry \in UserFns : Sigaction(s, entry)

Next ==
    /\ process = "up"
    /\ \/ \E s \in Sigs : Raise(s) \/ Deliver(s) \/ DeliverOrig(s)
       \/ Handle \/ Block \/ Unblock \/ Bailout \/ Request

Spec == Init /\ [][Next]_vars

\* The code makes progress inside handlers, and leaves the critical sections
\* it enters.
FairSpec ==
    /\ Spec
    /\ WF_vars(process = "up" /\ (Handle \/ Unblock))
    /\ WF_vars(process = "up" /\ StoreHandler)

-----------------------------------------------------------------------------
(* Properties.                                                             *)

Budgets == [raised : Nat, blocks : Nat, requests : Nat, installs : Nat, bailouts : Nat,
            timed_out : BOOLEAN]

\* The types of the globals, handlers run on a frame of their own, and no
\* invocation goes back to code that has the timer's signal masked.
TypeOK ==
    /\ depth \in Int /\ blocked \in {-1, 0} /\ running \in {0, 1} /\ active \in {0, 1}
    /\ handlers \in [Sigs -> Entries]
    /\ phead \in Seq(Sigs) /\ avail \in 0..QueueSize
    /\ installed \subseteq Sigs /\ pending \subseteq Sigs /\ masked \subseteq Sigs
    /\ pc \in ProgramPcs \cup HandlerPcs
    /\ frames \in Seq(Frames) /\ (pc \in HandlerPcs => frames # <<>>)
    /\ nest \in Nat /\ arg \subseteq Sigs \X Fns
    /\ process \in {"up", "killed", "crashed"}
    /\ budget \in Budgets

\* While the engine is active no signal handler starts in the middle of a
\* critical section, whatever nesting, bailouts and earlier signals have made
\* of depth (HANDLE_BLOCK_INTERRUPTIONS protects what it is meant to protect).
CriticalSection == pc = "call" /\ ~Top.direct => nest = 0

\* The flag running is set only while an invocation of
\* zend_signal_handler_defer will go on to clear it: a handler that leaves by
\* longjmp does not make the engine drop all later signals.
RunningIsTransient == running = 1 => pc \in HandlerPcs /\ ~Top.direct

\* A program that zend_timeout has stopped can be timed out again: the timer's
\* signal is not left masked when the longjmp lands.
TimerStaysDeliverable == frames = <<>> => Prof \notin masked

\* Entries on the local list of the invocation that runs.
Held == IF pc \in HandlerPcs THEN Len(Top.rest) ELSE 0

Stored == avail + Len(phead) + Held

\* Entries of pstorage are on one of the lists or on the local list of the
\* handler in progress, each on one of them only; none is lost, until
\* zend_timeout jumps out of the loop in zend_signal_handler_defer.
StorageConserved ==
    /\ Stored <= QueueSize
    /\ budget.timed_out \/ Stored = QueueSize

\* blocked = 0 stands for a deferred signal: zend_signal_handler_unblock
\* relies on it when the section ends.  Storage that zend_timeout has made
\* leak may leave the signal without an entry.
BlockedMeansQueued == blocked = 0 /\ ~budget.timed_out => phead # <<>>

\* Until a handler leaves by longjmp the mask of the program is the one it had
\* before.
MaskRestored == frames = <<>> /\ ~budget.timed_out => masked = {}

\* A signal that arrives inside a critical section is handled once the code
\* leaves the section, unless a fatal error or zend_timeout cuts the request short.
DeferredHandled ==
    (phead # <<>> /\ nest > 0) ~>
        (phead = <<>> \/ process # "up" \/ budget.bailouts < MaxBailouts \/ budget.timed_out)

\* zend_signal_handler_unblock finds the deferred signal it was called for.
UnblockFindsSignal == process # "crashed"
=============================================================================
