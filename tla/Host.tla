-------------------------------- MODULE Host --------------------------------
(***************************************************************************)
(* The host's registry of conversation kernels, for one conversation, and  *)
(* the threads that call it: the ingress loop, the request threads of the  *)
(* web channel, and the bridge that forwards a conversation's events.      *)
(*                                                                         *)
(* The registry is a map behind a mutex, held for one look-up, one insert  *)
(* or one remove.  Opening a kernel, shutting it down and joining its      *)
(* thread happen outside the lock.  Each kernel ever opened is a number.   *)
(***************************************************************************)
EXTENDS Naturals, FiniteSets

CONSTANTS
    Callers,     \* threads that call the host, one call each
    Serial,      \* does one call end before the next begins?
    Ops,         \* what they call: a subset of {"send", "subscribed", "stop"}
    MaxKernels,  \* bound: kernels opened
    MaxFailures  \* bound: kernels that fail by themselves

HostAssumption ==
    /\ Ops \subseteq {"send", "subscribed", "stop"}
    /\ Serial \in BOOLEAN
    /\ MaxKernels \in Nat \ {0}
    /\ MaxFailures \in Nat

None == 0
Kernels == 1..MaxKernels

VARIABLES
    registry,  \* the registered kernel, or None
    kernel,    \* "unused", "running", "closing" (told to stop) or "ended"
    queue,     \* ingress channel of a kernel: the callers whose message is in it
    pc, op,    \* where a caller is, and what it called
    held,      \* the kernel a caller opened, removed or sends to
    rx,        \* the kernel whose events a subscribed caller gets
    retried,   \* has the caller restarted the conversation?
    answered,  \* kernels that handled the caller's message
    heard,     \* callers whose answer reached their subscription
    bridge,    \* the kernel whose events the bridge gets
    shown,     \* callers whose answer the bridge forwarded
    failed     \* kernels that failed by themselves

vars == <<registry, kernel, queue, pc, op, held, rx, retried, answered, heard, bridge, shown, failed>>

Places ==
    {"ready", "check", "open", "insert", "look", "send", "remove", "join", "ok", "error"}

Alive(k) == kernel[k] \in {"running", "closing"}

Goto(c, place) == pc' = [pc EXCEPT ![c] = place]

-----------------------------------------------------------------------------
(* The calls, one step per region of the lock.                             *)

\* handle_incoming_message and the request handlers first ensure that the
\* conversation runs; stop_conversation begins with the removal.
Begin(c) ==
    /\ pc[c] = "ready"
    /\ Serial => \A d \in Callers : pc[d] \in {"ready", "ok", "error"}
    /\ \E o \in Ops :
         /\ op' = [op EXCEPT ![c] = o]
         /\ Goto(c, IF o = "stop" THEN "remove" ELSE "check")
    /\ UNCHANGED <<registry, kernel, queue, held, rx, retried, answered, heard, bridge, shown, failed>>

\* ensure_conversation_started: contains_key, then the lock is released.
Check(c) ==
    /\ pc[c] = "check"
    /\ Goto(c, IF registry # None THEN "look" ELSE "open")
    /\ UNCHANGED <<registry, kernel, queue, op, held, rx, retried, answered, heard, bridge, shown, failed>>

\* open_or_bootstrap and spawn, without the lock.  Opening may fail, on a file
\* that cannot be read or written; MaxKernels bounds the kernels that open.
OpenKernel(c) ==
    /\ pc[c] = "open"
    /\ \/ \E k \in Kernels :
            /\ kernel[k] = "unused"
            /\ \A j \in 1..(k - 1) : kernel[j] # "unused"
            /\ kernel' = [kernel EXCEPT ![k] = "running"]
            /\ held' = [held EXCEPT ![c] = k]
            /\ Goto(c, "insert")
       \/ Goto(c, "error") /\ UNCHANGED <<kernel, held>>
    /\ UNCHANGED <<registry, queue, op, rx, retried, answered, heard, bridge, shown, failed>>

\* What dropping a registered handle does: the kernel's input closes.
DropKeeps(state) == state

DropForgets(state) == "none"

Dropped(state) == IF state = "running" THEN "closing" ELSE state

\* The insert, under the lock: the handle it replaces is dropped.
Insert(c) ==
    /\ pc[c] = "insert"
    /\ kernel' = [k \in Kernels |-> IF k = registry THEN Dropped(kernel[k]) ELSE kernel[k]]
    /\ registry' = held[c]
    /\ held' = [held EXCEPT ![c] = None]
    /\ Goto(c, "look")
    /\ UNCHANGED <<queue, op, rx, retried, answered, heard, bridge, shown, failed>>

\* main_channel_ingress, or main_channel_sender_and_subscription, which
\* subscribes under the same lock.
SubscribesOnce(c) == op[c] = "subscribed" /\ ~retried[c]

Subscribes(c) == op[c] = "subscribed"

Look(c) ==
    /\ pc[c] = "look"
    /\ IF registry = None THEN Goto(c, "error") /\ UNCHANGED <<held, rx>>
       ELSE /\ held' = [held EXCEPT ![c] = registry]
            /\ rx' = [rx EXCEPT ![c] = IF Subscribes(c) THEN registry ELSE @]
            /\ Goto(c, "send")
    /\ UNCHANGED <<registry, kernel, queue, op, retried, answered, heard, bridge, shown, failed>>

\* The channel is open until run has returned: the kernel's references hold a
\* receiver, so a kernel that is stopping still takes what it never handles.
EnqueuedAnyway(c) == [queue EXCEPT ![held[c]] = @ \cup {c}]

Enqueued(c) == IF Alive(held[c]) THEN [queue EXCEPT ![held[c]] = @ \cup {c}] ELSE queue

\* A closed channel is answered by one restart.
IgnoreClosed(c) == "ok"

AfterClosed(c) == IF retried[c] THEN "error" ELSE "remove"

\* send_main_channel_ingress and send_main_channel_ingress_subscribed.
SendMessage(c) ==
    /\ pc[c] = "send"
    /\ queue' = Enqueued(c)
    /\ Goto(c, IF Alive(held[c]) THEN "ok" ELSE AfterClosed(c))
    /\ retried' = [retried EXCEPT ![c] = TRUE]
    /\ UNCHANGED <<registry, kernel, op, held, rx, answered, heard, bridge, shown, failed>>

\* restart_conversation and stop_conversation: the entry is removed under the
\* lock, whoever's kernel it is by now.
Remove(c) ==
    /\ pc[c] = "remove"
    /\ registry' = None
    /\ held' = [held EXCEPT ![c] = registry]
    /\ Goto(c, "join")
    /\ UNCHANGED <<kernel, queue, op, rx, retried, answered, heard, bridge, shown, failed>>

\* handle.shutdown: the removed kernel is told to stop; its thread is joined.
TellStop(c) ==
    /\ pc[c] = "join"
    /\ held[c] # None
    /\ kernel[held[c]] = "running"
    /\ kernel' = [kernel EXCEPT ![held[c]] = "closing"]
    /\ UNCHANGED <<registry, queue, pc, op, held, rx, retried, answered, heard, bridge, shown, failed>>

ToldIsEnough(c) == held[c] # None => kernel[held[c]] # "running"

JoinReturns(c) == held[c] # None => kernel[held[c]] = "ended"

\* The join returns: stop is done, with the error of a kernel that failed; a
\* restart only logs that error and goes on to ensure.
Join(c) ==
    /\ pc[c] = "join"
    /\ JoinReturns(c)
    /\ held' = [held EXCEPT ![c] = None]
    /\ Goto(c, IF op[c] # "stop" THEN "check" ELSE IF held[c] \in failed THEN "error" ELSE "ok")
    /\ UNCHANGED <<registry, kernel, queue, op, rx, retried, answered, heard, bridge, shown, failed>>

CallerStep(c) ==
    \/ Begin(c) \/ Check(c) \/ OpenKernel(c) \/ Insert(c) \/ Look(c)
    \/ SendMessage(c) \/ Remove(c) \/ TellStop(c) \/ Join(c)

-----------------------------------------------------------------------------
(* The kernels and the bridge.                                             *)

\* A kernel handles a message and emits its answer; the fanout sends it to
\* whoever subscribed to this kernel.
HandleMessage(k) ==
    /\ kernel[k] = "running"
    /\ \E c \in queue[k] :
         /\ queue' = [queue EXCEPT ![k] = @ \ {c}]
         /\ answered' = [answered EXCEPT ![c] = @ \cup {k}]
         /\ heard' = IF rx[c] = k THEN heard \cup {c} ELSE heard
         /\ shown' = IF bridge = k THEN shown \cup {c} ELSE shown
    /\ UNCHANGED <<registry, kernel, pc, op, held, rx, retried, bridge, failed>>

KernelDrains(k) ==
    /\ kernel[k] = "closing"
    /\ queue[k] = {}
    /\ kernel' = [kernel EXCEPT ![k] = "ended"]
    /\ UNCHANGED <<registry, queue, pc, op, held, rx, retried, answered, heard, bridge, shown, failed>>

\* run returns after stop_all: it was told to stop, its input closed or it failed.
KernelStops(k) ==
    /\ kernel[k] = "closing"
    /\ kernel' = [kernel EXCEPT ![k] = "ended"]
    /\ UNCHANGED <<registry, queue, pc, op, held, rx, retried, answered, heard, bridge, shown, failed>>

\* handle_output fails: run stops every service and returns the error.  The
\* registry keeps the kernel, and its channel stays open until then.
KernelFails(k) ==
    /\ kernel[k] = "running"
    /\ Cardinality(failed) < MaxFailures
    /\ failed' = failed \cup {k}
    /\ kernel' = [kernel EXCEPT ![k] = "closing"]
    /\ UNCHANGED <<registry, queue, pc, op, held, rx, retried, answered, heard, bridge, shown>>

\* run_conversation_event_bridge: a conversation it has a receiver for is
\* never subscribed again.
BridgeSubscribes ==
    /\ bridge = None
    /\ registry # None
    /\ bridge' = registry
    /\ UNCHANGED <<registry, kernel, queue, pc, op, held, rx, retried, answered, heard, shown, failed>>

KernelStep(k) == HandleMessage(k) \/ KernelStops(k)

\* start_existing opens and registers the conversations it finds.
Init ==
    /\ registry \in {None, 1}
    /\ kernel = [k \in Kernels |-> IF k = registry THEN "running" ELSE "unused"]
    /\ queue = [k \in Kernels |-> {}]
    /\ pc = [c \in Callers |-> "ready"]
    /\ op = [c \in Callers |-> "none"]
    /\ held = [c \in Callers |-> None]
    /\ rx = [c \in Callers |-> None]
    /\ retried = [c \in Callers |-> FALSE]
    /\ answered = [c \in Callers |-> {}]
    /\ heard = {}
    /\ bridge = None
    /\ shown = {}
    /\ failed = {}

Next ==
    \/ \E c \in Callers : CallerStep(c)
    \/ \E k \in Kernels : KernelStep(k) \/ KernelFails(k)
    \/ BridgeSubscribes

Spec == Init /\ [][Next]_vars

\* Every thread runs; nobody has to call or to fail.
Fairness ==
    /\ \A c \in Callers : WF_vars(CallerStep(c))
    /\ \A k \in Kernels : WF_vars(KernelStep(k))
    /\ WF_vars(BridgeSubscribes)

FairSpec == Spec /\ Fairness

-----------------------------------------------------------------------------
(* Properties.                                                             *)

TypeOK ==
    /\ registry \in {None} \cup Kernels
    /\ kernel \in [Kernels -> {"unused", "running", "closing", "ended"}]
    /\ queue \in [Kernels -> SUBSET Callers]
    /\ pc \in [Callers -> Places]
    /\ op \in [Callers -> Ops \cup {"none"}]
    /\ held \in [Callers -> {None} \cup Kernels]
    /\ rx \in [Callers -> {None} \cup Kernels]
    /\ retried \in [Callers -> BOOLEAN]
    /\ answered \in [Callers -> SUBSET Kernels]
    /\ heard \in SUBSET Callers
    /\ bridge \in {None} \cup Kernels
    /\ shown \in SUBSET Callers
    /\ failed \in SUBSET Kernels

\* A conversation has one owner: no two kernels of it run at once over the
\* same files and agent servers.
OneKernel == Cardinality({k \in Kernels : Alive(k)}) <= 1

\* A running kernel that is not registered belongs to a caller that will
\* register it or shut it down; none is left running with nobody to stop it.
NoOrphanKernel ==
    \A k \in Kernels : kernel[k] = "running" =>
        \/ k = registry
        \/ \E c \in Callers : held[c] = k /\ pc[c] \in {"insert", "join"}

\* A request that was accepted listens to the kernel that has its message,
\* also after a restart by itself or by another request.
AnswerHasListener ==
    \A c \in Callers, k \in Kernels :
        op[c] = "subscribed" /\ (c \in queue[k] \/ k \in answered[c]) =>
            rx[c] = k /\ (k \in answered[c] => c \in heard)

\* A message is handled at most once, although its send is retried.
HandledOnce == \A c \in Callers : Cardinality(answered[c]) + Cardinality({k \in Kernels : c \in queue[k]}) <= 1

\* A conversation has one kernel with someone who will stop it, and a request
\* listens to the kernel that has its message, which no retry delivers twice,
\* however starts, restarts and stops of several threads meet.  Only callers
\* that take turns can rely on a single kernel.
OneOwner ==
    /\ TypeOK
    /\ NoOrphanKernel
    /\ Serial => OneKernel
    /\ AnswerHasListener
    /\ HandledOnce

\* Every call returns: joining a kernel that was removed never waits for ever.
CallsReturn == \A c \in Callers : pc[c] # "ready" ~> pc[c] \in {"ok", "error"}

\* The message of a call was handled, or the kernel that has it failed, or the
\* conversation was stopped.
Settled(c) ==
    \/ answered[c] # {}
    \/ \E k \in failed : c \in queue[k]
    \/ \E d \in Callers : op[d] = "stop"

\* A message accepted by send is handled, unless the kernel that has it fails
\* or the conversation is stopped: the host throws none away by itself.
AcceptedIsHandled == \A c \in Callers : pc[c] = "ok" ~> Settled(c)

\* The answers of a conversation that the bridge subscribed to before the call
\* reach the platform.
AnswersAreShown ==
    [][\A c \in Callers : answered'[c] # answered[c] /\ bridge # None => c \in shown']_vars

=============================================================================
