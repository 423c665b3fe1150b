-------------------------- MODULE MCConversation ---------------------------
(*****************************************************************************)
(* The parts of one conversation for TLC, each on a small instance of its    *)
(* own: the kernel with its services, the host that keeps kernels, the       *)
(* bridge and the children of an agent session, and cron. A behaviour runs   *)
(* one part.                                                                 *)
(*****************************************************************************)
EXTENDS Host, Naturals, Sequences, FiniteSets, TLC

\* The part that runs, and the state of every part.
VARIABLES part, routes_kernel, todo, joining, thread, inbox, outputs,
          binding, config, seen, manifest, disk_binding, disk_config,
          wanted, why, awaiting, calls, faults, opens, gen, serial, turn,
          place, rid, answer, rpc, up, down, state, launch, pending,
          expected, bridge_calls, replies, next, message, record,
          tree_inbox, child, mail, join, returned, parent, tree_kernel,
          tasks, next_run_id, pending_runs, pending_order, active_runs, due,
          unsaved, forwarded, crons_inbox, kernel_rx, session,
          crons_manifest, prompted, disk, next_cron_index, requested,
          restarts

\* In the order of their text, which is the order of the kernel's BTreeMap.
AddrOrder ==
    <<"agent/main", "agent/scratch", "agent/subagent", "channel", "cron">>

StandardOrder == <<"channel", "agent/main", "cron">>

Routes == INSTANCE Kernel WITH
    AddrOrder <- AddrOrder, StandardOrder <- StandardOrder, Channel <-
    "channel", Cron <- "cron", Foreground <- {"agent/main",
    "agent/scratch"}, Children <- {"agent/subagent"}, StopRequests <- TRUE,
    OpeningFaults <- TRUE, MayTear <- FALSE, Requests <- {"message",
    "query", "shutdown", "event", "create", "update", "stop", "read"},
    MaxOutputs <- 3, MaxCalls <- 3, MaxConfigs <- 1, MaxFaults <- 1,
    MaxOpens <- 2, kernel <- routes_kernel

Restart == INSTANCE Kernel WITH
    AddrOrder <- AddrOrder, StandardOrder <- StandardOrder, Channel <-
    "channel", Cron <- "cron", Foreground <- {"agent/main",
    "agent/scratch"}, Children <- {"agent/subagent"}, StopRequests <- FALSE,
    OpeningFaults <- FALSE, MayTear <- FALSE, Requests <- {"query",
    "shutdown", "event", "create"}, MaxOutputs <- 3, MaxCalls <- 3,
    MaxConfigs <- 0, MaxFaults <- 1, MaxOpens <- 2, kernel <- routes_kernel

Forget == INSTANCE Kernel WITH
    AddrOrder <- AddrOrder, StandardOrder <- StandardOrder, Channel <-
    "channel", Cron <- "cron", Foreground <- {"agent/main",
    "agent/scratch"}, Children <- {"agent/subagent"}, StopRequests <- FALSE,
    OpeningFaults <- TRUE, MayTear <- FALSE, Requests <- {"create"},
    MaxOutputs <- 2, MaxCalls <- 1, MaxConfigs <- 0, MaxFaults <- 1,
    MaxOpens <- 3, kernel <- routes_kernel

Serials == INSTANCE Host WITH
    Callers <- {"a", "b"}, Serial <- TRUE, Ops <- {"send", "subscribed",
    "stop"}, MaxKernels <- 3, MaxFailures <- 2

Bridge == INSTANCE AgentBridge WITH
    Queries <- {"q1"}, Ensures <- {"e1", "e2"}, Messages <- {"m1"},
    MaxRunners <- 1, calls <- bridge_calls

Tree == INSTANCE AgentTree WITH
    Subagents <- {"s1"}, Backgrounds <- {"b1"}, Joins <- {"j1"}, inbox <-
    tree_inbox, kernel <- tree_kernel

Crons == INSTANCE Cron WITH
    Sessions <- {"main", "child"}, Paired <- {"main"}, Requests <-
    {"register", "remove", "trigger"}, Ends <- {"completed", "crashed"},
    CompactFails <- FALSE, MountFails <- TRUE, MaxTasks <- 2, MaxRequests <-
    2, MaxRuns <- 2, MaxRestarts <- 0, inbox <- crons_inbox, manifest <-
    crons_manifest

\* What the components assume of their constants.
ASSUME SuiteAssumption ==
    /\ HostAssumption
    /\ Routes!KernelAddrsAssumption
    /\ Routes!KernelFlagsAssumption
    /\ Routes!KernelBoundsAssumption
    /\ Restart!KernelAddrsAssumption
    /\ Restart!KernelFlagsAssumption
    /\ Restart!KernelBoundsAssumption
    /\ Forget!KernelAddrsAssumption
    /\ Forget!KernelFlagsAssumption
    /\ Forget!KernelBoundsAssumption
    /\ Serials!HostAssumption
    /\ Bridge!BridgeAssumption
    /\ Tree!TreeAssumption

kernelVars == <<routes_kernel, todo, joining, thread, inbox, outputs,
    binding, config, seen, manifest, disk_binding, disk_config, wanted, why,
    awaiting, calls, faults, opens>>
agentBridgeVars == <<gen, serial, turn, place, rid, answer, rpc, up, down,
    state, launch, pending, expected, bridge_calls, replies, next, message>>
agentTreeVars == <<record, tree_inbox, child, mail, join, returned, parent,
    tree_kernel>>
cronVars == <<tasks, next_run_id, pending_runs, pending_order, active_runs,
    due, unsaved, forwarded, crons_inbox, kernel_rx, session,
    crons_manifest, prompted, disk, next_cron_index, requested, restarts>>

\* Only the chosen part takes steps.
Others(p) ==
    /\ UNCHANGED part
    /\ p \notin {"routes", "restart", "forget"} => UNCHANGED kernelVars
    /\ p \notin {"host", "serial"} => UNCHANGED vars
    /\ p # "bridge" => UNCHANGED agentBridgeVars
    /\ p # "tree" => UNCHANGED agentTreeVars
    /\ p # "cron" => UNCHANGED cronVars

SuiteInit ==
    /\ part \in {"host", "routes", "restart", "forget", "serial", "bridge", "tree", "cron"}
    /\ IF part = "restart" THEN Restart!Init ELSE IF part = "forget" THEN Forget!Init ELSE Routes!Init
    /\ IF part = "serial" THEN Serials!Init ELSE Init
    /\ part \notin {"host", "serial"} => registry = 0
    /\ Bridge!Init
    /\ Tree!Init
    /\ Crons!Init

SuiteNext ==
    \/ part = "host" /\ Next /\ Others("host")
    \/ part = "routes" /\ Routes!Next /\ Others("routes")
    \/ part = "restart" /\ Restart!Next /\ Others("restart")
    \/ part = "forget" /\ Forget!Next /\ Others("forget")
    \/ part = "serial" /\ Serials!Next /\ Others("serial")
    \/ part = "bridge" /\ Bridge!Next /\ Others("bridge")
    \/ part = "tree" /\ Tree!Next /\ Others("tree")
    \/ part = "cron" /\ Crons!Next /\ Others("cron")

suiteVars == <<part, kernelVars, vars, agentBridgeVars, agentTreeVars, cronVars>>

SuiteSpec == SuiteInit /\ [][SuiteNext]_suiteVars

-----------------------------------------------------------------------------
\* A running kernel's manifest names exactly the services it routes to, so
\* that a crash between two of its steps loses and invents none.
ManifestIsCurrent == part = "routes" => Routes!ManifestIsCurrent

\* Once a service has handled what is in its inbox it runs with the config
\* that the kernel has and has saved.
ConfigReachesAll == part = "routes" => Routes!ConfigReachesAll

\* Whatever was mounted and not stopped is mounted again by every kernel that
\* finishes opening: after a shutdown, a failure or a crash.
ServicesSurvive == part = "restart" => Restart!ServicesSurvive

\* Only a thread that has returned is waited for: the kernel never stops
\* serving because of a service that nobody told to stop.
KernelNeverWaits == part = "restart" => Restart!KernelNeverWaits

\* The answer a tool call returns was computed for that call, however late
\* answers arrive and whichever calls were given up before.
AnswerIsOwn == Bridge!AnswerIsOwn

\* A call that waits is backed by something on its way to it: its request,
\* the service's call or reply, or the resolution; no answer is lost on the
\* way.
WaitingIsBacked == Bridge!WaitingIsBacked

\* A background result comes back to the parent exactly once, and only that
\* of an agent whose record says it completed.
ResultReturnsOnce == Tree!ResultReturnsOnce

\* What a join told its tool is still what the parent has on record, unless
\* it was told that the child was running or was itself interrupted.
JoinTellsTruth == Tree!JoinTellsTruth

\* The parent never calls a child that is gone, which would end the kernel:
\* only a child that shuts itself down can.
NoCallToGoneChild == Tree!NoCallToGoneChild

\* A child's first terminal event decides its record: a kill, a late result,
\* a crash after the result or a termination does not change it again.
EndIsFinal == Tree!EndIsFinal

\* docs/conversation_new.md: no second run of a task while one is under way.
\* The sessions that do the work, and not only cron's books, keep to it.
OneSessionPerTask == Crons!OneSessionPerTask

\* docs/conversation_new.md: a session can only change the tasks it
\* registered. Each session numbers its tasks from cron_0001, and a
\* registration replaces a task of that id: still no session takes over the
\* task of another.
TaskKeepsOwner == Crons!TaskKeepsOwner

\* docs/RECHECK.md:396: on restart the kernel mounts all services of the
\* manifest again. Stated of restarts that may themselves be cut short,
\* between two of the mounts.
ServicesSurviveFaults == part = "forget" => Forget!ServicesSurvive

\* A conversation has one owner: callers of the host that take turns never have
\* two kernels of it run at once over the same files and agent servers.
TurnsKeepOneKernel == part = "serial" => Serials!OneKernel

\* The services a conversation has are those its kernel routes to, its
\* manifest names and its config reaches; a restart brings them back, and
\* none of them can make the kernel wait. Callers that take turns never have
\* a second kernel.
KernelKeepsServices ==
    /\ part = "routes" => Routes!TypeOK
    /\ part = "restart" => Restart!TypeOK
    /\ part = "forget" => Forget!TypeOK
    /\ ManifestIsCurrent
    /\ ConfigReachesAll
    /\ ServicesSurvive
    /\ KernelNeverWaits
    /\ TurnsKeepOneKernel

\* An agent session and those it calls agree on every call: each bridge
\* answer goes to its call, and a child ends once, for its record, its joins
\* and the result that is put back.
AgentCallsAgree ==
    /\ [](/\ Bridge!TypeOK
          /\ Tree!TypeOK
          /\ AnswerIsOwn
          /\ WaitingIsBacked
          /\ ResultReturnsOnce
          /\ JoinTellsTruth
          /\ NoCallToGoneChild)
    /\ EndIsFinal

\* The tasks of cron stay apart: no task has two sessions at work, and no
\* session takes over the task of another.
TasksStayApart ==
    /\ []OneSessionPerTask
    /\ TaskKeepsOwner

=============================================================================
