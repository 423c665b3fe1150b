---------------------------- MODULE MCLiveness -----------------------------
(*****************************************************************************)
(* What must happen in the end in a conversation, for TLC: every part on a   *)
(* small instance of its own, with the fairness of its threads. A behaviour  *)
(* runs one part.                                                            *)
(*****************************************************************************)
EXTENDS Naturals, Sequences, FiniteSets, TLC

\* The part that runs, and the state of every part.
VARIABLES part, pc, frame, initial, pending_data, history, all_messages,
          active_provider_request, active_tool_batch, pending_continuation,
          next_turn_id, next_batch_id, provider_context, grace_timer,
          next_timer_id, disk, client, request_rx, sent, restarts,
          session_context, session_active, abort_queued, provider_threads,
          provider_event_rx, streamed, running_batch, worker_done,
          tool_completion_rx, timers, internal_event_rx, grace_elapsed,
          renewed, tasks, next_run_id, pending_runs, pending_order,
          active_runs, due, unsaved, forwarded, inbox, kernel_rx, session,
          manifest, prompted, crons_disk, next_cron_index, requested,
          crons_restarts, kernel, todo, joining, thread, kern_inbox,
          outputs, binding, config, seen, kern_manifest, disk_binding,
          disk_config, wanted, why, awaiting, calls, faults, opens,
          registry, hosts_kernel, queue, hosts_pc, op, held, rx, retried,
          answered, heard, bridge, shown, failed, gen, serial, turn, place,
          rid, answer, rpc, up, down, state, launch, pending, expected,
          bridge_calls, replies, next, message, record, tree_inbox, child,
          mail, join, returned, parent, tree_kernel, ops, worker, first,
          last, batch_thread, cancelled, poisoned, token, asked, results,
          progress, registered, batches

\* In the order of their text, which is the order of the kernel's BTreeMap.
AddrOrder ==
    <<"agent/main", "agent/scratch", "agent/subagent", "channel", "cron">>

StandardOrder == <<"channel", "agent/main", "cron">>

Session == INSTANCE SessionActor WITH
    Requests <- {"user", "cancel"}, MaxRequests <- 2, MaxSteps <- 1,
    MaxStreams <- 0, MaxRestarts <- 0, MaxAttempts <- 1, Compressor <-
    FALSE, TooLarge <- FALSE, LegacyDisk <- FALSE

Crons == INSTANCE Cron WITH
    Sessions <- {"main"}, Paired <- {"main"}, Requests <- {"register",
    "update"}, Ends <- {"completed", "failed", "crashed"}, CompactFails <-
    FALSE, MountFails <- TRUE, MaxTasks <- 1, MaxRequests <- 2, MaxRuns <-
    2, MaxRestarts <- 0, disk <- crons_disk, restarts <- crons_restarts

Kern == INSTANCE Kernel WITH
    AddrOrder <- AddrOrder, StandardOrder <- StandardOrder, Channel <-
    "channel", Cron <- "cron", Foreground <- {"agent/main",
    "agent/scratch"}, Children <- {"agent/subagent"}, StopRequests <- FALSE,
    OpeningFaults <- FALSE, MayTear <- FALSE, Requests <- {"query", "read",
    "shutdown", "create"}, MaxOutputs <- 3, MaxCalls <- 2, MaxConfigs <- 0,
    MaxFaults <- 1, MaxOpens <- 1, inbox <- kern_inbox, manifest <-
    kern_manifest

Hosts == INSTANCE Host WITH
    Callers <- {"a", "b"}, Serial <- FALSE, Ops <- {"send", "stop"},
    MaxKernels <- 3, MaxFailures <- 1, kernel <- hosts_kernel, pc <-
    hosts_pc

Serials == INSTANCE Host WITH
    Callers <- {"a", "b"}, Serial <- TRUE, Ops <- {"send", "subscribed",
    "stop"}, MaxKernels <- 3, MaxFailures <- 1, kernel <- hosts_kernel, pc
    <- hosts_pc

Bridge == INSTANCE AgentBridge WITH
    Queries <- {"q1"}, Ensures <- {"e1"}, Messages <- {"m1"}, MaxRunners <-
    2, calls <- bridge_calls

Tree == INSTANCE AgentTree WITH
    Subagents <- {"s1"}, Backgrounds <- {}, Joins <- {"j1", "j2"}, inbox <-
    tree_inbox, kernel <- tree_kernel

Batch == INSTANCE ToolBatch WITH
    MaxOps <- 3, MaxBatches <- 2, MaxPanics <- 1, thread <- batch_thread

\* What the components assume of their constants.
ASSUME SuiteAssumption ==
    /\ Kern!KernelAddrsAssumption
    /\ Kern!KernelFlagsAssumption
    /\ Kern!KernelBoundsAssumption
    /\ Hosts!HostAssumption
    /\ Serials!HostAssumption
    /\ Bridge!BridgeAssumption
    /\ Tree!TreeAssumption
    /\ Batch!BatchAssumption

sessionActorVars == <<pc, frame, initial, pending_data, history,
    all_messages, active_provider_request, active_tool_batch,
    pending_continuation, next_turn_id, next_batch_id, provider_context,
    grace_timer, next_timer_id, disk, client, request_rx, sent, restarts,
    session_context, session_active, abort_queued, provider_threads,
    provider_event_rx, streamed, running_batch, worker_done,
    tool_completion_rx, timers, internal_event_rx, grace_elapsed, renewed>>
cronVars == <<tasks, next_run_id, pending_runs, pending_order, active_runs,
    due, unsaved, forwarded, inbox, kernel_rx, session, manifest, prompted,
    crons_disk, next_cron_index, requested, crons_restarts>>
kernelVars == <<kernel, todo, joining, thread, kern_inbox, outputs, binding,
    config, seen, kern_manifest, disk_binding, disk_config, wanted, why,
    awaiting, calls, faults, opens>>
hostVars == <<registry, hosts_kernel, queue, hosts_pc, op, held, rx,
    retried, answered, heard, bridge, shown, failed>>
agentBridgeVars == <<gen, serial, turn, place, rid, answer, rpc, up, down,
    state, launch, pending, expected, bridge_calls, replies, next, message>>
agentTreeVars == <<record, tree_inbox, child, mail, join, returned, parent,
    tree_kernel>>
toolBatchVars == <<ops, worker, first, last, batch_thread, cancelled,
    poisoned, token, asked, results, progress, registered, batches>>

\* Only the chosen part takes steps.
Others(p) ==
    /\ UNCHANGED part
    /\ p # "session" => UNCHANGED sessionActorVars
    /\ p # "cron" => UNCHANGED cronVars
    /\ p # "kernel" => UNCHANGED kernelVars
    /\ p \notin {"host", "serial"} => UNCHANGED hostVars
    /\ p # "bridge" => UNCHANGED agentBridgeVars
    /\ p # "tree" => UNCHANGED agentTreeVars
    /\ p # "batch" => UNCHANGED toolBatchVars

SuiteInit ==
    /\ part \in {"session", "cron", "kernel", "host", "serial", "bridge", "tree", "batch"}
    /\ Session!Init
    /\ Crons!Init
    /\ Kern!Init
    /\ IF part = "serial" THEN Serials!Init ELSE Hosts!Init
    /\ part \notin {"host", "serial"} => registry = 0
    /\ Bridge!Init
    /\ Tree!Init
    /\ Batch!Init

SuiteNext ==
    \/ part = "session" /\ Session!Next /\ Others("session")
    \/ part = "cron" /\ Crons!Next /\ Others("cron")
    \/ part = "kernel" /\ Kern!Next /\ Others("kernel")
    \/ part = "host" /\ Hosts!Next /\ Others("host")
    \/ part = "serial" /\ Serials!Next /\ Others("serial")
    \/ part = "bridge" /\ Bridge!Next /\ Others("bridge")
    \/ part = "tree" /\ Tree!Next /\ Others("tree")
    \/ part = "batch" /\ Batch!Next /\ Others("batch")

suiteVars == <<part, sessionActorVars, cronVars, kernelVars, hostVars, agentBridgeVars, agentTreeVars, toolBatchVars>>

Fairness ==
    /\ WF_sessionActorVars(part = "session" /\ Session!Actor)
    /\ WF_sessionActorVars(part = "session" /\ Session!ProviderAborts)
    /\ WF_sessionActorVars(part = "session" /\ Session!GraceWindowElapses)
    /\ WF_sessionActorVars(part = "session" /\ (\E t \in timers : Session!TimerFires(t)))
    /\ WF_sessionActorVars(part = "session" /\ (\E r \in Session!Results : Session!ProviderCompletes(r)))
    /\ WF_sessionActorVars(part = "session" /\ Session!WorkerCompletes)
    /\ SF_cronVars(part = "cron" /\ Crons!HandleMessage)
    /\ WF_cronVars(part = "cron" /\ Crons!FinishTrigger)
    /\ WF_cronVars(part = "cron" /\ Crons!KernelStep)
    /\ \A n \in 1..5 : WF_cronVars(part = "cron" /\ Crons!SessionStep(<<1, n>>))
    /\ WF_kernelVars(part = "kernel" /\ Kern!KernelStep)
    /\ \A a \in {"agent/main", "agent/scratch", "agent/subagent", "channel", "cron"} : WF_kernelVars(part = "kernel" /\ Kern!Handle(a))
    /\ \A c \in {"a", "b"} : WF_hostVars(part = "host" /\ Hosts!CallerStep(c))
    /\ \A k \in 1..3 : WF_hostVars(part = "host" /\ Hosts!KernelStep(k))
    /\ WF_hostVars(part = "host" /\ Hosts!BridgeSubscribes)
    /\ \A c \in {"a", "b"} : WF_hostVars(part = "serial" /\ Serials!CallerStep(c))
    /\ \A k \in 1..3 : WF_hostVars(part = "serial" /\ Serials!KernelStep(k))
    /\ WF_hostVars(part = "serial" /\ Serials!BridgeSubscribes)
    /\ WF_agentBridgeVars(part = "bridge" /\ Bridge!ReadResolution)
    /\ WF_agentBridgeVars(part = "bridge" /\ Bridge!ReadMessage)
    /\ WF_agentBridgeVars(part = "bridge" /\ Bridge!EndTurn)
    /\ WF_agentBridgeVars(part = "bridge" /\ Bridge!HandleEvent)
    /\ WF_agentBridgeVars(part = "bridge" /\ Bridge!HandleResponse)
    /\ WF_agentBridgeVars(part = "bridge" /\ Bridge!ServiceAnswers)
    /\ WF_agentTreeVars(part = "tree" /\ tree_kernel = "up" /\ Tree!HandleCall)
    /\ \A c \in {"s1"} : WF_agentTreeVars(part = "tree" /\ tree_kernel = "up" /\ Tree!ReadMail(c))
    /\ \A c \in {"s1"} : WF_agentTreeVars(part = "tree" /\ tree_kernel = "up" /\ Tree!TurnEnds(c))
    /\ \A j \in {"j1", "j2"} : WF_agentTreeVars(part = "tree" /\ tree_kernel = "up" /\ Tree!JoinTimer(j))
    /\ WF_toolBatchVars(part = "batch" /\ Batch!Worker)
    /\ \A i \in 1..3 : WF_toolBatchVars(part = "batch" /\ i \in Batch!Ops /\ Batch!Acquire(i))
    /\ \A i \in 1..3 : WF_toolBatchVars(part = "batch" /\ i \in Batch!Ops /\ i \in cancelled /\ Batch!Return(i))

SuiteSpec == SuiteInit /\ [][SuiteNext]_suiteVars /\ Fairness

-----------------------------------------------------------------------------
\* A user message that reaches the actor gets into the transcript, or back to
\* the host as a failed turn it may continue, unless the actor ends first.
MessagesAreAppended == Session!MessagesAreAppended

\* Every run that cron starts comes to an end in its books, so that the task
\* can run again.
RunsEnd == Crons!RunsEnd

\* The result of a background session that completes its turn reaches the
\* foreground session.
ResultsAreForwarded == Crons!ResultsAreForwarded

\* An agent session that asks cron or the kernel is answered, unless it or
\* the kernel ends first.
SessionAnswered == Kern!SessionAnswered

\* Every call returns: joining a kernel that was removed never waits for
\* ever.
HostCallsReturn == Hosts!CallsReturn

\* Every bridge call returns.
BridgeCallsReturn == Bridge!CallsReturn

\* Every join returns, whatever becomes of the child.
JoinsReturn == Tree!JoinsReturn

\* A child that ended, or was killed, does not stay mounted.
EndedChildGoes == Tree!EndedChildGoes

\* An interrupted batch ends, so the actor is not stuck with it.
InterruptedBatchEnds == Batch!InterruptedBatchEnds

\* A message accepted by send is handled, unless the kernel that has it fails
\* or the conversation is stopped, when the callers take turns: the host
\* throws none away by itself.
AcceptedIsHandled ==
    \A c \in {"a", "b"} : (part = "serial" /\ hosts_pc[c] = "ok") ~> Serials!Settled(c)

\* Every call in a conversation comes back and everything that was ended
\* goes: the requests of sessions, hosts, bridges and joins, the runs of cron
\* and their results, accepted messages, ended children and interrupted
\* batches.
ConversationMoves ==
    /\ RunsEnd
    /\ ResultsAreForwarded
    /\ SessionAnswered
    /\ HostCallsReturn
    /\ BridgeCallsReturn
    /\ JoinsReturn
    /\ EndedChildGoes
    /\ InterruptedBatchEnds
    /\ AcceptedIsHandled

=============================================================================
