------------------------- MODULE MCServiceLiveness -------------------------
(*****************************************************************************)
(* What must happen in the end in the channels, tools and services, for TLC: *)
(* every part on a small instance of its own, with the fairness of its       *)
(* threads. A behaviour runs one part.                                       *)
(*****************************************************************************)
EXTENDS Naturals, Sequences, FiniteSets, TLC

\* The part that runs, and the state of every part.
VARIABLES part, log, kq, wsq, tmq, inbox, pw, pt, pc, pm, answers, errors,
          shown, agent, up, told, dead, attached, outputs, events, failed,
          sent, confirmed, offset, hand, ingress_pc, admins, chats,
          diskAdmins, diskChats, bosses, ingress_told, ids, next, diskIds,
          diskNext, queue, conv, handled, received, crashes, errs, secErrs,
          turn, live, panels_queue, event, call, panels, screen, owner,
          ended, refused, silent, faults, child, tty, wrote, unread, input,
          reader, chunk, start, term_next, running, subs, chan, nextSub,
          fwd, managed, svc, req, term_inbox, term_sent, web, os,
          timed_wrote, pipe, stderr, dataQ, buffer, since, stateQ, status,
          timed_event, cmdQ, waiter, watcher, stdin, timed_managed,
          timed_call, calls, known, stopped, timed_shown, final, reg,
          media_status, cancel, abort, media_pc, prov, files, out, result,
          media_call, media_told, lost, media_calls, cli, binary_queue, job,
          inc, loc, remote, scp, ok, reqs, binary_crashes, cuts, client,
          reply, workers_inbox, waiting, cmds, evts, server, workers, proc,
          workers_shown, ran, nextReq, nextWorker, exits, aborts, history,
          cod_turn, synced, current, context, socket, request, responses,
          hidden, answered, nextItem, cod_faults, stored, manifest,
          mem_status, mem_job, work, mem_known, births, fruitless, early,
          requests, mem_crashes, ticks, disk, upg_proc, upg_current, todo,
          upg_crashes, mode, sendMode, work_inbox, cur, work_todo,
          work_disk, attach, refs, work_answers, touched, clobbered, writes,
          now, work_agent, asked, alive

Chan == INSTANCE Channel WITH
    ChannelId <- "main", Sessions <- {"main", "side"}, Subagents <- {"sub"},
    Paths <- {"p"}, MaxIngress <- 2, MaxOutputs <- 1, MaxEvents <- 0, Stops
    <- TRUE

Ingress == INSTANCE Telegram WITH
    Users <- {"ann"}, Groups <- {}, MaxUpdates <- 2, MaxCrashes <- 1,
    MaxSaveErrors <- 0, Configured <- {}, MaxSecurityErrors <- 1, pc <-
    ingress_pc, told <- ingress_told

Panels == INSTANCE TelegramOut WITH
    Sessions <- {"a"}, MaxTurns <- 2, MaxSilent <- 1, MaxQueue <- 1,
    MaxFaults <- 1, queue <- panels_queue

Term == INSTANCE Terminal WITH
    Clients <- {"a"}, MaxOut <- 1, BufferMax <- 1, ChanCap <- 1, InputCap <-
    1, MaxRequests <- 2, Lingers <- FALSE, Ops <- {"attach", "detach",
    "terminate", "input", "config"}, next <- term_next, inbox <- term_inbox,
    sent <- term_sent

Timed == INSTANCE ShellProcess WITH
    Callers <- {"a"}, MaxCalls <- 2, MaxOut <- 1, BufferMax <- 2, StdinSlots
    <- 1, Tty <- FALSE, TimeoutSet <- TRUE, Deaf <- TRUE, Stops <- FALSE,
    Deadlines <- TRUE, BadArgs <- FALSE, Prompt <- TRUE, Slow <- TRUE, wrote
    <- timed_wrote, event <- timed_event, managed <- timed_managed, call <-
    timed_call, shown <- timed_shown

Media == INSTANCE MediaJobs WITH
    Jobs <- {"j1"}, Generation <- {}, Callers <- {1, 2}, MaxFiles <- 0,
    MaxCalls <- 2, MayHang <- TRUE, status <- media_status, pc <- media_pc,
    call <- media_call, told <- media_told, calls <- media_calls

Binary == INSTANCE ToolBinary WITH
    Clients <- {"c1", "c2"}, Hosts <- {"h1"}, Helpers <- {"p1", "p2"},
    MaxReqs <- 2, MaxCrashes <- 1, MaxCuts <- 0, MayHang <- TRUE, queue <-
    binary_queue, crashes <- binary_crashes

Workers == INSTANCE Forkserver WITH
    Sessions <- {"s1"}, Tools <- {"t1"}, MaxRequests <- 2, MaxWorkers <- 2,
    MaxExits <- 0, MaxAborts <- 0, inbox <- workers_inbox, shown <-
    workers_shown

Cod == INSTANCE Codex WITH
    Client <- "any", MaxTurns <- 2, MaxItems <- 3, MaxRetries <- 1,
    MaxFaults <- 2, turn <- cod_turn, faults <- cod_faults

Mem == INSTANCE Memory WITH
    Scope <- "user", Agents <- {"a1"}, Subjects <- {0}, Texts <- {1, 2},
    DedupeModel <- FALSE, CompactModel <- TRUE, Soft <- 1, Hard <- 2,
    MaxActive <- 4, MaxRequests <- 2, MaxCrashes <- 0, MaxTicks <- 1,
    CandidateLimit <- 4, status <- mem_status, job <- mem_job, known <-
    mem_known, crashes <- mem_crashes

Upg == INSTANCE Upgrade WITH
    Start <- 39, RemoteUp <- TRUE, TornWrites <- FALSE, MaxCrashes <- 1,
    proc <- upg_proc, current <- upg_current, crashes <- upg_crashes

Work == INSTANCE Workspace WITH
    Files <- {"a"}, Overlay <- {"o"}, Ops <- {"read", "materialize", "move",
    "config", "bad"}, FirstMode <- "fixed", MaxRequests <- 1, MaxAgentWrites
    <- 1, MaxTicks <- 1, Faults <- TRUE, inbox <- work_inbox, todo <-
    work_todo, disk <- work_disk, answers <- work_answers, agent <-
    work_agent

\* What the components assume of their constants.
ASSUME SuiteAssumption ==
    /\ Chan!ChannelAssumption
    /\ Ingress!TelegramAssumption
    /\ Panels!TelegramOutAssumption
    /\ Term!TerminalAssumption
    /\ Timed!ShellAssumption
    /\ Media!MediaJobsAssumption
    /\ Binary!ToolBinaryAssumption
    /\ Workers!ForkserverAssumption
    /\ Cod!CodexAssumption
    /\ Mem!MemoryAssumption
    /\ Upg!UpgradeAssumption
    /\ Work!WorkspaceAssumption

channelVars == <<log, kq, wsq, tmq, inbox, pw, pt, pc, pm, answers, errors,
    shown, agent, up, told, dead, attached, outputs, events, failed>>
telegramVars == <<sent, confirmed, offset, hand, ingress_pc, admins, chats,
    diskAdmins, diskChats, bosses, ingress_told, ids, next, diskIds,
    diskNext, queue, conv, handled, received, crashes, errs, secErrs>>
telegramOutVars == <<turn, live, panels_queue, event, call, panels, screen,
    owner, ended, refused, silent, faults>>
terminalVars == <<child, tty, wrote, unread, input, reader, chunk, start,
    term_next, running, subs, chan, nextSub, fwd, managed, svc, req,
    term_inbox, term_sent, web>>
shellProcessVars == <<os, timed_wrote, pipe, stderr, dataQ, buffer, since,
    stateQ, status, timed_event, cmdQ, waiter, watcher, stdin,
    timed_managed, timed_call, calls, known, stopped, timed_shown, final>>
mediaJobsVars == <<reg, media_status, cancel, abort, media_pc, prov, files,
    out, result, media_call, media_told, lost, media_calls>>
toolBinaryVars == <<cli, binary_queue, job, inc, loc, remote, scp, ok, reqs,
    binary_crashes, cuts>>
forkserverVars == <<client, reply, workers_inbox, waiting, cmds, evts,
    server, workers, proc, workers_shown, ran, nextReq, nextWorker, exits,
    aborts>>
codexVars == <<history, cod_turn, synced, current, context, socket, request,
    responses, hidden, answered, nextItem, cod_faults>>
memoryVars == <<stored, manifest, mem_status, mem_job, work, mem_known,
    births, fruitless, early, requests, mem_crashes, ticks>>
upgradeVars == <<disk, upg_proc, upg_current, todo, upg_crashes>>
workspaceVars == <<mode, sendMode, work_inbox, cur, work_todo, work_disk,
    attach, refs, work_answers, touched, clobbered, writes, now, work_agent,
    asked, alive>>

\* Only the chosen part takes steps.
Others(p) ==
    /\ UNCHANGED part
    /\ p # "channel" => UNCHANGED channelVars
    /\ p # "ingress" => UNCHANGED telegramVars
    /\ p # "panels" => UNCHANGED telegramOutVars
    /\ p # "terminal" => UNCHANGED terminalVars
    /\ p # "timeout" => UNCHANGED shellProcessVars
    /\ p # "media" => UNCHANGED mediaJobsVars
    /\ p # "binary" => UNCHANGED toolBinaryVars
    /\ p # "workers" => UNCHANGED forkserverVars
    /\ p # "codex" => UNCHANGED codexVars
    /\ p # "memory" => UNCHANGED memoryVars
    /\ p # "upgrade" => UNCHANGED upgradeVars
    /\ p # "workspace" => UNCHANGED workspaceVars

SuiteInit ==
    /\ part \in {"channel", "ingress", "panels", "terminal", "timeout", "media", "binary", "workers", "codex", "memory", "upgrade", "workspace"}
    /\ Chan!Init
    /\ part # "channel" => up = {"main", "side"}
    /\ Ingress!Init
    /\ Panels!Init
    /\ Term!Init
    /\ Timed!Init
    /\ Media!Init
    /\ Binary!Init
    /\ Workers!Init
    /\ Cod!Init
    /\ Mem!Init
    /\ Upg!Init
    /\ Work!Init

SuiteNext ==
    \/ part = "channel" /\ Chan!Next /\ Others("channel")
    \/ part = "ingress" /\ Ingress!Next /\ Others("ingress")
    \/ part = "panels" /\ Panels!Next /\ Others("panels")
    \/ part = "terminal" /\ Term!Next /\ Others("terminal")
    \/ part = "timeout" /\ Timed!Next /\ Others("timeout")
    \/ part = "media" /\ Media!Next /\ Others("media")
    \/ part = "binary" /\ Binary!Next /\ Others("binary")
    \/ part = "workers" /\ Workers!Next /\ Others("workers")
    \/ part = "codex" /\ Cod!Next /\ Others("codex")
    \/ part = "memory" /\ Mem!Next /\ Others("memory")
    \/ part = "upgrade" /\ Upg!Next /\ Others("upgrade")
    \/ part = "workspace" /\ Work!Next /\ Others("workspace")

suiteVars == <<part, channelVars, telegramVars, telegramOutVars, terminalVars, shellProcessVars, mediaJobsVars, toolBinaryVars, forkserverVars, codexVars, memoryVars, upgradeVars, workspaceVars>>

Fairness ==
    /\ WF_channelVars(part = "channel" /\ Chan!Dispatch)
    /\ WF_channelVars(part = "channel" /\ Chan!WorkspaceAnswers)
    /\ WF_channelVars(part = "channel" /\ Chan!TerminalAnswers)
    /\ WF_channelVars(part = "channel" /\ Chan!Handle)
    /\ WF_telegramVars(part = "ingress" /\ Ingress!Thread)
    /\ WF_telegramVars(part = "ingress" /\ Ingress!Deliver)
    /\ WF_telegramOutVars(part = "panels" /\ Panels!Receive)
    /\ SF_telegramOutVars(part = "panels" /\ Panels!Succeed)
    /\ WF_terminalVars(part = "terminal" /\ Term!Reader)
    /\ WF_terminalVars(part = "terminal" /\ Term!Service)
    /\ WF_terminalVars(part = "terminal" /\ Term!ReadsInput)
    /\ WF_terminalVars(part = "terminal" /\ child = "killed" /\ Term!Exits)
    /\ \A i \in 0..1 : WF_terminalVars(part = "terminal" /\ i \in fwd /\ (Term!Forwards(i) \/ Term!ForwarderEnds(i)))
    /\ WF_terminalVars(part = "terminal" /\ Term!WebWaits("a"))
    /\ WF_terminalVars(part = "terminal" /\ Term!WebStreams("a"))
    /\ \A s \in {1, 2} : WF_shellProcessVars(part = "timeout" /\ Timed!Reads(s))
    /\ WF_shellProcessVars(part = "timeout" /\ Timed!Waits)
    /\ WF_shellProcessVars(part = "timeout" /\ os = "doomed" /\ Timed!Exits)
    /\ WF_shellProcessVars(part = "timeout" /\ Timed!TimeoutFires)
    /\ WF_shellProcessVars(part = "timeout" /\ Timed!TimeoutKills)
    /\ WF_shellProcessVars(part = "timeout" /\ Timed!TimeoutNotes)
    /\ WF_shellProcessVars(part = "timeout" /\ Timed!DataState)
    /\ WF_shellProcessVars(part = "timeout" /\ Timed!DataCommand)
    /\ WF_shellProcessVars(part = "timeout" /\ Timed!DataOutput)
    /\ WF_shellProcessVars(part = "timeout" /\ Timed!StopSignals("a"))
    /\ WF_shellProcessVars(part = "timeout" /\ Timed!EventWakes("a"))
    /\ WF_shellProcessVars(part = "timeout" /\ Timed!GraceEnds("a"))
    /\ WF_shellProcessVars(part = "timeout" /\ Timed!Answers("a"))
    /\ WF_mediaJobsVars(part = "media" /\ Media!Thread("j1"))
    /\ \A c \in {1, 2} : WF_mediaJobsVars(part = "media" /\ Media!Call(c))
    /\ \A p \in {"p1", "p2"} : WF_toolBinaryVars(part = "binary" /\ Binary!Timeout(p))
    /\ WF_toolBinaryVars(part = "binary" /\ (\E p \in {"p1", "p2"} : Binary!Serve(p)))
    /\ WF_forkserverVars(part = "workers" /\ Workers!ServerStep)
    /\ WF_forkserverVars(part = "workers" /\ Workers!ReaderStep)
    /\ WF_forkserverVars(part = "workers" /\ Workers!SessionEvent("s1"))
    /\ \A c \in {"s1", "t1"} : WF_forkserverVars(part = "workers" /\ Workers!Bound(c))
    /\ \A c \in {"s1", "t1"} : WF_forkserverVars(part = "workers" /\ Workers!Answered(c))
    /\ \A w \in 1..4 : WF_forkserverVars(part = "workers" /\ Workers!WorkerDone(w))
    /\ WF_codexVars(part = "codex" /\ Cod!Prepare)
    /\ WF_codexVars(part = "codex" /\ Cod!Connect)
    /\ WF_codexVars(part = "codex" /\ (Cod!Complete \/ Cod!NotFound \/ Cod!TransportError))
    /\ WF_memoryVars(part = "memory" /\ Mem!Steps)
    /\ WF_memoryVars(part = "memory" /\ Mem!Wake)
    /\ WF_memoryVars(part = "memory" /\ Mem!Time)
    /\ WF_upgradeVars(part = "upgrade" /\ Upg!StartUp)
    /\ WF_upgradeVars(part = "upgrade" /\ Upg!NextUpgrader)
    /\ WF_upgradeVars(part = "upgrade" /\ Upg!Serve)
    /\ WF_upgradeVars(part = "upgrade" /\ Upg!DoOp)
    /\ WF_workspaceVars(part = "workspace" /\ Work!Take)
    /\ WF_workspaceVars(part = "workspace" /\ Work!Step)
    /\ WF_workspaceVars(part = "workspace" /\ Work!Done)
    /\ WF_workspaceVars(part = "workspace" /\ Work!Fail)

SuiteSpec == SuiteInit /\ [][SuiteNext]_suiteVars /\ Fairness

-----------------------------------------------------------------------------
\* Every request is answered and every message delivered, whatever is not
\* running and however the kernel and the terminal keep each other busy,
\* unless a failure ends the conversation or the session was deleted.
RequestsAnswered == Chan!RequestsAnswered

\* Every update is handled in the end, restarts included.
UpdatesHandled == Ingress!UpdatesHandled

\* A reply of a completed turn is shown in the end.
ReplyIsShown == Panels!ReplyIsShown

\* A subscription that was asked to end ends, also when the terminal ends or
\* is forgotten first.
DetachIsDone == Term!DetachIsDone

\* Every request is answered: the service thread comes back to its inbox.
ServiceComesBack == Term!ServiceComesBack

\* A process with a timeout does not run for ever, unless the data thread let
\* the watcher wait for more than a second: then nothing stops the process.
TimeoutIsHard == Timed!TimeoutIsHard

\* The thread of a cancelled job ends, even when the provider never answers.
CancelledEnds == Media!CancelledEnds

\* Every request the manager took or has queued is answered or given up by
\* its helper's end: the manager comes back to its queue, whatever a helper
\* does.
QueueIsServed == Binary!QueueIsServed

\* Every request of a session or a tool is answered in the end.
WorkerRequestEnds == Workers!RequestEnds

\* A request ends: with an answer or an error.
CodexRequestEnds == Cod!RequestEnds

\* A failed hard compaction is tried again in the end.
RetryHappens == Mem!RetryHappens

\* Every request a running service has received is answered, with a result or
\* an error; only an attachment that cannot be stored ends the service.
EveryRequestAnswered == Work!EveryRequestAnswered

\* However often it is cut, the upgrade reaches the latest version in the end
\* and the server serves.
UpgradeEnds == part = "upgrade" ~> upg_proc = "served"

\* Every request to a channel, the workspace, the tool binary service, the
\* fork server and Codex is answered, Telegram updates are handled and
\* replies shown.
RequestsAreServed ==
    /\ RequestsAnswered
    /\ UpdatesHandled
    /\ ReplyIsShown
    /\ QueueIsServed
    /\ WorkerRequestEnds
    /\ CodexRequestEnds
    /\ EveryRequestAnswered

\* What was told to end ends and what was put off is done: detached and
\* killed terminals, shell timeouts, cancelled media jobs, compactions that
\* failed and upgrades that were cut.
WorkEnds ==
    /\ DetachIsDone
    /\ ServiceComesBack
    /\ TimeoutIsHard
    /\ CancelledEnds
    /\ RetryHappens
    /\ UpgradeEnds

=============================================================================
