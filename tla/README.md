# Verification of ClawParty

ClawParty (stellaclaw) runs AI agents for conversations that come in over chat
channels.  A long-lived host process keeps one *conversation kernel* per
conversation with its services; every agent session runs in an *agent server*
child process whose core is the `SessionActor`.  This directory holds TLA+
models of the parts whose correctness depends on concurrency, failures and
order, the TLC runs that check them on small instances, and TLAPS proofs of the
safety invariants of the session actor, of cron, of the host's registry, of the
channel service, of the tool batch, of the Telegram ingress and of the tool binary
cache.

## 1. Inventory

Paths are relative to `src/`; `core` is `core/src`, `st` is `stellaclaw/src`.

| Part | State | Operations | What makes it hard |
|---|---|---|---|
| session actor (`core/session_actor/actor.rs`) | queue, history, transcript, active request, active batch, continuation, counters, grace timer | Initial, Shutdown, CancelTurn, ContinueTurn, CompactNow, messages, provider events, tool completions, timers | five channels into one `select!`; late answers; errors in the middle of a handler |
| tool protocol, context window, request builders (`compressor.rs`, `media_normalizer.rs`, `providers/*.rs`) | the history | compact, prune, repair, normalise, build a request, convert a response | a cut must not part a call from its result; a history outlives the model it was written with |
| runtime metadata (`runtime_metadata.rs`) | snapshots of prompt files and skills, notices | observe, announce, promote | compare, append, save and promote are separate steps |
| provider session and fork server (`providers/mod.rs`, `forkserver.rs`) | context, active request, workers | start, abort, complete, cancel | positions and worker ids that go stale between poll and use |
| Codex backend (`codex_subscription.rs`) | remembered response, socket, login file | request, continue, retry, stream, renew tokens | lost connections after the server has answered; a refresh token works once |
| tool batch executor (`tool_executor.rs`) | running batch, worker threads | start, interrupt, finish | interrupts between segments, panics |
| process tools (`process_tools.rs`) | process, buffer, screen | exec, write, observe, stop, time out | four threads around one process; end of output and exit in either order |
| media tools (`media_tools.rs`) | jobs, staged files | start, wait, stop; stage | abort handle published after the request started; files that change while copied |
| file tools (`file_tools`, `tools/stellaclaw-fs-tool`) | files of two hosts | make visible, apply a patch | scripts that outlive their timeout; one operation of several fails |
| agent server, session RPC, state store (`agent_server`, `session_rpc.rs`, `session_state.rs`) | the process, `session.json` | start, forward, load, save | the process dies at any point |
| conversation host (`st/conversation_host.rs`, `st/main.rs`) | registry of kernels, event bridge | start, send, restart, stop | look-up and insert are two critical sections |
| conversation kernel (`st/conversation_new.rs`) | mounted services, manifest, bindings, config | mount, stop, dispatch, broadcast, create a session | a call without id to a service that is gone; a manifest rewritten in the middle of a restart |
| agent session service (`services/agent_session.rs`) | runner, bridge requests, children, joins | forward, relaunch, spawn, join, kill | ids that start again with a new runner; results, crashes and kills that cross |
| cron (`services/cron.rs`) | tasks, runs, pending creates | register, update, remove, trigger, timer, events | answers matched by order; restart with runs under way |
| channel service (`services/channel.rs`) | four queues of pending requests | ingress, answers, events | answers without an id |
| Telegram channel (`channels/telegram.rs`) | offset, security state, ids, panels | poll, approve, send, edit, split | confirmed before handled; calls that were carried out and reported as failed |
| web channel (`channels/web`) | live state of a session, home list, seen marks | post, subscribe, stream, rename, delete | snapshots between two deltas; requests that publish late |
| terminal service (`services/terminal*.rs`) | terminals, buffers, subscribers | start, attach, input, detach, terminate | reader, service and forwarders with three locks |
| workspace service (`services/workspace.rs`) | configuration, two file trees | read, write, move, upload, materialize | check and use are two calls while tools write |
| memory (`st/memory.rs`) | entries, manifest, compaction status | write, search, update, delete, compact | decisions made by a model; two files per write |
| skills (`services/skill.rs`, `skill_sync.rs`) | store, copies in workspaces, upstream | persist, delete, reconcile, push | remove and rename; several conversations in one store |
| tool binaries (`st/tool_binary_manager.rs`) | queue, cache, helpers | ensure | helpers that outlive the server |
| upgrades (`st/upgrade`) | the workdir | one step per version | a step that is cut runs again over its own result |

What makes each of them correct is stated by the properties of section 3; the
hazards behind them are in `PROJECT.json`, each at its line.

Hazards of the code that no property covers, because the code, its docs and its
tests promise nothing that could be stated: the error of a restart after a
request that was too large ends the actor (`actor.rs:1821`); `session.json` is
overwritten in place (`session_state.rs:82`); a batch worker that panics outside
an operation sends no completion (`tool_executor.rs:108`); a new message drops
the continuation of a failed turn (`actor.rs:1140`); runs under way are
forgotten by a restart (`cron.rs:981`); a rejected update of a task has already
changed its name (`cron.rs:880`); whether a session that terminates itself finds
its inbox open (`agent_session.rs:455`); finished background sessions are never
stopped (`cron.rs:585`).  They are modelled where the model has the step, and
excepted by name from the properties they would break.

## 2. The modules

| Module | Models |
|---|---|
| `SessionActor` | the tool protocol of a history, the actor, the provider session and its request threads, the executor's worker, timers, `session.json`, the host's view, crashes and restarts |
| `Transcript` | abstract specification: an append-only log, saved whole or not at all, shown by position, continued from the saved copy; `SessionActor` refines it |
| `SessionTurnProofs`, `SessionHistoryProofs` | theorems about `SessionActor`; the second module builds on the first |
| `Payload`, `Compression` | what of a history each wire format carries, and how a history is shortened |
| `RuntimeMetadata` | notices of changed prompt files and skills |
| `Forkserver` | the fork server, its workers, a provider session and a tool that use it |
| `Codex`, `CodexStream`, `CodexAuth` | incremental requests, the decoder of a response stream, the shared login |
| `ToolBatch`, `ToolBatchProofs` | one batch inside the executor; theorems about it |
| `ShellProcess`, `TerminalScreen` | a shell process with its threads, the screen emulator |
| `MediaJobs`, `MediaStaging` | provider jobs, staging of remote files |
| `Visibility`, `FsTool` | copies between the hosts, patches |
| `Kernel` | a conversation's kernel |
| `Host`, `HostProofs` | the registry of kernels and its callers; theorems about it |
| `AgentBridge`, `AgentTree` | bridge requests of a runner; children, joins and results |
| `Cron`, `CronProofs` | the cron service with what it uses of kernel and sessions; theorems about it |
| `Channel`, `ChannelProofs` | the channel service with what it uses of kernel, workspace and terminal; theorems about it |
| `Telegram`, `TelegramProofs` | incoming updates; theorems about them |
| `TelegramOut`, `TelegramSplit` | outgoing events, splitting of a reply |
| `WebLive`, `WebHome`, `Terminal` | what chat, home and terminal clients are shown |
| `Workspace`, `Memory`, `Skill`, `ToolBinary`, `Upgrade` | the services that keep files; `ToolBinary` with its theorem |
| `MCConversation`, `MCChannels`, `MCTools`, `MCServices`, `MCLiveness`, `MCServiceLiveness` | the instances TLC checks |

Every component module opens with what it models and what it leaves out, and
keeps the names of the source.  Definitions that begin with "Faulty:", or stand
directly before a definition as a variant of it without being used, are not part
of the model: each is one definition with a plausible mistake in it, kept to show
that the property named with it in `PROJECT.json` notices the mistake.

### The instances

The components talk to each other over queues whose other end each module models
as far as the component can see it, so that most are checked on their own.  An MC
module holds several of them side by side: the variable `part` says which one a
behaviour runs, `Others(p)` keeps the variables of the rest still, and a property
`part = "x" => X!P` is about the part it names.  The reachable states are the
sum, not the product, of those of the parts.  One component may appear as several
parts, with constants that let other cases happen (two channels, two kinds of
workers, with or without crashes).  Three modules are checked directly:
`SessionActor`, `Cron` and `AgentBridge`.

Components that share state are composed in one module: the actor with provider
session, executor and disk (`SessionActor`); cron with kernel, sessions and two
files (`Cron`); registry, kernels, callers and event bridge (`Host`); terminal,
service, forwarders and web stream (`Terminal`); fork server, workers, session
and tool (`Forkserver`); skill services of two conversations and their store
(`Skill`).

### SessionActor and the code

The variables carry the names of the fields of `SessionActor` in `actor.rs`:
`pending_data`, `history`, `all_messages`, `active_provider_request`,
`active_tool_batch`, `pending_continuation`, `next_turn_id`, `next_batch_id`,
`provider_context`, `initial`; `grace_timer` is
`active_provider_supersede_grace_timer_id`.  The channels are sequences
(`request_rx`, `provider_event_rx`, `tool_completion_rx`, `internal_event_rx`).
`session_context` and `session_active` are the locals of the provider session's
loop; `running_batch` and `worker_done` belong to the executor.  `disk` is
`session.json`, and `client` is what the emitted events tell the host: which turn
runs, whether the last failure can be continued, which positions it was shown.

A handler is one action, except where the process may die or time may pass in
the middle with something already saved: a turn is `DrainPendingData` (or
`HandleContinueTurn`), then `AppendInput` per message, `AnnounceTurn`, and
`StartProviderRequest` per round of its loop; a final response is
`HandleFinalResponse` and `AppendFinal`.  `pc` says where the thread is and
`frame` holds the handler's locals.  Every handler ends in `Settle`, which is
`run_pending_data_if_idle`.  `frame.guarded` is the difference between callers
that turn an error of `start_provider_request` into a failed turn and callers
that pass it on with `?`, which ends the actor.

What is abstracted: a message is `[kind, turn, ref]`; the calls of one response
are one call; runtime notices are part of the input they precede; token counts
are a free choice (a request may be too large whenever `TooLarge` is set, a
compaction may cut wherever `recent_tail_start_by_token_budget` could); the
replacement messages of a compaction are one summary.  Time is two flags:
`grace_elapsed` says that 200ms have passed since the active request's last
activity, `renewed` that there was activity since the armed timer started to
sleep.  A saved state is written in one step.  `Compression` models the same
history with token counts, several calls per response and real cuts, without the
concurrency.

### Cron and the code

`tasks`, `next_run_id`, `pending_runs`, `pending_order` and `active_runs` are the
locals of `CronService::run` in `cron.rs`, `inbox` its channel and `disk` its
`tasks.json`.  `due` and `unsaved` say where the thread is inside a timer event or
a trigger: the request to create a session is sent in `trigger_task`, and the
status and the counter are saved only afterwards (`MarkTaskRunning`), with the
kernel and a crash free to act in between.  Every other arm of the loop is one
action.  `kernel_rx` is the one channel into which every service sends and from
which the kernel delivers in order; `session` and `manifest` are the kernel's
background sessions, in memory and in its file.  Because the kernel mounts a
session and answers in one step of its loop, an event of the session cannot
overtake the answer in `inbox`; the model has this order from the code and
several properties rest on it.

A run is identified by task and run id, as in `cron_<task>_<run>`.  Replies to
requests change no state and are left out, and so are the schedules: a task may
be due whenever it is enabled.  A registration is refused when its schedule is
bad or when its session does not report to a channel of the session's own id
(`Paired`): background agents report to their parents and other foreground
sessions to `channel/main`, so that of the sessions that have the cron tools
only `agent/foreground/main` registers anything today.  `TriggerTaskNow` has no
caller outside the tests and is modelled as the documented manual trigger.
Where the code ends the whole kernel (a service fails, a call cannot be
delivered), the model has `Restart`.

### The other modules and the code

* `Kernel`: one address per service, `outputs` is the kernel's channel, a call is
  `asks` (with a request id) or not; `Mount`, `Stop`, dispatch and the manifest's
  writes are separate steps of an open, and a crash may come between them.  A
  session that cannot be mounted is refused (`CreateFails`).  A manifest that cannot
  be written after a session was mounted is left out: the caller gets an error, the
  session runs, and the next write of the manifest names it.
* `Host`: `pc` of a caller walks through `ensure_conversation_started`, `send`,
  `restart_conversation` and `subscribe` at the granularity of the registry's
  lock.  An open may fail, a kernel that fails by itself closes its channels before
  its thread ends, and a stop returns the error of the thread it joined.  `Serial`
  says whether callers take turns, as the ingress loop alone does.
* `AgentBridge`: `up` and `down` are the pipes of the runner, `pending` the
  service's map from its request ids to the runner's, `gen` the runner's number.
  `StartRealSession` launches a runner and hands it its first messages,
  `BridgeCall` and `Resolve` are the two halves of a tool's call.
* `AgentTree`: `record` is the parent's table of children, `join` the waiting
  tools; every call goes through the kernel's queue in order.
* `ToolBatch`: `worker` is the loop over segments, `thread[i]` an operation; while
  the worker waits an interrupt, a late answer and a panic may come in any order.
* `Channel`: four queues, `PopTerminal` and its like are the matching of answers.
  Every response is a tagged JSON object, so the kernel's error for a service that
  is not running is taken for the answer of that service when its id is pending.
  All outputs of all services pass through one queue (`kq`); sessions are created,
  told to shut down, stop and are taken out, and a call without an id to one that
  is gone ends the kernel (`failed`), as does a failure of a service or a stop.
* `Telegram`/`TelegramOut`: the polling thread and the sending loop, each with the
  API as an environment that may fail before or after it has done what was asked.
  Administrators are those of the configuration (`Configured`) or the first user
  who writes in private; an administrator decides on any chat, the private chats of
  others included.  A write of the security state may fail (`SaveFails`): memory then
  keeps what the disk does not have, until the next write or restart.  `told` is what
  users and chats were told of their rights, `bosses` everybody who ever was an
  administrator.  A torn `security.json` is not modelled.
* `TelegramSplit`: renderer and splitter as recursive operators over documents.
* `WebLive`: one step per command of the `WebChannelMain` thread; text is a
  sequence of atoms, since the renderer holds back what may become a link and
  leaves code alone.  Events of the session and announcements of the channel
  service race; a message is named by its position, so a failed response leaves its
  name to the next one.  A posted message gets its position only when the actor
  appends it (`Rewritten`, `actor.rs:2109`), so that the queued entry, which has the
  id of the post, is not taken away by the commit but by the end of the next turn
  that completes; one whose turn fails stays queued.
* `WebHome`: `Applied` is what the desktop client makes of a patch; the
  `session_nicknames` of a patch are read by no client and left out.  A request is a
  list of steps (`todo` of its thread) that wait for
  host, kernel or `WebChannelMain`.  A kernel that answers later than a request
  waits (`MaxLate`) has still done what was asked.  `Client` is what the callers
  keep to: with `Serial` one request at a time, with `Known` only things that exist.
* `Terminal`, `ShellProcess`, `MediaJobs`, `ToolBinary`: one action per critical
  section of each thread; a byte of output is its offset.  `Terminal` has one
  terminal from its start on: creation with its limits, resizing and the end of the
  conversation's service are left out.  A shell process without a tty has a pipe and
  a reader for each of stdout and stderr, which feed one buffer, so no order is
  claimed between the two.  When the data thread is slow (`Slow`), the watcher of a
  timeout gives up after a second and the process is not stopped, although the code
  asks for it, and a drain gives up after five and loses what it took
  (`WatcherGivesUp`, `DrainGivesUp`).
* `MediaStaging`: a remote file that is written while it is sent may arrive as some
  of each version (`Sent`); the hash refuses it.
* `Forkserver`: one action per turn of the server's loop over commands and ready
  pipes, per event of a worker and per call of a client; a panic of the server is
  followed by the reader's end and by the errors it hands to whoever waits.  Of a
  context only whether the worker has it is kept (`SetContext`).
* `Visibility`: the installing script on the other host is a process of its own
  with the shell's `set -e` and `trap`.  Steps whose result the code ignores (a
  backup that is put back or removed) may fail.  `FsTool` has texts as sequences
  of characters in which one ends a line, chooses the host by the session's mode and
  the paths, and a write may be torn or its answer lost.
* `TerminalScreen`: one step per character, control character or escape sequence; of
  a sequence that a read has cut the beginning is dropped and the rest is text.
* `Codex`: an item is a number; the server remembers what it answered, and a
  fault may hit before or after it did; a response that was recorded may still not
  be readable as a message (`Unreadable`).  `CodexAuth`: a refresh token is renewed
  with each refresh or never (`rotates`); the login may have none.  The answer to a
  refresh may be lost, invalid or of another account, and `auth.json` may fail to be
  read or written: such a fault can cost the login and is recorded in `lost`.  With a
  server that renews the token only sometimes two workers could cost each other the
  login; this is not modelled.  `CodexStream` takes any order of
  announced, partial, finished and listed items the API allows, and the end of the
  stream at any point.
* `Memory`, `Workspace`, `Skill`: a request is a list of file-system steps, with
  the agents' tools and crashes between them.  A skill is copied, removed and
  renamed file by file, and `OneVersion` says that the files of a place are of one
  edit; a removal that was cut may leave a part of that one version.  A search of
  the memory returns entries of its scope in any ranking (`Candidates`).  A write is
  compared with at most `CandidateLimit` of them.  `Norm` is what the normalisation
  leaves of a text: texts without ASCII letters, digits or CJK characters (the
  negative numbers) become the same nothing, so two of them are equal to the service.
  The score of two texts that differ is left open between the thresholds of
  `local_write_decision`, so that a write may be taken for a variant of another entry
  (`near`) and only touch that one.  A move and a write on the remote host check
  and then overwrite; `clobbered` records every file that was replaced, with the time
  it was written.
* `Upgrade`: a table of what each step does to which file (`Plan`), run by the
  chain's loop.  Logs of lines are joined, two JSON documents in one file are not
  readable any more (`Joined`).  File-system errors, of which `v0_11` swallows some,
  are left out.
* `RuntimeMetadata`: component snapshots with the version the model was told of.
  A session without components, new or of an old version, is initialised from the
  files and saved when it starts.
* `Payload`/`Compression`: items with the facts they carry; `Normalize...`,
  `Build...` and `Recent...` follow the functions of the same names.  The compact
  endpoint of Codex is trusted to answer with a compaction that stands for all it was
  sent, with or without the users' texts; the code would also take an answer with
  nothing in it, and drop the older messages.

## 3. The runs

`tlc -workers 2 -config <cfg> <module>` in this directory; every passing run
takes one to four minutes.  No run checks for deadlock: every one of these
systems may come to rest (nothing more is sent once the bounded number of
requests is used up, a process may have ended), so a state without a successor
is not an error.  What must not get stuck is stated as a liveness property.

| Run | Module, cfg | Properties |
|---|---|---|
| `session_turns` | `SessionActor`, `SessionTurns` | `TypeOK`, `OneActivity`, `CompletionMatchesBatch`, `RequestsAreSettled`, `NoMessageStranded`, `HostSeesTurn`, `MessageIdMatchesPosition` |
| `session_recovery` | `SessionActor`, `SessionRecovery` | `SavedStateIsSound`, `HistoryIsFaithful` |
| `cron_restart` | `Cron`, `CronRestart` | `NoSecondPrompt`, `OneRunPerTask`, `CronBooksAgree` |
| `conversation` | `MCConversation`, `Conversation` | `KernelKeepsServices`, `OneOwner`, `AgentCallsAgree`, `TasksStayApart` |
| `channels` | `MCChannels`, `Channels` | `AnswersAreMatched`, `IngressIsDurable`, `RepliesAreKept`, `LiveViewIsTrue`, `HomeViewIsTrue`, `TerminalIsFaithful`, `SplitsAreFaithful` |
| `tools` | `MCTools`, `Tools` | `ShellTellsTruth`, `MediaIsAccounted`, `BatchKeepsOrder`, `ForkServerIsExact`, `FilesAreSafe` |
| `services` | `MCServices`, `Services` | `CodexIsFaithful`, `MemoryIsKept`, `UpgradeKeepsData`, `WorkspaceIsSafe`, `BinaryIsWhole`, `SkillsAreWhole`, `NoticesAreTrue`, `ContextIsFaithful` |
| `liveness` | `MCLiveness`, `Liveness` | `MessagesAreAppended`, `ConversationMoves` |
| `service_liveness` | `MCServiceLiveness`, `ServiceLiveness` | `RequestsAreServed`, `WorkEnds` |
| `silent_provider` | `SessionActor`, `SessionSilent` | `SilentRequestIsSuperseded`, violated |
| `bridge_reuse` | `AgentBridge`, `BridgeReuse` | `AnswerIsOwn`, violated |
| `kernel_forget` | `MCConversation`, `KernelForget` | `ServicesSurviveFaults`, violated |

A property of the MC modules is the conjunction of named parts, each with its
own comment at its definition; a part of the form `part = "x" => X!P` says
nothing about the other components.  Each of `MCConversation`, `MCChannels`,
`MCTools` and `MCServices` extends one component that has theorems (`Host`,
`Telegram`, `ToolBatch`, `ToolBinary`), so that `OneOwner`, `IngressIsDurable`,
`BatchKeepsOrder` and `BinaryIsWhole` are checked as they are proved; the constants
of that component are in the cfg.  A conjunct that is an action property makes
the whole one temporal, so its invariants are written under `[]`.

### The session actor

`session_turns` has three requests (user messages, cancellations, compactions),
one tool round per turn and one streamed event per request.  That is enough for
a result, an abort, a timer and a new message to meet in every order, twice in a
row, with the second turn starting from what the first left behind.

* `OneActivity`: never a provider request and a tool batch at once, and never a
  batch in the executor that the actor does not know.
* `CompletionMatchesBatch`: a completion that is taken belongs to the active
  batch.
* `RequestsAreSettled`: one result per request (`OneResultPerRequest`), a session
  that is idle when the next request is sent (`SessionNeverBusy`), and a timer
  behind every superseded request (`GraceTimerWillFire`).
* `NoMessageStranded`: an idle actor has an empty queue.
* `HostSeesTurn`: the host was told of the turn that runs.
* `MessageIdMatchesPosition`: the id given out when a request starts is the
  position its response will get.

`session_recovery` adds crash and restart, shutdown, continuation, messages of
other actors, a compressor and requests that are too large; two requests and two
attempts let a compaction fail, prune and be retried before or after the crash.
`SavedStateIsSound` is about what a crash finds on disk, `HistoryIsFaithful` is
the refinement of `Transcript` together with `ProviderSeesClosedHistory`.

### Cron

`cron_restart`: one task, two requests (registration, update, removal, manual
trigger), two runs and two restarts, sessions that complete or terminate
themselves, creations that the kernel refuses.  Two restarts are needed because a
run id is handed out again after the first and its late answer may arrive after
the second.  `CronBooksAgree` says that a rejection hits the run it is about,
that the status shown agrees with the runs, and that a prompt finds its session.
Two tasks of two sessions are in `conversation` (`TasksStayApart`).

### Conversation, channels, tools, services

The parts of each MC module and their constants are listed at the top of the
module.  Where a constant takes a case away, the case is one of the
disagreements of section 4, which would mask everything else:

* `Host`: the free callers of part `host` are checked for `NoOrphanKernel`,
  `AnswerHasListener` and `HandledOnce`; `OneKernel` is only checked for callers
  that take turns (part `serial`, `TurnsKeepOneKernel`).
* `Kernel`: part `restart` has no fault while a restart mounts services
  (`OpeningFaults`), which is what `kernel_forget` is about, and no torn manifest
  (`MayTear`); part `routes` has both a stop request and opening faults.
* `AgentBridge` has one runner in `conversation`; `bridge_reuse` has two.
* `Telegram`: no failed save of the id table (`MaxSaveErrors`); the base instance has
  two users, a group and a failing write of the security state, part `granted` an
  administrator of the configuration.  While no such write fails, rights come from
  administrators who are on disk; otherwise from anybody who was one (`Authority`).
  `TelegramOut`: no turn that ends without a word (`MaxSilent`).
* `Channel`: `requests` has three inputs of one session, `outputs` a second session,
  terminal output between the answers and a stop; `side` is the channel of another
  session, with subagents.
* `Skill`: the service of one conversation is active, since two would copy into the
  same temporary directory, and no edit falls into a persist of the same agent
  (`Active`, `EditDuring`).
* `WebLive`: no subscription inside an open link (`MidLink`); part `events` has
  crashes and messages posted twice, part `lost` events that are lost.  `WebHome`: part `home` has requests one after
  the other (`Serial`) and for what exists (`Known`); part `racing` lets requests
  of several threads interleave, part `marking` read marks, failed writes and
  crashes; part `sessions` has the requests on sessions and no crash, since one
  between the removal of a session and of its name leaves the name.
* `ToolBinary`: no server crash for the local binary.  `FsTool`: what a
  patch leaves is stated for operations that name different files (`Disjoint`).
* `Upgrade`: four workdirs: 0.6 (part `older`), 0.12 with its host out of reach
  (`remote`), PartyClaw (`party`), and `cut`, in which a crash may tear a write
  (`TornWrites`).  `NothingLost` and `EverythingArrives` are for the first three,
  where a cut falls between two writes; the history of a PartyClaw workdir is kept but
  does not arrive (`Stranded`).  The torn one is checked for the link only.
* `CodexAuth`: `LoginSurvives` is about workers that share a login, and is silent once
  a renewal was lost to a fault.
* `Memory`: `WriteIsStored` excepts a write that was taken for a variant of another
  entry; `OneEntryPerSubject` is for subjects that have tokens, while all entries are
  candidates.
* `Workspace`: a create or a move destroys nothing that was there when the request
  was taken; what the agent writes between check and call only a local create spares.
* `ShellProcess`: a timeout is hard unless the watcher gave up.

Part `legacy` of `services` is the session actor started from a `session.json`
that an earlier version saved inside a tool round (`LegacyDisk`): the round is
repaired by the first request and nothing is saved before that.

The bounds follow one rule: each actor may act often enough that its second
action meets the leftovers of its first, and each fault may happen once (twice
where one fault hides the next).  Buffers and windows are two or three elements
so that they overflow; screens are two by three so that they scroll and wrap;
documents have one or two blocks of every kind and message lengths from 2 to 14,
so that every block is cut at each of its places.

### Fairness

`liveness` and `service_liveness` assume weak fairness of every thread's loop
(an operating system runs every thread that can run) and of the timers, and
nothing of users, peers or crashes.  Beyond that:

* A provider request ends and a worker of the executor returns: requests have
  timeouts, and an interrupted operation is told to stop (`Return` is fair only
  for cancelled operations).
* Cron's `HandleMessage` is strongly fair: its loop waits in a `select!`, which
  picks among the ready arms at random, so a timer that is always ready cannot
  starve the inbox.
* `TelegramOut`'s `Succeed` is strongly fair: the API answers a call that is
  repeated for ever once in a while; without that no retry could help.
* A terminal's child and a shell's process end for sure only when they were
  killed (`child = "killed"`, `os = "doomed"`).
* A helper that installs a binary has a timeout (`Timeout`), a join its timer
  (`JoinTimer`), Codex its `Complete`, `NotFound` or `TransportError`.
* The Codex, memory and workspace loops are fair step by step, because each is
  one thread.

### Mistakes the properties notice

For every property `PROJECT.json` names a definition and a variant of it with one
plausible mistake (a dropped guard, a missing reset, a swapped order, an entry
not removed); with the variant in its place the run ends in a violation.

## 4. Where the code and its documents disagree

Three disagreements have a run of their own.

* `silent_provider`: a message that arrives when the provider has already been
  silent for longer than the grace window arms no timer and cancels nothing
  (`actor.rs:837`); `TODO.md:5` says that silence beyond the window supersedes
  the request.
* `bridge_reuse`: runners number their requests from 1 and the service keeps the
  pending requests of a runner that was replaced, so a late answer is taken for
  the answer to a later request (`tool_catalog/mod.rs:131`); `VERSION:168` says
  late responses are dropped.
* `kernel_forget`: each mount of a restart rewrites the manifest with the services
  mounted so far (`conversation_new.rs:684`); `docs/RECHECK.md:396` says that a
  restart mounts all services of the manifest.

Others were met while modelling.  The models have these behaviours and the
properties above are stated around them; each could be given a run again by
setting the named constant or stating the quoted sentence.

*Sessions and cron.* `ContinueTurn` after a failed append appends the messages
that were already appended once more (`actor.rs:1123`, `ContinueAppendsNothing`;
`ROAD_MAP.md:767`).  A background session that terminates itself tells its parent
and not its event sink, so cron's run never ends (`agent_session.rs:1402`).  A
failed compaction in the middle of a turn is taken for the end of the run, and
the task can be started a second time (`cron.rs:649`; `conversation_new.md:82`).
A session that asked for its own end leaves its parent with a reply it does not
understand (`agent_session.rs:486`).  A launch update replaces a runner that has
accepted a message and not yet announced its turn (`agent_session.rs:427`).
Within a turn every Codex request resets the incremental context, because the
flag stays in the cloned context (`actor.rs:2816`; `VERSION:78`).  When the
history is compacted a second time, the summary of the first is not in the text
the summariser of the generic providers gets (`Overlooked` in `Compression`;
`chat_message.md:35`).

*Conversation.* Two threads that start a conversation at once both open a kernel,
the second drops the first with what it accepted, and the event bridge keeps the
receiver of a kernel that ended (`conversation_host.rs:83`, `:127`,
`main.rs:414`).  The notice of a stopped service makes the kernel join whatever
is mounted at its address by then (`conversation_new.rs:1028`); a response to a
session that was deleted ends the whole conversation (`:760`); a manifest torn by
a crash cannot be opened (`:867`).

*Channels.* `channel/main` shows events of any foreground session
(`channel.rs:1139`); a message with an attachment is overtaken by a later one
(`:588`).  A chat id that could not be saved is used and later given to another
chat (`conversation_id_manager.rs:54`); a failed turn closes the panel of an
earlier one (`telegram.rs:788`).  A client that subscribes inside a link shows its
text twice (`web/main.rs:1405`), a message posted during a turn leaves the queue
when that turn ends (`:1321`) and one that was committed does not leave it before
(`:1168`), two reasoning items are reported as a mismatch
(`:1543`), and a crash leaves "running" standing (`st/main.rs:592`).  After an update of the
runtime configuration kernel and terminal service answer each other's errors for
ever when the terminal is not mounted (`terminal.rs:67`, `:100`,
`conversation_new.rs:1138`).  Home
clients may keep an older name (`web/channel.rs:299`), a request revives a
deleted conversation (`conversation_host.rs:81`), a kernel may run without files
(`web/channel.rs:303`), renaming a session that does not exist shows one
(`:368`), and a crash during one read mark loses all (`web/main.rs:1793`).  A snapshot or a
request that is under way while a conversation is deleted brings it back; an event
of the bridge that is delayed over a deletion and a new creation shows the old
name; the bridge does not subscribe to a conversation that was deleted and started
again; a crash inside a deletion of a session leaves its name, and a session that
is created again while it shuts down is shown and ends; an empty name is missing
from later snapshots.
Terminating a child that closed its terminal blocks the service
(`terminal_runtime.rs:824`); a client that attaches between append and publish
gets a chunk twice (`:795`), output sent before `Attached` is lost
(`terminal.rs:186`), and a slow client is dropped without a word
(`terminal_runtime.rs:668`).

*Tools.* A tab at the right border never ends (`process_tools.rs:1357`); a blank
snapshot follows an erased alternate screen (`:1514`); a process that ignored a
stop outlives its timeout (`:429`); a bad argument hides the process it started
(`:501`); output does not end a wait (`:1146`).  An analysis job keeps one file of
several (`media_tools.rs:1210`); a staged file is replaced before its content is
checked (`:1508`).  A remote binary that was copied in part is taken for complete
(`tool_binary_manager.rs:722`), and two helpers share one staging name (`:587`).
The fork server uses the positions of ready workers after they may have moved
(`forkserver.rs:692`) and an aborted request that has just completed leaves its
worker alive (`providers/mod.rs:1034`).  A late installing script may nest a
directory or overwrite a newer copy, `tar` reports no unreadable file, and a copy to
a remote path that held nothing is reported as failed although it was made, since
the last test of the trap fails under `set -e` (`visibility.rs:638`, `Visibility`); two operations of a patch on one file are not all-or-nothing, and
a hunk is matched as a substring (`FsTool`).

*Services.* A memory that falls below the hard threshold forgets its retry delay
(`memory.rs:1378`); ids of deleted entries, and after a crash of live ones, are
given out again (`:1259`, `:1268`); a text without letters it knows is taken for any
other (`:2414`).  A refresh of the Codex login whose answer is lost, or cannot be
saved, leaves a used-up token (`codex_subscription.rs:2409`, `:2437`).  A killed copy in the skill store stops every
conversation from starting (`skill_sync.rs:536`); a deleted skill may survive in a
workspace that is just starting (`skill.rs:205`); workspaces may get a version the
store does not have (`:166`); an update pushes nothing (`:175`).  A PartyClaw
workdir that is upgraded in one go loses its foreground history
(`upgrade/v0_1.rs:749`), an already converted conversation is read as a legacy
one (`:447`), files are rewritten in place (`v0_3.rs:70`), and a fallback whose
files are already there fails (`v0_12.rs:72`).  An archive uploaded to the root
puts `.stellaclaw` on the remote host (`workspace.rs:675`), and two attachments
of one millisecond share a file (`:374`).  A notice whose append failed is not
told again, a crash between the notices of prompt and skills loses the second,
and a skill that vanished and returned is forgotten (`runtime_metadata.rs`).

## 5. The proofs

`tlapm <module>.tla` checks a module; all theorems hold for every value of the
constants that satisfies the assumptions named here, hence for any number of
messages, runs, callers, crashes and restarts.  Every inductive invariant was
first checked with TLC on the instances of the runs (the ones of cron also with two
tasks and two owners) and only then proved.

### The session actor

The assumptions are `RequestsAssumption`, `BoundsAssumption` and
`FlagsAssumption`, which give the constants their types.  `SessionTurnProofs` has
the types, the turns and the requests, `SessionHistoryProofs` builds on it and has
the transcript and the histories.

**Types**: `TypeCorrect` (`TypeOK`).  `TypeOK` is not inductive:
the append loop reads `frame.requests[frame.at]`.  `TypeInv` adds `TurnHasInput`:
when the actor is about to drain the queue the queue is not empty, the loop's
index is within the turn's messages, and a continuation that holds messages holds
at least one.  There is one lemma per action, above lemmas on what the shared
calls (`Settle`, `ScheduleGrace`, `FinishTurnError`, `BeginTurn`...) and the
operators on histories return.

**Turns**: `OneActivityAlways`, `CompletionAlwaysMatches`,
`MessagesNeverStranded`, `HostAlwaysSeesTurn` and `MessageIdsArePositions` are the
invariants `OneActivity`, `CompletionMatchesBatch`, `NoMessageStranded`,
`HostSeesTurn` and `MessageIdMatchesPosition`.  They hold each other up: the
executor can refuse a batch only if another one runs; the host sees the right turn
after a superseded batch only because a message is queued and starts the next
turn.  Their conjunction is still not inductive.  `TurnInv` adds that no batch is
numbered 0, which stands for none, also after a restart (`BatchNumbers`); that a
request is started for the turn that was announced (`StartsShownTurn`); that a
batch is superseded by a message that is still queued (`SupersededHasMessage`);
and that nothing runs before the Initial, so that the transcript it restores cannot
move under an active request (`NothingBeforeInitial`).  Nearly every handler ends
in one of three ways, each a lemma: the actor is gone (`DeadTurn`), nothing
changed (`KeptTurn`), or the actor is idle and inside a turn or settled
(`IdleTurn`).

**Requests**: `RequestsAlwaysSettled` (`RequestsAreSettled`).  The
hazard is a result that arrives after its request was given up.  `RequestInv`
orders the ids by turn, step and attempt: whatever the session runs or the channel
still holds was asked before the id a handler is about to use (`FrameIsFresh`), the
next step of a batch would use (`BatchIsFresh`) or the active request has
(`ActiveIsNewest`), so that a late result can never match.  `SessionIsOurs` says
that an abort is queued only for a request that was given up and that the session
works for the active request or is about to be told to stop, which is why it is
never asked while busy.  `TimerInv` says that an armed timer sleeps or has fired,
with a user message still waiting for it.

**Transcript**: `TranscriptRefined` is the refinement: with `TheLog` (the transcript in memory, or
the saved one before the Initial has read it), the saved transcript and the
positions the host was shown, every step of the actor is a step of `Transcript` or
a stutter.  `LogInv` carries it: shown positions exist (`ShownExists`), there is no
context to compact before the Initial (`EmptyBeforeInitial`), and a final response
whose compression is tried again is already in the transcript (`FinalIsThere`).
Steps that leave the log alone (`Quiet`) and steps that append to it are each
covered by one lemma.

**Histories**: `ProviderAlwaysSeesClosedHistory` and
`RequestAlwaysClosed` (every tool call of a request is answered when it starts and
as long as it runs), `HistoryAlwaysFaithful` (`HistoryIsFaithful`: these and
`TranscriptRefined`).  `HistoryInv`: every result in the history, in memory and on
disk, has its call before it and at most one call is open (`GoodHistory`), so that
a repair closes it; the open one is the running batch's (`BatchIsOpen`); a
provider request keeps it closed (`RequestKeepsClosed`); and the actor knows what
the provider session holds, so that extending it gives the whole history
(`ContextsAgree`).  All ways a handler may change the history are one of three
(`Rewritten`).

`OffersAndTurnsAlwaysSound` and `SavedStateAlwaysSound` (`SavedStateIsSound`) are
about what a crash leaves.  `TurnsInv` bounds the turn numbers of transcript and
copy by the counter next to them; `SavedInv` says that nothing but a running
batch keeps a call open, so that everything else is saved before it is shown;
`OfferInv` says that whatever works on or would resume a history has one, and that
an offer stands until the next turn begins.  `SavedStateAlwaysSound` excepts a
session that was restored from a file saved inside a tool round (`LegacyDisk`):
its file is open until the first request has repaired the round, so the statement
is false for it, and part `legacy` of `services` checks what remains true.

### Cron

`CronProofs` uses no assumption on the constants for its first three theorems.

* `OneRunAlways` (`OneRunPerTask`), `OnePromptAlways` (`NoSecondPrompt`).  Run ids
  are saved after the request to the kernel was sent, so ids do repeat.  `RunInv`
  compares a run's id with both counters: the saved counter is behind only in the
  middle of a trigger (`CounterSaved`), a pending run is older than the counter in
  memory, and a run whose prompt was sent is older than the saved one and no longer
  pending (`RunsNumbered`).  The step that needs all of it is `HandleCreated`: the
  thread is back in its select, so the trigger was saved, so the id that gets its
  prompt now cannot be handed out again.
* `BooksAlwaysAgree` (`CronBooksAgree`).  An error of the kernel carries no run id
  and is booked for the oldest pending run.  `BookInv` shows that this is the right
  one: run ids grow along the answers in the inbox and on along the requests in the
  kernel's queue (`QueuesInOrder`), they grow along `pending_order`
  (`PendingInOrder`), and both are exactly the pending runs (`PendingIsBooked`), so
  the two orders begin with the same run.  `SessionInv` (only prompted sessions
  work or stop; what is about to be prompted is mounted) gives that a prompt finds
  its session, `StatusInv` that the status shown fits the runs.
* `TasksAlwaysKeepOwner` (`TaskKeepsOwner`, a conjunct of `TasksStayApart`) assumes
  that at most one session is `Paired`, which section 2 argues from the code: each
  session numbers its tasks from `cron_0001`, so two sessions that could register
  would replace each other's tasks.

* `OneSessionAlways` (`OneSessionPerTask`, the other conjunct of `TasksStayApart`)
  says of the sessions what `OneRunAlways` says of cron's books.  `WorkInv` ties the
  two: a session that works is an active run and no event that would end it is on
  its way, and the same holds of a run whose prompt is still in the kernel's queue
  unless its session is gone.  It assumes `~CompactFails`, because a failed
  compaction ends the run in the books while the session goes on (section 4).

### Host

`HostProofs` assumes `HostAssumption`.  `NoOrphanAlways`,
`AnswerAlwaysHasListener` and `HandledOnceAlways` hold for any number of threads
that interleave between the regions of the registry's lock; `OneKernelAlways`
assumes callers that take turns (`Serial`), since two threads do open two kernels
(section 4).  `OneOwnerAlways` collects them as `OneOwner`.  `MessageInv` says that a
message is at the kernel its caller holds, in its queue or answered and not both,
and only after the caller's last send; `ListenInv` that a caller about to send has a
kernel and, when it wants the answer, listens to that one; `TurnInv` that among
callers that take turns one is at work, and that from the moment it empties the
registry until it fills it the only kernel is its own.

### Channel

`ChannelProofs` assumes `ChannelAssumption`: types, and that a session's address is
not a service's, which holds since addresses are variants of an enum.
`AnswersAlwaysOwn` (`AnswerIsOwn`), `PendingAlwaysBacked` (`PendingIsBacked`) and
`MessagesAlwaysInOrder` (`SameWayInOrder`) are conjuncts of `AnswersAreMatched`, here
for any number of inputs, sessions and chunks of output and whichever services run.
Two arguments meet in `Matched`.
Calls to the workspace and the terminal carry the platform's id: no two messages on
their way carry the same one, in one queue (`Apart`) or in two (`Split`), and each
one is pending, so taking an answer takes its request and leaves no message without
one.  The kernel's answers carry none: read from the front, the answers in the inbox
and then the queries in the kernel's queue are about growing requests, and the
pending queue holds just these in growing order (`Order`), so both begin with the
same request.  `Backed` adds the other direction.  That the first argument does not
disturb the second is `Shape`: which messages carry an id, and that a query never
does.  Once a failure has ended the kernel no service takes a step, and only
`AnswerIsOwn` is claimed.  `OrderTake`, `TerminalTaken` and `WorkspaceTaken` are the
lemmas where an answer is matched.

For the order of messages `Lines` follows a message from the platform to its session.
One without `data:` files goes there at once.  One with such files is a call to the
workspace, an answer to the channel and a call to the session, and waits in five
places on its way (the kernel's queue three times, the workspace's and the channel's
inbox).  In each place the requests grow (`Rising`), and each place holds smaller
requests than the ones before it on the way (`DataLine`, a `Chain` that ends with
what the sessions took), so a step that moves the first of one place to the end of
the next keeps all of it.  `Logged` says that such a message is about a request of
its kind; with `Matched`, the entry the channel takes for a materialized message is
the one of that request (`HandlePosts`).  Messages of the two kinds may overtake each
other, and no order between them is claimed.

### Tool batch

`ToolBatchProofs` assumes `BatchAssumption`, the types of the bounds.
`BatchAlwaysKeepsOrder` (`BatchKeepsOrder`) is made of `BatchAlwaysComplete`,
`SerialAlwaysInOrder` and `NothingEverStartsAfterInterrupt`; `ProgressAlwaysOnce`
stands beside them.  `BatchInv` follows the worker's walk over the segments:
everything before the segment has answered or panicked and nothing behind it was
started (`ThreadsInv`); a segment with a serial operation has no other
(`SegmentInv`); the results so far are exactly those of the operations before the
segment (`ResultsInv`), which makes their order that of the calls whatever order
the threads end in; an operation is reported when it answered and never again
(`ReportsInv`); and the interrupt stays in its channel until the worker received
it, after which the worker only drains (`TokenInv`).

### Telegram

`TelegramProofs` assumes `TelegramAssumption` (users and groups are finite
disjoint sets, the configured administrators are users).  `IngressAlwaysDurable` is
`IngressIsDurable`, carried by `TelegramInv`, and holds for private chats and groups,
with administrators of the configuration or without, and with writes of the security
state that fail at any time.  The batch in hand is a run of updates, all before it
were handled, and the offset is that of the update in hand (`HandInv`): a poll
therefore confirms nothing that was not handled.  At most one administrator is made
by writing first, none when the configuration names one, and who acts as one in
memory (`Power`) has the authority the property speaks of (`SecurityInv`): while
every write succeeds the administrator is on disk before anything is done in its
name, otherwise it is somebody who was made administrator, possibly lost by a
restart.  What was told is saved (`ToldInv`): the note follows the write, and a
failed write sends none.  Whatever is under way to a conversation was granted by such
an authority (`ReceivedInv`), so that a restart between the two cannot take it back.
The table of ids is
one to one with its next index behind all of them (`IdInv`), and conversations hold
the messages of the chat the table names (`ConvInv`).  The last part, and with it
`ConversationsSeparate`, is stated for `MaxSaveErrors = 0`: when the table cannot be
written the new id is in memory only, and a restart hands it out again (section 4).

### Tool binary

`ToolBinary` holds its theorem itself.  `BinaryAlwaysWhole` (`BinaryIsWhole`)
follows from `CacheInv`: the helper that is waited for is the only one there is, the
file it copies to is its own while it copies and complete when it renames.  This is
stated for `MaxCrashes = 0`: a helper that outlives a killed manager shares the
`.incoming` file with the next one.  `ToolBinaryAssumption` gives the constants their
types and says that the empty string, which marks a helper nobody waits for, is no
client.

### Only model-checked

* `MessagesAreAppended`, `ConversationMoves`, `RequestsAreServed`, `WorkEnds` and
  `SilentRequestIsSuperseded`: liveness under fairness, which this prover does not
  reach.
* `SplitsAreFaithful`, `ContextIsFaithful`, `FilesAreSafe`, and the screen of
  `ShellTellsTruth` and `TerminalIsFaithful`: they are about what a recursive
  definition computes (`TelegramSplit`, `Compression`, `FsTool`, the emulator's
  loops), which needs induction over data.
* `KernelKeepsServices`, `AgentCallsAgree`, and the other properties of `channels`,
  `tools` and `services`; of `AnswersAreMatched` only `ShowsOwnSession`.  They are
  safety properties of finite control with bounded queues and could be proved along
  the lines above.
  `KernelKeepsServices` comes next: like `Channel` it needs that each call on its
  way has its caller, and like `Cron` it compares the state in memory with the
  manifest between two writes.

## 6. Not modelled

* The token estimator, the tool schemas and the texts of prompts: they are
  numbers and wording that the models leave free.
* Web search, web fetch and image providers, and the request encodings beyond what
  `Payload` keeps of them: single requests without a protocol of their own.
* Menus of the Telegram channel, its mark-up parser, HTTP routing and
  authentication of the web channel: parsing and formatting.
* Configuration, setup, sandbox and process start-up: read once, before anything
  runs concurrently.
* Client applications.
* A torn write of `session.json`, a panic of a batch worker outside an operation
  and a machine that hangs: the hazards name the lines where they would bite.
