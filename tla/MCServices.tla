---------------------------- MODULE MCServices -----------------------------
(*****************************************************************************)
(* The provider client and the services that keep files, for TLC, each on a  *)
(* small instance of its own: Codex requests, streams and tokens, memory,    *)
(* upgrades of the workdir and of an old session.json, the tool binary       *)
(* service, the workspace service, the skill store, what a session tells its *)
(* model of changed files, and how its history is shortened and sent. A      *)
(* behaviour runs one part.                                                  *)
(*****************************************************************************)
EXTENDS ToolBinary, Naturals, Sequences, FiniteSets, TLC

\* The part that runs, and the state of every part.
VARIABLES part, history, turn, synced, current, context, socket, request,
          responses, hidden, answered, nextItem, faults, stage, deltas,
          named, output, active, streamed, shown, response, auth_disk,
          cached, pc, used, again, issued, accepted, rotates, expired,
          refused, lost, auth_faults, stored, manifest, status, writes_job,
          work, known, births, fruitless, early, requests, writes_crashes,
          ticks, older_disk, proc, older_current, todo, older_crashes,
          legacy_pc, frame, initial, pending_data, legacy_history,
          all_messages, active_provider_request, active_tool_batch,
          pending_continuation, next_turn_id, next_batch_id,
          provider_context, grace_timer, next_timer_id, legacy_disk, client,
          request_rx, sent, restarts, session_context, session_active,
          abort_queued, provider_threads, provider_event_rx,
          legacy_streamed, running_batch, worker_done, tool_completion_rx,
          timers, internal_event_rx, grace_elapsed, renewed, mode, sendMode,
          inbox, cur, routes_todo, routes_disk, attach, refs, answers,
          touched, clobbered, writes, now, agent, asked, alive, dir, rooted,
          phase, skills_job, op, up, base, skills_synced, gone, edits, ops,
          skills_crashes, foreign, file, memory, comp, skill, hist,
          notices_disk, notices_pc, notices_queue, notices_todo, pending,
          notices_lost, count, chat_history, said, chat_lost, next,
          appended, compactions, prunes

Provider == INSTANCE Codex WITH
    Client <- "any", MaxTurns <- 2, MaxItems <- 4, MaxRetries <- 1,
    MaxFaults <- 2

Actor == INSTANCE Codex WITH
    Client <- "actor", MaxTurns <- 2, MaxItems <- 4, MaxRetries <- 1,
    MaxFaults <- 2

Stream == INSTANCE CodexStream WITH
    Calls <- {"c1", "c2"}, Others <- {"m1"}, Reasoning <- {}, MaxDeltas <- 1

Reason == INSTANCE CodexStream WITH
    Calls <- {"c1"}, Others <- {"m1"}, Reasoning <- {"r1"}, MaxDeltas <- 1

Auth == INSTANCE CodexAuth WITH
    Workers <- {"w1", "w2"}, MaxTokens <- 3, MaxFaults <- 1, disk <-
    auth_disk, faults <- auth_faults

Writes == INSTANCE Memory WITH
    Scope <- "conversation", Agents <- {"a1"}, Subjects <- {-1, 0, 1}, Texts
    <- {-1, 1, 2}, DedupeModel <- FALSE, CompactModel <- FALSE, Soft <- 9,
    Hard <- 9, MaxActive <- 2, MaxRequests <- 4, MaxCrashes <- 0, MaxTicks
    <- 0, CandidateLimit <- 2, job <- writes_job, crashes <- writes_crashes

Model == INSTANCE Memory WITH
    Scope <- "public", Agents <- {"a1"}, Subjects <- {0, 1}, Texts <- {1,
    2}, DedupeModel <- TRUE, CompactModel <- FALSE, Soft <- 9, Hard <- 9,
    MaxActive <- 2, MaxRequests <- 3, MaxCrashes <- 1, MaxTicks <- 0,
    CandidateLimit <- 1, job <- writes_job, crashes <- writes_crashes

Compaction == INSTANCE Memory WITH
    Scope <- "user", Agents <- {"a1"}, Subjects <- {0}, Texts <- {1, 2},
    DedupeModel <- FALSE, CompactModel <- TRUE, Soft <- 1, Hard <- 2,
    MaxActive <- 4, MaxRequests <- 3, MaxCrashes <- 0, MaxTicks <- 1,
    CandidateLimit <- 4, job <- writes_job, crashes <- writes_crashes

Filter == INSTANCE Memory WITH
    Scope <- "user", Agents <- {"a1"}, Subjects <- {0, 1}, Texts <- {1, 2},
    DedupeModel <- FALSE, CompactModel <- FALSE, Soft <- 1, Hard <- 2,
    MaxActive <- 3, MaxRequests <- 4, MaxCrashes <- 0, MaxTicks <- 0,
    CandidateLimit <- 3, job <- writes_job, crashes <- writes_crashes

Older == INSTANCE Upgrade WITH
    Start <- 6, RemoteUp <- TRUE, TornWrites <- FALSE, MaxCrashes <- 2, disk
    <- older_disk, current <- older_current, crashes <- older_crashes

Remote == INSTANCE Upgrade WITH
    Start <- 12, RemoteUp <- FALSE, TornWrites <- FALSE, MaxCrashes <- 2,
    disk <- older_disk, current <- older_current, crashes <- older_crashes

Cut == INSTANCE Upgrade WITH
    Start <- 6, RemoteUp <- TRUE, TornWrites <- TRUE, MaxCrashes <- 2, disk
    <- older_disk, current <- older_current, crashes <- older_crashes

Party == INSTANCE Upgrade WITH
    Start <- 39, RemoteUp <- TRUE, TornWrites <- FALSE, MaxCrashes <- 2,
    disk <- older_disk, current <- older_current, crashes <- older_crashes

Legacy == INSTANCE SessionActor WITH
    Requests <- {"user", "continue", "cancel"}, MaxRequests <- 2, MaxSteps
    <- 1, MaxStreams <- 0, MaxRestarts <- 1, MaxAttempts <- 1, Compressor <-
    FALSE, TooLarge <- FALSE, LegacyDisk <- TRUE, pc <- legacy_pc, history
    <- legacy_history, disk <- legacy_disk, streamed <- legacy_streamed

Routes == INSTANCE Workspace WITH
    Files <- {"a"}, Overlay <- {"o"}, Ops <- {"list", "delete", "write",
    "move", "config", "root", "bad"}, FirstMode <- "fixed", MaxRequests <-
    2, MaxAgentWrites <- 0, MaxTicks <- 0, Faults <- FALSE, todo <-
    routes_todo, disk <- routes_disk

FileOps == INSTANCE Workspace WITH
    Files <- {"a"}, Overlay <- {}, Ops <- {"write", "read", "upload",
    "download"}, FirstMode <- "selectable", MaxRequests <- 2, MaxAgentWrites
    <- 1, MaxTicks <- 0, Faults <- TRUE, todo <- routes_todo, disk <-
    routes_disk

Moves == INSTANCE Workspace WITH
    Files <- {"a", "b"}, Overlay <- {}, Ops <- {"write", "move"}, FirstMode
    <- "fixed", MaxRequests <- 1, MaxAgentWrites <- 2, MaxTicks <- 0, Faults
    <- FALSE, todo <- routes_todo, disk <- routes_disk

Skills == INSTANCE Skill WITH
    Convs <- {"c1", "c2"}, Active <- {"c1"}, Edits <- {"c1"}, EditDuring <-
    FALSE, Upstreamed <- FALSE, MaxEdits <- 2, MaxOps <- 3, MaxCrashes <- 1,
    MaxForeign <- 0, job <- skills_job, synced <- skills_synced, crashes <-
    skills_crashes

Upstream == INSTANCE Skill WITH
    Convs <- {"c1"}, Active <- {"c1"}, Edits <- {"c1"}, EditDuring <- FALSE,
    Upstreamed <- TRUE, MaxEdits <- 2, MaxOps <- 2, MaxCrashes <- 1,
    MaxForeign <- 1, job <- skills_job, synced <- skills_synced, crashes <-
    skills_crashes

Notices == INSTANCE RuntimeMetadata WITH
    Lines <- {"a"}, Texts <- {"", "x"}, MaxVersion <- 1, MaxEdits <- 2,
    MaxTurns <- 2, MaxCompactions <- 1, MaxFaults <- 1, MaxCrashes <- 0,
    disk <- notices_disk, pc <- notices_pc, queue <- notices_queue, todo <-
    notices_todo, lost <- notices_lost

Diffs == INSTANCE RuntimeMetadata WITH
    Lines <- {"a", "b"}, Texts <- {""}, MaxVersion <- 1, MaxEdits <- 2,
    MaxTurns <- 2, MaxCompactions <- 1, MaxFaults <- 0, MaxCrashes <- 1,
    disk <- notices_disk, pc <- notices_pc, queue <- notices_queue, todo <-
    notices_todo, lost <- notices_lost

Chat == INSTANCE Compression WITH
    Models <- {[provider |-> p, sees |-> TRUE, draws |-> FALSE] : p \in
    {"codex", "responses", "completion", "claude"}} \cup {[provider |-> p,
    sees |-> FALSE, draws |-> TRUE] : p \in {"codex", "completion"}},
    UserPictures <- {"none", "image"}, Answers <- {<<"text">>, <<"reason",
    "file", "call", "text", "call">>}, ResultPicture <- "image", Threshold
    <- 4, RetainRecent <- 3, MaxPreserved <- 1, MaxMessages <- 5,
    MaxCompactions <- 2, MaxPrunes <- 1, history <- chat_history, lost <-
    chat_lost

Loads == INSTANCE RuntimeMetadata WITH
    Lines <- {}, Texts <- {""}, MaxVersion <- 3, MaxEdits <- 2, MaxTurns <-
    2, MaxCompactions <- 1, MaxFaults <- 1, MaxCrashes <- 1, disk <-
    notices_disk, pc <- notices_pc, queue <- notices_queue, todo <-
    notices_todo, lost <- notices_lost

\* What the components assume of their constants.
ASSUME SuiteAssumption ==
    /\ ToolBinaryAssumption
    /\ Provider!CodexAssumption
    /\ Actor!CodexAssumption
    /\ Stream!CodexStreamAssumption
    /\ Reason!CodexStreamAssumption
    /\ Auth!CodexAuthAssumption
    /\ Writes!MemoryAssumption
    /\ Model!MemoryAssumption
    /\ Compaction!MemoryAssumption
    /\ Filter!MemoryAssumption
    /\ Older!UpgradeAssumption
    /\ Remote!UpgradeAssumption
    /\ Cut!UpgradeAssumption
    /\ Party!UpgradeAssumption
    /\ Routes!WorkspaceAssumption
    /\ FileOps!WorkspaceAssumption
    /\ Moves!WorkspaceAssumption
    /\ Skills!SkillAssumption
    /\ Upstream!SkillAssumption
    /\ Notices!RuntimeMetadataAssumption
    /\ Diffs!RuntimeMetadataAssumption
    /\ Chat!CompressionAssumption
    /\ Loads!RuntimeMetadataAssumption

codexVars == <<history, turn, synced, current, context, socket, request,
    responses, hidden, answered, nextItem, faults>>
codexStreamVars == <<stage, deltas, named, output, active, streamed, shown,
    response>>
codexAuthVars == <<auth_disk, cached, pc, used, again, issued, accepted,
    rotates, expired, refused, lost, auth_faults>>
memoryVars == <<stored, manifest, status, writes_job, work, known, births,
    fruitless, early, requests, writes_crashes, ticks>>
upgradeVars == <<older_disk, proc, older_current, todo, older_crashes>>
sessionActorVars == <<legacy_pc, frame, initial, pending_data,
    legacy_history, all_messages, active_provider_request,
    active_tool_batch, pending_continuation, next_turn_id, next_batch_id,
    provider_context, grace_timer, next_timer_id, legacy_disk, client,
    request_rx, sent, restarts, session_context, session_active,
    abort_queued, provider_threads, provider_event_rx, legacy_streamed,
    running_batch, worker_done, tool_completion_rx, timers,
    internal_event_rx, grace_elapsed, renewed>>
workspaceVars == <<mode, sendMode, inbox, cur, routes_todo, routes_disk,
    attach, refs, answers, touched, clobbered, writes, now, agent, asked,
    alive>>
skillVars == <<dir, rooted, phase, skills_job, op, up, base, skills_synced,
    gone, edits, ops, skills_crashes, foreign>>
runtimeMetadataVars == <<file, memory, comp, skill, hist, notices_disk,
    notices_pc, notices_queue, notices_todo, pending, notices_lost, count>>
compressionVars == <<chat_history, said, chat_lost, next, appended,
    compactions, prunes>>

\* Only the chosen part takes steps.
Others(p) ==
    /\ UNCHANGED part
    /\ p # "binary" => UNCHANGED vars
    /\ p \notin {"provider", "actor"} => UNCHANGED codexVars
    /\ p \notin {"stream", "reason"} => UNCHANGED codexStreamVars
    /\ p # "auth" => UNCHANGED codexAuthVars
    /\ p \notin {"writes", "model", "compaction", "filter"} => UNCHANGED memoryVars
    /\ p \notin {"older", "remote", "cut", "party"} => UNCHANGED upgradeVars
    /\ p # "legacy" => UNCHANGED sessionActorVars
    /\ p \notin {"routes", "files", "moves"} => UNCHANGED workspaceVars
    /\ p \notin {"skill", "upstream"} => UNCHANGED skillVars
    /\ p \notin {"notices", "diffs", "loads"} => UNCHANGED runtimeMetadataVars
    /\ p # "history" => UNCHANGED compressionVars

SuiteInit ==
    /\ part \in {"binary", "provider", "actor", "stream", "reason", "auth", "writes", "model", "compaction", "filter", "older", "remote", "cut", "party", "legacy", "routes", "files", "moves", "skill", "upstream", "notices", "diffs", "history", "loads"}
    /\ Init
    /\ IF part = "actor" THEN Actor!Init ELSE Provider!Init
    /\ IF part = "reason" THEN Reason!Init ELSE Stream!Init
    /\ part \notin {"stream", "reason"} => named = [i \in {"c1", "c2"} |-> "id"]
    /\ Auth!Init
    /\ part # "auth" => rotates /\ auth_disk.refresh = 1
    /\ IF part = "model" THEN Model!Init ELSE IF part = "compaction" THEN Compaction!Init ELSE IF part = "filter" THEN Filter!Init ELSE Writes!Init
    /\ IF part = "remote" THEN Remote!Init ELSE IF part = "cut" THEN Cut!Init ELSE IF part = "party" THEN Party!Init ELSE Older!Init
    /\ Legacy!Init
    /\ IF part = "files" THEN FileOps!Init ELSE IF part = "moves" THEN Moves!Init ELSE Routes!Init
    /\ IF part = "upstream" THEN Upstream!Init ELSE Skills!Init
    /\ IF part = "notices" THEN Notices!Init ELSE IF part = "diffs" THEN Diffs!Init ELSE IF part = "loads" THEN Loads!Init ELSE file = 0 /\ memory = 0 /\ comp = 0 /\ skill = 0 /\ hist = 0 /\ notices_disk = 0 /\ notices_pc = 0 /\ notices_queue = 0 /\ notices_todo = 0 /\ pending = 0 /\ notices_lost = 0 /\ count = 0
    /\ IF part = "history" THEN Chat!Init ELSE chat_history = 0 /\ said = 0 /\ chat_lost = 0 /\ next = 0 /\ appended = 0 /\ compactions = 0 /\ prunes = 0

SuiteNext ==
    \/ part = "binary" /\ Next /\ Others("binary")
    \/ part = "provider" /\ Provider!Next /\ Others("provider")
    \/ part = "actor" /\ Actor!Next /\ Others("actor")
    \/ part = "stream" /\ Stream!Next /\ Others("stream")
    \/ part = "reason" /\ Reason!Next /\ Others("reason")
    \/ part = "auth" /\ Auth!Next /\ Others("auth")
    \/ part = "writes" /\ Writes!Next /\ Others("writes")
    \/ part = "model" /\ Model!Next /\ Others("model")
    \/ part = "compaction" /\ Compaction!Next /\ Others("compaction")
    \/ part = "filter" /\ Filter!Next /\ Others("filter")
    \/ part = "older" /\ Older!Next /\ Others("older")
    \/ part = "remote" /\ Remote!Next /\ Others("remote")
    \/ part = "cut" /\ Cut!Next /\ Others("cut")
    \/ part = "party" /\ Party!Next /\ Others("party")
    \/ part = "legacy" /\ Legacy!Next /\ Others("legacy")
    \/ part = "routes" /\ Routes!Next /\ Others("routes")
    \/ part = "files" /\ FileOps!Next /\ Others("files")
    \/ part = "moves" /\ Moves!Next /\ Others("moves")
    \/ part = "skill" /\ Skills!Next /\ Others("skill")
    \/ part = "upstream" /\ Upstream!Next /\ Others("upstream")
    \/ part = "notices" /\ Notices!Next /\ Others("notices")
    \/ part = "diffs" /\ Diffs!Next /\ Others("diffs")
    \/ part = "history" /\ Chat!Next /\ Others("history")
    \/ part = "loads" /\ Loads!Next /\ Others("loads")

suiteVars == <<part, vars, codexVars, codexStreamVars, codexAuthVars, memoryVars, upgradeVars, sessionActorVars, workspaceVars, skillVars, runtimeMetadataVars, compressionVars>>

SuiteSpec == SuiteInit /\ [][SuiteNext]_suiteVars

-----------------------------------------------------------------------------
\* What the server worked on, suffixes put after the responses they continue,
\* is what the caller asked, whatever was lost or forgotten on the way.
ServerSeesRequest ==
    /\ part = "provider" => Provider!ServerSeesRequest
    /\ part = "actor" => Actor!ServerSeesRequest

\* A request holds the history of the session: the context that is kept up to
\* date by appending never drifts from it.
RequestIsHistory == part = "actor" => Actor!RequestIsHistory

\* No request of the session continues a response of an earlier turn.
TurnsAreIsolated == part = "actor" => Actor!TurnsAreIsolated

\* The input of a call is shown piece by piece or whole, never both, never
\* twice, and no call is left out.
InputShownOnce ==
    /\ part = "stream" => Stream!InputShownOnce
    /\ part = "reason" => Reason!InputShownOnce

\* The response that is returned holds every item once, as it was finished.
ResponseIsComplete ==
    /\ part = "stream" => Stream!ResponseIsComplete
    /\ part = "reason" => Reason!ResponseIsComplete

\* Text is shown under the item it belongs to.
TextIsAttributed ==
    /\ part = "stream" => Stream!TextIsAttributed
    /\ part = "reason" => Reason!TextIsAttributed

\* The login survives what workers do at the same time: while none is about
\* to write, and no renewal was lost to a fault on its way from the server
\* into the file, auth.json holds the refresh token the server accepts, if it
\* ever held one.
LoginSurvives == Auth!LoginSurvives

\* A request that is answered with failure has changed nothing, also when the
\* model's decision names unknown entries.
FailureChangesNothing == part = "model" => Model!FailureChangesNothing

\* A write that is answered with success and was not taken for a variant of
\* some other entry has its subject and text in the memory at that moment, as
\* far as the service can tell them apart; the variant that is only touched
\* is the one way for a write to be acknowledged and not kept.
WriteIsStored == part = "writes" => Writes!WriteIsStored

\* The local rules keep one entry per subject that has tokens, as long as all
\* entries can be candidates.
OneEntryPerSubject == part = "writes" => Writes!OneEntryPerSubject

\* No two entries have the same id, so an id names at most one entry.
IdsAreUnique == part = "writes" => Writes!IdsAreUnique

\* A memory that is as it was is not compacted for its size a third time: two
\* results that are no smaller raise the threshold above it.
FruitlessIsBounded ==
    /\ part = "compaction" => Compaction!FruitlessIsBounded
    /\ part = "filter" => Filter!FruitlessIsBounded

\* Whatever the workdir held is in some file whenever no upgrade is under
\* way, whichever step it was cut after and whatever was run twice, if the
\* cut does not fall inside a write.
NothingLost ==
    /\ part = "older" => Older!NothingLost
    /\ part = "remote" => Remote!NothingLost
    /\ part = "party" => Party!NothingLost

\* When the server starts to serve, everything is where the services look for
\* it: the history in the log of the foreground session, unless it comes from
\* PartyClaw, the seen state, the settings, the tasks, the attachments (under
\* a copy's name when the name was taken), the authorizations and the skills.
EverythingArrives ==
    /\ part = "older" => Older!EverythingArrives
    /\ part = "remote" => Remote!EverythingArrives
    /\ part = "party" => Party!EverythingArrives

\* The conversation's link to the skill memory points at the new directory
\* once the server serves, although the repair removes it before it makes it
\* again.
LinkPoints ==
    /\ part = "older" => Older!LinkPoints
    /\ part = "remote" => Remote!LinkPoints
    /\ part = "cut" => Cut!LinkPoints
    /\ part = "party" => Party!LinkPoints

\* A failure that offered to continue is backed by a continuation the actor
\* still holds and can resume.
OfferIsBacked == Legacy!OfferIsBacked

\* No saved message belongs to a turn number that a restarted actor would
\* allocate again.
SavedTurnsNotReused == Legacy!SavedTurnsNotReused

\* The request that the provider works on has every tool call answered, also
\* when the saved history it was built from ends in the middle of a round.
RequestIsClosed == Legacy!RequestIsClosed

\* Every path a request reaches is served from the side the configuration in
\* force when the request was sent asks for: .stellaclaw from the
\* conversation directory, everything else from the workspace of the mode
\* (resolve_workspace_target), whatever updates wait in the inbox.
RoutedByConfig == part = "routes" => Routes!RoutedByConfig

\* A create or a move destroys at most what the agent wrote after the request
\* was taken, between the check that found nothing there and the call that
\* writes; a create in the conversation directory destroys not even that, for
\* create_new checks again as it opens the file.
CreateDestroysNothing ==
    /\ part = "routes" => Routes!CreateDestroysNothing
    /\ part = "files" => FileOps!CreateDestroysNothing
    /\ part = "moves" => Moves!CreateDestroysNothing

\* A skill directory never mixes files of two versions, in the store or in a
\* workspace, whichever call the process was killed at and whatever the
\* killed copy left behind (copy_skill_atomically).  A removal that was cut
\* may leave some of one version's files.
OneVersion == part = "skill" => Skills!OneVersion

\* When a persist was answered, the store and every conversation's workspace
\* hold the same files of the same version, and that is what each
\* conversation can load (persist_skill with
\* sync_skill_to_conversation_workspaces, load_skill).
AckMeansSynced == part = "skill" => Skills!AckMeansSynced

\* A skill whose deletion was answered is in no workspace any more, until an
\* agent stages it again (persist_skill, Delete).
DeletedIsGone == part = "skill" => Skills!DeletedIsGone

\* The upstream never loses a commit, whoever pushes between the fetch and
\* the push and however the fetch failed (sync_skill_to_upstream_repo).
UpstreamGrows == Upstream!UpstreamGrows

\* A turn that is tried again, or a restart, tells nothing twice: two notices
\* in a row never say the same of a plain component, unless one between them
\* was lost.
ToldOnce ==
    /\ part = "notices" => Notices!ToldOnce
    /\ part = "diffs" => Diffs!ToldOnce
    /\ part = "loads" => Loads!ToldOnce

\* When the model is asked, the snapshot with the notices still in the
\* history is what was observed last: a compaction that keeps old notices, or
\* differences of the memory that the new snapshot already holds, changes
\* nothing.  The only exceptions are notices lost with a failed append or a
\* pruned head, and a memory that was switched off and on again, until a
\* compaction drops what the history said of it before.
KnowsLatest ==
    /\ part = "notices" => Notices!KnowsLatest
    /\ part = "diffs" => Diffs!KnowsLatest
    /\ part = "loads" => Loads!KnowsLatest

\* A loaded skill that the history still shows is shown as it was when the
\* user last spoke, or newer: unless its notice was lost, or the skill was
\* gone when the user spoke.
SkillIsFresh ==
    /\ part = "notices" => Notices!SkillIsFresh
    /\ part = "diffs" => Diffs!SkillIsFresh
    /\ part = "loads" => Loads!SkillIsFresh

\* In every request each call has one output after it and each output its
\* call before it; for all builders but Codex's (whose items may be
\* interleaved with text) only calls and outputs stand between the two.
\* Compaction, preserved calls and pruning must all keep the exchanges whole
\* (compressor.rs:769-896, actor.rs:3475): providers reject a request that
\* breaks one.
AnswersFollowCalls == part = "history" => Chat!AnswersFollowCalls

\* A request holds a picture only for a model that sees, shows it once, and
\* carries state only Codex can read to no other provider
\* (media_normalizer.rs:97-140, providers/mod.rs:344-381).
RequestFits == part = "history" => Chat!RequestFits

\* Every request tells all that was ever said in the conversation, in full or
\* in a summary, but for the losses the code has: what a prune dropped with a
\* warning, what a generic summary overlooks, and what only Codex can read.
NothingForgotten == part = "history" => Chat!NothingForgotten

\* The tail a compaction keeps is the longest one of whole exchanges within
\* the budget, or the last exchange when not even that fits
\* (compressor.rs:491-523).
TailIsLongest == part = "history" => Chat!TailIsLongest

\* The Codex server works on the request the client means and the client
\* reports the response it gave, whatever is remembered, lost, repeated or
\* cut into pieces, and workers that share a login do not lose it to each
\* other.
CodexIsFaithful ==
    /\ part = "provider" => Provider!TypeOK
    /\ part = "actor" => Actor!TypeOK
    /\ ServerSeesRequest
    /\ RequestIsHistory
    /\ TurnsAreIsolated
    /\ InputShownOnce
    /\ ResponseIsComplete
    /\ TextIsAttributed
    /\ LoginSurvives

\* Memory stores what it acknowledges unless it takes it for a variant of
\* another entry, changes nothing when it refuses, keeps one entry per id
\* and, while all entries are candidates, per subject, and does not compact
\* again what it could not shrink.
MemoryIsKept ==
    /\ part = "writes" => Writes!TypeOK
    /\ part = "model" => Model!TypeOK
    /\ part = "compaction" => Compaction!TypeOK
    /\ part = "filter" => Filter!TypeOK
    /\ FailureChangesNothing
    /\ WriteIsStored
    /\ OneEntryPerSubject
    /\ IdsAreUnique
    /\ FruitlessIsBounded

\* A workdir of PartyClaw, of 0.6, or of 0.12 with its host out of reach
\* keeps all its data over an upgrade that is cut between any two writes, and
\* once the server serves all of it but the history of PartyClaw is where the
\* current code looks for it; a session that was saved in the middle of a
\* tool round goes on.
UpgradeKeepsData ==
    /\ NothingLost
    /\ EverythingArrives
    /\ LinkPoints
    /\ OfferIsBacked
    /\ SavedTurnsNotReused
    /\ RequestIsClosed

\* A workspace request works on the side its configuration names, and one
\* that may not overwrite destroys nothing that was there when it was taken;
\* a local create not even what is written after its check.
WorkspaceIsSafe ==
    /\ RoutedByConfig
    /\ CreateDestroysNothing

\* A skill directory never mixes two versions, an acknowledged change is in
\* the store and in every workspace, and an upstream never loses a commit.
SkillsAreWhole ==
    /\ [](/\ OneVersion
          /\ AckMeansSynced
          /\ DeletedIsGone)
    /\ UpstreamGrows

\* The model knows the current version of its prompt and of the skills it
\* loaded, and was told of each once.
NoticesAreTrue ==
    /\ part = "notices" => Notices!TypeOK
    /\ part = "diffs" => Diffs!TypeOK
    /\ part = "loads" => Loads!TypeOK
    /\ ToldOnce
    /\ KnowsLatest
    /\ SkillIsFresh

\* Each request has every result after its call and only what its model
\* takes; a compaction shows the summariser all it drops and keeps the
\* longest tail the budget allows.
ContextIsFaithful ==
    /\ part = "history" => Chat!TypeOK
    /\ AnswersFollowCalls
    /\ RequestFits
    /\ NothingForgotten
    /\ TailIsLongest

=============================================================================
