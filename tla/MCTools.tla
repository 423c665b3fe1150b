------------------------------ MODULE MCTools ------------------------------
(*****************************************************************************)
(* What runs tools outside the actor, for TLC, each on a small instance of   *)
(* its own: tool batches, shell processes, media jobs and the files they     *)
(* stage, the workers of the fork server, and copies between this host and   *)
(* the remote one, and patches. A behaviour runs one part.                   *)
(*****************************************************************************)
EXTENDS ToolBatch, Naturals, Sequences, FiniteSets, TLC

\* The part that runs, and the state of every part.
VARIABLES part, os, wrote, pipe, stderr, dataQ, buffer, since, stateQ,
          status, event, cmdQ, waiter, watcher, stdin, managed, call, calls,
          known, stopped, shown, final, reg, media_status, cancel, abort,
          pc, prov, files, out, result, media_call, told, lost, media_calls,
          remote, staged, staging_call, tmp, writer, src, changes, cuts,
          client, reply, inbox, waiting, cmds, evts, server, workers, proc,
          workers_shown, ran, nextReq, nextWorker, exits, aborts, at, cur,
          tool, script, copies_staged, old, took, copies_cuts, kills, edits,
          selected_files, before, selected_ops, flag, mode, selected_pc,
          host, next, selected_result, faults

\* Two lines, different and equal.
PatchTexts == {<<"a", "n", "b", "n">>, <<"b", "n", "b", "n">>}

\* A line replaced; a context line and a second chunk; a chunk without old lines.
PatchHunks ==
    { <<<<"-", <<"b">>>>, <<"+", <<"a">>>>>>,
      <<<<" ", <<"a">>>>, <<"@@", <<>>>>, <<"-", <<"b">>>>>>,
      <<<<"+", <<"a">>>>>> }

Shell == INSTANCE ShellProcess WITH
    Callers <- {"a", "b"}, MaxCalls <- 3, MaxOut <- 2, BufferMax <- 2,
    StdinSlots <- 1, Tty <- TRUE, TimeoutSet <- TRUE, Deaf <- TRUE, Stops <-
    TRUE, Deadlines <- TRUE, BadArgs <- TRUE, Prompt <- FALSE, Slow <- TRUE

Prompt == INSTANCE ShellProcess WITH
    Callers <- {"a"}, MaxCalls <- 2, MaxOut <- 3, BufferMax <- 3, StdinSlots
    <- 1, Tty <- FALSE, TimeoutSet <- TRUE, Deaf <- TRUE, Stops <- TRUE,
    Deadlines <- TRUE, BadArgs <- FALSE, Prompt <- TRUE, Slow <- FALSE

Media == INSTANCE MediaJobs WITH
    Jobs <- {"j1"}, Generation <- {"j1"}, Callers <- {1, 2}, MaxFiles <- 2,
    MaxCalls <- 4, MayHang <- TRUE, status <- media_status, call <-
    media_call, calls <- media_calls

Staging == INSTANCE MediaStaging WITH
    Calls <- {1, 2}, Versions <- {"v1", "v2"}, MaxChanges <- 2, MaxCuts <-
    1, call <- staging_call

Workers == INSTANCE Forkserver WITH
    Sessions <- {"s1"}, Tools <- {"t1"}, MaxRequests <- 3, MaxWorkers <- 3,
    MaxExits <- 1, MaxAborts <- 0, shown <- workers_shown

Aborts == INSTANCE Forkserver WITH
    Sessions <- {"s1"}, Tools <- {"t1"}, MaxRequests <- 2, MaxWorkers <- 2,
    MaxExits <- 0, MaxAborts <- 2, shown <- workers_shown

Copies == INSTANCE Visibility WITH
    Directory <- FALSE, Methods <- {"tar", "scp"}, MaxCalls <- 2, MaxCuts <-
    1, MaxKills <- 1, MaxEdits <- 1, staged <- copies_staged, cuts <-
    copies_cuts

Dirs == INSTANCE Visibility WITH
    Directory <- TRUE, Methods <- {"tar", "scp"}, MaxCalls <- 2, MaxCuts <-
    0, MaxKills <- 0, MaxEdits <- 1, staged <- copies_staged, cuts <-
    copies_cuts

Selected == INSTANCE FsTool WITH
    Paths <- {"x", "y"}, Special <- {"y"}, Modes <- {"local", "remote"},
    Flags <- {"none", "strip"}, Texts <- PatchTexts, Hunks <- PatchHunks,
    MaxOps <- 2, MaxFaults <- 1, files <- selected_files, ops <-
    selected_ops, pc <- selected_pc, result <- selected_result

Patches == INSTANCE FsTool WITH
    Paths <- {"x", "y", "s"}, Special <- {"s"}, Modes <- {"fixed"}, Flags <-
    {"none", "check"}, Texts <- PatchTexts, Hunks <- PatchHunks, MaxOps <-
    2, MaxFaults <- 1, files <- selected_files, ops <- selected_ops, pc <-
    selected_pc, result <- selected_result

\* What the components assume of their constants.
ASSUME SuiteAssumption ==
    /\ BatchAssumption
    /\ Shell!ShellAssumption
    /\ Prompt!ShellAssumption
    /\ Media!MediaJobsAssumption
    /\ Staging!MediaStagingAssumption
    /\ Workers!ForkserverAssumption
    /\ Aborts!ForkserverAssumption
    /\ Copies!VisibilityAssumption
    /\ Dirs!VisibilityAssumption
    /\ Selected!FsToolAssumption
    /\ Patches!FsToolAssumption

shellProcessVars == <<os, wrote, pipe, stderr, dataQ, buffer, since, stateQ,
    status, event, cmdQ, waiter, watcher, stdin, managed, call, calls,
    known, stopped, shown, final>>
mediaJobsVars == <<reg, media_status, cancel, abort, pc, prov, files, out,
    result, media_call, told, lost, media_calls>>
mediaStagingVars == <<remote, staged, staging_call, tmp, writer, src,
    changes, cuts>>
forkserverVars == <<client, reply, inbox, waiting, cmds, evts, server,
    workers, proc, workers_shown, ran, nextReq, nextWorker, exits, aborts>>
visibilityVars == <<at, cur, tool, script, copies_staged, old, took,
    copies_cuts, kills, edits>>
fsToolVars == <<selected_files, before, selected_ops, flag, mode,
    selected_pc, host, next, selected_result, faults>>

\* Only the chosen part takes steps.
Others(p) ==
    /\ UNCHANGED part
    /\ p # "batch" => UNCHANGED vars
    /\ p \notin {"shell", "prompt"} => UNCHANGED shellProcessVars
    /\ p # "media" => UNCHANGED mediaJobsVars
    /\ p # "staging" => UNCHANGED mediaStagingVars
    /\ p \notin {"workers", "aborts"} => UNCHANGED forkserverVars
    /\ p \notin {"copies", "dirs"} => UNCHANGED visibilityVars
    /\ p \notin {"selected", "patch"} => UNCHANGED fsToolVars

SuiteInit ==
    /\ part \in {"batch", "shell", "prompt", "media", "staging", "workers", "aborts", "copies", "dirs", "selected", "patch"}
    /\ Init
    /\ IF part = "prompt" THEN Prompt!Init ELSE Shell!Init
    /\ Media!Init
    /\ Staging!Init
    /\ part # "staging" => remote = "v1"
    /\ IF part = "aborts" THEN Aborts!Init ELSE Workers!Init
    /\ IF part = "dirs" THEN Dirs!Init ELSE Copies!Init
    /\ part \notin {"copies", "dirs"} => at["local"] = 1 /\ at["remote"] = 2
    /\ IF part = "selected" THEN Selected!Init ELSE IF part = "patch" THEN Patches!Init ELSE selected_files = 0 /\ before = 0 /\ selected_ops = 0 /\ flag = 0 /\ mode = 0 /\ selected_pc = 0 /\ host = 0 /\ next = 0 /\ selected_result = 0 /\ faults = 0

SuiteNext ==
    \/ part = "batch" /\ Next /\ Others("batch")
    \/ part = "shell" /\ Shell!Next /\ Others("shell")
    \/ part = "prompt" /\ Prompt!Next /\ Others("prompt")
    \/ part = "media" /\ Media!Next /\ Others("media")
    \/ part = "staging" /\ Staging!Next /\ Others("staging")
    \/ part = "workers" /\ Workers!Next /\ Others("workers")
    \/ part = "aborts" /\ Aborts!Next /\ Others("aborts")
    \/ part = "copies" /\ Copies!Next /\ Others("copies")
    \/ part = "dirs" /\ Dirs!Next /\ Others("dirs")
    \/ part = "selected" /\ Selected!Next /\ Others("selected")
    \/ part = "patch" /\ Patches!Next /\ Others("patch")

suiteVars == <<part, vars, shellProcessVars, mediaJobsVars, mediaStagingVars, forkserverVars, visibilityVars, fsToolVars>>

SuiteSpec == SuiteInit /\ [][SuiteNext]_suiteVars

-----------------------------------------------------------------------------
\* What the process wrote to one stream reaches the answers in the order in
\* which it was written, and no byte twice, however reading, flushing and
\* draining interleave.  Between stdout and stderr no order is kept: each has
\* a reader of its own.
OutputInOrder ==
    /\ part = "shell" => Shell!OutputInOrder
    /\ part = "prompt" => Prompt!OutputInOrder

\* The buffer is what arrived since the last drain, or its first and its last
\* bytes when it is over the budget: only the middle is ever dropped.
OnlyMiddleIsDropped ==
    /\ part = "shell" => Shell!OnlyMiddleIsDropped
    /\ part = "prompt" => Prompt!OnlyMiddleIsDropped

\* A process is reported as finished only when it has ended or was stopped.
FinishedIsTrue ==
    /\ part = "shell" => Shell!FinishedIsTrue
    /\ part = "prompt" => Prompt!FinishedIsTrue

\* The manager forgets a process that runs only when shell_stop took it.
RunningIsManaged ==
    /\ part = "shell" => Shell!RunningIsManaged
    /\ part = "prompt" => Prompt!RunningIsManaged

\* When a call that was woken by the exit reports the end, all output is in
\* the answers, or, when it is over the budget, at least the end of a stream
\* (given that 50 ms are enough for the readers and that no drain was lost).
EndShowsLastByte == part = "prompt" => Prompt!EndShowsLastByte

\* The request of a cancelled job is never left running: whichever of the
\* canceller and the job's thread comes second sees what the other wrote and
\* aborts it.
NoRunawayRequest == Media!NoRunawayRequest

\* A job a caller was told not to know was answered for good, or is being
\* cancelled: an interrupted or timed out wait leaves the job to be waited
\* for again.
UnknownWasAnswered == Media!UnknownWasAnswered

\* A completed job returns every file the provider answered with.
FilesAreReturned == Media!FilesAreReturned

\* A staged file is never a part of a transfer, however transfers, interrupts
\* and changes interleave: what stands under a hash's name is all that the
\* host sent for the file.
StagedIsWhole == Staging!StagedIsWhole

\* A call that is about to hand the file on has seen the content the host
\* named at that moment.
ReadyWasSeen == Staging!ReadyWasSeen

\* Without cancellations and shutdowns the list of workers and the positions
\* that poll reported agree, and the fork server does not panic.
ServerSurvives == part = "workers" => Workers!ServerSurvives

\* A client's worker is free when the client uses it: no request is refused
\* because another one is under way.
NeverBusy == part = "workers" => Workers!NeverBusy

\* A request is handed to a worker at most once: it is made again only after
\* a refusal, so nothing is asked of the model twice.
RunsAtMostOnce == part = "workers" => Workers!RunsAtMostOnce

\* Whoever waits is still going to hear: a registration is held by a command
\* not yet handled, a worker that has the request, an event under way, or the
\* end of the reader.
WaiterIsServed == part = "workers" => Workers!WaiterIsServed

\* A request is answered once, by a result, an error or its cancellation, and
\* nothing of it is shown after that: also when its worker is lost, when it
\* is made again and when its completion races its cancellation.
AnswerIsLast == part = "aborts" => Aborts!AnswerIsLast

\* A path that held something is never left with nothing: the old content,
\* the copy or a backup is there, also when a timeout, a late script of an
\* earlier call and a kill meet.
NothingIsLost == Copies!NothingIsLost

\* A call that answers ok has put what it read in its place.  On the remote
\* host only a script that an earlier call gave up can come in between.
OkMeansCopied == Copies!OkMeansCopied

\* When everything has come to an end no backup is left behind.
NoBackupLeft == part = "copies" => Copies!NoBackupLeft

\* The path holds one whole version, never one copy inside another: mv would
\* put a directory into one that has not been moved away.
OneCopy == part = "dirs" => Dirs!OneCopy

\* A patch whose operations name different paths is applied as a whole or not
\* at all, unless the file system fails: what was verified still holds when
\* its turn comes.
AllOrNothing ==
    /\ part = "selected" => Selected!AllOrNothing
    /\ part = "patch" => Patches!AllOrNothing

\* Every operation of a patch that was applied, and that names paths of its
\* own, has left its file as the patch says, and an update could not have
\* meant another place.
AppliedAsMeant ==
    /\ part = "selected" => Selected!AppliedAsMeant
    /\ part = "patch" => Patches!AppliedAsMeant

\* A file changes on the host on which it lives: in a session on a fixed
\* remote host those under .stellaclaw on this host, all others on the
\* remote.
EachOnItsHost ==
    /\ part = "selected" => Selected!EachOnItsHost
    /\ part = "patch" => Patches!EachOnItsHost

\* Wherever a patch is cut, a file that it moves is at one of its two paths,
\* and whole.
MovedIsThere ==
    /\ part = "selected" => Selected!MovedIsThere
    /\ part = "patch" => Patches!MovedIsThere

\* What a shell call answers is true of its process: the output of each
\* stream in order and dropped in its middle only, complete when the process
\* has ended, ended only if it ended, and no running process that nobody
\* manages.
ShellTellsTruth ==
    /\ part = "shell" => Shell!TypeOK
    /\ part = "prompt" => Prompt!TypeOK
    /\ OutputInOrder
    /\ OnlyMiddleIsDropped
    /\ FinishedIsTrue
    /\ RunningIsManaged
    /\ EndShowsLastByte

\* A media job that is over has no request running, its result was handed out
\* with all its files, and a remote file that was staged is no cut-off part
\* and is handed on only with the content its hash stands for.
MediaIsAccounted ==
    /\ [](/\ Media!TypeOK
          /\ NoRunawayRequest
          /\ UnknownWasAnswered
          /\ FilesAreReturned
          /\ StagedIsWhole)
    /\ ReadyWasSeen

\* A request to the fork server runs at most once, is answered or refused
\* while the server lives on, and nothing of it comes after its answer.
ForkServerIsExact ==
    /\ part = "workers" => Workers!TypeOK
    /\ part = "aborts" => Aborts!TypeOK
    /\ ServerSurvives
    /\ NeverBusy
    /\ RunsAtMostOnce
    /\ WaiterIsServed
    /\ AnswerIsLast

\* Copies between the hosts and patches change what they name, completely or
\* not at all, and an ok means that it was done.
FilesAreSafe ==
    /\ [](/\ part = "copies" => Copies!TypeOK
          /\ part = "dirs" => Dirs!TypeOK
          /\ part = "selected" => Selected!TypeOK
          /\ part = "patch" => Patches!TypeOK
          /\ NoBackupLeft
          /\ OneCopy
          /\ AllOrNothing
          /\ AppliedAsMeant
          /\ EachOnItsHost
          /\ MovedIsThere)
    /\ NothingIsLost
    /\ OkMeansCopied

=============================================================================
