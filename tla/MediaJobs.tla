------------------------------ MODULE MediaJobs ------------------------------
(***************************************************************************)
(* Provider-backed media jobs (tool_catalog/media_tools.rs).  A tool call  *)
(* starts a job, which a thread of its own runs against the provider; the  *)
(* same call, or later ones, wait for it, stop it, or are interrupted.     *)
(* Jobs are shared through a registry and three cells per job - status,    *)
(* cancel flag and abort handle - that are read and written separately.    *)
(***************************************************************************)
EXTENDS Integers, FiniteSets

CONSTANTS
    Jobs,        \* job ids
    Generation,  \* the jobs that generate images into an output directory; the others analyse
    Callers,     \* tool calls that may run at once
    MaxFiles,    \* bound: files a provider answers with
    MaxCalls,    \* bound: tool calls
    MayHang      \* a provider request may never answer by itself

MediaJobsAssumption ==
    /\ Generation \subseteq Jobs /\ {MaxFiles, MaxCalls} \subseteq Nat /\ MayHang \in BOOLEAN

VARIABLES
    reg,     \* MEDIA_JOBS: the jobs in the registry
    status,  \* Jobs -> MediaJobStatus: "none" before the start
    cancel,  \* Jobs -> the cancel flag
    abort,   \* Jobs -> the abort handle is published
    pc,      \* Jobs -> where the job's thread is
    prov,    \* Jobs -> the provider request: "none", "running", "ok", "error"
    files,   \* Jobs -> files the provider answered with
    out,     \* Jobs -> files copied to the output directory
    result,  \* Jobs -> files of the tool result
    call,    \* Callers -> [at, job, kill, wait, saw]
    told,    \* Jobs -> final answers given for the job
    lost,    \* jobs some caller was told not to exist
    calls

vars == <<reg, status, cancel, abort, pc, prov, files, out, result, call, told, lost, calls>>

thread  == <<pc, prov, files, out, result>>
answers == <<told, lost>>

NoCall == [at |-> "idle", job |-> "", kill |-> FALSE, wait |-> FALSE, saw |-> ""]

Init ==
    /\ reg = {} /\ status = [j \in Jobs |-> "none"] /\ cancel = [j \in Jobs |-> FALSE]
    /\ abort = cancel /\ pc = [j \in Jobs |-> "none"] /\ prov = pc
    /\ files = [j \in Jobs |-> 0] /\ out = files /\ result = files
    /\ call = [c \in Callers |-> NoCall] /\ told = [j \in Jobs |-> {}] /\ lost = {} /\ calls = 0

\* cancel_media_job keeps the registry locked until it returns.
RegistryFree == \A c \in Callers : call[c].at \notin {"aborting", "marking"}

--------------------------------------------------------------------------------
(* Tool calls. *)

Idle(c) == call[c] = NoCall /\ calls < MaxCalls /\ calls' = calls + 1

\* analysis_tool and image_generation_tool without an id: start_provider_job, then initial_job_result.
Start(c, j, kill, wait) ==
    /\ Idle(c) /\ RegistryFree /\ status[j] = "none"
    /\ reg' = reg \cup {j} /\ status' = [status EXCEPT ![j] = "running"]
    /\ pc' = [pc EXCEPT ![j] = "begin"]
    /\ call' = [call EXCEPT ![c] = IF wait THEN [at |-> "read", job |-> j, kill |-> kill, wait |-> TRUE, saw |-> ""] ELSE NoCall]
    /\ UNCHANGED <<cancel, abort, prov, files, out, result, answers>>

\* The same tools with an id: wait_media_job.
Wait(c, j, kill, wait) ==
    /\ Idle(c) /\ status[j] # "none"
    /\ call' = [call EXCEPT ![c] = [at |-> "read", job |-> j, kill |-> kill, wait |-> wait, saw |-> ""]]
    /\ UNCHANGED <<reg, status, cancel, abort, thread, answers>>

\* stop_media_job
Stop(c, j) ==
    /\ Idle(c) /\ status[j] # "none"
    /\ call' = [call EXCEPT ![c] = [at |-> "cancel", job |-> j, kill |-> TRUE, wait |-> FALSE, saw |-> ""]]
    /\ UNCHANGED <<reg, status, cancel, abort, thread, answers>>

At(c, where) == call[c].at = where

Goto(c, where) == call' = [call EXCEPT ![c].at = where]

Return(c) == call' = [call EXCEPT ![c] = NoCall]

\* wait_media_job reads the status under the registry's lock and acts on it afterwards.
Read(c) ==
    LET j == call[c].job IN
    /\ At(c, "read") /\ RegistryFree
    /\ IF j \notin reg THEN lost' = lost \cup {j} /\ Return(c)
       ELSE /\ call' = [call EXCEPT ![c].at = IF status[j] = "running" THEN "running" ELSE "collect",
                                    ![c].saw = status[j]]
            /\ UNCHANGED lost
    /\ UNCHANGED <<reg, status, cancel, abort, thread, told, calls>>

WaitOverOnce(c) ==
    /\ At(c, "running") /\ ~call[c].wait
    /\ IF call[c].kill THEN Goto(c, "cancel") ELSE Return(c)
    /\ UNCHANGED <<reg, status, cancel, abort, thread, answers, calls>>

\* The job is still running: the wait is over, and kills the job or leaves it.
WaitOver(c) ==
    /\ At(c, "running")
    /\ IF call[c].kill THEN Goto(c, "cancel") ELSE Return(c)
    /\ UNCHANGED <<reg, status, cancel, abort, thread, answers, calls>>

\* ... the tool call was interrupted, which leaves the job
Interrupt(c) ==
    /\ At(c, "running") /\ call[c].wait
    /\ Return(c)
    /\ UNCHANGED <<reg, status, cancel, abort, thread, answers, calls>>

\* ... or it looks again.
Again(c) ==
    /\ At(c, "running") /\ call[c].wait
    /\ Goto(c, "read")
    /\ UNCHANGED <<reg, status, cancel, abort, thread, answers, calls>>

CollectRunning(c) ==
    LET j == call[c].job IN
    /\ call[c].at \in {"collect", "running"} /\ RegistryFree
    /\ reg' = reg \ {j} /\ Return(c)
    /\ told' = IF At(c, "collect") THEN [told EXCEPT ![j] = @ \cup {call[c].saw}] ELSE told
    /\ UNCHANGED <<status, cancel, abort, thread, lost, calls>>

\* The job had ended: it leaves the registry and the status that was read is the answer.
Collect(c) ==
    LET j == call[c].job IN
    /\ At(c, "collect") /\ RegistryFree
    /\ reg' = reg \ {j} /\ Return(c)
    /\ told' = [told EXCEPT ![j] = @ \cup {call[c].saw}]
    /\ UNCHANGED <<status, cancel, abort, thread, lost, calls>>

\* cancel_media_job: the job leaves the registry and its flag is set ...
Cancel(c) ==
    LET j == call[c].job IN
    /\ At(c, "cancel") /\ RegistryFree
    /\ IF j \in reg
       THEN /\ reg' = reg \ {j} /\ cancel' = [cancel EXCEPT ![j] = TRUE]
            /\ Goto(c, "aborting") /\ UNCHANGED told
       ELSE Return(c) /\ told' = [told EXCEPT ![j] = @ \cup {"cancelled"}] /\ UNCHANGED <<reg, cancel>>
    /\ UNCHANGED <<status, abort, thread, lost, calls>>

\* ... the provider request is aborted when its handle is there already ...
Aborted(j) == prov' = IF prov[j] = "running" THEN [prov EXCEPT ![j] = "error"] ELSE prov

Abort(c) ==
    /\ At(c, "aborting")
    /\ IF abort[call[c].job] THEN Aborted(call[c].job) ELSE UNCHANGED prov
    /\ Goto(c, "marking")
    /\ UNCHANGED <<reg, status, cancel, abort, pc, files, out, result, answers, calls>>

\* ... and the status is overwritten.
MarkCancelled(c) ==
    LET j == call[c].job IN
    /\ At(c, "marking")
    /\ status' = [status EXCEPT ![j] = "cancelled"] /\ told' = [told EXCEPT ![j] = @ \cup {"cancelled"}]
    /\ Return(c)
    /\ UNCHANGED <<reg, cancel, abort, thread, lost, calls>>

--------------------------------------------------------------------------------
(* The thread of a job: start_provider_job. *)

End(j, s) == pc' = [pc EXCEPT ![j] = "end"] /\ status' = [status EXCEPT ![j] = s]

Step(j, next) == pc' = [pc EXCEPT ![j] = next] /\ UNCHANGED status

Begin(j) ==
    /\ pc[j] = "begin"
    /\ IF cancel[j] THEN End(j, "cancelled") ELSE Step(j, "start")
    /\ UNCHANGED <<reg, cancel, abort, prov, files, out, result, call, answers, calls>>

\* The fork server starts the request, or fails to.
StartRequest(j) ==
    /\ pc[j] = "start"
    /\ \/ prov' = [prov EXCEPT ![j] = "running"] /\ Step(j, "publish")
       \/ End(j, "failed") /\ UNCHANGED prov
    /\ UNCHANGED <<reg, cancel, abort, files, out, result, call, answers, calls>>

PublishLate(j) ==
    /\ \/ /\ pc[j] = "publish"
          /\ IF cancel[j] THEN End(j, "cancelled") /\ Aborted(j) ELSE Step(j, "published") /\ UNCHANGED prov
          /\ UNCHANGED abort
       \/ pc[j] = "published" /\ abort' = [abort EXCEPT ![j] = TRUE] /\ Step(j, "wait") /\ UNCHANGED prov
    /\ UNCHANGED <<reg, cancel, files, out, result, call, answers, calls>>

\* The handle is published before the flag is read again.
Publish(j) ==
    /\ pc[j] = "publish"
    /\ abort' = [abort EXCEPT ![j] = TRUE] /\ Step(j, "check")
    /\ UNCHANGED <<reg, cancel, prov, files, out, result, call, answers, calls>>

Check(j) ==
    /\ pc[j] = "check"
    /\ IF cancel[j] THEN End(j, "cancelled") /\ Aborted(j) ELSE Step(j, "wait") /\ UNCHANGED prov
    /\ UNCHANGED <<reg, cancel, abort, files, out, result, call, answers, calls>>

\* (external) the provider answers, with some files, or fails
Answer(j) ==
    /\ prov[j] = "running"
    /\ \/ prov' = [prov EXCEPT ![j] = "ok"] /\ \E n \in 0..MaxFiles : files' = [files EXCEPT ![j] = n]
       \/ prov' = [prov EXCEPT ![j] = "error"] /\ UNCHANGED files
    /\ UNCHANGED <<reg, status, cancel, abort, pc, out, result, call, answers, calls>>

FirstFile(n) == IF n = 0 THEN 0 ELSE 1

\* provider_message_to_tool_result keeps the first file; provider_message_to_output_dir_result copies them all.
Waited(j) ==
    /\ pc[j] = "wait" /\ prov[j] \in {"ok", "error"}
    /\ IF prov[j] = "error" THEN Step(j, "failing") /\ UNCHANGED result
       ELSE IF j \in Generation THEN Step(j, "copy") /\ UNCHANGED result
       ELSE Step(j, "completing") /\ result' = [result EXCEPT ![j] = FirstFile(files[j])]
    /\ UNCHANGED <<reg, cancel, abort, prov, files, out, call, answers, calls>>

CopyStopsEarly(j) ==
    /\ pc[j] = "copy"
    /\ IF (files[j] > 1 /\ out[j] = files[j] - 1) \/ out[j] = files[j]
       THEN Step(j, IF out[j] = 0 THEN "failing" ELSE "completing") /\ result' = [result EXCEPT ![j] = out[j]]
            /\ UNCHANGED out
       ELSE Step(j, "copy") /\ out' = [out EXCEPT ![j] = @ + 1] /\ UNCHANGED result
    /\ UNCHANGED <<reg, cancel, abort, prov, files, call, answers, calls>>

CopyTooMany(j) ==
    /\ pc[j] = "copy"
    /\ IF out[j] > files[j] THEN Step(j, "completing") ELSE Step(j, "copy")
    /\ out' = [out EXCEPT ![j] = IF @ > files[j] THEN @ ELSE @ + 1] /\ result' = [result EXCEPT ![j] = out[j]]
    /\ UNCHANGED <<reg, cancel, abort, prov, files, call, answers, calls>>

\* copy_provider_file_to_output_dir, file by file: a failure ends the job, and so does an answer without files.
Copy(j) ==
    /\ pc[j] = "copy"
    /\ \/ /\ out[j] = files[j]
          /\ Step(j, IF files[j] = 0 THEN "failing" ELSE "completing")
          /\ result' = [result EXCEPT ![j] = out[j]] /\ UNCHANGED out
       \/ /\ out[j] < files[j]
          /\ Step(j, "copy") /\ out' = [out EXCEPT ![j] = @ + 1] /\ UNCHANGED result
       \/ out[j] < files[j] /\ Step(j, "failing") /\ UNCHANGED <<out, result>>
    /\ UNCHANGED <<reg, cancel, abort, prov, files, call, answers, calls>>

\* The flag is read once more ...
CheckEnd(j) ==
    /\ pc[j] \in {"completing", "failing"}
    /\ IF cancel[j] THEN End(j, "cancelled")
       ELSE Step(j, IF pc[j] = "completing" THEN "completed" ELSE "failed")
    /\ UNCHANGED <<reg, cancel, abort, prov, files, out, result, call, answers, calls>>

\* ... before the status is set.
Finish(j) ==
    /\ pc[j] \in {"completed", "failed"}
    /\ End(j, pc[j])
    /\ UNCHANGED <<reg, cancel, abort, prov, files, out, result, call, answers, calls>>

--------------------------------------------------------------------------------

Thread(j) ==
    Begin(j) \/ StartRequest(j) \/ Publish(j) \/ Check(j) \/ Waited(j) \/ Copy(j) \/ CheckEnd(j) \/ Finish(j)

Call(c) == Read(c) \/ WaitOver(c) \/ Interrupt(c) \/ Again(c) \/ Collect(c) \/ Cancel(c) \/ Abort(c) \/ MarkCancelled(c)

Next ==
    \/ \E c \in Callers, j \in Jobs, k \in BOOLEAN, w \in BOOLEAN : Start(c, j, k, w) \/ Wait(c, j, k, w)
    \/ \E c \in Callers, j \in Jobs : Stop(c, j)
    \/ \E c \in Callers : Call(c)
    \/ \E j \in Jobs : Thread(j) \/ Answer(j)

Spec == Init /\ [][Next]_vars

\* The operating system runs every thread; a wait has a timeout, which passes; the provider answers unless it may hang.
FairSpec ==
    /\ Spec
    /\ \A j \in Jobs : WF_vars(Thread(j)) /\ (MayHang \/ WF_vars(Answer(j)))
    /\ \A c \in Callers : SF_vars(WaitOver(c)) /\ WF_vars(Call(c))

--------------------------------------------------------------------------------
(* Properties. *)

TypeOK ==
    /\ reg \subseteq Jobs /\ lost \subseteq Jobs
    /\ \A j \in Jobs : /\ status[j] \in {"none", "running", "completed", "failed", "cancelled"}
                       /\ prov[j] \in {"none", "running", "ok", "error"}
                       /\ out[j] \in 0..files[j] /\ result[j] \in 0..files[j]
    /\ \A c \in Callers : call[c].at \in {"idle", "read", "running", "collect", "cancel", "aborting", "marking"}

\* The request of a cancelled job is never left running: whichever of the canceller and the job's thread comes
\* second sees what the other wrote and aborts it.
NoRunawayRequest ==
    \A j \in Jobs : cancel[j] /\ prov[j] = "running" =>
        pc[j] \in {"publish", "check"} \/ \E c \in Callers : call[c].job = j /\ At(c, "aborting")

\* A job a caller was told not to know was answered for good, or is being cancelled: an interrupted or timed out
\* wait leaves the job to be waited for again.
UnknownWasAnswered ==
    \A j \in lost : told[j] # {} \/ \E c \in Callers : call[c].job = j /\ call[c].at \in {"aborting", "marking"}

\* A completed job returns every file the provider answered with.
FilesAreReturned == \A j \in Jobs : "completed" \in told[j] => result[j] = files[j]

\* The thread of a cancelled job ends, even when the provider never answers.
CancelledEnds == \A j \in Jobs : cancel[j] ~> pc[j] = "end"

\* Every tool call returns, whatever the job does.
CallsReturn == \A c \in Callers : call[c] # NoCall ~> call[c] = NoCall

===============================================================================
