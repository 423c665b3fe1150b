-------------------------------- MODULE Cron --------------------------------
(***************************************************************************)
(* The cron service of a conversation: tasks that agent sessions register, *)
(* and the runs it starts for them.                                        *)
(*                                                                         *)
(* A run is a background agent session of its own.  Cron asks the kernel   *)
(* to create it, sends it the task's prompt once it is created, and learns *)
(* from its events how it ended.  Cron, the kernel and the sessions are    *)
(* threads that only send messages: every output of a service goes through *)
(* the kernel's one channel (kernel_rx), the kernel delivers in that order *)
(* and creates sessions itself.  Tasks are saved in tasks.json and mounted *)
(* sessions in the manifest; which run belongs to which session is only in *)
(* cron's memory, and the conversation may be restarted at any point.      *)
(*                                                                         *)
(* A task is the number of its id (cron_0001 is 1), a run's session is     *)
(* <<task, run id>>.  Replies to requests are left out: no state modelled  *)
(* here depends on them.  So are ListTasks and GetTaskStatus, which only   *)
(* read, and DisableTasksForOwner, which needs a StopService that nothing  *)
(* in the program sends.                                                   *)
(***************************************************************************)
EXTENDS Naturals, Sequences

CONSTANTS
    Sessions,      \* agent sessions with the cron tools
    Paired,        \* the ones whose events go to a channel of their own id
    Requests,      \* the kinds of request they send
    Ends,          \* the ways a background session's turn may end
    CompactFails,  \* may compaction fail in a turn?
    MountFails,    \* may mounting a session fail, or saving the manifest?
    MaxTasks,      \* bound: task ids of one session
    MaxRequests,   \* bound: requests of all sessions
    MaxRuns,       \* bound: runs cron starts
    MaxRestarts    \* bound: restarts of the conversation

RequestKinds == {"register", "update", "remove", "trigger"}

\* TurnCompleted, TurnFailed, RuntimeCrashed, and the tool "terminate".
EndKinds == {"completed", "failed", "crashed", "terminated"}

ASSUME CronKindsAssumption ==
    /\ Paired \subseteq Sessions
    /\ Requests \subseteq RequestKinds
    /\ Ends \subseteq EndKinds
ASSUME CronFlagsAssumption == CompactFails \in BOOLEAN /\ MountFails \in BOOLEAN
ASSUME CronBoundsAssumption ==
    /\ MaxTasks \in Nat
    /\ MaxRequests \in Nat
    /\ MaxRuns \in Nat
    /\ MaxRestarts \in Nat

VARIABLES
    tasks,             \* CronService: tasks, by id
    next_run_id,
    pending_runs,      \* runs whose session the kernel has not answered for
    pending_order,     \* the same runs, in the order they were asked for
    active_runs,       \* runs whose session exists
    due,               \* tasks left in the loop of a timer event
    unsaved,           \* task triggered and not yet marked and saved, 0: none
    forwarded,         \* runs whose result was sent to the foreground session
    inbox              \* kernel -> cron

VARIABLES
    kernel_rx,         \* services -> kernel
    session,           \* the mounted background sessions and what they do
    manifest,          \* the ones in the kernel's file
    prompted           \* the ones that were ever given a prompt

VARIABLES
    disk,              \* tasks.json
    next_cron_index,   \* AgentSessionRuntimeState, saved in its own file
    requested,         \* requests sent so far
    restarts

runs == <<pending_runs, pending_order, active_runs, forwarded>>
timer == <<due, unsaved>>
kernel == <<session, manifest, prompted>>
owners == <<next_cron_index, requested>>
vars == <<tasks, next_run_id, runs, timer, inbox, kernel_rx, kernel, disk, owners, restarts>>

Ids == 1..MaxTasks

Runs == Ids \X (Nat \ {0})

Statuses == {"none", "running", "completed", "failed"}

\* What cron keeps of a registration: the owner, whether the timer may start
\* it, and the status of its last run.
Task == [owner: Sessions, enabled: BOOLEAN, status: Statuses]

NewTask(owner, enabled) == [owner |-> owner, enabled |-> enabled, status |-> "none"]

\* "interrupted": restored in the middle of a turn; "gone": its actor or its
\* process has ended, or it is shutting down.
SessionStates == {"idle", "working", "done", "interrupted", "gone"}

-----------------------------------------------------------------------------
(* Messages.  The run of an "error" is not in the code's message: it says  *)
(* which request the error answers, for RejectionHitsItsRun, and no action *)
(* reads it.                                                               *)

RequestMsg(kind, owner, id, enabled, valid) ==
    [kind |-> kind, owner |-> owner, id |-> id, enabled |-> enabled, valid |-> valid]

RunMsg(kind, run) == [kind |-> kind, run |-> run]

EventKinds == {"completed", "failed", "crashed", "compact_failed"}

RequestMsgs ==
    [kind: RequestKinds, owner: Sessions, id: Ids, enabled: BOOLEAN, valid: BOOLEAN]

ToKernel == RequestMsgs \cup [kind: {"create", "prompt", "stopped"} \cup EventKinds, run: Runs]

ToCron == RequestMsgs \cup [kind: {"created", "error"} \cup EventKinds, run: Runs]

\* The runs that messages of one kind in a queue are about.
InFlight(queue, kind) ==
    {queue[i].run : i \in {j \in 1..Len(queue) : queue[j].kind = kind}}

-----------------------------------------------------------------------------
(* The cron service.                                                       *)

\* The thread is in its select: no loop over due tasks, no half-done trigger.
Receiving == due = {} /\ unsaved = 0

Takes(kinds) == Receiving /\ inbox # <<>> /\ Head(inbox).kind \in kinds

Insert(id, task) ==
    [i \in DOMAIN tasks \cup {id} |-> IF i = id THEN task ELSE tasks[i]]

\* Faulty: a status is set once.
WithFirstStatus(id, status) ==
    [i \in DOMAIN tasks |-> IF i = id /\ tasks[i].status = "none"
                            THEN [tasks[i] EXCEPT !.status = status] ELSE tasks[i]]

\* A run's state in the task's status, if the task still exists.
WithStatus(id, status) ==
    [i \in DOMAIN tasks |-> IF i = id THEN [tasks[i] EXCEPT !.status = status] ELSE tasks[i]]

\* Faulty: the counter is not written.
PersistTasksOnly(table, next) == disk' = [tasks |-> table, next_run_id |-> disk.next_run_id]

\* persist_tasks: written to a temporary file that is renamed.
PersistTasks(table, next) == disk' = [tasks |-> table, next_run_id |-> next]

\* Faulty: only the schedule is looked at.
ValidSchedule(call) == call.valid

\* validate_task_registration: the schedule, and whether the session reports to
\* a channel of the same id.  A background agent reports to its parent, another
\* foreground session to channel/main: neither passes.
ValidRegistration(call) == call.valid /\ call.owner \in Paired

\* RegisterTask: a task of the same id is replaced, whoever owns it.
HandleRegister ==
    /\ Takes({"register"})
    /\ inbox' = Tail(inbox)
    /\ LET call == Head(inbox) IN
        \/ /\ ~ValidRegistration(call)
           /\ UNCHANGED <<tasks, disk>>
        \/ /\ ValidRegistration(call)
           /\ tasks' = Insert(call.id, NewTask(call.owner, call.enabled))
           /\ PersistTasks(tasks', next_run_id)
    /\ UNCHANGED <<next_run_id, runs, timer, kernel_rx, kernel, owners, restarts>>

\* UpdateTask: a patch with a bad schedule is rejected after `enabled` has been
\* changed, and the change is not saved.
HandleUpdate ==
    /\ Takes({"update"})
    /\ inbox' = Tail(inbox)
    /\ LET call == Head(inbox)
           owned == call.id \in DOMAIN tasks /\ tasks[call.id].owner = call.owner IN
        \/ /\ ~owned
           /\ UNCHANGED <<tasks, disk>>
        \/ /\ owned
           /\ tasks' = [tasks EXCEPT ![call.id].enabled = call.enabled]
           /\ IF call.valid THEN PersistTasks(tasks', next_run_id) ELSE UNCHANGED disk
    /\ UNCHANGED <<next_run_id, runs, timer, kernel_rx, kernel, owners, restarts>>

\* RemoveTask: removing an unknown task is accepted, and saves.  The runs of
\* the task go on.
HandleRemove ==
    /\ Takes({"remove"})
    /\ inbox' = Tail(inbox)
    /\ LET call == Head(inbox)
           foreign == call.id \in DOMAIN tasks /\ tasks[call.id].owner # call.owner IN
        \/ /\ foreign
           /\ UNCHANGED <<tasks, disk>>
        \/ /\ ~foreign
           /\ tasks' = [i \in DOMAIN tasks \ {call.id} |-> tasks[i]]
           /\ PersistTasks(tasks', next_run_id)
    /\ UNCHANGED <<next_run_id, runs, timer, kernel_rx, kernel, owners, restarts>>

\* Faulty: only sessions that exist count.
ActiveRunInProgress(id) == \E run \in active_runs : run[1] = id

\* Faulty: only runs the kernel has not answered for count.
PendingRunInProgress(id) == \E run \in pending_runs : run[1] = id

TaskRunInProgress(id) == \E run \in pending_runs \cup active_runs : run[1] = id

\* trigger_task: a new run, whose session the kernel is asked to create.
TriggerTask(id) ==
    LET run == <<id, next_run_id>> IN
    /\ next_run_id' = next_run_id + 1
    /\ pending_runs' = pending_runs \cup {run}
    /\ pending_order' = Append(pending_order, run)
    /\ kernel_rx' = Append(kernel_rx, RunMsg("create", run))
    /\ unsaved' = id
    /\ UNCHANGED <<tasks, active_runs, forwarded, disk>>

\* TriggerTaskNow, up to the point where the request to the kernel is sent.
HandleTrigger ==
    /\ Takes({"trigger"})
    /\ inbox' = Tail(inbox)
    /\ LET call == Head(inbox)
           accepted == /\ call.id \in DOMAIN tasks
                       /\ tasks[call.id].owner = call.owner
                       /\ tasks[call.id].enabled
                       /\ ~TaskRunInProgress(call.id) IN
        \/ /\ ~accepted
           /\ UNCHANGED <<tasks, next_run_id, runs, unsaved, kernel_rx, disk>>
        \/ /\ accepted
           /\ TriggerTask(call.id)
    /\ UNCHANGED <<due, kernel, owners, restarts>>

\* The timer: the tasks that were due at the wakeup and are enabled.
TimerFires(ids) ==
    /\ Receiving
    /\ next_run_id <= MaxRuns
    /\ ids # {}
    /\ \A id \in ids : id \in DOMAIN tasks /\ tasks[id].enabled
    /\ due' = ids
    /\ UNCHANGED <<tasks, next_run_id, runs, unsaved, inbox, kernel_rx, kernel, disk,
                   owners, restarts>>

\* One round of the loop over the due tasks, in the order of their ids.  A task
\* whose last run is in progress is skipped.
TriggerDue ==
    /\ unsaved = 0
    /\ \E id \in due :
        /\ \A other \in due : id <= other
        /\ due' = due \ {id}
        /\ \/ /\ TaskRunInProgress(id)
              /\ UNCHANGED <<tasks, next_run_id, runs, unsaved, kernel_rx, disk>>
           \/ /\ ~TaskRunInProgress(id)
              /\ TriggerTask(id)
    /\ UNCHANGED <<inbox, kernel, owners, restarts>>

\* The rest of a trigger: mark_task_running and persist_tasks.
MarkTaskRunning ==
    /\ unsaved # 0
    /\ tasks' = WithStatus(unsaved, "running")
    /\ unsaved' = 0
    /\ PersistTasks(tasks', next_run_id)
    /\ UNCHANGED <<next_run_id, runs, due, inbox, kernel_rx, kernel, owners, restarts>>

\* Faulty: the run stays in the order.
KeepPendingOrder(run) == pending_order

\* remove_pending_order: the order without the run, which is in it once.
RemovePendingOrder(run) ==
    LET at == CHOOSE i \in 1..Len(pending_order) : pending_order[i] = run IN
    SubSeq(pending_order, 1, at - 1) \o SubSeq(pending_order, at + 1, Len(pending_order))

\* AgentSessionCreated: the run becomes active and its session gets the prompt.
HandleCreated ==
    /\ Takes({"created"})
    /\ inbox' = Tail(inbox)
    /\ LET run == Head(inbox).run IN
        \/ /\ run \notin pending_runs
           /\ UNCHANGED <<runs, kernel_rx>>
        \/ /\ run \in pending_runs
           /\ pending_runs' = pending_runs \ {run}
           /\ pending_order' = RemovePendingOrder(run)
           /\ active_runs' = active_runs \cup {run}
           /\ kernel_rx' = Append(kernel_rx, RunMsg("prompt", run))
           /\ UNCHANGED forwarded
    /\ UNCHANGED <<tasks, next_run_id, timer, kernel, disk, owners, restarts>>

\* An error of the kernel is taken for the oldest pending run.
HandleError ==
    /\ Takes({"error"})
    /\ inbox' = Tail(inbox)
    /\ \/ /\ pending_order = <<>>
          /\ UNCHANGED <<tasks, pending_runs, pending_order, disk>>
       \/ /\ pending_order # <<>>
          /\ pending_order' = Tail(pending_order)
          /\ LET run == Head(pending_order) IN
             IF run \in pending_runs
             THEN /\ pending_runs' = pending_runs \ {run}
                  /\ tasks' = WithStatus(run[1], "failed")
                  /\ PersistTasks(tasks', next_run_id)
             ELSE UNCHANGED <<tasks, pending_runs, disk>>
    /\ UNCHANGED <<next_run_id, active_runs, forwarded, timer, kernel_rx, kernel, owners,
                   restarts>>

\* Faulty: a crash is an event like others.
EndsRunOfLiveSession(kind) == kind \in {"completed", "failed", "compact_failed"}

\* The events that have an arm of their own; others are only reported.  (The
\* arm of ControlRejected is never taken: nobody controls a cron session.)
EndsRun(kind) == kind \in {"completed", "failed", "crashed", "compact_failed"}

\* Faulty: the result is forwarded only while the task is enabled.
ForwardIfEnabled(run) ==
    IF run[1] \in DOMAIN tasks /\ tasks[run[1]].enabled THEN forwarded \cup {run} ELSE forwarded

\* The result goes to the foreground session of the registration the run was
\* started with, whatever has become of the task.
ForwardResult(run) == forwarded \cup {run}

\* AgentSessionEvent: the first event that ends a turn or reports a failure
\* ends the run; for a run that is not active it is dropped.
HandleAgentSessionEvent ==
    /\ Takes(EventKinds)
    /\ inbox' = Tail(inbox)
    /\ LET call == Head(inbox)
           completed == call.kind = "completed" IN
        \/ /\ call.run \notin active_runs \/ ~EndsRun(call.kind)
           /\ UNCHANGED <<tasks, active_runs, forwarded, disk>>
        \/ /\ call.run \in active_runs /\ EndsRun(call.kind)
           /\ active_runs' = active_runs \ {call.run}
           /\ tasks' = WithStatus(call.run[1], IF completed THEN "completed" ELSE "failed")
           /\ forwarded' = IF completed THEN ForwardResult(call.run) ELSE forwarded
           /\ PersistTasks(tasks', next_run_id)
    /\ UNCHANGED <<next_run_id, pending_runs, pending_order, timer, kernel_rx, kernel, owners,
                   restarts>>

-----------------------------------------------------------------------------
(* The kernel.                                                             *)

KernelTakes(kinds) == kernel_rx # <<>> /\ Head(kernel_rx).kind \in kinds

\* Faulty: the session is not entered in the kernel's services.
MountNothing(run) == UNCHANGED session

Mount(run) ==
    session' = [r \in DOMAIN session \cup {run} |-> IF r = run THEN "idle" ELSE session[r]]

\* CreateAgentSession: mounts the session, saves the manifest and answers, in
\* one go, so that nothing the session sends can overtake the answer.
KernelCreates ==
    /\ KernelTakes({"create"})
    /\ kernel_rx' = Tail(kernel_rx)
    /\ LET run == Head(kernel_rx).run IN
        /\ run \notin DOMAIN session
        /\ Mount(run)
        /\ manifest' = DOMAIN session'
        /\ inbox' = Append(inbox, RunMsg("created", run))
    /\ UNCHANGED <<tasks, next_run_id, runs, timer, prompted, disk, owners, restarts>>

\* The address is taken, the session cannot be mounted, or it is mounted and
\* the manifest cannot be written: the caller gets an error.
KernelRejects ==
    /\ KernelTakes({"create"})
    /\ kernel_rx' = Tail(kernel_rx)
    /\ LET run == Head(kernel_rx).run IN
        /\ run \in DOMAIN session \/ MountFails
        /\ \/ UNCHANGED session
           \/ run \notin DOMAIN session /\ Mount(run)
        /\ inbox' = Append(inbox, RunMsg("error", run))
    /\ UNCHANGED <<tasks, next_run_id, runs, timer, manifest, prompted, disk, owners, restarts>>

\* dispatch_call to cron.
KernelForwards ==
    /\ KernelTakes(RequestKinds \cup EventKinds)
    /\ kernel_rx' = Tail(kernel_rx)
    /\ inbox' = Append(inbox, Head(kernel_rx))
    /\ UNCHANGED <<tasks, next_run_id, runs, timer, kernel, disk, owners, restarts>>

\* dispatch_call to a background session, which starts its turn.  A session
\* whose actor has ended takes the message and does nothing; one that fails to
\* pass it on ends the kernel, which is Restart.
KernelPrompts ==
    /\ KernelTakes({"prompt"})
    /\ kernel_rx' = Tail(kernel_rx)
    /\ LET run == Head(kernel_rx).run IN
        /\ run \in DOMAIN session
        /\ session' = [session EXCEPT ![run] = IF @ = "gone" THEN "gone" ELSE "working"]
        /\ prompted' = prompted \cup {run}
    /\ UNCHANGED <<tasks, next_run_id, runs, timer, inbox, manifest, disk, owners, restarts>>

\* ServiceOutput::Stopped.
KernelUnmounts ==
    /\ KernelTakes({"stopped"})
    /\ kernel_rx' = Tail(kernel_rx)
    /\ session' = [r \in DOMAIN session \ {Head(kernel_rx).run} |-> session[r]]
    /\ manifest' = DOMAIN session'
    /\ UNCHANGED <<tasks, next_run_id, runs, timer, inbox, prompted, disk, owners, restarts>>

-----------------------------------------------------------------------------
(* The background sessions.                                                *)

\* The turn ends and its last event goes to cron.  A restored session reports
\* the turn it was interrupted in as failed.
SessionEnds(run, how) ==
    /\ run \in DOMAIN session
    /\ \/ session[run] = "working" /\ how \in Ends \cap {"completed", "failed"}
       \/ session[run] = "interrupted" /\ how = "failed"
    /\ session' = [session EXCEPT ![run] = IF how = "completed" THEN "done" ELSE "idle"]
    /\ kernel_rx' = Append(kernel_rx, RunMsg(how, run))
    /\ UNCHANGED <<tasks, next_run_id, runs, timer, inbox, manifest, prompted, disk, owners,
                   restarts>>

\* The session's actor or its agent server process ends.
SessionCrashes(run) ==
    /\ "crashed" \in Ends
    /\ run \in DOMAIN session
    /\ session[run] # "gone"
    /\ session' = [session EXCEPT ![run] = "gone"]
    /\ kernel_rx' = Append(kernel_rx, RunMsg("crashed", run))
    /\ UNCHANGED <<tasks, next_run_id, runs, timer, inbox, manifest, prompted, disk, owners,
                   restarts>>

\* The agent calls the tool "terminate": the session shuts itself down, perhaps
\* not before the turn has completed.  Its parent is told, cron is not.  (If its
\* answer to its own shutdown finds its inbox closed, the kernel ends: Restart.)
SessionTerminates(run) ==
    /\ "terminated" \in Ends
    /\ run \in DOMAIN session
    /\ session[run] \in {"working", "done"}
    /\ session' = [session EXCEPT ![run] = "gone"]
    /\ kernel_rx' = Append(kernel_rx, RunMsg("stopped", run))
    /\ UNCHANGED <<tasks, next_run_id, runs, timer, inbox, manifest, prompted, disk, owners,
                   restarts>>

\* Compaction before a retry fails; the turn goes on with a pruned history.
SessionCompactFails(run) ==
    /\ CompactFails
    /\ run \in DOMAIN session
    /\ session[run] = "working"
    /\ run \notin InFlight(kernel_rx \o inbox, "compact_failed")   \* bound: one at a time
    /\ kernel_rx' = Append(kernel_rx, RunMsg("compact_failed", run))
    /\ UNCHANGED <<tasks, next_run_id, runs, timer, inbox, kernel, disk, owners, restarts>>

-----------------------------------------------------------------------------
(* The sessions that own tasks, and restarts.                              *)

\* cron_bridge_call: a new task takes its id from the session's own counter,
\* which is saved first; the other requests name any task.
SendRequest(owner, kind) ==
    /\ kind \in Requests
    /\ requested < MaxRequests
    /\ requested' = requested + 1
    /\ \E id \in Ids, enabled, valid \in BOOLEAN :
        /\ IF kind = "register"
           THEN /\ id = next_cron_index[owner]
                /\ next_cron_index' = [next_cron_index EXCEPT ![owner] = @ + 1]
           ELSE UNCHANGED next_cron_index
        /\ kind \in {"remove", "trigger"} => enabled /\ valid
        /\ kernel_rx' = Append(kernel_rx, RequestMsg(kind, owner, id, enabled, valid))
    /\ UNCHANGED <<tasks, next_run_id, runs, timer, inbox, kernel, disk, restarts>>

\* A session's transcript is restored; one that does not end with a completed
\* turn counts as interrupted.
Restored(run) ==
    IF session[run] = "done" THEN "done"
    ELSE IF run \in prompted THEN "interrupted" ELSE "idle"

\* Faulty: the counter is taken for the last run's.
LastRunId == disk.next_run_id - 1

LoadedRunId == disk.next_run_id

\* The conversation ends, by a crash, a failed service or on purpose, and is
\* opened again: open_or_bootstrap mounts the sessions of the manifest and cron
\* loads tasks.json.  Messages and the runs under way are lost.
Restart ==
    /\ restarts < MaxRestarts
    /\ restarts' = restarts + 1
    /\ tasks' = disk.tasks
    /\ next_run_id' = LoadedRunId
    /\ pending_runs' = {}
    /\ pending_order' = <<>>
    /\ active_runs' = {}
    /\ due' = {}
    /\ unsaved' = 0
    /\ inbox' = <<>>
    /\ kernel_rx' = <<>>
    /\ session' = [r \in DOMAIN session \cap manifest |-> Restored(r)]
    /\ UNCHANGED <<forwarded, manifest, prompted, disk, owners>>

-----------------------------------------------------------------------------

NoTasks == [i \in {} |-> NewTask(CHOOSE s \in Sessions : TRUE, FALSE)]

NoSessions == [r \in {} |-> "idle"]

Init ==
    /\ tasks = NoTasks
    /\ next_run_id = 1
    /\ pending_runs = {}
    /\ pending_order = <<>>
    /\ active_runs = {}
    /\ due = {}
    /\ unsaved = 0
    /\ forwarded = {}
    /\ inbox = <<>>
    /\ kernel_rx = <<>>
    /\ session = NoSessions
    /\ manifest = {}
    /\ prompted = {}
    /\ disk = [tasks |-> NoTasks, next_run_id |-> 1]
    /\ next_cron_index = [s \in Sessions |-> 1]
    /\ requested = 0
    /\ restarts = 0

HandleMessage ==
    \/ HandleRegister \/ HandleUpdate \/ HandleRemove \/ HandleTrigger
    \/ HandleCreated \/ HandleError \/ HandleAgentSessionEvent

FinishTrigger == TriggerDue \/ MarkTaskRunning

KernelStep ==
    \/ KernelCreates \/ KernelRejects \/ KernelForwards \/ KernelPrompts \/ KernelUnmounts

SessionStep(run) ==
    \/ \E how \in EndKinds : SessionEnds(run, how)
    \/ SessionCrashes(run)
    \/ SessionTerminates(run)

Next ==
    \/ HandleMessage
    \/ FinishTrigger
    \/ \E ids \in SUBSET Ids : TimerFires(ids)
    \/ KernelStep
    \/ \E run \in DOMAIN session : SessionStep(run) \/ SessionCompactFails(run)
    \/ \E owner \in Sessions, kind \in RequestKinds : SendRequest(owner, kind)
    \/ Restart

Spec == Init /\ [][Next]_vars

\* Cron and the kernel are threads that run whenever they have something to do.
\* Cron's select! picks at random among the ready channels, so that a timer
\* which is ready again and again cannot keep a message waiting for ever.  A
\* background session's turn ends in some way (provider requests and tools have
\* time limits).  That a timer fires or a request is sent is not assumed.
FairSpec ==
    /\ Spec
    /\ SF_vars(HandleMessage)
    /\ WF_vars(FinishTrigger)
    /\ WF_vars(KernelStep)
    /\ \A run \in Ids \X (1..(MaxRuns + MaxTasks + MaxRequests)) : WF_vars(SessionStep(run))

-----------------------------------------------------------------------------
(* Properties.                                                             *)

\* The types of the variables.
TypeOK ==
    /\ \A table \in {tasks, disk.tasks} :
        /\ DOMAIN table \subseteq Ids
        /\ table \in [DOMAIN table -> Task]
    /\ next_run_id \in Nat \ {0}
    /\ disk = [tasks |-> disk.tasks, next_run_id |-> disk.next_run_id]
    /\ disk.next_run_id \in Nat \ {0}
    /\ pending_runs \subseteq Runs
    /\ active_runs \subseteq Runs
    /\ pending_order \in Seq(Runs)
    /\ due \subseteq Ids
    /\ unsaved \in Ids \cup {0}
    /\ forwarded \subseteq Runs
    /\ inbox \in Seq(ToCron)
    /\ kernel_rx \in Seq(ToKernel)
    /\ DOMAIN session \subseteq Runs
    /\ session \in [DOMAIN session -> SessionStates]
    /\ manifest \subseteq Runs
    /\ prompted \subseteq Runs
    /\ next_cron_index \in [Sessions -> Nat]
    /\ requested \in Nat
    /\ restarts \in Nat

\* cron.rs triggers a task only if task_run_in_progress finds no run of it: no
\* task has two runs, counting the ones the kernel has not answered for.
OneRunPerTask ==
    \A run, other \in pending_runs \cup active_runs :
        run[1] = other[1] => run = other

\* An error of the kernel does not say which create it answers, and
\* record_pending_run_failed takes the head of pending_order: that is the run
\* the kernel refused, however triggers, answers and errors interleave.
RejectionHitsItsRun ==
    (inbox # <<>> /\ Head(inbox).kind = "error")
        => pending_order # <<>> /\ Head(pending_order) = Head(inbox).run

\* No two prompts in a queue are for the same session.
OnePromptEach(queue) ==
    \A i, j \in 1..Len(queue) :
        (/\ queue[i].kind = "prompt"
         /\ queue[j].kind = "prompt"
         /\ queue[i].run = queue[j].run) => i = j

\* Run ids are saved only after the kernel was asked for the session, and a
\* restart may hand one out again: still no background session is given the
\* prompt of a second run, whether the first prompt was delivered or is under
\* way.
NoSecondPrompt ==
    /\ InFlight(kernel_rx, "prompt") \cap prompted = {}
    /\ OnePromptEach(kernel_rx)

\* Cron's prompt carries no request id, so that dispatch_call would end the
\* kernel if it found no service at the address: it always finds one.
PromptFindsSession ==
    InFlight(kernel_rx, "prompt") \subseteq DOMAIN session

\* What GetTaskStatus shows: outside a trigger, a task whose last run is shown
\* as ended has no run under way, and until the first restart one that is shown
\* as running has one.
StatusTellsRun ==
    LET under_way == {run[1] : run \in pending_runs \cup active_runs} IN
    \A id \in DOMAIN tasks \ {unsaved} :
        /\ tasks[id].status \in {"completed", "failed"} => id \notin under_way
        /\ (tasks[id].status = "running" /\ restarts = 0) => id \in under_way

\* Cron's books agree with the kernel and the sessions, across restarts: what
\* the kernel refused is the run cron gives up, what it shows as over is over,
\* and what it prompts is there.
CronBooksAgree ==
    /\ TypeOK
    /\ RejectionHitsItsRun
    /\ StatusTellsRun
    /\ PromptFindsSession

\* docs/conversation_new.md: no second run of a task while one is under way.
\* The sessions that do the work, and not only cron's books, keep to it.
OneSessionPerTask ==
    \A run, other \in DOMAIN session :
        (run[1] = other[1] /\ session[run] = "working" /\ session[other] = "working")
            => run = other

\* docs/conversation_new.md: a session can only change the tasks it registered.
\* Each session numbers its tasks from cron_0001, and a registration replaces a
\* task of that id: still no session takes over the task of another.
TaskKeepsOwner ==
    [][\A id \in DOMAIN tasks \cap DOMAIN tasks' : tasks'[id].owner = tasks[id].owner]_vars

\* Every run that cron starts comes to an end in its books, so that the task
\* can run again.
RunsEnd ==
    \A run \in Ids \X (1..MaxRuns) :
        (run \in pending_runs \cup active_runs)
            ~> (run \notin pending_runs \cup active_runs)

\* The result of a background session that completes its turn reaches the
\* foreground session.
ResultsAreForwarded ==
    \A run \in Ids \X (1..MaxRuns) :
        (run \in DOMAIN session /\ session[run] = "done") ~> (run \in forwarded)

=============================================================================
