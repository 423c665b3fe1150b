----------------------------- MODULE CronProofs -----------------------------
(***************************************************************************)
(* Theorems about Cron: one run per task, one prompt per session also      *)
(* across restarts that hand out a run id a second time, that cron's books *)
(* agree with the kernel and the sessions, that a task keeps its owner and *)
(* that one session at a time works for it.                                *)
(*                                                                         *)
(* The first two follow from where a run can be and how its id compares    *)
(* with the counter in memory and the one on disk.  A run the kernel has   *)
(* not answered for may have an id that is not saved yet, but then no      *)
(* session was given its prompt; by the time cron reads the kernel's       *)
(* answer the counter has been saved, so that a restart cannot return to   *)
(* that id.  The books are argued about further down.                      *)
(***************************************************************************)
EXTENDS Cron, SequenceTheorems, TLAPS

\* The types that the argument needs.
RunTypes ==
    /\ next_run_id \in Nat \ {0}
    /\ disk.next_run_id \in Nat \ {0}
    /\ pending_runs \subseteq Runs
    /\ active_runs \subseteq Runs
    /\ prompted \subseteq Runs
    /\ due \subseteq Ids
    /\ unsaved \in Ids \cup {0}
    /\ inbox \in Seq(ToCron)
    /\ kernel_rx \in Seq(ToKernel)

\* The counter on disk is behind only in the middle of a trigger.
CounterSaved ==
    /\ disk.next_run_id <= next_run_id
    /\ unsaved = 0 => disk.next_run_id = next_run_id

\* Sessions whose prompt was sent.
Told == active_runs \cup prompted \cup InFlight(kernel_rx, "prompt")

\* Runs are older than the counter; one whose prompt was sent is older than the
\* saved counter, and no longer pending.
RunsNumbered ==
    /\ \A run \in pending_runs : run[2] < next_run_id
    /\ \A run \in Told : run[2] < disk.next_run_id
    /\ pending_runs \cap Told = {}

RunInv == RunTypes /\ CounterSaved /\ RunsNumbered /\ OneRunPerTask /\ NoSecondPrompt

\* Only runs have sessions.
SessionsNamed == DOMAIN session \subseteq Runs

-----------------------------------------------------------------------------
(* Queues.                                                                 *)

\* The runs of a kind of message after one more message is sent.
LEMMA InFlightAppend ==
    ASSUME NEW S, NEW queue \in Seq(S), NEW msg \in S, NEW kind
    PROVE  InFlight(Append(queue, msg), kind)
             = InFlight(queue, kind) \cup (IF msg.kind = kind THEN {msg.run} ELSE {})
<1> DEFINE longer == Append(queue, msg)
<1>1. /\ Len(longer) = Len(queue) + 1
      /\ \A i \in 1..Len(queue) : longer[i] = queue[i]
      /\ longer[Len(queue) + 1] = msg
      /\ Len(queue) \in Nat
  OBVIOUS
<1>2. 1..Len(longer) = (1..Len(queue)) \cup {Len(queue) + 1}
  BY <1>1
<1> HIDE DEF longer
<1>3. InFlight(longer, kind)
        = InFlight(queue, kind) \cup (IF msg.kind = kind THEN {msg.run} ELSE {})
  BY <1>1, <1>2 DEF InFlight
<1>4. QED
  BY <1>3 DEF longer

\* The runs of a kind of message before the first message is taken.
LEMMA InFlightTail ==
    ASSUME NEW S, NEW queue \in Seq(S), queue # <<>>, NEW kind
    PROVE  InFlight(queue, kind)
             = InFlight(Tail(queue), kind)
                 \cup (IF Head(queue).kind = kind THEN {Head(queue).run} ELSE {})
<1> DEFINE rest == Tail(queue)
<1>1. /\ Len(queue) \in Nat \ {0}
      /\ Len(rest) = Len(queue) - 1
      /\ \A i \in 1..Len(rest) : rest[i] = queue[i + 1]
      /\ Head(queue) = queue[1]
  OBVIOUS
<1> HIDE DEF rest
<1>2. ASSUME NEW i \in 1..Len(queue), i # 1
      PROVE  i - 1 \in 1..Len(rest) /\ rest[i - 1] = queue[i]
  <2>1. i - 1 \in 1..Len(rest) /\ (i - 1) + 1 = i
    BY <1>1, <1>2
  <2>2. rest[i - 1] = queue[(i - 1) + 1]
    BY <1>1, <2>1
  <2>3. QED
    BY <2>1, <2>2
<1>3. ASSUME NEW i \in 1..Len(rest)
      PROVE  i + 1 \in 1..Len(queue) /\ rest[i] = queue[i + 1]
  BY <1>1
<1>4. InFlight(queue, kind)
        \subseteq InFlight(rest, kind) \cup (IF Head(queue).kind = kind THEN {Head(queue).run} ELSE {})
  BY <1>1, <1>2 DEF InFlight
<1>5. InFlight(rest, kind) \subseteq InFlight(queue, kind)
  BY <1>3 DEF InFlight
<1>6. (IF Head(queue).kind = kind THEN {Head(queue).run} ELSE {}) \subseteq InFlight(queue, kind)
  BY <1>1 DEF InFlight
<1>7. QED
  BY <1>4, <1>5, <1>6 DEF rest

\* Sending a message that is no prompt, or the prompt of a session that has
\* none under way, keeps the prompts apart.
LEMMA OnePromptAppend ==
    ASSUME NEW S, NEW queue \in Seq(S), NEW msg \in S, OnePromptEach(queue),
           msg.kind = "prompt" => msg.run \notin InFlight(queue, "prompt")
    PROVE  OnePromptEach(Append(queue, msg))
<1> DEFINE longer == Append(queue, msg)
<1>1. /\ Len(longer) = Len(queue) + 1
      /\ \A i \in 1..Len(queue) : longer[i] = queue[i]
      /\ longer[Len(queue) + 1] = msg
      /\ Len(queue) \in Nat
  OBVIOUS
<1> HIDE DEF longer
<1>2. SUFFICES ASSUME NEW i \in 1..Len(longer), NEW j \in 1..Len(longer),
                      longer[i].kind = "prompt", longer[j].kind = "prompt",
                      longer[i].run = longer[j].run, i # j
               PROVE  FALSE
  BY DEF OnePromptEach, longer
<1>3. CASE i \in 1..Len(queue) /\ j \in 1..Len(queue)
  BY <1>1, <1>2, <1>3 DEF OnePromptEach
<1>4. CASE i = Len(queue) + 1 /\ j \in 1..Len(queue)
  BY <1>1, <1>2, <1>4 DEF InFlight
<1>5. CASE j = Len(queue) + 1 /\ i \in 1..Len(queue)
  BY <1>1, <1>2, <1>5 DEF InFlight
<1>6. QED
  BY <1>1, <1>2, <1>3, <1>4, <1>5

\* Taking the first message keeps the prompts apart, and if it is a prompt no
\* other one for its session is left.
LEMMA OnePromptTail ==
    ASSUME NEW S, NEW queue \in Seq(S), queue # <<>>, OnePromptEach(queue)
    PROVE  /\ OnePromptEach(Tail(queue))
           /\ Head(queue).kind = "prompt"
                => Head(queue).run \notin InFlight(Tail(queue), "prompt")
<1> DEFINE rest == Tail(queue)
<1>1. /\ Len(queue) \in Nat \ {0}
      /\ Len(rest) = Len(queue) - 1
      /\ \A i \in 1..Len(rest) : rest[i] = queue[i + 1]
      /\ Head(queue) = queue[1]
  OBVIOUS
<1> HIDE DEF rest
<1>2. ASSUME NEW i \in 1..Len(rest)
      PROVE  i + 1 \in 1..Len(queue) /\ rest[i] = queue[i + 1] /\ i + 1 # 1
  BY <1>1
<1>3. ASSUME NEW i \in 1..Len(rest), NEW j \in 1..Len(rest),
             rest[i].kind = "prompt", rest[j].kind = "prompt", rest[i].run = rest[j].run
      PROVE  i = j
  <2>1. i + 1 = j + 1
    BY <1>2, <1>3 DEF OnePromptEach
  <2>2. QED
    BY <2>1
<1>4. OnePromptEach(rest)
  BY <1>3 DEF OnePromptEach
<1>5. ASSUME Head(queue).kind = "prompt", Head(queue).run \in InFlight(rest, "prompt")
      PROVE  FALSE
  <2>1. PICK i \in 1..Len(rest) : rest[i].kind = "prompt" /\ rest[i].run = Head(queue).run
    BY <1>5 DEF InFlight
  <2>2. i + 1 = 1
    BY <1>1, <1>2, <1>5, <2>1 DEF OnePromptEach
  <2>3. QED
    BY <2>2
<1>6. QED
  BY <1>4, <1>5 DEF rest

-----------------------------------------------------------------------------
(* Steps.                                                                  *)

\* A step that starts no run and sends no prompt keeps the invariant: runs and
\* prompts under way only become fewer and the saved counter only grows.
LEMMA RunsShrink ==
    ASSUME RunInv, RunTypes', CounterSaved',
           next_run_id' = next_run_id, disk.next_run_id <= disk'.next_run_id,
           pending_runs' \subseteq pending_runs, active_runs' \subseteq active_runs,
           prompted' = prompted,
           InFlight(kernel_rx', "prompt") \subseteq InFlight(kernel_rx, "prompt"),
           OnePromptEach(kernel_rx')
    PROVE  RunInv'
<1>1. Told' \subseteq Told
  BY DEF Told
<1>2. Told \subseteq Runs
  <2>1. InFlight(kernel_rx, "prompt") \subseteq Runs
    BY DEF RunInv, RunTypes, InFlight, ToKernel, RequestMsgs, RequestKinds
  <2>2. QED
    BY <2>1 DEF RunInv, RunTypes, Told
<1>3. \A run \in Runs : run[2] \in Nat
  BY DEF Runs
<1>4. RunsNumbered'
  <2>1. \A run \in pending_runs' : run[2] < next_run_id'
    BY DEF RunInv, RunsNumbered
  <2>2. \A run \in Told' : run[2] < disk'.next_run_id
    BY <1>1, <1>2, <1>3 DEF RunInv, RunsNumbered, RunTypes
  <2>3. pending_runs' \cap Told' = {}
    BY <1>1 DEF RunInv, RunsNumbered
  <2>4. QED
    BY <2>1, <2>2, <2>3 DEF RunsNumbered
<1>5. OneRunPerTask'
  BY DEF RunInv, OneRunPerTask
<1>6. NoSecondPrompt'
  BY DEF RunInv, NoSecondPrompt
<1>7. QED
  BY <1>4, <1>5, <1>6 DEF RunInv

\* A request in a queue names one of the ids.
LEMMA RequestsTyped ==
    ASSUME NEW call \in ToCron, call.kind \in RequestKinds
    PROVE  call \in RequestMsgs
BY DEF ToCron, RequestKinds, EventKinds

\* The messages that the kernel passes on to cron.
LEMMA ForwardedTyped ==
    ASSUME NEW call \in ToKernel, call.kind \in RequestKinds \cup EventKinds
    PROVE  call \in ToCron
BY DEF ToCron, ToKernel, RequestKinds, EventKinds

\* The messages about a run that the program sends.
LEMMA RunMsgsTyped ==
    ASSUME NEW run \in Runs
    PROVE  /\ \A kind \in {"create", "prompt", "stopped"} \cup EventKinds :
                /\ RunMsg(kind, run) \in ToKernel
                /\ RunMsg(kind, run).kind = kind
                /\ RunMsg(kind, run).run = run
           /\ \A kind \in {"created", "error"} : RunMsg(kind, run) \in ToCron
BY DEF RunMsg, ToKernel, ToCron

\* A message for the kernel that is no prompt leaves the prompts as they are.
LEMMA SendsNoPrompt ==
    ASSUME RunInv, NEW msg \in ToKernel, msg.kind # "prompt",
           kernel_rx' = Append(kernel_rx, msg)
    PROVE  /\ kernel_rx' \in Seq(ToKernel)
           /\ InFlight(kernel_rx', "prompt") = InFlight(kernel_rx, "prompt")
           /\ OnePromptEach(kernel_rx')
<1>1. kernel_rx \in Seq(ToKernel) /\ OnePromptEach(kernel_rx)
  BY DEF RunInv, RunTypes, NoSecondPrompt
<1>2. kernel_rx' \in Seq(ToKernel)
  BY <1>1
<1>3. InFlight(Append(kernel_rx, msg), "prompt") = InFlight(kernel_rx, "prompt")
  <2>1. InFlight(Append(kernel_rx, msg), "prompt")
          = InFlight(kernel_rx, "prompt") \cup (IF msg.kind = "prompt" THEN {msg.run} ELSE {})
    BY <1>1, InFlightAppend
  <2>2. QED
    BY <2>1
<1>4. OnePromptEach(Append(kernel_rx, msg))
  BY <1>1, OnePromptAppend
<1>5. QED
  BY <1>2, <1>3, <1>4

\* Taking a message of the kernel's makes the prompts under way no more.
LEMMA TakesOne ==
    ASSUME RunInv, kernel_rx # <<>>, kernel_rx' = Tail(kernel_rx)
    PROVE  /\ Head(kernel_rx) \in ToKernel
           /\ kernel_rx' \in Seq(ToKernel)
           /\ InFlight(kernel_rx', "prompt") \subseteq InFlight(kernel_rx, "prompt")
           /\ OnePromptEach(kernel_rx')
<1>1. kernel_rx \in Seq(ToKernel) /\ OnePromptEach(kernel_rx)
  BY DEF RunInv, RunTypes, NoSecondPrompt
<1>2. kernel_rx' \in Seq(ToKernel) /\ Head(kernel_rx) \in ToKernel
  BY <1>1
<1>3. InFlight(Tail(kernel_rx), "prompt") \subseteq InFlight(kernel_rx, "prompt")
  BY <1>1, InFlightTail
<1>4. OnePromptEach(Tail(kernel_rx))
  BY <1>1, OnePromptTail
<1>5. QED
  BY <1>2, <1>3, <1>4

\* A request of an owner is handled.
LEMMA RequestKeepsRuns ==
    ASSUME RunInv, HandleRegister \/ HandleUpdate \/ HandleRemove
    PROVE  RunInv'
<1>1. /\ inbox' = Tail(inbox) /\ inbox # <<>> /\ unsaved = 0
      /\ disk'.next_run_id \in {disk.next_run_id, next_run_id}
      /\ UNCHANGED <<next_run_id, pending_runs, active_runs, prompted, due, unsaved, kernel_rx>>
  BY DEF HandleRegister, HandleUpdate, HandleRemove, Takes, Receiving, PersistTasks,
         runs, timer, kernel
<1>2. RunTypes'
  BY <1>1 DEF RunInv, RunTypes
<1>3. CounterSaved' /\ disk.next_run_id <= disk'.next_run_id
  BY <1>1 DEF RunInv, RunTypes, CounterSaved
<1>4. QED
  BY <1>1, <1>2, <1>3, RunsShrink DEF RunInv, NoSecondPrompt

\* A trigger starts a run whose id no session has.
LEMMA TriggerKeepsRuns ==
    ASSUME RunInv, NEW id \in Ids, TriggerTask(id), ~TaskRunInProgress(id),
           inbox' \in Seq(ToCron), due' \subseteq Ids, prompted' = prompted
    PROVE  RunInv'
<1> DEFINE run == <<id, next_run_id>>
<1>1. /\ run \in Runs /\ run[1] = id /\ run[2] = next_run_id
      /\ id # 0
  BY DEF RunInv, RunTypes, Runs, Ids
<1>2. /\ next_run_id' = next_run_id + 1
      /\ pending_runs' = pending_runs \cup {run}
      /\ kernel_rx' = Append(kernel_rx, RunMsg("create", run))
      /\ unsaved' = id
      /\ UNCHANGED <<active_runs, disk>>
  BY DEF TriggerTask
<1> HIDE DEF run
<1>3. /\ kernel_rx' \in Seq(ToKernel)
      /\ InFlight(kernel_rx', "prompt") = InFlight(kernel_rx, "prompt")
      /\ OnePromptEach(kernel_rx')
  BY <1>1, <1>2, RunMsgsTyped, SendsNoPrompt
<1>4. RunTypes'
  BY <1>1, <1>2, <1>3 DEF RunInv, RunTypes
<1>5. CounterSaved'
  BY <1>1, <1>2 DEF RunInv, RunTypes, CounterSaved
<1>6. Told' = Told
  BY <1>2, <1>3 DEF Told
<1>7. run \notin Told
  BY <1>1 DEF RunInv, RunTypes, CounterSaved, RunsNumbered
<1>8. RunsNumbered'
  <2>1. \A other \in pending_runs' : other[2] < next_run_id'
    BY <1>1, <1>2 DEF RunInv, RunTypes, RunsNumbered, Runs
  <2>2. QED
    BY <1>2, <1>6, <1>7, <2>1 DEF RunInv, RunsNumbered
<1>9. OneRunPerTask'
  BY <1>1, <1>2 DEF RunInv, OneRunPerTask, TaskRunInProgress
<1>10. NoSecondPrompt'
  BY <1>3 DEF RunInv, NoSecondPrompt
<1>11. QED
  BY <1>4, <1>5, <1>8, <1>9, <1>10 DEF RunInv

\* A request to trigger a task is handled.
LEMMA HandleTriggerKeepsRuns ==
    ASSUME RunInv, HandleTrigger
    PROVE  RunInv'
<1> DEFINE call == Head(inbox)
<1>1. /\ inbox # <<>> /\ call.kind = "trigger" /\ inbox' = Tail(inbox)
      /\ UNCHANGED <<due, prompted>>
  BY DEF HandleTrigger, Takes, kernel
<1>2. inbox' \in Seq(ToCron) /\ call \in ToCron
  BY <1>1 DEF RunInv, RunTypes
<1>3. call.id \in Ids
  BY <1>1, <1>2, RequestsTyped DEF RequestKinds, RequestMsgs
<1>4. CASE TriggerTask(call.id) /\ ~TaskRunInProgress(call.id)
  BY <1>1, <1>2, <1>3, <1>4, TriggerKeepsRuns DEF RunInv, RunTypes
<1>5. CASE UNCHANGED <<tasks, next_run_id, runs, unsaved, kernel_rx, disk>>
  <2>1. UNCHANGED <<next_run_id, pending_runs, active_runs, unsaved, kernel_rx, disk>>
    BY <1>5 DEF runs
  <2>2. RunTypes' /\ CounterSaved'
    BY <1>1, <1>2, <2>1 DEF RunInv, RunTypes, CounterSaved
  <2>3. disk.next_run_id <= disk'.next_run_id
    BY <2>1 DEF RunInv, RunTypes
  <2>4. QED
    BY <1>1, <2>1, <2>2, <2>3, RunsShrink DEF RunInv, NoSecondPrompt
<1>6. QED
  BY <1>4, <1>5 DEF HandleTrigger

\* A round of the loop over the due tasks.
LEMMA TriggerDueKeepsRuns ==
    ASSUME RunInv, TriggerDue
    PROVE  RunInv'
<1>1. PICK id \in due :
        /\ due' = due \ {id}
        /\ \/ UNCHANGED <<tasks, next_run_id, runs, unsaved, kernel_rx, disk>>
           \/ ~TaskRunInProgress(id) /\ TriggerTask(id)
  BY DEF TriggerDue
<1>2. /\ UNCHANGED <<inbox, prompted>>
      /\ id \in Ids /\ due' \subseteq Ids /\ inbox' \in Seq(ToCron)
  BY <1>1 DEF TriggerDue, kernel, RunInv, RunTypes
<1>3. CASE ~TaskRunInProgress(id) /\ TriggerTask(id)
  BY <1>2, <1>3, TriggerKeepsRuns
<1>4. CASE UNCHANGED <<tasks, next_run_id, runs, unsaved, kernel_rx, disk>>
  <2>1. UNCHANGED <<next_run_id, pending_runs, active_runs, unsaved, kernel_rx, disk>>
    BY <1>4 DEF runs
  <2>2. RunTypes' /\ CounterSaved'
    BY <1>2, <2>1 DEF RunInv, RunTypes, CounterSaved
  <2>3. disk.next_run_id <= disk'.next_run_id
    BY <2>1 DEF RunInv, RunTypes
  <2>4. QED
    BY <1>2, <2>1, <2>2, <2>3, RunsShrink DEF RunInv, NoSecondPrompt
<1>5. QED
  BY <1>1, <1>3, <1>4

\* The timer, and the step that saves a trigger.
LEMMA TimerKeepsRuns ==
    ASSUME RunInv, MarkTaskRunning \/ \E ids \in SUBSET Ids : TimerFires(ids)
    PROVE  RunInv'
<1>1. /\ UNCHANGED <<next_run_id, pending_runs, active_runs, prompted, inbox, kernel_rx>>
      /\ due' \subseteq Ids
      /\ \/ unsaved' = unsaved /\ disk' = disk
         \/ unsaved' = 0 /\ disk'.next_run_id = next_run_id
  BY DEF MarkTaskRunning, TimerFires, PersistTasks, runs, kernel, RunInv, RunTypes
<1>2. RunTypes' /\ CounterSaved' /\ disk.next_run_id <= disk'.next_run_id
  BY <1>1 DEF RunInv, RunTypes, CounterSaved
<1>3. QED
  BY <1>1, <1>2, RunsShrink DEF RunInv, NoSecondPrompt

\* The kernel's answer is read: the trigger was saved before, and so was the
\* counter.
LEMMA CreatedKeepsRuns ==
    ASSUME RunInv, HandleCreated
    PROVE  RunInv'
<1> DEFINE run == Head(inbox).run
<1>1. /\ inbox # <<>> /\ inbox' = Tail(inbox) /\ unsaved = 0
      /\ UNCHANGED <<next_run_id, due, unsaved, prompted, disk>>
  BY DEF HandleCreated, Takes, Receiving, timer, kernel
<1>2. inbox' \in Seq(ToCron)
  BY <1>1 DEF RunInv, RunTypes
<1>3. disk.next_run_id = next_run_id
  BY <1>1 DEF RunInv, CounterSaved
<1>4. CASE UNCHANGED <<runs, kernel_rx>>
  <2>1. UNCHANGED <<pending_runs, active_runs, kernel_rx>>
    BY <1>4 DEF runs
  <2>2. RunTypes' /\ CounterSaved'
    BY <1>1, <1>2, <2>1 DEF RunInv, RunTypes, CounterSaved
  <2>3. disk.next_run_id <= disk'.next_run_id
    BY <1>1 DEF RunInv, RunTypes
  <2>4. QED
    BY <1>1, <2>1, <2>2, <2>3, RunsShrink DEF RunInv, NoSecondPrompt
<1>5. CASE /\ run \in pending_runs
           /\ pending_runs' = pending_runs \ {run}
           /\ active_runs' = active_runs \cup {run}
           /\ kernel_rx' = Append(kernel_rx, RunMsg("prompt", run))
  <2> DEFINE msg == RunMsg("prompt", run)
  <2>1. /\ run \in Runs /\ run \notin Told /\ run[2] < disk.next_run_id
        /\ kernel_rx \in Seq(ToKernel)
    BY <1>3, <1>5 DEF RunInv, RunTypes, RunsNumbered
  <2>2. msg \in ToKernel /\ msg.kind = "prompt" /\ msg.run = run
    BY <2>1, RunMsgsTyped
  <2>3. kernel_rx' = Append(kernel_rx, msg) /\ kernel_rx' \in Seq(ToKernel)
    BY <1>5, <2>1, <2>2
  <2> HIDE DEF msg, run
  <2>4. InFlight(kernel_rx', "prompt") = InFlight(kernel_rx, "prompt") \cup {run}
    <3>1. InFlight(Append(kernel_rx, msg), "prompt")
            = InFlight(kernel_rx, "prompt") \cup (IF msg.kind = "prompt" THEN {msg.run} ELSE {})
      BY <2>1, <2>2, InFlightAppend
    <3>2. QED
      BY <2>2, <2>3, <3>1
  <2>5. OnePromptEach(kernel_rx')
    <3>1. msg.run \notin InFlight(kernel_rx, "prompt")
      BY <2>1, <2>2 DEF Told
    <3>2. OnePromptEach(Append(kernel_rx, msg))
      BY <2>1, <2>2, <3>1, OnePromptAppend DEF RunInv, NoSecondPrompt
    <3>3. QED
      BY <2>3, <3>2
  <2>6. Told' = Told \cup {run}
    BY <1>1, <1>5, <2>4 DEF Told
  <2>7. RunTypes' /\ CounterSaved'
    BY <1>1, <1>2, <1>5, <2>1, <2>3 DEF RunInv, RunTypes, CounterSaved
  <2>8. RunsNumbered'
    BY <1>1, <1>5, <2>1, <2>6 DEF RunInv, RunsNumbered
  <2>9. OneRunPerTask'
    BY <1>5 DEF RunInv, OneRunPerTask
  <2>10. NoSecondPrompt'
    BY <1>1, <2>1, <2>4, <2>5 DEF RunInv, NoSecondPrompt, Told
  <2>11. QED
    BY <2>7, <2>8, <2>9, <2>10 DEF RunInv
<1>6. QED
  BY <1>4, <1>5 DEF HandleCreated

\* A run ends in cron's books.
LEMMA RunEndsKeepsRuns ==
    ASSUME RunInv, HandleError \/ HandleAgentSessionEvent
    PROVE  RunInv'
<1>1. /\ inbox # <<>> /\ inbox' = Tail(inbox) /\ unsaved = 0
      /\ UNCHANGED <<next_run_id, due, unsaved, prompted, kernel_rx>>
  BY DEF HandleError, HandleAgentSessionEvent, Takes, Receiving, timer, kernel
<1>2. /\ pending_runs' \subseteq pending_runs
      /\ active_runs' \subseteq active_runs
      /\ disk'.next_run_id \in {disk.next_run_id, next_run_id}
  <2>1. CASE HandleError
    BY <2>1 DEF HandleError, PersistTasks
  <2>2. CASE HandleAgentSessionEvent
    BY <2>2 DEF HandleAgentSessionEvent, PersistTasks
  <2>3. QED
    BY <2>1, <2>2
<1>3. RunTypes'
  BY <1>1, <1>2 DEF RunInv, RunTypes
<1>4. CounterSaved' /\ disk.next_run_id <= disk'.next_run_id
  BY <1>1, <1>2 DEF RunInv, RunTypes, CounterSaved
<1>5. QED
  BY <1>1, <1>2, <1>3, <1>4, RunsShrink DEF RunInv, NoSecondPrompt

\* Steps of the kernel that deliver no prompt.
LEMMA KernelKeepsRuns ==
    ASSUME RunInv, KernelCreates \/ KernelRejects \/ KernelForwards \/ KernelUnmounts
    PROVE  RunInv'
<1>1. /\ kernel_rx # <<>> /\ kernel_rx' = Tail(kernel_rx)
      /\ UNCHANGED <<next_run_id, pending_runs, active_runs, due, unsaved, prompted, disk>>
  BY DEF KernelCreates, KernelRejects, KernelForwards, KernelUnmounts, KernelTakes,
         runs, timer, kernel
<1>2. /\ Head(kernel_rx) \in ToKernel
      /\ kernel_rx' \in Seq(ToKernel)
      /\ InFlight(kernel_rx', "prompt") \subseteq InFlight(kernel_rx, "prompt")
      /\ OnePromptEach(kernel_rx')
  BY <1>1, TakesOne
<1>3. inbox' \in Seq(ToCron)
  <2>1. CASE KernelCreates \/ KernelRejects
    <3>1. Head(kernel_rx).kind = "create"
      BY <2>1 DEF KernelCreates, KernelRejects, KernelTakes
    <3>2. Head(kernel_rx).run \in Runs
      BY <1>2, <3>1 DEF ToKernel, RequestMsgs, RequestKinds
    <3>3. \A kind \in {"created", "error"} : RunMsg(kind, Head(kernel_rx).run) \in ToCron
      BY <3>2, RunMsgsTyped
    <3>4. \E kind \in {"created", "error"} :
             inbox' = Append(inbox, RunMsg(kind, Head(kernel_rx).run))
      BY <2>1 DEF KernelCreates, KernelRejects
    <3>5. QED
      BY <3>3, <3>4 DEF RunInv, RunTypes
  <2>2. CASE KernelForwards
    <3>1. Head(kernel_rx) \in ToCron
      BY <1>2, <2>2, ForwardedTyped DEF KernelForwards, KernelTakes
    <3>2. QED
      BY <2>2, <3>1 DEF KernelForwards, RunInv, RunTypes
  <2>3. CASE KernelUnmounts
    BY <2>3 DEF KernelUnmounts, RunInv, RunTypes
  <2>4. QED
    BY <2>1, <2>2, <2>3
<1>4. RunTypes' /\ CounterSaved'
  BY <1>1, <1>2, <1>3 DEF RunInv, RunTypes, CounterSaved
<1>5. disk.next_run_id <= disk'.next_run_id
  BY <1>1 DEF RunInv, RunTypes
<1>6. QED
  BY <1>1, <1>2, <1>4, <1>5, RunsShrink

\* The kernel delivers a prompt: it was the only one for that session.
LEMMA PromptKeepsRuns ==
    ASSUME RunInv, KernelPrompts
    PROVE  RunInv'
<1> DEFINE run == Head(kernel_rx).run
<1>1. /\ kernel_rx # <<>> /\ Head(kernel_rx).kind = "prompt" /\ kernel_rx' = Tail(kernel_rx)
      /\ prompted' = prompted \cup {run}
      /\ UNCHANGED <<next_run_id, pending_runs, active_runs, due, unsaved, inbox, disk>>
  BY DEF KernelPrompts, KernelTakes, runs, timer
<1>2. /\ Head(kernel_rx) \in ToKernel
      /\ kernel_rx' \in Seq(ToKernel)
      /\ OnePromptEach(kernel_rx')
  BY <1>1, TakesOne
<1>3. run \in Runs
  BY <1>1, <1>2 DEF ToKernel, RequestMsgs, RequestKinds
<1>4. InFlight(kernel_rx, "prompt") = InFlight(kernel_rx', "prompt") \cup {run}
  <2>1. InFlight(kernel_rx, "prompt")
          = InFlight(Tail(kernel_rx), "prompt")
              \cup (IF Head(kernel_rx).kind = "prompt" THEN {Head(kernel_rx).run} ELSE {})
    BY <1>1, InFlightTail DEF RunInv, RunTypes
  <2>2. QED
    BY <1>1, <2>1
<1>5. run \notin InFlight(kernel_rx', "prompt")
  <2>1. Head(kernel_rx).run \notin InFlight(Tail(kernel_rx), "prompt")
    BY <1>1, OnePromptTail DEF RunInv, RunTypes, NoSecondPrompt
  <2>2. QED
    BY <1>1, <2>1
<1> HIDE DEF run
<1>6. Told' = Told
  BY <1>1, <1>4 DEF Told
<1>7. RunTypes' /\ CounterSaved'
  BY <1>1, <1>2, <1>3 DEF RunInv, RunTypes, CounterSaved
<1>8. RunsNumbered' /\ OneRunPerTask'
  BY <1>1, <1>6 DEF RunInv, RunsNumbered, OneRunPerTask
<1>9. NoSecondPrompt'
  BY <1>1, <1>2, <1>4, <1>5 DEF RunInv, NoSecondPrompt
<1>10. QED
  BY <1>7, <1>8, <1>9 DEF RunInv

\* Background sessions and owners only send messages that are no prompts.
LEMMA SendersKeepRuns ==
    ASSUME RunInv, SessionsNamed,
           \/ \E run \in DOMAIN session : SessionStep(run) \/ SessionCompactFails(run)
           \/ \E owner \in Sessions, kind \in RequestKinds : SendRequest(owner, kind)
    PROVE  RunInv'
<1>1. UNCHANGED <<next_run_id, pending_runs, active_runs, due, unsaved, inbox, prompted, disk>>
  BY DEF SessionStep, SessionEnds, SessionCrashes, SessionTerminates, SessionCompactFails,
         SendRequest, runs, timer, kernel
<1>2. \E msg \in ToKernel : msg.kind # "prompt" /\ kernel_rx' = Append(kernel_rx, msg)
  <2>1. ASSUME NEW run \in DOMAIN session, SessionStep(run) \/ SessionCompactFails(run)
        PROVE  \E msg \in ToKernel : msg.kind # "prompt" /\ kernel_rx' = Append(kernel_rx, msg)
    <3>1. PICK kind \in {"stopped"} \cup EventKinds : kernel_rx' = Append(kernel_rx, RunMsg(kind, run))
      BY <2>1 DEF SessionStep, SessionEnds, SessionCrashes, SessionTerminates,
                  SessionCompactFails, EventKinds
    <3>2. RunMsg(kind, run) \in ToKernel /\ RunMsg(kind, run).kind = kind
      BY <2>1, RunMsgsTyped DEF SessionsNamed
    <3>3. QED
      BY <3>1, <3>2 DEF EventKinds
  <2>2. ASSUME NEW owner \in Sessions, NEW kind \in RequestKinds, SendRequest(owner, kind)
        PROVE  \E msg \in ToKernel : msg.kind # "prompt" /\ kernel_rx' = Append(kernel_rx, msg)
    <3>1. PICK id \in Ids, enabled \in BOOLEAN, valid \in BOOLEAN :
             kernel_rx' = Append(kernel_rx, RequestMsg(kind, owner, id, enabled, valid))
      BY <2>2 DEF SendRequest
    <3>2. /\ RequestMsg(kind, owner, id, enabled, valid) \in ToKernel
          /\ RequestMsg(kind, owner, id, enabled, valid).kind # "prompt"
      BY <2>2 DEF RequestMsg, ToKernel, RequestMsgs, RequestKinds
    <3>3. QED
      BY <3>1, <3>2
  <2>3. QED
    BY <2>1, <2>2
<1>3. /\ kernel_rx' \in Seq(ToKernel)
      /\ InFlight(kernel_rx', "prompt") = InFlight(kernel_rx, "prompt")
      /\ OnePromptEach(kernel_rx')
  BY <1>2, SendsNoPrompt
<1>4. RunTypes' /\ CounterSaved'
  BY <1>1, <1>3 DEF RunInv, RunTypes, CounterSaved
<1>5. disk.next_run_id <= disk'.next_run_id
  BY <1>1 DEF RunInv, RunTypes
<1>6. QED
  BY <1>1, <1>3, <1>4, <1>5, RunsShrink

\* A restart goes back to the saved counter, which no prompt has reached.
LEMMA RestartKeepsRuns ==
    ASSUME RunInv, Restart
    PROVE  RunInv'
<1>1. /\ next_run_id' = disk.next_run_id /\ disk' = disk
      /\ pending_runs' = {} /\ active_runs' = {} /\ prompted' = prompted
      /\ due' = {} /\ unsaved' = 0 /\ inbox' = <<>> /\ kernel_rx' = <<>>
  BY DEF Restart, LoadedRunId
<1>2. InFlight(kernel_rx', "prompt") = {} /\ OnePromptEach(kernel_rx')
  BY <1>1 DEF InFlight, OnePromptEach
<1>3. RunTypes' /\ CounterSaved'
  BY <1>1 DEF RunInv, RunTypes, CounterSaved
<1>4. Told' = prompted /\ prompted \subseteq Told
  BY <1>1, <1>2 DEF Told
<1>5. RunsNumbered'
  BY <1>1, <1>4 DEF RunInv, RunsNumbered
<1>6. OneRunPerTask' /\ NoSecondPrompt'
  BY <1>1, <1>2 DEF OneRunPerTask, NoSecondPrompt
<1>7. QED
  BY <1>3, <1>5, <1>6 DEF RunInv

\* Every step keeps the runs apart.
LEMMA NextKeepsRuns ==
    ASSUME RunInv, SessionsNamed, Next
    PROVE  RunInv'
<1>1. CASE HandleMessage
  BY <1>1, RequestKeepsRuns, HandleTriggerKeepsRuns, CreatedKeepsRuns, RunEndsKeepsRuns
     DEF HandleMessage
<1>2. CASE FinishTrigger \/ \E ids \in SUBSET Ids : TimerFires(ids)
  BY <1>2, TriggerDueKeepsRuns, TimerKeepsRuns DEF FinishTrigger
<1>3. CASE KernelStep
  BY <1>3, KernelKeepsRuns, PromptKeepsRuns DEF KernelStep
<1>4. CASE \/ \E run \in DOMAIN session : SessionStep(run) \/ SessionCompactFails(run)
           \/ \E owner \in Sessions, kind \in RequestKinds : SendRequest(owner, kind)
  BY <1>4, SendersKeepRuns
<1>5. CASE Restart
  BY <1>5, RestartKeepsRuns
<1>6. QED
  BY <1>1, <1>2, <1>3, <1>4, <1>5 DEF Next

\* Every step keeps the sessions to runs: only the kernel mounts one.
LEMMA NextKeepsSessions ==
    ASSUME RunInv, SessionsNamed, Next
    PROVE  SessionsNamed'
<1>1. CASE HandleMessage \/ FinishTrigger \/ \E ids \in SUBSET Ids : TimerFires(ids)
  <2>1. session' = session
    BY <1>1 DEF HandleMessage, HandleRegister, HandleUpdate, HandleRemove, HandleTrigger,
                HandleCreated, HandleError, HandleAgentSessionEvent, FinishTrigger,
                TriggerDue, MarkTaskRunning, TimerFires, kernel
  <2>2. QED
    BY <2>1 DEF SessionsNamed
<1>2. CASE KernelCreates \/ KernelRejects
  <2>1. Head(kernel_rx) \in ToKernel /\ Head(kernel_rx).kind = "create"
    BY <1>2 DEF KernelCreates, KernelRejects, KernelTakes, RunInv, RunTypes
  <2>2. Head(kernel_rx).run \in Runs
    BY <2>1 DEF ToKernel, RequestMsgs, RequestKinds
  <2>3. session' = session \/ DOMAIN session' = DOMAIN session \cup {Head(kernel_rx).run}
    BY <1>2 DEF KernelCreates, KernelRejects, Mount
  <2>4. QED
    BY <2>2, <2>3 DEF SessionsNamed
<1>3. CASE KernelForwards
  BY <1>3 DEF KernelForwards, kernel, SessionsNamed
<1>4. CASE KernelPrompts
  BY <1>4 DEF KernelPrompts, SessionsNamed
<1>5. CASE KernelUnmounts
  BY <1>5 DEF KernelUnmounts, SessionsNamed
<1>6. CASE \E run \in DOMAIN session : SessionStep(run) \/ SessionCompactFails(run)
  <2>1. DOMAIN session' = DOMAIN session
    BY <1>6 DEF SessionStep, SessionEnds, SessionCrashes, SessionTerminates,
                SessionCompactFails, kernel
  <2>2. QED
    BY <2>1 DEF SessionsNamed
<1>7. CASE \E owner \in Sessions, kind \in RequestKinds : SendRequest(owner, kind)
  BY <1>7 DEF SendRequest, kernel, SessionsNamed
<1>8. CASE Restart
  BY <1>8 DEF Restart, SessionsNamed
<1>9. QED
  BY <1>1, <1>2, <1>3, <1>4, <1>5, <1>6, <1>7, <1>8 DEF Next, KernelStep

\* Cron starts with no runs and no messages.
LEMMA InitHasNoRuns ==
    ASSUME Init
    PROVE  RunInv /\ SessionsNamed
<1>1. /\ next_run_id = 1 /\ disk.next_run_id = 1
      /\ pending_runs = {} /\ active_runs = {} /\ prompted = {}
      /\ due = {} /\ unsaved = 0 /\ inbox = <<>> /\ kernel_rx = <<>>
      /\ DOMAIN session = {}
  BY DEF Init, NoSessions
<1>2. InFlight(kernel_rx, "prompt") = {} /\ OnePromptEach(kernel_rx)
  BY <1>1 DEF InFlight, OnePromptEach
<1>3. RunTypes /\ CounterSaved
  BY <1>1 DEF RunTypes, CounterSaved
<1>4. RunsNumbered
  BY <1>1, <1>2 DEF RunsNumbered, Told
<1>5. OneRunPerTask /\ NoSecondPrompt /\ SessionsNamed
  BY <1>1, <1>2 DEF OneRunPerTask, NoSecondPrompt, SessionsNamed
<1>6. QED
  BY <1>3, <1>4, <1>5 DEF RunInv

\* The two parts of the invariant hold together in every reachable state.
LEMMA RunInvAlways == Spec => [](RunInv /\ SessionsNamed)
<1>1. Init => RunInv /\ SessionsNamed
  BY InitHasNoRuns
<1>2. RunInv /\ SessionsNamed /\ [Next]_vars => (RunInv /\ SessionsNamed)'
  <2>1. SUFFICES ASSUME RunInv, SessionsNamed, [Next]_vars
                 PROVE  (RunInv /\ SessionsNamed)'
    OBVIOUS
  <2>2. CASE Next
    BY <2>1, <2>2, NextKeepsRuns, NextKeepsSessions
  <2>3. CASE UNCHANGED vars
    BY <2>1, <2>3 DEF vars, runs, timer, kernel, RunInv, RunTypes, CounterSaved, RunsNumbered,
                      Told, OneRunPerTask, NoSecondPrompt, SessionsNamed
  <2>4. QED
    BY <2>1, <2>2, <2>3
<1>3. QED
  BY <1>1, <1>2, PTL DEF Spec

-----------------------------------------------------------------------------

\* Cron never has two runs of one task, pending or active, for any number of
\* sessions, tasks and restarts (task_run_in_progress in cron.rs).
THEOREM OneRunAlways == Spec => []OneRunPerTask
<1>1. RunInv => OneRunPerTask
  BY DEF RunInv
<1>2. QED
  BY <1>1, RunInvAlways, PTL

\* No background session is given two prompts, although cron.rs saves the run
\* counter after it has asked the kernel for the session and a restart in
\* between hands out the same run id again.
THEOREM OnePromptAlways == Spec => []NoSecondPrompt
<1>1. RunInv => NoSecondPrompt
  BY DEF RunInv
<1>2. QED
  BY <1>1, RunInvAlways, PTL

-----------------------------------------------------------------------------
(* Cron's books.  The kernel answers in the order it was asked, and run    *)
(* ids grow: read from the front, the answers in the inbox, then the       *)
(* requests in the kernel's queue, have growing ids, and so has            *)
(* pending_order.  Both are the pending runs, so that they begin with the  *)
(* same one.                                                               *)

\* What the kernel answers a create with.
Answers == {"created", "error"}

\* The runs of some kinds of messages have growing ids along a queue.
Increasing(queue, kinds) ==
    \A i, j \in 1..Len(queue) :
        (i < j /\ queue[i].kind \in kinds /\ queue[j].kind \in kinds)
            => queue[i].run[2] < queue[j].run[2]

\* Runs whose answer cron has yet to read, and runs the kernel has yet to create.
Answered == InFlight(inbox, "created") \cup InFlight(inbox, "error")
Asked == InFlight(kernel_rx, "create")

QueuesInOrder ==
    /\ Increasing(inbox, Answers)
    /\ Increasing(kernel_rx, {"create"})
    /\ \A run \in Answered, other \in Asked : run[2] < other[2]

PendingInOrder ==
    \A i, j \in 1..Len(pending_order) : i < j => pending_order[i][2] < pending_order[j][2]

PendingIsBooked ==
    /\ {pending_order[i] : i \in 1..Len(pending_order)} = pending_runs
    /\ pending_runs = Answered \cup Asked

OrderInv == QueuesInOrder /\ PendingInOrder /\ PendingIsBooked

\* A session that was not prompted yet does nothing, and cannot end its own
\* mount; one that is about to be prompted is mounted.
SessionInv ==
    /\ InFlight(kernel_rx, "stopped") \subseteq prompted
    /\ \A run \in DOMAIN session :
        session[run] \in {"working", "done", "interrupted"} => run \in prompted
    /\ InFlight(inbox, "created") \cup InFlight(kernel_rx, "prompt") \subseteq DOMAIN session

\* The status of a task tells its runs; the task of a trigger has one.
StatusInv == StatusTellsRun /\ (unsaved # 0 => TaskRunInProgress(unsaved))

\* A table of tasks, in memory or on disk.
GoodTable(table) == DOMAIN table \subseteq Ids /\ table \in [DOMAIN table -> Task]

\* The types beyond those of RunTypes.
BookTypes ==
    /\ GoodTable(tasks)
    /\ GoodTable(disk.tasks)
    /\ disk = [tasks |-> disk.tasks, next_run_id |-> disk.next_run_id]
    /\ pending_order \in Seq(Runs)
    /\ forwarded \subseteq Runs
    /\ DOMAIN session \subseteq Runs
    /\ session \in [DOMAIN session -> SessionStates]
    /\ manifest \subseteq Runs
    /\ next_cron_index \in [Sessions -> Nat]
    /\ requested \in Nat
    /\ restarts \in Nat

BookInv == BookTypes /\ OrderInv /\ SessionInv /\ StatusInv

\* A queue stays in order when a message with a larger id, or of another kind,
\* is sent.
LEMMA IncreasingAppend ==
    ASSUME NEW S, NEW queue \in Seq(S), NEW msg \in S, NEW kinds, Increasing(queue, kinds),
           msg.kind \in kinds =>
             \A kind \in kinds : \A run \in InFlight(queue, kind) : run[2] < msg.run[2]
    PROVE  Increasing(Append(queue, msg), kinds)
<1> DEFINE longer == Append(queue, msg)
<1>1. /\ Len(longer) = Len(queue) + 1
      /\ \A i \in 1..Len(queue) : longer[i] = queue[i]
      /\ longer[Len(queue) + 1] = msg
      /\ Len(queue) \in Nat
  OBVIOUS
<1> HIDE DEF longer
<1>2. SUFFICES ASSUME NEW i \in 1..Len(longer), NEW j \in 1..Len(longer), i < j,
                      longer[i].kind \in kinds, longer[j].kind \in kinds
               PROVE  longer[i].run[2] < longer[j].run[2]
  BY DEF Increasing, longer
<1>3. i \in 1..Len(queue)
  BY <1>1, <1>2
<1>4. CASE j \in 1..Len(queue)
  BY <1>1, <1>2, <1>3, <1>4 DEF Increasing
<1>5. CASE j = Len(queue) + 1
  <2>1. longer[i].run \in InFlight(queue, longer[i].kind)
    BY <1>1, <1>3 DEF InFlight
  <2>2. QED
    BY <1>1, <1>2, <1>5, <2>1
<1>6. QED
  BY <1>1, <1>4, <1>5

\* A queue stays in order when its first message is taken, which had the
\* smallest id.
LEMMA IncreasingTail ==
    ASSUME NEW S, NEW queue \in Seq(S), queue # <<>>, NEW kinds, Increasing(queue, kinds)
    PROVE  /\ Increasing(Tail(queue), kinds)
           /\ Head(queue).kind \in kinds =>
                \A kind \in kinds : \A run \in InFlight(Tail(queue), kind) :
                    Head(queue).run[2] < run[2]
<1> DEFINE rest == Tail(queue)
<1>1. /\ Len(queue) \in Nat \ {0}
      /\ Len(rest) = Len(queue) - 1
      /\ \A i \in 1..Len(rest) : rest[i] = queue[i + 1]
      /\ Head(queue) = queue[1]
  OBVIOUS
<1> HIDE DEF rest
<1>2. ASSUME NEW i \in 1..Len(rest)
      PROVE  i + 1 \in 1..Len(queue) /\ rest[i] = queue[i + 1] /\ 1 < i + 1
  BY <1>1
<1>3. Increasing(rest, kinds)
  <2>1. SUFFICES ASSUME NEW i \in 1..Len(rest), NEW j \in 1..Len(rest), i < j,
                        rest[i].kind \in kinds, rest[j].kind \in kinds
                 PROVE  rest[i].run[2] < rest[j].run[2]
    BY DEF Increasing
  <2>2. i + 1 < j + 1
    BY <2>1
  <2>3. QED
    BY <1>2, <2>1, <2>2 DEF Increasing
<1>4. ASSUME Head(queue).kind \in kinds, NEW kind \in kinds, NEW run \in InFlight(rest, kind)
      PROVE  Head(queue).run[2] < run[2]
  <2>1. PICK i \in 1..Len(rest) : rest[i].kind = kind /\ rest[i].run = run
    BY <1>4 DEF InFlight
  <2>2. 1 \in 1..Len(queue)
    BY <1>1
  <2>3. QED
    BY <1>1, <1>2, <1>4, <2>1, <2>2 DEF Increasing
<1>5. QED
  BY <1>3, <1>4 DEF rest

\* The first answer in the inbox is the one for the head of pending_order.
LEMMA AnswerIsForHead ==
    ASSUME RunTypes, BookTypes, OrderInv, inbox # <<>>, Head(inbox).kind \in Answers
    PROVE  /\ Head(inbox).run \in pending_runs
           /\ pending_order # <<>>
           /\ Head(pending_order) = Head(inbox).run
<1> DEFINE run == Head(inbox).run
<1>1. run \in Answered
  <2>1. Head(inbox) = inbox[1] /\ 1 \in 1..Len(inbox)
    BY DEF RunTypes
  <2>2. QED
    BY <2>1 DEF Answered, Answers, InFlight
<1>2. ASSUME NEW other \in Answered
      PROVE  other = run \/ run[2] < other[2]
  <2>1. \A kind \in Answers : InFlight(inbox, kind)
          = InFlight(Tail(inbox), kind) \cup (IF Head(inbox).kind = kind THEN {run} ELSE {})
    BY InFlightTail DEF RunTypes
  <2>2. \A kind \in Answers : \A late \in InFlight(Tail(inbox), kind) : run[2] < late[2]
    BY IncreasingTail DEF RunTypes, OrderInv, QueuesInOrder
  <2>3. PICK kind \in Answers : other \in InFlight(inbox, kind)
    BY <1>2 DEF Answered, Answers
  <2>4. QED
    BY <2>1, <2>2, <2>3
<1>3. \A other \in pending_runs : other = run \/ run[2] < other[2]
  BY <1>1, <1>2 DEF OrderInv, QueuesInOrder, PendingIsBooked
<1>4. run \in pending_runs /\ pending_runs \subseteq Runs
  BY <1>1 DEF OrderInv, PendingIsBooked, RunTypes
<1> HIDE DEF run
<1>5. PICK i \in 1..Len(pending_order) : pending_order[i] = run
  BY <1>4 DEF OrderInv, PendingIsBooked
<1>6. /\ 1 \in 1..Len(pending_order) /\ Head(pending_order) = pending_order[1]
      /\ pending_order # <<>> /\ pending_order[1] \in pending_runs
  <2>1. Len(pending_order) \in Nat /\ Len(pending_order) >= 1
    BY <1>5 DEF BookTypes
  <2>2. 1 \in 1..Len(pending_order) /\ pending_order # <<>>
    BY <2>1
  <2>3. QED
    BY <2>2 DEF BookTypes, OrderInv, PendingIsBooked
<1>7. i = 1
  <2>1. SUFFICES ASSUME 1 < i PROVE FALSE
    BY <1>5
  <2>2. pending_order[1][2] < run[2]
    BY <1>5, <1>6, <2>1 DEF OrderInv, PendingInOrder
  <2>3. run[2] \in Nat /\ pending_order[1][2] \in Nat
    BY <1>4, <1>6 DEF Runs
  <2>4. pending_order[1] = run \/ run[2] < pending_order[1][2]
    BY <1>3, <1>6
  <2>5. QED
    BY <2>2, <2>3, <2>4
<1>8. QED
  BY <1>4, <1>5, <1>6, <1>7 DEF run

\* Steps that leave the answers, the requests and the order as they are.
LEMMA OrderStays ==
    ASSUME OrderInv,
           UNCHANGED <<pending_runs, pending_order>>,
           Increasing(inbox', Answers), Increasing(kernel_rx', {"create"}),
           Answered' = Answered, Asked' = Asked
    PROVE  OrderInv'
BY DEF OrderInv, QueuesInOrder, PendingInOrder, PendingIsBooked

\* Cron reads a message that is no answer.
LEMMA ReadsNoAnswer ==
    ASSUME RunTypes, OrderInv, inbox # <<>>, inbox' = Tail(inbox),
           Head(inbox).kind \notin Answers
    PROVE  Increasing(inbox', Answers) /\ Answered' = Answered
<1>1. Increasing(Tail(inbox), Answers)
  BY IncreasingTail DEF RunTypes, OrderInv, QueuesInOrder
<1>2. \A kind \in Answers : InFlight(inbox, kind) = InFlight(Tail(inbox), kind)
  <2>1. SUFFICES ASSUME NEW kind \in Answers
                 PROVE  InFlight(inbox, kind) = InFlight(Tail(inbox), kind)
    OBVIOUS
  <2>2. InFlight(inbox, kind)
          = InFlight(Tail(inbox), kind)
              \cup (IF Head(inbox).kind = kind THEN {Head(inbox).run} ELSE {})
    BY InFlightTail DEF RunTypes
  <2>3. QED
    BY <2>1, <2>2
<1>3. QED
  BY <1>1, <1>2 DEF Answered, Answers

\* A message for the kernel that asks for no session.
LEMMA AsksNothing ==
    ASSUME RunTypes, OrderInv, NEW msg \in ToKernel, msg.kind # "create",
           kernel_rx' = Append(kernel_rx, msg)
    PROVE  Increasing(kernel_rx', {"create"}) /\ Asked' = Asked
<1>1. Increasing(Append(kernel_rx, msg), {"create"})
  BY IncreasingAppend DEF RunTypes, OrderInv, QueuesInOrder
<1>2. InFlight(Append(kernel_rx, msg), "create")
        = InFlight(kernel_rx, "create") \cup (IF msg.kind = "create" THEN {msg.run} ELSE {})
  BY InFlightAppend DEF RunTypes
<1>3. QED
  BY <1>1, <1>2 DEF Asked

\* The kernel takes a message.
LEMMA KernelTakesInOrder ==
    ASSUME RunTypes, OrderInv, kernel_rx # <<>>, kernel_rx' = Tail(kernel_rx)
    PROVE  /\ Increasing(kernel_rx', {"create"})
           /\ Head(kernel_rx).kind # "create" => Asked' = Asked
           /\ Head(kernel_rx).kind = "create" =>
                /\ Asked = Asked' \cup {Head(kernel_rx).run}
                /\ \A other \in Asked' : Head(kernel_rx).run[2] < other[2]
<1>1. /\ Increasing(Tail(kernel_rx), {"create"})
      /\ Head(kernel_rx).kind = "create" =>
           \A other \in InFlight(Tail(kernel_rx), "create") : Head(kernel_rx).run[2] < other[2]
  BY IncreasingTail DEF RunTypes, OrderInv, QueuesInOrder
<1>2. InFlight(kernel_rx, "create")
        = InFlight(Tail(kernel_rx), "create")
            \cup (IF Head(kernel_rx).kind = "create" THEN {Head(kernel_rx).run} ELSE {})
  BY InFlightTail DEF RunTypes
<1>3. Asked = InFlight(kernel_rx, "create") /\ Asked' = InFlight(Tail(kernel_rx), "create")
  BY DEF Asked
<1>4. QED
  BY <1>1, <1>2, <1>3

\* A request of an owner that starts no run, and a step of cron's own.
LEMMA QuietCronKeepsOrder ==
    ASSUME RunInv, BookInv,
           \/ HandleRegister \/ HandleUpdate \/ HandleRemove \/ HandleAgentSessionEvent
           \/ HandleTrigger /\ UNCHANGED <<tasks, next_run_id, runs, unsaved, kernel_rx, disk>>
    PROVE  OrderInv'
<1>1. /\ inbox # <<>> /\ inbox' = Tail(inbox)
      /\ UNCHANGED <<pending_runs, pending_order, kernel_rx>>
  BY DEF HandleRegister, HandleUpdate, HandleRemove, HandleAgentSessionEvent, HandleTrigger,
         Takes, runs
<1>2. Head(inbox).kind \notin Answers
  BY DEF HandleRegister, HandleUpdate, HandleRemove, HandleAgentSessionEvent, HandleTrigger,
         Takes, Answers, EventKinds
<1>3. Increasing(inbox', Answers) /\ Answered' = Answered
  BY <1>1, <1>2, ReadsNoAnswer DEF RunInv, BookInv
<1>4. Increasing(kernel_rx', {"create"}) /\ Asked' = Asked
  BY <1>1 DEF Asked, BookInv, OrderInv, QueuesInOrder
<1>5. QED
  BY <1>1, <1>3, <1>4, OrderStays DEF BookInv

\* A new run has the largest id, and goes to the end of both.
LEMMA TriggerKeepsOrder ==
    ASSUME RunInv, BookInv, NEW id \in Ids, TriggerTask(id),
           Increasing(inbox', Answers), Answered' = Answered
    PROVE  OrderInv'
<1> DEFINE run == <<id, next_run_id>>
           msg == RunMsg("create", run)
<1>1. /\ pending_runs' = pending_runs \cup {run}
      /\ pending_order' = Append(pending_order, run)
      /\ kernel_rx' = Append(kernel_rx, msg)
  BY DEF TriggerTask
<1>2. run \in Runs /\ run[2] = next_run_id /\ \A other \in pending_runs : other[2] < run[2]
  BY DEF RunInv, RunTypes, RunsNumbered, Runs
<1>3. msg \in ToKernel /\ msg.kind = "create" /\ msg.run = run
  BY <1>2, RunMsgsTyped
<1> HIDE DEF run, msg
<1>4. Answered \subseteq pending_runs /\ Asked \subseteq pending_runs
  BY DEF BookInv, OrderInv, PendingIsBooked
<1>5. Increasing(kernel_rx', {"create"})
  <2>1. Increasing(Append(kernel_rx, msg), {"create"})
    BY <1>2, <1>3, <1>4, IncreasingAppend
       DEF RunInv, RunTypes, BookInv, OrderInv, QueuesInOrder, Asked
  <2>2. QED
    BY <1>1, <2>1
<1>6. Asked' = Asked \cup {run}
  <2>1. InFlight(Append(kernel_rx, msg), "create")
          = InFlight(kernel_rx, "create") \cup (IF msg.kind = "create" THEN {msg.run} ELSE {})
    BY <1>3, InFlightAppend DEF RunInv, RunTypes
  <2>2. QED
    BY <1>1, <1>3, <2>1 DEF Asked
<1>7. QueuesInOrder'
  BY <1>2, <1>4, <1>5, <1>6 DEF QueuesInOrder, BookInv, OrderInv
<1>8. /\ Len(pending_order') = Len(pending_order) + 1
      /\ Len(pending_order) \in Nat
      /\ \A i \in 1..Len(pending_order) : pending_order'[i] = pending_order[i]
      /\ pending_order'[Len(pending_order) + 1] = run
  BY <1>1, <1>2 DEF BookInv, BookTypes
<1>9. 1..Len(pending_order') = (1..Len(pending_order)) \cup {Len(pending_order) + 1}
  BY <1>8
<1>10. \A i \in 1..Len(pending_order) : pending_order[i] \in pending_runs
  BY DEF BookInv, OrderInv, PendingIsBooked
<1>11. PendingInOrder'
  <2>1. SUFFICES ASSUME NEW i \in 1..Len(pending_order'), NEW j \in 1..Len(pending_order'), i < j
                 PROVE  pending_order'[i][2] < pending_order'[j][2]
    BY DEF PendingInOrder
  <2>2. i \in 1..Len(pending_order)
    BY <1>8, <2>1
  <2>3. CASE j \in 1..Len(pending_order)
    BY <1>8, <2>1, <2>2, <2>3 DEF BookInv, OrderInv, PendingInOrder
  <2>4. CASE j = Len(pending_order) + 1
    BY <1>2, <1>8, <1>10, <2>2, <2>4
  <2>5. QED
    BY <1>9, <2>1, <2>3, <2>4
<1>12. {pending_order'[i] : i \in 1..Len(pending_order')}
         = {pending_order[i] : i \in 1..Len(pending_order)} \cup {run}
  BY <1>8, <1>9
<1>13. PendingIsBooked'
  BY <1>1, <1>6, <1>12 DEF PendingIsBooked, BookInv, OrderInv
<1>14. QED
  BY <1>7, <1>11, <1>13 DEF OrderInv

\* An answer is read and its run leaves the books of pending runs: it was the
\* head of the order.
LEMMA AnswerKeepsOrder ==
    ASSUME RunInv, BookInv, inbox # <<>>, Head(inbox).kind \in Answers, inbox' = Tail(inbox),
           pending_runs' = pending_runs \ {Head(inbox).run},
           pending_order' = Tail(pending_order),
           Increasing(kernel_rx', {"create"}), Asked' = Asked
    PROVE  OrderInv'
<1> DEFINE run == Head(inbox).run
<1>1. run \in pending_runs /\ pending_order # <<>> /\ Head(pending_order) = run
  BY AnswerIsForHead DEF RunInv, BookInv
<1>2. \A other \in Runs : other[2] \in Nat
  BY DEF Runs
<1>3. pending_runs \subseteq Runs /\ pending_order \in Seq(Runs)
  BY DEF RunInv, RunTypes, BookInv, BookTypes
<1>4. /\ Increasing(inbox', Answers)
      /\ \A kind \in Answers : \A other \in InFlight(inbox', kind) : run[2] < other[2]
  <2>1. /\ Increasing(Tail(inbox), Answers)
        /\ \A kind \in Answers : \A other \in InFlight(Tail(inbox), kind) : run[2] < other[2]
    BY IncreasingTail DEF RunInv, RunTypes, BookInv, OrderInv, QueuesInOrder
  <2>2. QED
    BY <2>1
<1>5. Answered = Answered' \cup {run}
  <2>1. ASSUME NEW kind \in Answers
        PROVE  InFlight(inbox, kind)
                 = InFlight(inbox', kind) \cup (IF Head(inbox).kind = kind THEN {run} ELSE {})
    <3>1. InFlight(inbox, kind)
            = InFlight(Tail(inbox), kind) \cup (IF Head(inbox).kind = kind THEN {run} ELSE {})
      BY InFlightTail DEF RunInv, RunTypes
    <3>2. QED
      BY <3>1
  <2>2. Answered' = InFlight(inbox', "created") \cup InFlight(inbox', "error")
    BY DEF Answered
  <2>3. QED
    BY <2>1, <2>2 DEF Answered, Answers
<1> HIDE DEF run
<1>6. run \notin Answered'
  <2>1. run[2] \in Nat
    BY <1>1, <1>2, <1>3
  <2>2. QED
    BY <1>4, <2>1 DEF Answered, Answers
<1>7. run \notin Asked
  <2>1. run[2] \in Nat /\ run \in Answered
    BY <1>1, <1>2, <1>3, <1>5
  <2>2. QED
    BY <2>1 DEF BookInv, OrderInv, QueuesInOrder
<1>8. QueuesInOrder'
  BY <1>4, <1>5 DEF QueuesInOrder, BookInv, OrderInv
<1>9. pending_runs' = Answered' \cup Asked'
  BY <1>5, <1>6, <1>7 DEF BookInv, OrderInv, PendingIsBooked, run
<1>10. /\ Len(pending_order) \in Nat \ {0}
       /\ Len(pending_order') = Len(pending_order) - 1
       /\ \A i \in 1..Len(pending_order') : pending_order'[i] = pending_order[i + 1]
       /\ pending_order[1] = run
  BY <1>1, <1>3
<1>11. ASSUME NEW i \in 1..Len(pending_order')
       PROVE  /\ i + 1 \in 1..Len(pending_order)
              /\ pending_order'[i] = pending_order[i + 1]
              /\ 1 < i + 1
  BY <1>10
<1>12. PendingInOrder'
  <2>1. SUFFICES ASSUME NEW i \in 1..Len(pending_order'), NEW j \in 1..Len(pending_order'), i < j
                 PROVE  pending_order'[i][2] < pending_order'[j][2]
    BY DEF PendingInOrder
  <2>2. i + 1 < j + 1
    BY <2>1
  <2>3. QED
    BY <1>11, <2>2 DEF BookInv, OrderInv, PendingInOrder
<1>13. {pending_order'[i] : i \in 1..Len(pending_order')} = pending_runs'
  <2>1. ASSUME NEW i \in 1..Len(pending_order')
        PROVE  pending_order'[i] \in pending_runs'
    <3>1. pending_order[i + 1] \in pending_runs
      BY <1>11 DEF BookInv, OrderInv, PendingIsBooked
    <3>2. 1 \in 1..Len(pending_order)
      BY <1>10
    <3>3. run[2] < pending_order[i + 1][2]
      BY <1>10, <1>11, <3>2 DEF BookInv, OrderInv, PendingInOrder
    <3>4. run[2] \in Nat
      BY <1>1, <1>2, <1>3
    <3>5. pending_order[i + 1] # run
      BY <3>3, <3>4
    <3>6. QED
      BY <1>11, <3>1, <3>5 DEF run
  <2>2. ASSUME NEW other \in pending_runs'
        PROVE  \E i \in 1..Len(pending_order') : pending_order'[i] = other
    <3>1. PICK k \in 1..Len(pending_order) : pending_order[k] = other
      BY DEF BookInv, OrderInv, PendingIsBooked
    <3>2. k # 1
      BY <1>10, <3>1 DEF run
    <3>3. k - 1 \in 1..Len(pending_order') /\ (k - 1) + 1 = k
      BY <1>10, <3>2
    <3>4. pending_order'[k - 1] = pending_order[(k - 1) + 1]
      BY <1>11, <3>3
    <3>5. QED
      BY <3>1, <3>3, <3>4
  <2>3. {pending_order'[i] : i \in 1..Len(pending_order')} \subseteq pending_runs'
    BY <2>1
  <2>4. pending_runs' \subseteq {pending_order'[i] : i \in 1..Len(pending_order')}
    BY <2>2
  <2>5. QED
    BY <2>3, <2>4
<1>14. QED
  BY <1>8, <1>9, <1>12, <1>13 DEF OrderInv, PendingIsBooked

\* remove_pending_order takes out the head.
LEMMA RemovesHead ==
    ASSUME BookTypes, PendingInOrder, pending_order # <<>>
    PROVE  RemovePendingOrder(Head(pending_order)) = Tail(pending_order)
<1> DEFINE run == Head(pending_order)
           at == CHOOSE i \in 1..Len(pending_order) : pending_order[i] = run
<1>1. /\ 1 \in 1..Len(pending_order) /\ run = pending_order[1]
      /\ pending_order \in Seq(Runs) /\ run \in Runs
  BY DEF BookTypes
<1>2. ASSUME NEW i \in 1..Len(pending_order), pending_order[i] = run
      PROVE  i = 1
  <2>1. run[2] \in Nat
    BY <1>1 DEF Runs
  <2>2. 1 < i => run[2] < pending_order[i][2]
    BY <1>1 DEF PendingInOrder
  <2>3. QED
    BY <1>2, <2>1, <2>2
<1>3. RemovePendingOrder(run)
        = SubSeq(pending_order, 1, at - 1) \o SubSeq(pending_order, at + 1, Len(pending_order))
  BY Zenon DEF RemovePendingOrder
<1>4. at = 1
  BY <1>1, <1>2
<1>5. SubSeq(pending_order, 1, 0) \o SubSeq(pending_order, 2, Len(pending_order))
        = Tail(pending_order)
  <2>1. SubSeq(pending_order, 1, 0) = <<>>
    BY <1>1
  <2>2. SubSeq(pending_order, 2, Len(pending_order)) = Tail(pending_order)
    BY <1>1
  <2>3. QED
    BY <1>1, <2>1, <2>2
<1> HIDE DEF at, run
<1>6. at - 1 = 0 /\ at + 1 = 2
  BY <1>4
<1>7. RemovePendingOrder(run) = Tail(pending_order)
  BY <1>3, <1>5, <1>6, Zenon
<1>8. QED
  BY <1>7 DEF run

\* Cron's steps keep the order.
LEMMA CronKeepsOrder ==
    ASSUME RunInv, BookInv,
           HandleMessage \/ FinishTrigger \/ \E ids \in SUBSET Ids : TimerFires(ids)
    PROVE  OrderInv'
<1>1. CASE \/ HandleRegister \/ HandleUpdate \/ HandleRemove \/ HandleAgentSessionEvent
           \/ HandleTrigger /\ UNCHANGED <<tasks, next_run_id, runs, unsaved, kernel_rx, disk>>
  BY <1>1, QuietCronKeepsOrder
<1>2. CASE HandleTrigger /\ TriggerTask(Head(inbox).id)
  <2>1. inbox # <<>> /\ inbox' = Tail(inbox) /\ Head(inbox).kind = "trigger"
    BY <1>2 DEF HandleTrigger, Takes
  <2>2. Head(inbox) \in ToCron
    BY <2>1 DEF RunInv, RunTypes
  <2>3. Head(inbox).id \in Ids
    BY <2>1, <2>2, RequestsTyped DEF RequestKinds, RequestMsgs
  <2>4. Increasing(inbox', Answers) /\ Answered' = Answered
    BY <2>1, ReadsNoAnswer DEF RunInv, BookInv, Answers
  <2>5. QED
    BY <1>2, <2>3, <2>4, TriggerKeepsOrder
<1>3. CASE HandleCreated
  <2> DEFINE run == Head(inbox).run
  <2>1. inbox # <<>> /\ inbox' = Tail(inbox) /\ Head(inbox).kind \in Answers
    BY <1>3 DEF HandleCreated, Takes, Answers
  <2>2. run \in pending_runs /\ pending_order # <<>> /\ Head(pending_order) = run
    BY <2>1, AnswerIsForHead DEF RunInv, BookInv
  <2>3. /\ pending_runs' = pending_runs \ {run}
        /\ pending_order' = RemovePendingOrder(run)
        /\ kernel_rx' = Append(kernel_rx, RunMsg("prompt", run))
    BY <1>3, <2>2 DEF HandleCreated
  <2>4. RemovePendingOrder(Head(pending_order)) = Tail(pending_order)
    BY <2>2, RemovesHead DEF BookInv, OrderInv
  <2>5. RunMsg("prompt", run) \in ToKernel /\ RunMsg("prompt", run).kind = "prompt"
    BY <2>2, RunMsgsTyped DEF RunInv, RunTypes
  <2>6. Increasing(kernel_rx', {"create"}) /\ Asked' = Asked
    BY <2>3, <2>5, AsksNothing DEF RunInv, BookInv
  <2>7. QED
    BY <2>1, <2>2, <2>3, <2>4, <2>6, AnswerKeepsOrder
<1>4. CASE HandleError
  <2> DEFINE run == Head(inbox).run
  <2>1. inbox # <<>> /\ inbox' = Tail(inbox) /\ Head(inbox).kind \in Answers /\ kernel_rx' = kernel_rx
    BY <1>4 DEF HandleError, Takes, Answers
  <2>2. run \in pending_runs /\ pending_order # <<>> /\ Head(pending_order) = run
    BY <2>1, AnswerIsForHead DEF RunInv, BookInv
  <2>3. pending_runs' = pending_runs \ {run} /\ pending_order' = Tail(pending_order)
    BY <1>4, <2>2 DEF HandleError
  <2>4. Increasing(kernel_rx', {"create"}) /\ Asked' = Asked
    BY <2>1 DEF Asked, BookInv, OrderInv, QueuesInOrder
  <2>5. QED
    BY <2>1, <2>3, <2>4, AnswerKeepsOrder
<1>5. CASE TriggerDue
  <2>1. PICK id \in due :
          UNCHANGED <<tasks, next_run_id, runs, unsaved, kernel_rx, disk>> \/ TriggerTask(id)
    BY <1>5 DEF TriggerDue
  <2>2. inbox' = inbox /\ id \in Ids
    BY <1>5, <2>1 DEF TriggerDue, RunInv, RunTypes
  <2>3. Increasing(inbox', Answers) /\ Answered' = Answered
    BY <2>2 DEF Answered, BookInv, OrderInv, QueuesInOrder
  <2>4. CASE TriggerTask(id)
    BY <2>2, <2>3, <2>4, TriggerKeepsOrder
  <2>5. CASE UNCHANGED <<tasks, next_run_id, runs, unsaved, kernel_rx, disk>>
    BY <2>3, <2>5, OrderStays DEF runs, Asked, BookInv, OrderInv, QueuesInOrder
  <2>6. QED
    BY <2>1, <2>4, <2>5
<1>6. CASE MarkTaskRunning \/ \E ids \in SUBSET Ids : TimerFires(ids)
  <2>1. UNCHANGED <<pending_runs, pending_order, inbox, kernel_rx>>
    BY <1>6 DEF MarkTaskRunning, TimerFires, runs
  <2>2. QED
    BY <2>1, OrderStays DEF Answered, Asked, BookInv, OrderInv, QueuesInOrder
<1>7. HandleTrigger => \/ TriggerTask(Head(inbox).id)
                       \/ UNCHANGED <<tasks, next_run_id, runs, unsaved, kernel_rx, disk>>
  BY DEF HandleTrigger
<1>8. QED
  BY <1>1, <1>2, <1>3, <1>4, <1>5, <1>6, <1>7 DEF HandleMessage, FinishTrigger

\* The kernel answers a create: the run moves from the front of what it was asked
\* to the end of what it answered.
LEMMA KernelAnswersInOrder ==
    ASSUME RunInv, BookInv, KernelCreates \/ KernelRejects
    PROVE  OrderInv'
<1> DEFINE run == Head(kernel_rx).run
<1>1. /\ kernel_rx # <<>> /\ kernel_rx' = Tail(kernel_rx) /\ Head(kernel_rx).kind = "create"
      /\ UNCHANGED <<pending_runs, pending_order>>
  BY DEF KernelCreates, KernelRejects, KernelTakes, runs
<1>2. PICK kind \in Answers : inbox' = Append(inbox, RunMsg(kind, run))
  BY DEF KernelCreates, KernelRejects, Answers
<1>3. Head(kernel_rx) \in ToKernel
  BY <1>1 DEF RunInv, RunTypes
<1>4. run \in Runs
  BY <1>1, <1>3 DEF ToKernel, RequestMsgs, RequestKinds
<1> DEFINE msg == RunMsg(kind, run)
<1>5. msg \in ToCron /\ msg.kind = kind /\ msg.run = run
  BY <1>4, RunMsgsTyped DEF Answers, RunMsg
<1>6. /\ Increasing(kernel_rx', {"create"})
      /\ Asked = Asked' \cup {run}
      /\ \A other \in Asked' : run[2] < other[2]
  BY <1>1, KernelTakesInOrder DEF RunInv, BookInv
<1> HIDE DEF run, msg
<1>7. \A other \in Answered : other[2] < run[2]
  BY <1>6 DEF BookInv, OrderInv, QueuesInOrder
<1>8. Increasing(inbox', Answers)
  <2>1. \A k \in Answers : \A other \in InFlight(inbox, k) : other[2] < msg.run[2]
    BY <1>5, <1>7 DEF Answered, Answers
  <2>2. Increasing(Append(inbox, msg), Answers)
    BY <1>5, <2>1, IncreasingAppend DEF RunInv, RunTypes, BookInv, OrderInv, QueuesInOrder
  <2>3. QED
    BY <1>2, <2>2 DEF msg
<1>9. Answered' = Answered \cup {run}
  <2>1. ASSUME NEW k
        PROVE  InFlight(inbox', k) = InFlight(inbox, k) \cup (IF kind = k THEN {run} ELSE {})
    <3>1. InFlight(Append(inbox, msg), k)
            = InFlight(inbox, k) \cup (IF msg.kind = k THEN {msg.run} ELSE {})
      BY <1>5, InFlightAppend DEF RunInv, RunTypes
    <3>2. QED
      BY <1>2, <1>5, <3>1 DEF msg
  <2>2. /\ InFlight(inbox', "created")
             = InFlight(inbox, "created") \cup (IF kind = "created" THEN {run} ELSE {})
        /\ InFlight(inbox', "error")
             = InFlight(inbox, "error") \cup (IF kind = "error" THEN {run} ELSE {})
    BY <2>1
  <2>3. Answered' = InFlight(inbox', "created") \cup InFlight(inbox', "error")
    BY DEF Answered
  <2>4. QED
    BY <2>2, <2>3 DEF Answered, Answers
<1>10. QueuesInOrder'
  BY <1>6, <1>8, <1>9 DEF QueuesInOrder, BookInv, OrderInv
<1>11. QED
  BY <1>1, <1>6, <1>9, <1>10 DEF OrderInv, PendingInOrder, PendingIsBooked, BookInv

\* The rest of the kernel's steps.
LEMMA KernelKeepsOrder ==
    ASSUME RunInv, BookInv, KernelStep
    PROVE  OrderInv'
<1>1. CASE KernelCreates \/ KernelRejects
  BY <1>1, KernelAnswersInOrder
<1>2. CASE KernelForwards \/ KernelPrompts \/ KernelUnmounts
  <2>1. /\ kernel_rx # <<>> /\ kernel_rx' = Tail(kernel_rx)
        /\ Head(kernel_rx).kind \in RequestKinds \cup EventKinds \cup {"prompt", "stopped"}
        /\ UNCHANGED <<pending_runs, pending_order>>
    BY <1>2 DEF KernelForwards, KernelPrompts, KernelUnmounts, KernelTakes, runs
  <2>2. Increasing(kernel_rx', {"create"}) /\ Asked' = Asked
    BY <2>1, KernelTakesInOrder DEF RunInv, BookInv, RequestKinds, EventKinds
  <2>3. Increasing(inbox', Answers) /\ Answered' = Answered
    <3>1. CASE KernelForwards
      <4> DEFINE msg == Head(kernel_rx)
      <4>1. /\ inbox' = Append(inbox, msg)
            /\ msg.kind \in RequestKinds \cup EventKinds
            /\ msg \in ToKernel
        BY <2>1, <3>1 DEF KernelForwards, KernelTakes, RunInv, RunTypes
      <4>2. msg \in ToCron
        BY <4>1, ForwardedTyped
      <4>3. msg.kind \notin Answers
        BY <4>1 DEF RequestKinds, EventKinds, Answers
      <4> HIDE DEF msg
      <4>4. Increasing(Append(inbox, msg), Answers)
        BY <4>2, <4>3, IncreasingAppend DEF RunInv, RunTypes, BookInv, OrderInv, QueuesInOrder
      <4>5. ASSUME NEW kind \in Answers
            PROVE  InFlight(inbox', kind) = InFlight(inbox, kind)
        <5>1. InFlight(Append(inbox, msg), kind)
                = InFlight(inbox, kind) \cup (IF msg.kind = kind THEN {msg.run} ELSE {})
          BY <4>2, InFlightAppend DEF RunInv, RunTypes
        <5>2. QED
          BY <4>1, <4>3, <4>5, <5>1
      <4>6. QED
        BY <4>1, <4>4, <4>5 DEF Answered, Answers
    <3>2. CASE KernelPrompts \/ KernelUnmounts
      BY <3>2 DEF KernelPrompts, KernelUnmounts, Answered, BookInv, OrderInv, QueuesInOrder
    <3>3. QED
      BY <1>2, <3>1, <3>2
  <2>4. QED
    BY <2>1, <2>2, <2>3, OrderStays DEF BookInv
<1>3. QED
  BY <1>1, <1>2 DEF KernelStep

\* A step of a background session or of an owner.
SenderStep ==
    \/ \E run \in DOMAIN session : SessionStep(run) \/ SessionCompactFails(run)
    \/ \E owner \in Sessions, kind \in RequestKinds : SendRequest(owner, kind)

\* Senders send one message; only a session that works or is done stops itself.
LEMMA SendersSend ==
    ASSUME BookTypes, SenderStep
    PROVE  /\ UNCHANGED <<tasks, next_run_id, pending_runs, pending_order, active_runs, forwarded,
                          unsaved, inbox, manifest, prompted, disk, restarts>>
           /\ \E msg \in ToKernel :
                /\ kernel_rx' = Append(kernel_rx, msg)
                /\ msg.kind \notin {"create", "prompt"}
                /\ msg.kind = "stopped" =>
                     msg.run \in DOMAIN session /\ session[msg.run] \in {"working", "done"}
<1>1. ASSUME NEW run \in DOMAIN session, SessionStep(run) \/ SessionCompactFails(run)
      PROVE  /\ UNCHANGED <<tasks, next_run_id, pending_runs, pending_order, active_runs, forwarded,
                            unsaved, inbox, manifest, prompted, disk, restarts>>
             /\ \E msg \in ToKernel :
                  /\ kernel_rx' = Append(kernel_rx, msg)
                  /\ msg.kind \notin {"create", "prompt"}
                  /\ msg.kind = "stopped" =>
                       msg.run \in DOMAIN session /\ session[msg.run] \in {"working", "done"}
  <2>1. UNCHANGED <<tasks, next_run_id, pending_runs, pending_order, active_runs, forwarded,
                    unsaved, inbox, manifest, prompted, disk, restarts>>
    BY <1>1 DEF SessionStep, SessionEnds, SessionCrashes, SessionTerminates,
                SessionCompactFails, runs, timer, kernel
  <2>2. PICK kind \in {"stopped"} \cup EventKinds :
          /\ kernel_rx' = Append(kernel_rx, RunMsg(kind, run))
          /\ kind = "stopped" => session[run] \in {"working", "done"}
    <3>1. CASE SessionTerminates(run)
      BY <3>1 DEF SessionTerminates
    <3>2. CASE SessionCompactFails(run) \/ SessionCrashes(run) \/ \E how \in EndKinds : SessionEnds(run, how)
      BY <3>2 DEF SessionEnds, SessionCrashes, SessionCompactFails, EventKinds
    <3>3. QED
      BY <1>1, <3>1, <3>2 DEF SessionStep
  <2>3. RunMsg(kind, run) \in ToKernel /\ RunMsg(kind, run).kind = kind /\ RunMsg(kind, run).run = run
    BY <1>1, RunMsgsTyped DEF BookTypes
  <2>4. kind \notin {"create", "prompt"}
    BY DEF EventKinds
  <2>5. QED
    BY <1>1, <2>1, <2>2, <2>3, <2>4
<1>2. ASSUME NEW owner \in Sessions, NEW kind \in RequestKinds, SendRequest(owner, kind)
      PROVE  /\ UNCHANGED <<tasks, next_run_id, pending_runs, pending_order, active_runs, forwarded,
                            unsaved, inbox, manifest, prompted, disk, restarts>>
             /\ \E msg \in ToKernel :
                  /\ kernel_rx' = Append(kernel_rx, msg)
                  /\ msg.kind \notin {"create", "prompt", "stopped"}
  <2>1. UNCHANGED <<tasks, next_run_id, pending_runs, pending_order, active_runs, forwarded,
                    unsaved, inbox, manifest, prompted, disk, restarts>>
    BY <1>2 DEF SendRequest, runs, timer, kernel
  <2>2. PICK id \in Ids, enabled \in BOOLEAN, valid \in BOOLEAN :
           kernel_rx' = Append(kernel_rx, RequestMsg(kind, owner, id, enabled, valid))
    BY <1>2 DEF SendRequest
  <2>3. /\ RequestMsg(kind, owner, id, enabled, valid) \in ToKernel
        /\ RequestMsg(kind, owner, id, enabled, valid).kind = kind
    BY <1>2 DEF RequestMsg, ToKernel, RequestMsgs, RequestKinds
  <2>4. kind \notin {"create", "prompt", "stopped"}
    BY DEF RequestKinds
  <2>5. QED
    BY <2>1, <2>2, <2>3, <2>4
<1>3. QED
  BY <1>1, <1>2 DEF SenderStep

\* The order after the other steps.
LEMMA OthersKeepOrder ==
    ASSUME RunInv, BookInv, SenderStep \/ Restart
    PROVE  OrderInv'
<1>1. CASE SenderStep
  <2>1. /\ UNCHANGED <<pending_runs, pending_order, inbox>>
        /\ \E msg \in ToKernel : msg.kind # "create" /\ kernel_rx' = Append(kernel_rx, msg)
    BY <1>1, SendersSend DEF BookInv
  <2>2. Increasing(kernel_rx', {"create"}) /\ Asked' = Asked
    BY <2>1, AsksNothing DEF RunInv, BookInv
  <2>3. Increasing(inbox', Answers) /\ Answered' = Answered
    BY <2>1 DEF Answered, BookInv, OrderInv, QueuesInOrder
  <2>4. QED
    BY <2>1, <2>2, <2>3, OrderStays DEF BookInv
<1>2. CASE Restart
  <2>1. pending_runs' = {} /\ pending_order' = <<>> /\ inbox' = <<>> /\ kernel_rx' = <<>>
    BY <1>2 DEF Restart
  <2>2. \A kind : InFlight(<<>>, kind) = {}
    BY DEF InFlight
  <2>3. Answered' = {} /\ Asked' = {}
    BY <2>1, <2>2 DEF Answered, Asked
  <2>4. Increasing(inbox', Answers) /\ Increasing(kernel_rx', {"create"})
    BY <2>1 DEF Increasing
  <2>5. PendingInOrder' /\ {pending_order'[i] : i \in 1..Len(pending_order')} = {}
    BY <2>1 DEF PendingInOrder
  <2>6. QED
    BY <2>1, <2>3, <2>4, <2>5 DEF OrderInv, QueuesInOrder, PendingIsBooked
<1>3. QED
  BY <1>1, <1>2

-----------------------------------------------------------------------------
(* Types of the books.                                                     *)

LEMMA InsertTyped ==
    ASSUME GoodTable(tasks), NEW id \in Ids, NEW task \in Task
    PROVE  GoodTable(Insert(id, task))
BY DEF GoodTable, Insert

LEMMA StatusTyped ==
    ASSUME GoodTable(tasks), NEW id, NEW status \in Statuses
    PROVE  GoodTable(WithStatus(id, status))
<1>1. \A i \in DOMAIN tasks : [tasks[i] EXCEPT !.status = status] \in Task
  BY DEF GoodTable, Task
<1>2. QED
  BY <1>1 DEF GoodTable, WithStatus

\* What persist_tasks writes.
LEMMA SavedTyped ==
    ASSUME RunTypes, GoodTable(tasks'), disk' = [tasks |-> tasks', next_run_id |-> next_run_id]
    PROVE  /\ GoodTable(disk'.tasks)
           /\ disk' = [tasks |-> disk'.tasks, next_run_id |-> disk'.next_run_id]
<1>1. disk'.tasks = tasks' /\ disk'.next_run_id = next_run_id
  OBVIOUS
<1>2. QED
  BY <1>1

\* Cron's steps touch neither the kernel nor the owners.
LEMMA CronKeepsTypes ==
    ASSUME RunInv, BookInv,
           HandleMessage \/ FinishTrigger \/ \E ids \in SUBSET Ids : TimerFires(ids)
    PROVE  BookTypes'
<1>1. UNCHANGED <<session, manifest, next_cron_index, requested, restarts>>
  BY DEF HandleMessage, HandleRegister, HandleUpdate, HandleRemove, HandleTrigger,
         HandleCreated, HandleError, HandleAgentSessionEvent, FinishTrigger,
         TriggerDue, MarkTaskRunning, TimerFires, kernel, owners
<1>2. SUFFICES /\ GoodTable(tasks')
               /\ \/ disk' = disk
                  \/ disk' = [tasks |-> tasks', next_run_id |-> next_run_id]
               /\ pending_order' \in Seq(Runs)
               /\ forwarded' \subseteq Runs
  <2>1. ASSUME disk' = disk
        PROVE  /\ GoodTable(disk'.tasks)
               /\ disk' = [tasks |-> disk'.tasks, next_run_id |-> disk'.next_run_id]
    BY <2>1 DEF BookInv, BookTypes
  <2>2. QED
    BY <1>1, <1>2, <2>1, SavedTyped DEF BookInv, BookTypes, RunInv
<1>3. GoodTable(tasks) /\ pending_order \in Seq(Runs) /\ forwarded \subseteq Runs
  BY DEF BookInv, BookTypes
<1>4. inbox # <<>> => Head(inbox) \in ToCron
  BY DEF RunInv, RunTypes
<1>5. CASE HandleRegister
  <2> DEFINE call == Head(inbox)
  <2>1. inbox # <<>> /\ call.kind = "register" /\ UNCHANGED <<pending_order, forwarded>>
    BY <1>5 DEF HandleRegister, Takes, runs
  <2>2. call \in RequestMsgs
    BY <1>4, <2>1, RequestsTyped DEF RequestKinds
  <2>3. call.id \in Ids /\ NewTask(call.owner, call.enabled) \in Task
    BY <2>2 DEF RequestMsgs, NewTask, Task, Statuses
  <2>4. GoodTable(Insert(call.id, NewTask(call.owner, call.enabled)))
    BY <1>3, <2>3, InsertTyped
  <2>5. \/ UNCHANGED <<tasks, disk>>
        \/ /\ tasks' = Insert(call.id, NewTask(call.owner, call.enabled))
           /\ disk' = [tasks |-> tasks', next_run_id |-> next_run_id]
    BY <1>5 DEF HandleRegister, PersistTasks
  <2> HIDE DEF call
  <2>6. QED
    BY <1>3, <2>1, <2>4, <2>5
<1>6. CASE HandleUpdate
  <2> DEFINE call == Head(inbox)
  <2>1. inbox # <<>> /\ call.kind = "update" /\ UNCHANGED <<pending_order, forwarded>>
    BY <1>6 DEF HandleUpdate, Takes, runs
  <2>2. call \in RequestMsgs
    BY <1>4, <2>1, RequestsTyped DEF RequestKinds
  <2>3. call.enabled \in BOOLEAN
    BY <2>2 DEF RequestMsgs
  <2>4. \/ UNCHANGED <<tasks, disk>>
        \/ /\ call.id \in DOMAIN tasks
           /\ tasks' = [tasks EXCEPT ![call.id].enabled = call.enabled]
           /\ disk' = disk \/ disk' = [tasks |-> tasks', next_run_id |-> next_run_id]
    BY <1>6 DEF HandleUpdate, PersistTasks
  <2> HIDE DEF call
  <2>5. call.id \in DOMAIN tasks => GoodTable([tasks EXCEPT ![call.id].enabled = call.enabled])
    <3>1. ASSUME call.id \in DOMAIN tasks
          PROVE  [tasks[call.id] EXCEPT !.enabled = call.enabled] \in Task
      BY <1>3, <2>3, <3>1 DEF GoodTable, Task
    <3>2. QED
      BY <1>3, <3>1 DEF GoodTable
  <2>6. QED
    BY <1>3, <2>1, <2>4, <2>5
<1>7. CASE HandleRemove
  <2>1. UNCHANGED <<pending_order, forwarded>>
    BY <1>7 DEF HandleRemove, runs
  <2>2. \/ UNCHANGED <<tasks, disk>>
        \/ /\ tasks' = [i \in DOMAIN tasks \ {Head(inbox).id} |-> tasks[i]]
           /\ disk' = [tasks |-> tasks', next_run_id |-> next_run_id]
    BY <1>7 DEF HandleRemove, PersistTasks
  <2>3. GoodTable([i \in DOMAIN tasks \ {Head(inbox).id} |-> tasks[i]])
    BY <1>3 DEF GoodTable
  <2>4. QED
    BY <1>3, <2>1, <2>2, <2>3
<1>8. ASSUME NEW id \in Ids, TriggerTask(id)
      PROVE  /\ UNCHANGED <<tasks, disk, forwarded>>
             /\ pending_order' \in Seq(Runs)
  <2>1. /\ UNCHANGED <<tasks, disk, forwarded>>
        /\ pending_order' = Append(pending_order, <<id, next_run_id>>)
    BY <1>8 DEF TriggerTask
  <2>2. <<id, next_run_id>> \in Runs
    BY DEF RunInv, RunTypes, Runs
  <2>3. QED
    BY <1>3, <2>1, <2>2
<1>9. CASE HandleTrigger
  <2>1. \/ TriggerTask(Head(inbox).id)
        \/ UNCHANGED <<tasks, disk, pending_order, forwarded>>
    BY <1>9 DEF HandleTrigger, runs
  <2>2. inbox # <<>> /\ Head(inbox).kind = "trigger"
    BY <1>9 DEF HandleTrigger, Takes
  <2>3. Head(inbox).id \in Ids
    BY <1>4, <2>2, RequestsTyped DEF RequestKinds, RequestMsgs
  <2>4. QED
    BY <1>3, <1>8, <2>1, <2>3
<1>10. CASE HandleCreated
  <2>1. /\ UNCHANGED <<tasks, disk, forwarded>>
        /\ \/ pending_order' = pending_order
           \/ /\ Head(inbox).run \in pending_runs
              /\ pending_order' = RemovePendingOrder(Head(inbox).run)
    BY <1>10 DEF HandleCreated, runs
  <2>2. inbox # <<>> /\ Head(inbox).kind \in Answers
    BY <1>10 DEF HandleCreated, Takes, Answers
  <2>3. pending_order # <<>> /\ Head(pending_order) = Head(inbox).run
    BY <2>2, AnswerIsForHead DEF RunInv, BookInv
  <2>4. RemovePendingOrder(Head(pending_order)) = Tail(pending_order)
    BY <2>3, RemovesHead DEF BookInv, OrderInv
  <2>5. pending_order' \in Seq(Runs)
    BY <1>3, <2>1, <2>3, <2>4
  <2>6. QED
    BY <1>3, <2>1, <2>5
<1>11. CASE HandleError
  <2>1. /\ forwarded' = forwarded
        /\ \/ pending_order' = pending_order /\ UNCHANGED <<tasks, disk>>
           \/ /\ pending_order # <<>> /\ pending_order' = Tail(pending_order)
              /\ \/ UNCHANGED <<tasks, disk>>
                 \/ /\ tasks' = WithStatus(Head(pending_order)[1], "failed")
                    /\ disk' = [tasks |-> tasks', next_run_id |-> next_run_id]
    BY <1>11 DEF HandleError, PersistTasks
  <2>2. GoodTable(WithStatus(Head(pending_order)[1], "failed"))
    BY <1>3, StatusTyped DEF Statuses
  <2>3. pending_order' \in Seq(Runs)
    BY <1>3, <2>1
  <2>4. QED
    BY <1>3, <2>1, <2>2, <2>3
<1>12. CASE HandleAgentSessionEvent
  <2> DEFINE run == Head(inbox).run
  <2>1. /\ pending_order' = pending_order
        /\ \/ UNCHANGED <<tasks, disk, forwarded>>
           \/ /\ run \in active_runs
              /\ \E status \in {"completed", "failed"} : tasks' = WithStatus(run[1], status)
              /\ forwarded' \in {forwarded, forwarded \cup {run}}
              /\ disk' = [tasks |-> tasks', next_run_id |-> next_run_id]
    BY <1>12 DEF HandleAgentSessionEvent, PersistTasks, ForwardResult
  <2>2. \A status \in {"completed", "failed"} : GoodTable(WithStatus(run[1], status))
    BY <1>3, StatusTyped DEF Statuses
  <2>3. active_runs \subseteq Runs
    BY DEF RunInv, RunTypes
  <2> HIDE DEF run
  <2>4. QED
    BY <1>3, <2>1, <2>2, <2>3
<1>13. CASE TriggerDue
  <2>1. PICK id \in due : \/ TriggerTask(id)
                          \/ UNCHANGED <<tasks, disk, pending_order, forwarded>>
    BY <1>13 DEF TriggerDue, runs
  <2>2. id \in Ids
    BY DEF RunInv, RunTypes
  <2>3. QED
    BY <1>3, <1>8, <2>1, <2>2
<1>14. CASE MarkTaskRunning
  <2>1. /\ UNCHANGED <<pending_order, forwarded>>
        /\ tasks' = WithStatus(unsaved, "running")
        /\ disk' = [tasks |-> tasks', next_run_id |-> next_run_id]
    BY <1>14 DEF MarkTaskRunning, PersistTasks, runs
  <2>2. GoodTable(WithStatus(unsaved, "running"))
    BY <1>3, StatusTyped DEF Statuses
  <2>3. QED
    BY <1>3, <2>1, <2>2
<1>15. CASE \E ids \in SUBSET Ids : TimerFires(ids)
  BY <1>3, <1>15 DEF TimerFires, runs
<1>16. QED
  BY <1>5, <1>6, <1>7, <1>9, <1>10, <1>11, <1>12, <1>13, <1>14, <1>15
     DEF HandleMessage, FinishTrigger

\* The steps of the kernel, of the sessions and of the owners, and a restart.
LEMMA OthersKeepTypes ==
    ASSUME RunInv, BookInv, KernelStep \/ SenderStep \/ Restart
    PROVE  BookTypes'
<1>1. CASE KernelStep
  <2>1. UNCHANGED <<tasks, disk, pending_order, forwarded, next_cron_index, requested, restarts>>
    BY <1>1 DEF KernelStep, KernelCreates, KernelRejects, KernelForwards, KernelPrompts,
                KernelUnmounts, runs, owners
  <2>2. /\ DOMAIN session \subseteq Runs /\ session \in [DOMAIN session -> SessionStates]
        /\ manifest \subseteq Runs
    BY DEF BookInv, BookTypes
  <2>3. kernel_rx # <<>> => Head(kernel_rx) \in ToKernel
    BY DEF RunInv, RunTypes
  <2>4. /\ DOMAIN session' \subseteq Runs /\ session' \in [DOMAIN session' -> SessionStates]
        /\ manifest' \subseteq Runs
    <3>1. CASE KernelCreates \/ KernelRejects
      <4>1. kernel_rx # <<>> /\ Head(kernel_rx).kind = "create"
        BY <3>1 DEF KernelCreates, KernelRejects, KernelTakes
      <4>2. Head(kernel_rx).run \in Runs
        BY <2>3, <4>1 DEF ToKernel, RequestMsgs, RequestKinds
      <4>3. session' = session \/ Mount(Head(kernel_rx).run)
        BY <3>1 DEF KernelCreates, KernelRejects
      <4>4. DOMAIN session' \subseteq Runs /\ session' \in [DOMAIN session' -> SessionStates]
        BY <2>2, <4>2, <4>3 DEF Mount, SessionStates
      <4>5. manifest' = manifest \/ manifest' = DOMAIN session'
        BY <3>1 DEF KernelCreates, KernelRejects
      <4>6. QED
        BY <2>2, <4>4, <4>5
    <3>2. CASE KernelForwards
      BY <2>2, <3>2 DEF KernelForwards, kernel
    <3>3. CASE KernelPrompts
      BY <2>2, <3>3 DEF KernelPrompts, SessionStates
    <3>4. CASE KernelUnmounts
      BY <2>2, <3>4 DEF KernelUnmounts
    <3>5. QED
      BY <1>1, <3>1, <3>2, <3>3, <3>4 DEF KernelStep
  <2>5. QED
    BY <2>1, <2>4 DEF BookInv, BookTypes
<1>2. CASE SenderStep
  <2>1. UNCHANGED <<tasks, disk, pending_order, forwarded, manifest, restarts>>
    BY <1>2, SendersSend DEF BookInv
  <2>2. /\ DOMAIN session \subseteq Runs /\ session \in [DOMAIN session -> SessionStates]
        /\ next_cron_index \in [Sessions -> Nat] /\ requested \in Nat
    BY DEF BookInv, BookTypes
  <2>3. CASE \E run \in DOMAIN session : SessionStep(run) \/ SessionCompactFails(run)
    <3>1. UNCHANGED <<next_cron_index, requested>>
      BY <2>3 DEF SessionStep, SessionEnds, SessionCrashes, SessionTerminates,
                  SessionCompactFails, owners
    <3>2. DOMAIN session' = DOMAIN session /\ session' \in [DOMAIN session -> SessionStates]
      BY <2>2, <2>3 DEF SessionStep, SessionEnds, SessionCrashes, SessionTerminates,
                        SessionCompactFails, kernel, SessionStates
    <3>3. QED
      BY <2>1, <2>2, <3>1, <3>2 DEF BookInv, BookTypes
  <2>4. CASE \E owner \in Sessions, kind \in RequestKinds : SendRequest(owner, kind)
    <3>1. UNCHANGED session /\ requested' \in Nat /\ next_cron_index' \in [Sessions -> Nat]
      BY <2>2, <2>4 DEF SendRequest, kernel
    <3>2. QED
      BY <2>1, <2>2, <3>1 DEF BookInv, BookTypes
  <2>5. QED
    BY <1>2, <2>3, <2>4 DEF SenderStep
<1>3. CASE Restart
  <2>1. /\ tasks' = disk.tasks /\ pending_order' = <<>>
        /\ restarts' = restarts + 1
        /\ session' = [r \in DOMAIN session \cap manifest |-> Restored(r)]
        /\ UNCHANGED <<forwarded, manifest, disk, next_cron_index, requested>>
    BY <1>3 DEF Restart, owners
  <2>2. \A r \in DOMAIN session : Restored(r) \in SessionStates
    BY DEF Restored, SessionStates
  <2>3. DOMAIN session' \subseteq Runs /\ session' \in [DOMAIN session' -> SessionStates]
    BY <2>1, <2>2 DEF BookInv, BookTypes
  <2>4. pending_order' \in Seq(Runs)
    BY <2>1
  <2>5. restarts' \in Nat
    BY <2>1 DEF BookInv, BookTypes
  <2>6. QED
    BY <2>1, <2>3, <2>4, <2>5 DEF BookInv, BookTypes
<1>4. QED
  BY <1>1, <1>2, <1>3

-----------------------------------------------------------------------------
(* The sessions that prompts are sent to.                                  *)

\* A step that unmounts nothing, wakes nobody and sends neither a prompt nor
\* the end of a session.
LEMMA SessionsStay ==
    ASSUME BookInv, session' = session, prompted' = prompted,
           InFlight(kernel_rx', "stopped") \subseteq InFlight(kernel_rx, "stopped"),
           InFlight(kernel_rx', "prompt") \subseteq InFlight(kernel_rx, "prompt"),
           InFlight(inbox', "created") \subseteq InFlight(inbox, "created")
    PROVE  SessionInv'
BY DEF BookInv, SessionInv

\* A queue that loses its first message.
LEMMA FewerInFlight ==
    ASSUME NEW S, NEW queue \in Seq(S), queue # <<>>, NEW kind
    PROVE  InFlight(Tail(queue), kind) \subseteq InFlight(queue, kind)
BY InFlightTail

\* A queue that gets a message of another kind.
LEMMA SameInFlight ==
    ASSUME NEW S, NEW queue \in Seq(S), NEW msg \in S, NEW kind, msg.kind # kind
    PROVE  InFlight(Append(queue, msg), kind) = InFlight(queue, kind)
<1>1. InFlight(Append(queue, msg), kind)
        = InFlight(queue, kind) \cup (IF msg.kind = kind THEN {msg.run} ELSE {})
  BY InFlightAppend
<1>2. QED
  BY <1>1

\* Cron prompts a session that the kernel has said is there.
LEMMA CronKeepsSessions ==
    ASSUME RunInv, BookInv,
           HandleMessage \/ FinishTrigger \/ \E ids \in SUBSET Ids : TimerFires(ids)
    PROVE  SessionInv'
<1>1. UNCHANGED <<session, prompted>>
  BY DEF HandleMessage, HandleRegister, HandleUpdate, HandleRemove, HandleTrigger,
         HandleCreated, HandleError, HandleAgentSessionEvent, FinishTrigger,
         TriggerDue, MarkTaskRunning, TimerFires, kernel
<1>2. inbox \in Seq(ToCron) /\ kernel_rx \in Seq(ToKernel)
  BY DEF RunInv, RunTypes
<1>3. InFlight(inbox', "created") \subseteq InFlight(inbox, "created")
  <2>1. CASE HandleMessage
    <3>1. inbox # <<>> /\ inbox' = Tail(inbox)
      BY <2>1 DEF HandleMessage, HandleRegister, HandleUpdate, HandleRemove, HandleTrigger,
                  HandleCreated, HandleError, HandleAgentSessionEvent, Takes
    <3>2. InFlight(Tail(inbox), "created") \subseteq InFlight(inbox, "created")
      BY <1>2, <3>1, FewerInFlight
    <3>3. QED
      BY <3>1, <3>2
  <2>2. CASE FinishTrigger \/ \E ids \in SUBSET Ids : TimerFires(ids)
    BY <2>2 DEF FinishTrigger, TriggerDue, MarkTaskRunning, TimerFires
  <2>3. QED
    BY <2>1, <2>2
<1>4. ASSUME NEW id \in Ids, TriggerTask(id)
      PROVE  /\ InFlight(kernel_rx', "stopped") = InFlight(kernel_rx, "stopped")
             /\ InFlight(kernel_rx', "prompt") = InFlight(kernel_rx, "prompt")
  <2> DEFINE msg == RunMsg("create", <<id, next_run_id>>)
  <2>1. <<id, next_run_id>> \in Runs
    BY DEF RunInv, RunTypes, Runs
  <2>2. msg \in ToKernel /\ msg.kind = "create" /\ kernel_rx' = Append(kernel_rx, msg)
    BY <1>4, <2>1, RunMsgsTyped DEF TriggerTask
  <2> HIDE DEF msg
  <2>3. /\ InFlight(Append(kernel_rx, msg), "stopped") = InFlight(kernel_rx, "stopped")
        /\ InFlight(Append(kernel_rx, msg), "prompt") = InFlight(kernel_rx, "prompt")
    BY <1>2, <2>2, SameInFlight
  <2>4. QED
    BY <2>2, <2>3
<1>5. CASE HandleCreated /\ Head(inbox).run \in pending_runs
  <2> DEFINE run == Head(inbox).run
             msg == RunMsg("prompt", run)
  <2>1. /\ kernel_rx' = Append(kernel_rx, msg)
        /\ inbox # <<>> /\ Head(inbox).kind = "created"
        /\ run \in Runs
    BY <1>5 DEF HandleCreated, Takes, RunInv, RunTypes
  <2>2. msg \in ToKernel /\ msg.kind = "prompt" /\ msg.run = run
    BY <2>1, RunMsgsTyped
  <2>3. run \in DOMAIN session
    <3>1. Head(inbox) = inbox[1] /\ 1 \in 1..Len(inbox)
      BY <1>2, <2>1
    <3>2. run \in InFlight(inbox, "created")
      BY <2>1, <3>1 DEF InFlight
    <3>3. QED
      BY <3>2 DEF BookInv, SessionInv
  <2> HIDE DEF run, msg
  <2>4. InFlight(kernel_rx', "prompt") = InFlight(kernel_rx, "prompt") \cup {run}
    <3>1. InFlight(Append(kernel_rx, msg), "prompt")
            = InFlight(kernel_rx, "prompt") \cup (IF msg.kind = "prompt" THEN {msg.run} ELSE {})
      BY <1>2, <2>2, InFlightAppend
    <3>2. QED
      BY <2>1, <2>2, <3>1
  <2>5. InFlight(kernel_rx', "stopped") = InFlight(kernel_rx, "stopped")
    <3>1. InFlight(Append(kernel_rx, msg), "stopped") = InFlight(kernel_rx, "stopped")
      BY <1>2, <2>2, SameInFlight
    <3>2. QED
      BY <2>1, <3>1
  <2>6. QED
    BY <1>1, <1>3, <2>3, <2>4, <2>5 DEF BookInv, SessionInv
<1>6. \/ kernel_rx' = kernel_rx
      \/ HandleCreated /\ Head(inbox).run \in pending_runs
      \/ \E id \in Ids : TriggerTask(id)
  <2>1. CASE HandleTrigger
    <3>1. inbox # <<>> /\ Head(inbox).kind = "trigger"
      BY <2>1 DEF HandleTrigger, Takes
    <3>2. Head(inbox) \in ToCron
      BY <1>2, <3>1
    <3>3. Head(inbox).id \in Ids
      BY <3>1, <3>2, RequestsTyped DEF RequestKinds, RequestMsgs
    <3>4. QED
      BY <2>1, <3>3 DEF HandleTrigger
  <2>2. CASE TriggerDue
    BY <2>2 DEF TriggerDue, RunInv, RunTypes
  <2>3. CASE HandleCreated
    BY <2>3 DEF HandleCreated
  <2>4. CASE \/ HandleRegister \/ HandleUpdate \/ HandleRemove \/ HandleError
             \/ HandleAgentSessionEvent \/ MarkTaskRunning
             \/ \E ids \in SUBSET Ids : TimerFires(ids)
    BY <2>4 DEF HandleRegister, HandleUpdate, HandleRemove, HandleError,
                HandleAgentSessionEvent, MarkTaskRunning, TimerFires
  <2>5. QED
    BY <2>1, <2>2, <2>3, <2>4 DEF HandleMessage, FinishTrigger
<1>7. CASE kernel_rx' = kernel_rx
  BY <1>1, <1>3, <1>7, SessionsStay
<1>8. CASE \E id \in Ids : TriggerTask(id)
  BY <1>1, <1>3, <1>4, <1>8, SessionsStay
<1>9. QED
  BY <1>5, <1>6, <1>7, <1>8

\* The kernel unmounts only sessions that had their prompt.
LEMMA KernelKeepsSessions ==
    ASSUME RunInv, BookInv, KernelStep
    PROVE  SessionInv'
<1>1. inbox \in Seq(ToCron) /\ kernel_rx \in Seq(ToKernel)
  BY DEF RunInv, RunTypes
<1>2. kernel_rx # <<>> /\ kernel_rx' = Tail(kernel_rx) /\ Head(kernel_rx) \in ToKernel
  BY <1>1 DEF KernelStep, KernelCreates, KernelRejects, KernelForwards, KernelPrompts,
              KernelUnmounts, KernelTakes
<1>3. /\ InFlight(kernel_rx', "stopped") \subseteq InFlight(kernel_rx, "stopped")
      /\ InFlight(kernel_rx', "prompt") \subseteq InFlight(kernel_rx, "prompt")
  <2>1. /\ InFlight(Tail(kernel_rx), "stopped") \subseteq InFlight(kernel_rx, "stopped")
        /\ InFlight(Tail(kernel_rx), "prompt") \subseteq InFlight(kernel_rx, "prompt")
    BY <1>1, <1>2, FewerInFlight
  <2>2. QED
    BY <1>2, <2>1
<1>4. SessionInv
  BY DEF BookInv
<1>5. CASE KernelCreates \/ KernelRejects
  <2> DEFINE run == Head(kernel_rx).run
  <2>1. /\ Head(kernel_rx).kind = "create" /\ prompted' = prompted
        /\ \/ session' = session /\ inbox' = Append(inbox, RunMsg("error", run))
           \/ Mount(run) /\ run \notin DOMAIN session
              /\ \E kind \in Answers : inbox' = Append(inbox, RunMsg(kind, run))
    BY <1>5 DEF KernelCreates, KernelRejects, KernelTakes, Answers
  <2>2. run \in Runs
    BY <1>2, <2>1 DEF ToKernel, RequestMsgs, RequestKinds
  <2>3. \A kind \in Answers : /\ RunMsg(kind, run) \in ToCron
                              /\ RunMsg(kind, run).kind = kind
                              /\ RunMsg(kind, run).run = run
    BY <2>2, RunMsgsTyped DEF Answers, RunMsg
  <2>4. \A kind \in Answers :
          InFlight(Append(inbox, RunMsg(kind, run)), "created")
            = InFlight(inbox, "created") \cup (IF kind = "created" THEN {run} ELSE {})
    <3>1. SUFFICES ASSUME NEW kind \in Answers
                   PROVE  InFlight(Append(inbox, RunMsg(kind, run)), "created")
                            = InFlight(inbox, "created")
                                \cup (IF kind = "created" THEN {run} ELSE {})
      OBVIOUS
    <3> DEFINE msg == RunMsg(kind, run)
    <3>2. msg \in ToCron /\ msg.kind = kind /\ msg.run = run
      BY <2>3
    <3> HIDE DEF msg
    <3>3. InFlight(Append(inbox, msg), "created")
            = InFlight(inbox, "created") \cup (IF msg.kind = "created" THEN {msg.run} ELSE {})
      BY <1>1, <3>2, InFlightAppend
    <3>4. QED
      BY <3>2, <3>3 DEF msg
  <2> HIDE DEF run
  <2>5. CASE session' = session /\ inbox' = Append(inbox, RunMsg("error", run))
    <3>1. InFlight(inbox', "created") = InFlight(inbox, "created")
      BY <2>4, <2>5 DEF Answers
    <3>2. QED
      BY <1>3, <2>1, <2>5, <3>1, SessionsStay
  <2>6. CASE /\ Mount(run) /\ run \notin DOMAIN session
             /\ \E kind \in Answers : inbox' = Append(inbox, RunMsg(kind, run))
    <3>1. InFlight(inbox', "created") \subseteq InFlight(inbox, "created") \cup {run}
      BY <2>4, <2>6
    <3>2. /\ DOMAIN session' = DOMAIN session \cup {run}
          /\ \A r \in DOMAIN session : r # run => session'[r] = session[r]
          /\ session'[run] = "idle"
      BY <2>6 DEF Mount
    <3>3. InFlight(kernel_rx', "stopped") \subseteq prompted'
      BY <1>3, <1>4, <2>1 DEF SessionInv
    <3>4. \A r \in DOMAIN session' :
            session'[r] \in {"working", "done", "interrupted"} => r \in prompted'
      BY <1>4, <2>1, <3>2 DEF SessionInv
    <3>5. InFlight(inbox', "created") \cup InFlight(kernel_rx', "prompt") \subseteq DOMAIN session'
      BY <1>3, <1>4, <3>1, <3>2 DEF SessionInv
    <3>6. QED
      BY <3>3, <3>4, <3>5 DEF SessionInv
  <2>7. QED
    BY <2>1, <2>5, <2>6
<1>6. CASE KernelForwards
  <2> DEFINE msg == Head(kernel_rx)
  <2>1. /\ msg.kind \in RequestKinds \cup EventKinds /\ inbox' = Append(inbox, msg)
        /\ UNCHANGED <<session, prompted>>
    BY <1>6 DEF KernelForwards, KernelTakes, kernel
  <2>2. msg \in ToCron /\ msg.kind # "created"
    BY <1>2, <2>1, ForwardedTyped DEF RequestKinds, EventKinds
  <2> HIDE DEF msg
  <2>3. InFlight(Append(inbox, msg), "created") = InFlight(inbox, "created")
    BY <1>1, <2>2, SameInFlight
  <2>4. QED
    BY <1>3, <2>1, <2>3, SessionsStay
<1>7. CASE KernelPrompts
  <2> DEFINE run == Head(kernel_rx).run
  <2>1. /\ run \in DOMAIN session /\ prompted' = prompted \cup {run} /\ inbox' = inbox
        /\ DOMAIN session' = DOMAIN session
        /\ \A r \in DOMAIN session : r # run => session'[r] = session[r]
    BY <1>7 DEF KernelPrompts
  <2> HIDE DEF run
  <2>2. QED
    BY <1>3, <1>4, <2>1 DEF SessionInv
<1>8. CASE KernelUnmounts
  <2> DEFINE run == Head(kernel_rx).run
  <2>1. /\ Head(kernel_rx).kind = "stopped" /\ prompted' = prompted /\ inbox' = inbox
        /\ session' = [r \in DOMAIN session \ {run} |-> session[r]]
    BY <1>8 DEF KernelUnmounts, KernelTakes
  <2>2. run \in prompted
    <3>1. Head(kernel_rx) = kernel_rx[1] /\ 1 \in 1..Len(kernel_rx)
      BY <1>1, <1>2
    <3>2. run \in InFlight(kernel_rx, "stopped")
      BY <2>1, <3>1 DEF InFlight
    <3>3. QED
      BY <1>4, <3>2 DEF SessionInv
  <2> HIDE DEF run
  <2>3. run \notin InFlight(kernel_rx, "prompt")
    BY <2>2 DEF RunInv, NoSecondPrompt
  <2>4. run \notin InFlight(inbox, "created")
    BY <2>2 DEF RunInv, RunsNumbered, Told, BookInv, OrderInv, PendingIsBooked, Answered
  <2>5. /\ DOMAIN session' = DOMAIN session \ {run}
        /\ \A r \in DOMAIN session' : session'[r] = session[r]
    BY <2>1
  <2>6. QED
    BY <1>3, <1>4, <2>1, <2>3, <2>4, <2>5 DEF SessionInv
<1>9. QED
  BY <1>5, <1>6, <1>7, <1>8 DEF KernelStep

\* A session wakes up, works or ends only after its prompt.
LEMMA OthersKeepSessions ==
    ASSUME RunInv, BookInv, SenderStep \/ Restart
    PROVE  SessionInv'
<1>1. SessionInv /\ kernel_rx \in Seq(ToKernel)
  BY DEF BookInv, RunInv, RunTypes
<1>2. CASE SenderStep
  <2>1. UNCHANGED <<inbox, prompted>>
    BY <1>2, SendersSend DEF BookInv
  <2>2. PICK msg \in ToKernel :
          /\ kernel_rx' = Append(kernel_rx, msg)
          /\ msg.kind \notin {"create", "prompt"}
          /\ msg.kind = "stopped" =>
               msg.run \in DOMAIN session /\ session[msg.run] \in {"working", "done"}
    BY <1>2, SendersSend DEF BookInv
  <2>3. InFlight(kernel_rx', "prompt") = InFlight(kernel_rx, "prompt")
    <3>1. InFlight(Append(kernel_rx, msg), "prompt") = InFlight(kernel_rx, "prompt")
      BY <1>1, <2>2, SameInFlight
    <3>2. QED
      BY <2>2, <3>1
  <2>4. InFlight(kernel_rx', "stopped") \subseteq prompted
    <3>1. InFlight(Append(kernel_rx, msg), "stopped")
            = InFlight(kernel_rx, "stopped") \cup (IF msg.kind = "stopped" THEN {msg.run} ELSE {})
      BY <1>1, InFlightAppend
    <3>2. msg.kind = "stopped" => msg.run \in prompted
      BY <1>1, <2>2 DEF SessionInv
    <3>3. QED
      BY <1>1, <2>2, <3>1, <3>2 DEF SessionInv
  <2>5. /\ DOMAIN session' = DOMAIN session
        /\ \A r \in DOMAIN session :
             session'[r] \in {"working", "done", "interrupted"} => r \in prompted
    <3>1. CASE \E owner \in Sessions, kind \in RequestKinds : SendRequest(owner, kind)
      BY <1>1, <3>1 DEF SendRequest, kernel, SessionInv
    <3>2. CASE \E run \in DOMAIN session : SessionStep(run) \/ SessionCompactFails(run)
      <4>1. PICK run \in DOMAIN session : SessionStep(run) \/ SessionCompactFails(run)
        BY <3>2
      <4>2. CASE SessionCompactFails(run)
        BY <1>1, <4>2 DEF SessionCompactFails, kernel, SessionInv
      <4>3. CASE SessionCrashes(run) \/ SessionTerminates(run)
        BY <1>1, <4>3 DEF SessionCrashes, SessionTerminates, SessionInv
      <4>4. CASE \E how \in EndKinds : SessionEnds(run, how)
        BY <1>1, <4>4 DEF SessionEnds, SessionInv
      <4>5. QED
        BY <4>1, <4>2, <4>3, <4>4 DEF SessionStep
    <3>3. QED
      BY <1>2, <3>1, <3>2 DEF SenderStep
  <2>6. QED
    BY <1>1, <2>1, <2>3, <2>4, <2>5 DEF SessionInv
<1>3. CASE Restart
  <2>1. /\ inbox' = <<>> /\ kernel_rx' = <<>> /\ prompted' = prompted
        /\ session' = [r \in DOMAIN session \cap manifest |-> Restored(r)]
    BY <1>3 DEF Restart
  <2>2. \A kind : InFlight(<<>>, kind) = {}
    BY DEF InFlight
  <2>3. \A r \in DOMAIN session :
          Restored(r) \in {"working", "done", "interrupted"} => r \in prompted
    BY <1>1 DEF Restored, SessionInv
  <2>4. \A r \in DOMAIN session' :
          session'[r] \in {"working", "done", "interrupted"} => r \in prompted'
    BY <2>1, <2>3
  <2>5. QED
    BY <2>1, <2>2, <2>4 DEF SessionInv
<1>4. QED
  BY <1>2, <1>3

-----------------------------------------------------------------------------
(* What the status of a task tells.                                        *)

\* Tasks with a run, pending or active.
UnderWay == {run[1] : run \in pending_runs \cup active_runs}

\* The status invariant, task by task.
LEMMA StatusInvIs ==
    StatusInv <=>
        /\ \A id \in DOMAIN tasks : id # unsaved =>
             /\ tasks[id].status \in {"completed", "failed"} => id \notin UnderWay
             /\ (tasks[id].status = "running" /\ restarts = 0) => id \in UnderWay
        /\ unsaved # 0 => unsaved \in UnderWay
<1>1. \A id : TaskRunInProgress(id) <=> id \in UnderWay
  BY DEF TaskRunInProgress, UnderWay
<1>2. StatusTellsRun <=>
        \A id \in DOMAIN tasks : id # unsaved =>
          /\ tasks[id].status \in {"completed", "failed"} => id \notin UnderWay
          /\ (tasks[id].status = "running" /\ restarts = 0) => id \in UnderWay
  BY DEF StatusTellsRun, UnderWay
<1>3. QED
  BY <1>1, <1>2 DEF StatusInv

\* The same of the next state.
LEMMA StatusInvNextIs ==
    StatusInv' <=>
        /\ \A id \in DOMAIN tasks' : id # unsaved' =>
             /\ tasks'[id].status \in {"completed", "failed"} => id \notin UnderWay'
             /\ (tasks'[id].status = "running" /\ restarts' = 0) => id \in UnderWay'
        /\ unsaved' # 0 => unsaved' \in UnderWay'
<1>1. TaskRunInProgress(unsaved)' <=> unsaved' \in UnderWay'
  BY DEF TaskRunInProgress, UnderWay
<1>2. StatusTellsRun' <=>
        \A id \in DOMAIN tasks' : id # unsaved' =>
          /\ tasks'[id].status \in {"completed", "failed"} => id \notin UnderWay'
          /\ (tasks'[id].status = "running" /\ restarts' = 0) => id \in UnderWay'
  BY DEF StatusTellsRun, UnderWay
<1>3. QED
  BY <1>1, <1>2 DEF StatusInv

\* Steps that start and end no run: tasks may go, come without a status, or be
\* changed otherwise.
LEMMA StatusStays ==
    ASSUME StatusInv, UNCHANGED <<unsaved, restarts>>,
           pending_runs' \cup active_runs' = pending_runs \cup active_runs,
           \A id \in DOMAIN tasks' :
             \/ tasks'[id].status = "none"
             \/ id \in DOMAIN tasks /\ tasks'[id].status = tasks[id].status
    PROVE  StatusInv'
<1>1. UnderWay' = UnderWay
  BY DEF UnderWay
<1>2. /\ \A id \in DOMAIN tasks : id # unsaved =>
           /\ tasks[id].status \in {"completed", "failed"} => id \notin UnderWay
           /\ (tasks[id].status = "running" /\ restarts = 0) => id \in UnderWay
      /\ unsaved # 0 => unsaved \in UnderWay
  BY StatusInvIs
<1>3. /\ \A id \in DOMAIN tasks' : id # unsaved' =>
           /\ tasks'[id].status \in {"completed", "failed"} => id \notin UnderWay'
           /\ (tasks'[id].status = "running" /\ restarts' = 0) => id \in UnderWay'
      /\ unsaved' # 0 => unsaved' \in UnderWay'
  BY <1>1, <1>2
<1>4. QED
  BY <1>3, StatusInvNextIs

\* A run ends: it was the only one of its task, whose status says so.
LEMMA EndKeepsStatus ==
    ASSUME RunInv, BookInv, unsaved = 0, UNCHANGED <<unsaved, restarts>>,
           NEW run \in pending_runs \cup active_runs,
           pending_runs' \cup active_runs' = (pending_runs \cup active_runs) \ {run},
           NEW status \in {"completed", "failed"}, tasks' = WithStatus(run[1], status)
    PROVE  StatusInv'
<1>1. UnderWay' = UnderWay \ {run[1]}
  <2>1. \A other \in pending_runs \cup active_runs : other[1] = run[1] => other = run
    BY DEF RunInv, OneRunPerTask
  <2>2. UnderWay' = {other[1] : other \in (pending_runs \cup active_runs) \ {run}}
    BY DEF UnderWay
  <2>3. QED
    BY <2>1, <2>2 DEF UnderWay
<1>2. \A id \in DOMAIN tasks : id # unsaved =>
        /\ tasks[id].status \in {"completed", "failed"} => id \notin UnderWay
        /\ (tasks[id].status = "running" /\ restarts = 0) => id \in UnderWay
  BY StatusInvIs DEF BookInv
<1>3. /\ DOMAIN tasks' = DOMAIN tasks
      /\ \A id \in DOMAIN tasks :
           tasks'[id].status = IF id = run[1] THEN status ELSE tasks[id].status
  <2>1. \A id \in DOMAIN tasks : [tasks[id] EXCEPT !.status = status].status = status
    BY DEF BookInv, BookTypes, GoodTable, Task
  <2>2. QED
    BY <2>1 DEF WithStatus
<1>4. \A id \in DOMAIN tasks' : id # unsaved' =>
        /\ tasks'[id].status \in {"completed", "failed"} => id \notin UnderWay'
        /\ (tasks'[id].status = "running" /\ restarts' = 0) => id \in UnderWay'
  <2>1. SUFFICES ASSUME NEW id \in DOMAIN tasks, id # unsaved
                 PROVE  /\ tasks'[id].status \in {"completed", "failed"} => id \notin UnderWay'
                        /\ (tasks'[id].status = "running" /\ restarts' = 0) => id \in UnderWay'
    BY <1>3
  <2>2. CASE id = run[1]
    BY <1>1, <1>3, <2>1, <2>2
  <2>3. CASE id # run[1]
    BY <1>1, <1>2, <1>3, <2>1, <2>3
  <2>4. QED
    BY <2>2, <2>3
<1>5. QED
  BY <1>4, StatusInvNextIs

\* Cron's steps keep the status of a task true.
LEMMA CronKeepsStatus ==
    ASSUME RunInv, BookInv,
           HandleMessage \/ FinishTrigger \/ \E ids \in SUBSET Ids : TimerFires(ids)
    PROVE  StatusInv'
<1>1. restarts' = restarts /\ StatusInv
  BY DEF HandleMessage, HandleRegister, HandleUpdate, HandleRemove, HandleTrigger,
         HandleCreated, HandleError, HandleAgentSessionEvent, FinishTrigger,
         TriggerDue, MarkTaskRunning, TimerFires, BookInv
<1>2. CASE HandleRegister
  <2>1. UNCHANGED <<unsaved, pending_runs, active_runs>>
    BY <1>2 DEF HandleRegister, runs, timer
  <2>2. \/ tasks' = tasks
        \/ tasks' = Insert(Head(inbox).id, NewTask(Head(inbox).owner, Head(inbox).enabled))
    BY <1>2 DEF HandleRegister
  <2>3. NewTask(Head(inbox).owner, Head(inbox).enabled).status = "none"
    BY DEF NewTask
  <2>4. QED
    BY <1>1, <2>1, <2>2, <2>3, StatusStays DEF Insert
<1>3. CASE HandleUpdate
  <2>1. UNCHANGED <<unsaved, pending_runs, active_runs>>
    BY <1>3 DEF HandleUpdate, runs, timer
  <2>2. \/ tasks' = tasks
        \/ /\ Head(inbox).id \in DOMAIN tasks
           /\ tasks' = [tasks EXCEPT ![Head(inbox).id].enabled = Head(inbox).enabled]
    BY <1>3 DEF HandleUpdate
  <2>3. \A id \in DOMAIN tasks : [tasks[id] EXCEPT !.enabled = Head(inbox).enabled].status = tasks[id].status
    BY DEF BookInv, BookTypes, GoodTable, Task
  <2>4. DOMAIN tasks' = DOMAIN tasks /\ \A id \in DOMAIN tasks : tasks'[id].status = tasks[id].status
    BY <2>2, <2>3
  <2>5. QED
    BY <1>1, <2>1, <2>4, StatusStays
<1>4. CASE HandleRemove
  <2>1. UNCHANGED <<unsaved, pending_runs, active_runs>>
    BY <1>4 DEF HandleRemove, runs, timer
  <2>2. \/ tasks' = tasks
        \/ tasks' = [i \in DOMAIN tasks \ {Head(inbox).id} |-> tasks[i]]
    BY <1>4 DEF HandleRemove
  <2>3. QED
    BY <1>1, <2>1, <2>2, StatusStays
<1>5. ASSUME NEW id \in Ids, TriggerTask(id), unsaved = 0
      PROVE  StatusInv'
  <2>1. /\ tasks' = tasks /\ unsaved' = id
        /\ pending_runs' = pending_runs \cup {<<id, next_run_id>>}
        /\ active_runs' = active_runs
    BY <1>5 DEF TriggerTask
  <2>2. UnderWay' = UnderWay \cup {id}
    <3>1. UnderWay' = {run[1] : run \in pending_runs' \cup active_runs'}
      BY DEF UnderWay
    <3> DEFINE run == <<id, next_run_id>>
    <3>2. run[1] = id
      OBVIOUS
    <3>3. pending_runs' \cup active_runs' = (pending_runs \cup active_runs) \cup {run}
      BY <2>1
    <3> HIDE DEF run
    <3>4. QED
      BY <3>1, <3>2, <3>3 DEF UnderWay
  <2>3. \A other \in DOMAIN tasks :
          /\ tasks[other].status \in {"completed", "failed"} => other \notin UnderWay
          /\ (tasks[other].status = "running" /\ restarts = 0) => other \in UnderWay
    <3>1. \A other \in DOMAIN tasks : other # unsaved
      BY <1>5 DEF BookInv, BookTypes, GoodTable, Ids
    <3>2. QED
      BY <1>1, <3>1, StatusInvIs
  <2>4. /\ \A other \in DOMAIN tasks' : other # unsaved' =>
             /\ tasks'[other].status \in {"completed", "failed"} => other \notin UnderWay'
             /\ (tasks'[other].status = "running" /\ restarts' = 0) => other \in UnderWay'
        /\ unsaved' # 0 => unsaved' \in UnderWay'
    BY <1>1, <2>1, <2>2, <2>3
  <2>5. QED
    BY <2>4, StatusInvNextIs
<1>6. CASE HandleTrigger
  <2>1. inbox # <<>> /\ Head(inbox).kind = "trigger" /\ unsaved = 0
    BY <1>6 DEF HandleTrigger, Takes, Receiving
  <2>2. Head(inbox) \in ToCron
    BY <2>1 DEF RunInv, RunTypes
  <2>3. Head(inbox).id \in Ids
    BY <2>1, <2>2, RequestsTyped DEF RequestKinds, RequestMsgs
  <2>4. \/ TriggerTask(Head(inbox).id)
        \/ UNCHANGED <<tasks, unsaved, pending_runs, active_runs>>
    BY <1>6 DEF HandleTrigger, runs
  <2>5. QED
    BY <1>1, <1>5, <2>1, <2>3, <2>4, StatusStays
<1>7. CASE HandleCreated
  <2>1. UNCHANGED <<tasks, unsaved>> /\ pending_runs' \cup active_runs' = pending_runs \cup active_runs
    BY <1>7 DEF HandleCreated, runs, timer
  <2>2. QED
    BY <1>1, <2>1, StatusStays
<1>8. CASE HandleError
  <2> DEFINE run == Head(pending_order)
  <2>1. /\ unsaved = 0 /\ UNCHANGED <<unsaved, active_runs>>
        /\ inbox # <<>> /\ Head(inbox).kind \in Answers
    BY <1>8 DEF HandleError, Takes, Receiving, timer, Answers
  <2>2. pending_order # <<>> /\ run \in pending_runs
    BY <2>1, AnswerIsForHead DEF RunInv, BookInv
  <2>3. pending_runs' = pending_runs \ {run} /\ tasks' = WithStatus(run[1], "failed")
    BY <1>8, <2>2 DEF HandleError
  <2> HIDE DEF run
  <2>4. run \notin active_runs
    BY <2>2 DEF RunInv, RunsNumbered, Told
  <2>5. pending_runs' \cup active_runs' = (pending_runs \cup active_runs) \ {run}
    BY <2>1, <2>3, <2>4
  <2>6. QED
    BY <1>1, <2>1, <2>2, <2>3, <2>5, EndKeepsStatus
<1>9. CASE HandleAgentSessionEvent
  <2> DEFINE run == Head(inbox).run
  <2>1. unsaved = 0 /\ UNCHANGED <<unsaved, pending_runs>>
    BY <1>9 DEF HandleAgentSessionEvent, Takes, Receiving, timer
  <2>2. \/ UNCHANGED <<tasks, active_runs>>
        \/ /\ run \in active_runs /\ active_runs' = active_runs \ {run}
           /\ \E status \in {"completed", "failed"} : tasks' = WithStatus(run[1], status)
    BY <1>9 DEF HandleAgentSessionEvent
  <2> HIDE DEF run
  <2>3. CASE UNCHANGED <<tasks, active_runs>>
    BY <1>1, <2>1, <2>3, StatusStays
  <2>4. CASE /\ run \in active_runs /\ active_runs' = active_runs \ {run}
             /\ \E status \in {"completed", "failed"} : tasks' = WithStatus(run[1], status)
    <3>1. run \notin pending_runs
      BY <2>4 DEF RunInv, RunsNumbered, Told
    <3>2. pending_runs' \cup active_runs' = (pending_runs \cup active_runs) \ {run}
      BY <2>1, <2>4, <3>1
    <3>3. QED
      BY <1>1, <2>1, <2>4, <3>2, EndKeepsStatus
  <2>5. QED
    BY <2>2, <2>3, <2>4
<1>10. CASE TriggerDue
  <2>1. PICK id \in due : \/ TriggerTask(id)
                          \/ UNCHANGED <<tasks, unsaved, pending_runs, active_runs>>
    BY <1>10 DEF TriggerDue, runs
  <2>2. id \in Ids /\ unsaved = 0
    BY <1>10 DEF TriggerDue, RunInv, RunTypes
  <2>3. QED
    BY <1>1, <1>5, <2>1, <2>2, StatusStays
<1>11. CASE MarkTaskRunning
  <2>1. /\ unsaved # 0 /\ unsaved' = 0 /\ UNCHANGED <<pending_runs, active_runs>>
        /\ tasks' = WithStatus(unsaved, "running")
    BY <1>11 DEF MarkTaskRunning, runs
  <2>2. UnderWay' = UnderWay
    BY <2>1 DEF UnderWay
  <2>3. /\ \A id \in DOMAIN tasks : id # unsaved =>
             /\ tasks[id].status \in {"completed", "failed"} => id \notin UnderWay
             /\ (tasks[id].status = "running" /\ restarts = 0) => id \in UnderWay
        /\ unsaved \in UnderWay
    BY <1>1, <2>1, StatusInvIs
  <2>4. /\ DOMAIN tasks' = DOMAIN tasks
        /\ \A id \in DOMAIN tasks :
             tasks'[id].status = IF id = unsaved THEN "running" ELSE tasks[id].status
    <3>1. \A id \in DOMAIN tasks : [tasks[id] EXCEPT !.status = "running"].status = "running"
      BY DEF BookInv, BookTypes, GoodTable, Task
    <3>2. QED
      BY <2>1, <3>1 DEF WithStatus
  <2>5. \A id \in DOMAIN tasks' :
          /\ tasks'[id].status \in {"completed", "failed"} => id \notin UnderWay'
          /\ (tasks'[id].status = "running" /\ restarts' = 0) => id \in UnderWay'
    BY <1>1, <2>2, <2>3, <2>4
  <2>6. QED
    BY <2>1, <2>5, StatusInvNextIs
<1>12. CASE \E ids \in SUBSET Ids : TimerFires(ids)
  <2>1. UNCHANGED <<tasks, unsaved, pending_runs, active_runs>>
    BY <1>12 DEF TimerFires, runs
  <2>2. QED
    BY <1>1, <2>1, StatusStays
<1>13. QED
  BY <1>2, <1>3, <1>4, <1>6, <1>7, <1>8, <1>9, <1>10, <1>11, <1>12
     DEF HandleMessage, FinishTrigger

\* No other thread writes the status, and after a restart no run is under way.
LEMMA OthersKeepStatus ==
    ASSUME RunInv, BookInv, KernelStep \/ SenderStep \/ Restart
    PROVE  StatusInv'
<1>1. CASE KernelStep \/ SenderStep
  <2>1. UNCHANGED <<tasks, unsaved, pending_runs, active_runs, restarts>>
    <3>1. CASE KernelStep
      BY <3>1 DEF KernelStep, KernelCreates, KernelRejects, KernelForwards, KernelPrompts,
                  KernelUnmounts, runs, timer
    <3>2. CASE SenderStep
      BY <3>2, SendersSend DEF BookInv
    <3>3. QED
      BY <1>1, <3>1, <3>2
  <2>2. QED
    BY <2>1, StatusStays DEF BookInv
<1>2. CASE Restart
  <2>1. pending_runs' = {} /\ active_runs' = {} /\ unsaved' = 0 /\ restarts' = restarts + 1
    BY <1>2 DEF Restart
  <2>2. UnderWay' = {}
    BY <2>1 DEF UnderWay
  <2>3. restarts' # 0
    BY <2>1 DEF BookInv, BookTypes
  <2>4. QED
    BY <2>1, <2>2, <2>3, StatusInvNextIs
<1>3. QED
  BY <1>1, <1>2

-----------------------------------------------------------------------------

\* The books are empty at the start.
LEMMA InitBooks ==
    ASSUME Init
    PROVE  BookInv
<1>1. \A kind : InFlight(<<>>, kind) = {}
  BY DEF InFlight
<1>2. /\ pending_runs = {} /\ pending_order = <<>> /\ active_runs = {} /\ unsaved = 0
      /\ inbox = <<>> /\ kernel_rx = <<>> /\ DOMAIN tasks = {} /\ DOMAIN session = {}
  BY DEF Init, NoTasks, NoSessions
<1>3. BookTypes
  <2>1. GoodTable(NoTasks)
    BY DEF GoodTable, NoTasks
  <2>2. disk.tasks = NoTasks /\ disk.next_run_id = 1 /\ tasks = NoTasks
    BY DEF Init
  <2>3. disk = [tasks |-> disk.tasks, next_run_id |-> disk.next_run_id]
    BY DEF Init
  <2>4. session \in [DOMAIN session -> SessionStates]
    BY DEF Init, NoSessions
  <2>5. /\ pending_order \in Seq(Runs) /\ forwarded \subseteq Runs /\ DOMAIN session \subseteq Runs
        /\ manifest \subseteq Runs /\ next_cron_index \in [Sessions -> Nat]
        /\ requested \in Nat /\ restarts \in Nat
    BY <1>2 DEF Init
  <2>6. QED
    BY <2>1, <2>2, <2>3, <2>4, <2>5 DEF BookTypes
<1>4. OrderInv
  <2>1. Answered = {} /\ Asked = {}
    BY <1>1, <1>2 DEF Answered, Asked
  <2>2. Increasing(inbox, Answers) /\ Increasing(kernel_rx, {"create"})
    BY <1>2 DEF Increasing
  <2>3. PendingInOrder /\ {pending_order[i] : i \in 1..Len(pending_order)} = {}
    BY <1>2 DEF PendingInOrder
  <2>4. QED
    BY <1>2, <2>1, <2>2, <2>3 DEF OrderInv, QueuesInOrder, PendingIsBooked
<1>5. SessionInv
  BY <1>1, <1>2 DEF SessionInv
<1>6. StatusInv
  BY <1>2, StatusInvIs
<1>7. QED
  BY <1>3, <1>4, <1>5, <1>6 DEF BookInv

\* Every step keeps the books.
LEMMA NextKeepsBooks ==
    ASSUME RunInv, BookInv, Next
    PROVE  BookInv'
<1>1. CASE HandleMessage \/ FinishTrigger \/ \E ids \in SUBSET Ids : TimerFires(ids)
  BY <1>1, CronKeepsTypes, CronKeepsOrder, CronKeepsSessions, CronKeepsStatus DEF BookInv
<1>2. CASE KernelStep
  BY <1>2, OthersKeepTypes, KernelKeepsOrder, KernelKeepsSessions, OthersKeepStatus DEF BookInv
<1>3. CASE SenderStep \/ Restart
  BY <1>3, OthersKeepTypes, OthersKeepOrder, OthersKeepSessions, OthersKeepStatus DEF BookInv
<1>4. QED
  BY <1>1, <1>2, <1>3 DEF Next, SenderStep

\* The books' invariant, with the one about the runs.
THEOREM BookInvariant == Spec => [](RunInv /\ BookInv)
<1>1. Init => BookInv
  BY InitBooks
<1>2. RunInv /\ BookInv /\ [Next]_vars => BookInv'
  <2>1. SUFFICES ASSUME RunInv, BookInv, [Next]_vars
                 PROVE  BookInv'
    OBVIOUS
  <2>2. CASE Next
    BY <2>1, <2>2, NextKeepsBooks
  <2>3. CASE UNCHANGED vars
    <3>1. UNCHANGED <<tasks, next_run_id, pending_runs, pending_order, active_runs, forwarded,
                      due, unsaved, inbox, kernel_rx, session, manifest, prompted, disk,
                      next_cron_index, requested, restarts>>
      BY <2>3 DEF vars, runs, timer, kernel, owners
    <3>2. BookTypes'
      BY <2>1, <3>1 DEF BookInv, BookTypes
    <3>3. OrderInv'
      BY <2>1, <3>1, OrderStays DEF BookInv, OrderInv, QueuesInOrder, Answered, Asked
    <3>4. SessionInv'
      BY <2>1, <3>1 DEF BookInv, SessionInv
    <3>5. StatusInv'
      BY <2>1, <3>1, StatusStays DEF BookInv
    <3>6. QED
      BY <3>2, <3>3, <3>4, <3>5 DEF BookInv
  <2>4. QED
    BY <2>1, <2>2, <2>3
<1>3. QED
  BY <1>1, <1>2, RunInvAlways, PTL DEF Spec

\* Cron's books agree with the kernel and the sessions, whatever the number of
\* owners, tasks, runs and restarts: an error of the kernel, which does not say
\* what it answers, is booked for the run it refused (record_pending_run_failed
\* in cron.rs); the status shown of a task fits its runs; and every prompt finds
\* its session mounted, so that dispatch_call never ends the kernel for it.
THEOREM BooksAlwaysAgree == Spec => []CronBooksAgree
<1>1. RunInv /\ BookInv => CronBooksAgree
  <2>1. SUFFICES ASSUME RunInv, BookInv
                 PROVE  CronBooksAgree
    OBVIOUS
  <2>2. TypeOK
    BY <2>1 DEF TypeOK, RunInv, RunTypes, BookInv, BookTypes, GoodTable
  <2>3. RejectionHitsItsRun
    BY <2>1, AnswerIsForHead DEF RejectionHitsItsRun, RunInv, BookInv, Answers
  <2>4. StatusTellsRun
    BY <2>1 DEF BookInv, StatusInv
  <2>5. PromptFindsSession
    BY <2>1 DEF PromptFindsSession, BookInv, SessionInv
  <2>6. QED
    BY <2>2, <2>3, <2>4, <2>5 DEF CronBooksAgree
<1>2. QED
  BY <1>1, BookInvariant, PTL

-----------------------------------------------------------------------------
(* Owners.                                                                 *)

\* Every task, in memory and on disk, belongs to a session whose registration
\* was valid.
OwnersInv ==
    /\ \A id \in DOMAIN tasks : tasks[id].owner \in Paired
    /\ \A id \in DOMAIN disk.tasks : disk.tasks[id].owner \in Paired

\* Changing the status or the switch of a task leaves its owner.
LEMMA OwnersUntouched ==
    ASSUME BookTypes, NEW status, NEW enabled
    PROVE  \A i \in DOMAIN tasks :
             /\ [tasks[i] EXCEPT !.status = status].owner = tasks[i].owner
             /\ [tasks[i] EXCEPT !.enabled = enabled].owner = tasks[i].owner
BY DEF BookTypes, GoodTable, Task

LEMMA NextKeepsOwners ==
    ASSUME BookInv, OwnersInv, Next
    PROVE  OwnersInv'
<1>1. CASE HandleRegister
  <2> DEFINE call == Head(inbox)
  <2>1. \/ UNCHANGED <<tasks, disk>>
        \/ /\ call.owner \in Paired
           /\ tasks' = Insert(call.id, NewTask(call.owner, call.enabled))
           /\ disk' = [tasks |-> tasks', next_run_id |-> next_run_id]
    BY <1>1 DEF HandleRegister, PersistTasks, ValidRegistration
  <2>2. NewTask(call.owner, call.enabled).owner = call.owner
    BY DEF NewTask
  <2> HIDE DEF call
  <2>3. CASE UNCHANGED <<tasks, disk>>
    BY <2>3 DEF OwnersInv
  <2>4. CASE /\ call.owner \in Paired
             /\ tasks' = Insert(call.id, NewTask(call.owner, call.enabled))
             /\ disk' = [tasks |-> tasks', next_run_id |-> next_run_id]
    <3>1. \A id \in DOMAIN tasks' : tasks'[id].owner \in Paired
      BY <2>2, <2>4 DEF OwnersInv, Insert
    <3>2. disk'.tasks = tasks'
      BY <2>4
    <3>3. QED
      BY <3>1, <3>2 DEF OwnersInv
  <2>5. QED
    BY <2>1, <2>3, <2>4
<1>2. CASE HandleUpdate
  <2> DEFINE call == Head(inbox)
  <2>1. \/ UNCHANGED <<tasks, disk>>
        \/ /\ call.id \in DOMAIN tasks
           /\ tasks' = [tasks EXCEPT ![call.id].enabled = call.enabled]
           /\ disk' = disk \/ disk' = [tasks |-> tasks', next_run_id |-> next_run_id]
    BY <1>2 DEF HandleUpdate, PersistTasks
  <2> HIDE DEF call
  <2>2. \A i \in DOMAIN tasks : [tasks[i] EXCEPT !.enabled = call.enabled].owner = tasks[i].owner
    BY OwnersUntouched DEF BookInv
  <2>3. \A id \in DOMAIN tasks' : tasks'[id].owner \in Paired
    BY <2>1, <2>2 DEF OwnersInv
  <2>4. disk'.tasks = disk.tasks \/ disk'.tasks = tasks'
    BY <2>1
  <2>5. QED
    BY <2>3, <2>4 DEF OwnersInv
<1>3. CASE HandleRemove
  <2>1. \/ UNCHANGED <<tasks, disk>>
        \/ /\ tasks' = [i \in DOMAIN tasks \ {Head(inbox).id} |-> tasks[i]]
           /\ disk' = [tasks |-> tasks', next_run_id |-> next_run_id]
    BY <1>3 DEF HandleRemove, PersistTasks
  <2>2. \A id \in DOMAIN tasks' : tasks'[id].owner \in Paired
    BY <2>1 DEF OwnersInv
  <2>3. disk'.tasks = disk.tasks \/ disk'.tasks = tasks'
    BY <2>1
  <2>4. QED
    BY <2>2, <2>3 DEF OwnersInv
<1>4. CASE HandleError \/ HandleAgentSessionEvent \/ MarkTaskRunning
  <2>1. \/ UNCHANGED <<tasks, disk>>
        \/ /\ \E id, status : tasks' = WithStatus(id, status)
           /\ disk' = [tasks |-> tasks', next_run_id |-> next_run_id]
    <3>1. CASE HandleError
      BY <3>1 DEF HandleError, PersistTasks
    <3>2. CASE HandleAgentSessionEvent
      BY <3>2 DEF HandleAgentSessionEvent, PersistTasks
    <3>3. CASE MarkTaskRunning
      BY <3>3 DEF MarkTaskRunning, PersistTasks
    <3>4. QED
      BY <1>4, <3>1, <3>2, <3>3
  <2>2. ASSUME NEW id, NEW status, tasks' = WithStatus(id, status)
        PROVE  \A i \in DOMAIN tasks' : tasks'[i].owner \in Paired
    <3>1. \A i \in DOMAIN tasks : [tasks[i] EXCEPT !.status = status].owner = tasks[i].owner
      BY OwnersUntouched DEF BookInv
    <3>2. QED
      BY <2>2, <3>1 DEF OwnersInv, WithStatus
  <2>3. \A i \in DOMAIN tasks' : tasks'[i].owner \in Paired
    BY <2>1, <2>2 DEF OwnersInv
  <2>4. disk'.tasks = disk.tasks \/ disk'.tasks = tasks'
    BY <2>1
  <2>5. QED
    BY <2>3, <2>4 DEF OwnersInv
<1>5. CASE \/ HandleTrigger \/ HandleCreated \/ TriggerDue
           \/ \E ids \in SUBSET Ids : TimerFires(ids)
  BY <1>5 DEF HandleTrigger, HandleCreated, TriggerDue, TriggerTask, TimerFires, OwnersInv
<1>6. CASE KernelStep
  BY <1>6 DEF KernelStep, KernelCreates, KernelRejects, KernelForwards, KernelPrompts,
              KernelUnmounts, OwnersInv
<1>7. CASE SenderStep
  BY <1>7, SendersSend DEF BookInv, OwnersInv
<1>8. CASE Restart
  BY <1>8 DEF Restart, OwnersInv
<1>9. QED
  BY <1>1, <1>2, <1>3, <1>4, <1>5, <1>6, <1>7, <1>8
     DEF Next, HandleMessage, FinishTrigger, SenderStep

\* A conversation has one channel, so that validate_task_registration lets one
\* session register: no session takes over or changes the owner of another's
\* task, although all number their tasks from cron_0001, a registration
\* replaces the task of that id, and a restart brings back what was saved.
THEOREM TasksAlwaysKeepOwner ==
    ASSUME \A s, t \in Paired : s = t
    PROVE  Spec => TaskKeepsOwner
<1>1. Init => OwnersInv
  <2>1. Init => DOMAIN tasks = {} /\ DOMAIN disk.tasks = {}
    BY DEF Init, NoTasks
  <2>2. QED
    BY <2>1 DEF OwnersInv
<1>2. BookInv /\ OwnersInv /\ [Next]_vars => OwnersInv'
  <2>1. SUFFICES ASSUME BookInv, OwnersInv, [Next]_vars PROVE OwnersInv'
    OBVIOUS
  <2>2. CASE UNCHANGED vars
    BY <2>1, <2>2 DEF vars, OwnersInv
  <2>3. QED
    BY <2>1, <2>2, NextKeepsOwners
<1>3. OwnersInv /\ OwnersInv' =>
        [\A id \in DOMAIN tasks \cap DOMAIN tasks' : tasks'[id].owner = tasks[id].owner]_vars
  BY DEF OwnersInv
<1>4. QED
  BY <1>1, <1>2, <1>3, BookInvariant, PTL DEF Spec, TaskKeepsOwner

-----------------------------------------------------------------------------
(* The sessions that do the work.  A session works only for a run that is  *)
(* active in cron's books, and the books drop a run only for an event of   *)
(* its session, which is sent when it has stopped working.  What has to be *)
(* excluded is an event that is older than the prompt: the session's actor *)
(* may end before it was prompted, and then it never works.                *)

\* The runs that an event in a queue reports as over.
EndsIn(queue) == UNION {InFlight(queue, kind) : kind \in EventKinds}

Ended == EndsIn(kernel_rx) \cup EndsIn(inbox)

\* A run is in progress for cron, and nothing says that it is over.
GoesOn(run) == run \in active_runs /\ run \notin Ended

WorkInv ==
    /\ Ended \subseteq prompted \cup DOMAIN session
    /\ \A run \in DOMAIN session : session[run] = "working" => GoesOn(run)
    /\ \A run \in InFlight(kernel_rx, "prompt") : session[run] = "gone" \/ GoesOn(run)
    /\ \A run \in InFlight(inbox, "created") : session[run] = "gone" \/ run \notin Ended

\* The events of a queue that gets one more message.
LEMMA EndsAppend ==
    ASSUME NEW S, NEW queue \in Seq(S), NEW msg \in S
    PROVE  EndsIn(Append(queue, msg))
             = EndsIn(queue) \cup (IF msg.kind \in EventKinds THEN {msg.run} ELSE {})
<1>1. \A kind : InFlight(Append(queue, msg), kind)
        = InFlight(queue, kind) \cup (IF msg.kind = kind THEN {msg.run} ELSE {})
  BY InFlightAppend
<1>2. QED
  BY <1>1 DEF EndsIn

\* The events of a queue whose first message is taken.
LEMMA EndsTail ==
    ASSUME NEW S, NEW queue \in Seq(S), queue # <<>>
    PROVE  EndsIn(queue)
             = EndsIn(Tail(queue))
                 \cup (IF Head(queue).kind \in EventKinds THEN {Head(queue).run} ELSE {})
<1>1. \A kind : InFlight(queue, kind)
        = InFlight(Tail(queue), kind)
            \cup (IF Head(queue).kind = kind THEN {Head(queue).run} ELSE {})
  BY InFlightTail
<1>2. QED
  BY <1>1 DEF EndsIn

\* A run that the kernel has not answered for, or whose answer is unread, was
\* not prompted.
LEMMA PendingUnprompted ==
    ASSUME RunInv, BookInv
    PROVE  /\ InFlight(inbox, "created") \subseteq pending_runs
           /\ InFlight(kernel_rx, "create") \subseteq pending_runs
           /\ pending_runs \cap prompted = {}
           /\ InFlight(kernel_rx, "prompt") \cap prompted = {}
           /\ InFlight(kernel_rx, "prompt") \cap pending_runs = {}
BY DEF RunInv, RunsNumbered, Told, NoSecondPrompt, BookInv, OrderInv, PendingIsBooked, Answered, Asked

\* Cron forgets a run for an event of a session that works no longer.
LEMMA CronKeepsWork ==
    ASSUME RunInv, BookInv, WorkInv,
           HandleMessage \/ FinishTrigger \/ \E ids \in SUBSET Ids : TimerFires(ids)
    PROVE  WorkInv'
<1>1. UNCHANGED <<session, prompted>>
  BY DEF HandleMessage, HandleRegister, HandleUpdate, HandleRemove, HandleTrigger,
         HandleCreated, HandleError, HandleAgentSessionEvent, FinishTrigger,
         TriggerDue, MarkTaskRunning, TimerFires, kernel
<1>2. inbox \in Seq(ToCron) /\ kernel_rx \in Seq(ToKernel)
  BY DEF RunInv, RunTypes
<1>3. inbox # <<>> =>
        /\ EndsIn(Tail(inbox)) \subseteq EndsIn(inbox)
        /\ InFlight(Tail(inbox), "created") \subseteq InFlight(inbox, "created")
  BY <1>2, EndsTail, FewerInFlight
<1>4. CASE HandleCreated /\ Head(inbox).run \in pending_runs
  <2> DEFINE run == Head(inbox).run
             msg == RunMsg("prompt", run)
  <2>1. /\ kernel_rx' = Append(kernel_rx, msg) /\ inbox' = Tail(inbox)
        /\ inbox # <<>> /\ Head(inbox).kind = "created"
        /\ active_runs' = active_runs \cup {run}
        /\ run \in Runs
    BY <1>4 DEF HandleCreated, Takes, RunInv, RunTypes
  <2>2. msg \in ToKernel /\ msg.kind = "prompt" /\ msg.run = run
    BY <2>1, RunMsgsTyped
  <2>3. run \in InFlight(inbox, "created")
    <3>1. Head(inbox) = inbox[1] /\ 1 \in 1..Len(inbox)
      BY <1>2, <2>1
    <3>2. QED
      BY <2>1, <3>1 DEF InFlight
  <2> HIDE DEF run, msg
  <2>4. InFlight(Append(kernel_rx, msg), "prompt") = InFlight(kernel_rx, "prompt") \cup {run}
    BY <1>2, <2>2, InFlightAppend
  <2>5. EndsIn(Append(kernel_rx, msg)) = EndsIn(kernel_rx)
    BY <1>2, <2>2, EndsAppend DEF EventKinds
  <2>6. Ended' \subseteq Ended
    BY <1>3, <2>1, <2>5 DEF Ended
  <2>7. QED
    BY <1>1, <1>3, <2>1, <2>3, <2>4, <2>6 DEF WorkInv, GoesOn
<1>5. ASSUME NEW id \in Ids, TriggerTask(id), inbox' = inbox \/ (inbox # <<>> /\ inbox' = Tail(inbox))
      PROVE  WorkInv'
  <2> DEFINE msg == RunMsg("create", <<id, next_run_id>>)
  <2>1. <<id, next_run_id>> \in Runs
    BY DEF RunInv, RunTypes, Runs
  <2>2. msg \in ToKernel /\ msg.kind = "create" /\ kernel_rx' = Append(kernel_rx, msg)
    BY <1>5, <2>1, RunMsgsTyped DEF TriggerTask
  <2>3. active_runs' = active_runs
    BY <1>5 DEF TriggerTask
  <2> HIDE DEF msg
  <2>4. /\ InFlight(Append(kernel_rx, msg), "prompt") = InFlight(kernel_rx, "prompt")
        /\ EndsIn(Append(kernel_rx, msg)) = EndsIn(kernel_rx)
    BY <1>2, <2>2, SameInFlight, EndsAppend DEF EventKinds
  <2>5. /\ InFlight(inbox', "created") \subseteq InFlight(inbox, "created")
        /\ Ended' \subseteq Ended
    BY <1>3, <1>5, <2>2, <2>4 DEF Ended
  <2>6. QED
    BY <1>1, <2>2, <2>3, <2>4, <2>5 DEF WorkInv, GoesOn
<1>6. CASE HandleAgentSessionEvent
  <2>1. /\ inbox # <<>> /\ Head(inbox).kind \in EventKinds /\ inbox' = Tail(inbox) /\ kernel_rx' = kernel_rx
        /\ active_runs' = active_runs \/ active_runs' = active_runs \ {Head(inbox).run}
    BY <1>6 DEF HandleAgentSessionEvent, Takes
  <2>2. EndsIn(inbox) = EndsIn(Tail(inbox)) \cup {Head(inbox).run}
    BY <1>2, <2>1, EndsTail
  <2>3. Head(inbox).run \in Ended /\ Ended' \subseteq Ended
    BY <2>1, <2>2 DEF Ended
  <2>4. InFlight(inbox', "created") \subseteq InFlight(inbox, "created")
    BY <1>3, <2>1
  <2>5. QED
    BY <1>1, <2>1, <2>3, <2>4 DEF WorkInv, GoesOn
<1>7. CASE UNCHANGED <<kernel_rx, active_runs>> /\ (inbox' = inbox \/ (inbox # <<>> /\ inbox' = Tail(inbox)))
  <2>1. /\ InFlight(inbox', "created") \subseteq InFlight(inbox, "created")
        /\ Ended' \subseteq Ended
    BY <1>3, <1>7 DEF Ended
  <2>2. QED
    BY <1>1, <1>7, <2>1 DEF WorkInv, GoesOn
<1>8. CASE HandleTrigger
  <2>1. inbox # <<>> /\ inbox' = Tail(inbox) /\ Head(inbox).kind = "trigger"
    BY <1>8 DEF HandleTrigger, Takes
  <2>2. Head(inbox) \in ToCron
    BY <1>2, <2>1
  <2>3. Head(inbox).id \in Ids
    BY <2>1, <2>2, RequestsTyped DEF RequestKinds, RequestMsgs
  <2>4. UNCHANGED <<kernel_rx, active_runs>> \/ TriggerTask(Head(inbox).id)
    BY <1>8 DEF HandleTrigger, runs
  <2>5. QED
    BY <1>5, <1>7, <2>1, <2>3, <2>4
<1>9. CASE TriggerDue
  <2>1. inbox' = inbox /\ (UNCHANGED <<kernel_rx, active_runs>> \/ \E id \in Ids : TriggerTask(id))
    BY <1>9 DEF TriggerDue, runs, RunInv, RunTypes
  <2>2. QED
    BY <1>5, <1>7, <2>1
<1>10. CASE HandleCreated
  <2>1. inbox # <<>> /\ inbox' = Tail(inbox)
    BY <1>10 DEF HandleCreated, Takes
  <2>2. Head(inbox).run \in pending_runs \/ UNCHANGED <<kernel_rx, active_runs>>
    BY <1>10 DEF HandleCreated, runs
  <2>3. QED
    BY <1>4, <1>7, <1>10, <2>1, <2>2
<1>11. CASE \/ HandleRegister \/ HandleUpdate \/ HandleRemove \/ HandleError \/ MarkTaskRunning
            \/ \E ids \in SUBSET Ids : TimerFires(ids)
  <2>1. UNCHANGED <<kernel_rx, active_runs>> /\ (inbox' = inbox \/ (inbox # <<>> /\ inbox' = Tail(inbox)))
    BY <1>11 DEF HandleRegister, HandleUpdate, HandleRemove, HandleError, MarkTaskRunning,
                 TimerFires, Takes, runs
  <2>2. QED
    BY <1>7, <2>1
<1>12. QED
  BY <1>6, <1>8, <1>9, <1>10, <1>11 DEF HandleMessage, FinishTrigger

\* The kernel prompts a session of a run that goes on, or one that does nothing.
LEMMA KernelKeepsWork ==
    ASSUME RunInv, BookInv, WorkInv, KernelStep
    PROVE  WorkInv'
<1>1. inbox \in Seq(ToCron) /\ kernel_rx \in Seq(ToKernel)
  BY DEF RunInv, RunTypes
<1>2. /\ kernel_rx # <<>> /\ kernel_rx' = Tail(kernel_rx) /\ Head(kernel_rx) \in ToKernel
      /\ active_runs' = active_runs
  BY <1>1 DEF KernelStep, KernelCreates, KernelRejects, KernelForwards, KernelPrompts,
              KernelUnmounts, KernelTakes, runs
<1>3. InFlight(kernel_rx', "prompt") \subseteq InFlight(kernel_rx, "prompt")
  BY <1>1, <1>2, FewerInFlight
<1>4. EndsIn(kernel_rx)
        = EndsIn(kernel_rx')
            \cup (IF Head(kernel_rx).kind \in EventKinds THEN {Head(kernel_rx).run} ELSE {})
  BY <1>1, <1>2, EndsTail
<1>5. ASSUME NEW kind, Head(kernel_rx).kind = kind
      PROVE  Head(kernel_rx).run \in InFlight(kernel_rx, kind)
  <2>1. Head(kernel_rx) = kernel_rx[1] /\ 1 \in 1..Len(kernel_rx)
    BY <1>1, <1>2
  <2>2. QED
    BY <1>5, <2>1 DEF InFlight
<1>6. SessionInv
  BY DEF BookInv
<1>7. CASE KernelCreates \/ KernelRejects
  <2> DEFINE run == Head(kernel_rx).run
  <2>1. /\ Head(kernel_rx).kind = "create" /\ prompted' = prompted
        /\ \/ session' = session /\ inbox' = Append(inbox, RunMsg("error", run))
           \/ Mount(run) /\ run \notin DOMAIN session
              /\ \E kind \in Answers : inbox' = Append(inbox, RunMsg(kind, run))
    BY <1>7 DEF KernelCreates, KernelRejects, KernelTakes, Answers
  <2>2. run \in Runs
    BY <1>2, <2>1 DEF ToKernel, RequestMsgs, RequestKinds
  <2>3. run \in pending_runs
    BY <1>5, <2>1, PendingUnprompted
  <2> HIDE DEF run
  <2>4. PICK kind \in Answers :
          /\ inbox' = Append(inbox, RunMsg(kind, run))
          /\ session' = session => kind = "error"
          /\ session' = session \/ (Mount(run) /\ run \notin DOMAIN session)
    <3>1. Mount(run) /\ run \notin DOMAIN session => session' # session
      BY DEF Mount
    <3>2. QED
      BY <2>1, <3>1 DEF Answers
  <2> DEFINE msg == RunMsg(kind, run)
  <2>5. msg \in ToCron /\ msg.kind = kind /\ msg.run = run
    BY <2>2, RunMsgsTyped DEF Answers, RunMsg
  <2> HIDE DEF msg
  <2>6. InFlight(Append(inbox, msg), "created")
          = InFlight(inbox, "created") \cup (IF msg.kind = "created" THEN {msg.run} ELSE {})
    BY <1>1, <2>5, InFlightAppend
  <2>7. EndsIn(Append(inbox, msg)) = EndsIn(inbox)
    <3>1. msg.kind \notin EventKinds
      BY <2>5 DEF EventKinds, Answers
    <3>2. EndsIn(Append(inbox, msg))
            = EndsIn(inbox) \cup (IF msg.kind \in EventKinds THEN {msg.run} ELSE {})
      BY <1>1, <2>5, EndsAppend
    <3>3. QED
      BY <3>1, <3>2
  <2>8. inbox' = Append(inbox, msg) /\ Ended' = Ended
    BY <1>4, <2>1, <2>4, <2>7 DEF msg, Ended, EventKinds
  <2>9. CASE session' = session
    <3>1. InFlight(inbox', "created") = InFlight(inbox, "created")
      BY <2>4, <2>5, <2>6, <2>8, <2>9
    <3>2. QED
      BY <1>2, <1>3, <2>1, <2>8, <2>9, <3>1 DEF WorkInv, GoesOn
  <2>10. CASE Mount(run) /\ run \notin DOMAIN session
    <3>1. /\ DOMAIN session' = DOMAIN session \cup {run}
          /\ \A r \in DOMAIN session : session'[r] = session[r]
          /\ session'[run] = "idle"
      BY <2>10 DEF Mount
    <3>2. run \notin Ended
      BY <2>3, <2>10, PendingUnprompted DEF WorkInv
    <3>3. InFlight(inbox', "created") \subseteq InFlight(inbox, "created") \cup {run}
      BY <2>5, <2>6, <2>8
    <3>4. \A r \in InFlight(inbox, "created") \cup InFlight(kernel_rx, "prompt") : r \in DOMAIN session
      BY <1>6 DEF SessionInv
    <3>5. QED
      BY <1>2, <1>3, <2>1, <2>8, <3>1, <3>2, <3>3, <3>4 DEF WorkInv, GoesOn
  <2>11. QED
    BY <2>4, <2>9, <2>10
<1>8. CASE KernelForwards
  <2> DEFINE msg == Head(kernel_rx)
  <2>1. /\ msg.kind \in RequestKinds \cup EventKinds /\ inbox' = Append(inbox, msg)
        /\ UNCHANGED <<session, prompted>>
    BY <1>8 DEF KernelForwards, KernelTakes, kernel
  <2>2. msg \in ToCron /\ msg.kind # "created"
    BY <1>2, <2>1, ForwardedTyped DEF RequestKinds, EventKinds
  <2>3. EndsIn(kernel_rx) = EndsIn(kernel_rx') \cup (IF msg.kind \in EventKinds THEN {msg.run} ELSE {})
    BY <1>4
  <2> HIDE DEF msg
  <2>4. InFlight(Append(inbox, msg), "created") = InFlight(inbox, "created")
    BY <1>1, <2>2, SameInFlight
  <2>5. EndsIn(Append(inbox, msg))
          = EndsIn(inbox) \cup (IF msg.kind \in EventKinds THEN {msg.run} ELSE {})
    BY <1>1, <2>2, EndsAppend
  <2>6. Ended' = Ended
    BY <2>1, <2>3, <2>5 DEF Ended
  <2>7. QED
    BY <1>2, <1>3, <2>1, <2>4, <2>6 DEF WorkInv, GoesOn
<1>9. ASSUME Head(kernel_rx).kind \notin EventKinds, inbox' = inbox
      PROVE  Ended' = Ended
  BY <1>4, <1>9 DEF Ended
<1>10. CASE KernelPrompts
  <2> DEFINE run == Head(kernel_rx).run
  <2>1. /\ run \in DOMAIN session /\ prompted' = prompted \cup {run} /\ inbox' = inbox
        /\ DOMAIN session' = DOMAIN session
        /\ \A r \in DOMAIN session : r # run => session'[r] = session[r]
        /\ session'[run] = IF session[run] = "gone" THEN "gone" ELSE "working"
        /\ Head(kernel_rx).kind = "prompt"
    BY <1>10 DEF KernelPrompts, KernelTakes
  <2>2. run \in InFlight(kernel_rx, "prompt")
    BY <1>5, <2>1
  <2>3. Ended' = Ended
    BY <1>9, <2>1 DEF EventKinds
  <2> HIDE DEF run
  <2>4. \A r \in InFlight(inbox, "created") : r # run /\ r \in DOMAIN session
    BY <1>6, <2>2, PendingUnprompted DEF SessionInv
  <2>5. \A r \in InFlight(kernel_rx, "prompt") : r \in DOMAIN session
    BY <1>6 DEF SessionInv
  <2>6. QED
    BY <1>2, <1>3, <2>1, <2>2, <2>3, <2>4, <2>5 DEF WorkInv, GoesOn
<1>11. CASE KernelUnmounts
  <2> DEFINE run == Head(kernel_rx).run
  <2>1. /\ Head(kernel_rx).kind = "stopped" /\ prompted' = prompted /\ inbox' = inbox
        /\ session' = [r \in DOMAIN session \ {run} |-> session[r]]
    BY <1>11 DEF KernelUnmounts, KernelTakes
  <2>2. run \in prompted
    BY <1>5, <1>6, <2>1 DEF SessionInv
  <2>3. Ended' = Ended
    BY <1>9, <2>1 DEF EventKinds
  <2> HIDE DEF run
  <2>4. /\ DOMAIN session' = DOMAIN session \ {run}
        /\ \A r \in DOMAIN session' : session'[r] = session[r]
    BY <2>1
  <2>5. \A r \in InFlight(inbox, "created") \cup InFlight(kernel_rx, "prompt") :
          r # run /\ r \in DOMAIN session
    BY <1>6, <2>2, PendingUnprompted DEF SessionInv
  <2>6. QED
    BY <1>2, <1>3, <2>1, <2>2, <2>3, <2>4, <2>5 DEF WorkInv, GoesOn
<1>12. QED
  BY <1>7, <1>8, <1>10, <1>11 DEF KernelStep

\* A session reports the end of its turn when it stops working, and nothing
\* works after a restart.
LEMMA OthersKeepWork ==
    ASSUME ~CompactFails, RunInv, BookInv, WorkInv, SenderStep \/ Restart
    PROVE  WorkInv'
<1>1. kernel_rx \in Seq(ToKernel) /\ SessionInv
  BY DEF RunInv, RunTypes, BookInv
<1>2. CASE \E owner \in Sessions, kind \in RequestKinds : SendRequest(owner, kind)
  <2>1. PICK owner \in Sessions, kind \in RequestKinds : SendRequest(owner, kind)
    BY <1>2
  <2>2. PICK id \in Ids, enabled \in BOOLEAN, valid \in BOOLEAN :
          kernel_rx' = Append(kernel_rx, RequestMsg(kind, owner, id, enabled, valid))
    BY <2>1 DEF SendRequest
  <2> DEFINE msg == RequestMsg(kind, owner, id, enabled, valid)
  <2>3. msg \in ToKernel /\ msg.kind = kind
    BY DEF RequestMsg, ToKernel, RequestMsgs
  <2>4. UNCHANGED <<inbox, session, prompted, active_runs>> /\ kernel_rx' = Append(kernel_rx, msg)
    BY <2>1, <2>2 DEF SendRequest, runs, kernel
  <2> HIDE DEF msg
  <2>5. /\ InFlight(Append(kernel_rx, msg), "prompt") = InFlight(kernel_rx, "prompt")
        /\ EndsIn(Append(kernel_rx, msg)) = EndsIn(kernel_rx)
    <3>1. msg.kind \notin EventKinds /\ msg.kind # "prompt"
      BY <2>3 DEF RequestKinds, EventKinds
    <3>2. EndsIn(Append(kernel_rx, msg))
            = EndsIn(kernel_rx) \cup (IF msg.kind \in EventKinds THEN {msg.run} ELSE {})
      BY <1>1, <2>3, EndsAppend
    <3>3. InFlight(Append(kernel_rx, msg), "prompt") = InFlight(kernel_rx, "prompt")
      BY <1>1, <2>3, <3>1, SameInFlight
    <3>4. QED
      BY <3>1, <3>2, <3>3
  <2>6. QED
    BY <2>4, <2>5 DEF WorkInv, GoesOn, Ended
<1>3. ASSUME NEW run \in DOMAIN session, SessionStep(run)
      PROVE  WorkInv'
  <2>1. PICK kind \in {"stopped"} \cup EventKinds :
          /\ kernel_rx' = Append(kernel_rx, RunMsg(kind, run))
          /\ UNCHANGED <<inbox, prompted, active_runs>>
          /\ DOMAIN session' = DOMAIN session
          /\ \A r \in DOMAIN session : r # run => session'[r] = session[r]
          /\ session'[run] # "working"
          /\ session'[run] = "gone" \/ session[run] \in {"working", "interrupted"}
    <3>1. CASE SessionCrashes(run) \/ SessionTerminates(run)
      BY <3>1 DEF SessionCrashes, SessionTerminates, EventKinds, runs
    <3>2. CASE \E how \in EndKinds : SessionEnds(run, how)
      BY <3>2 DEF SessionEnds, EventKinds, runs
    <3>3. QED
      BY <1>3, <3>1, <3>2 DEF SessionStep
  <2> DEFINE msg == RunMsg(kind, run)
  <2>2. msg \in ToKernel /\ msg.kind = kind /\ msg.run = run
    BY <1>3, RunMsgsTyped DEF BookInv, BookTypes
  <2>3. kernel_rx' = Append(kernel_rx, msg) /\ msg.kind # "prompt"
    BY <2>1, <2>2 DEF EventKinds
  <2> HIDE DEF msg
  <2>4. /\ InFlight(Append(kernel_rx, msg), "prompt") = InFlight(kernel_rx, "prompt")
        /\ EndsIn(Append(kernel_rx, msg)) \subseteq EndsIn(kernel_rx) \cup {run}
    BY <1>1, <2>2, <2>3, SameInFlight, EndsAppend
  <2>5. Ended' \subseteq Ended \cup {run}
    BY <2>1, <2>3, <2>4 DEF Ended
  <2>6. run \in InFlight(inbox, "created") \cup InFlight(kernel_rx, "prompt") => session'[run] = "gone"
    BY <1>1, <1>3, <2>1, PendingUnprompted DEF SessionInv
  <2>7. InFlight(inbox, "created") \cup InFlight(kernel_rx, "prompt") \subseteq DOMAIN session
    BY <1>1 DEF SessionInv
  <2>8. QED
    BY <1>3, <2>1, <2>3, <2>4, <2>5, <2>6, <2>7 DEF WorkInv, GoesOn
<1>4. CASE Restart
  <2>1. /\ inbox' = <<>> /\ kernel_rx' = <<>>
        /\ session' = [r \in DOMAIN session \cap manifest |-> Restored(r)]
    BY <1>4 DEF Restart
  <2>2. \A kind : InFlight(<<>>, kind) = {}
    BY DEF InFlight
  <2>3. Ended' = {}
    BY <2>1, <2>2 DEF Ended, EndsIn
  <2>4. \A r : Restored(r) # "working"
    BY DEF Restored
  <2>5. \A r \in DOMAIN session' : session'[r] # "working"
    BY <2>1, <2>4
  <2>6. QED
    BY <2>1, <2>2, <2>3, <2>5 DEF WorkInv
<1>5. \A run : ~SessionCompactFails(run)
  BY DEF SessionCompactFails
<1>6. QED
  BY <1>2, <1>3, <1>4, <1>5 DEF SenderStep

\* While no compaction fails, at most one background session of a task works at
\* any time, whatever the timer, the owners, ends, crashes and restarts do: a
\* working session is an active run of task_run_in_progress in cron.rs, which
\* starts no other.  (A failed compaction ends the run in cron's books while its
\* session works on.)
THEOREM OneSessionAlways ==
    ASSUME ~CompactFails
    PROVE  Spec => []OneSessionPerTask
<1>1. Init => WorkInv
  <2>1. SUFFICES ASSUME Init PROVE WorkInv
    OBVIOUS
  <2>2. inbox = <<>> /\ kernel_rx = <<>> /\ DOMAIN session = {}
    BY <2>1 DEF Init, NoSessions
  <2>3. \A kind : InFlight(<<>>, kind) = {}
    BY DEF InFlight
  <2>4. QED
    BY <2>2, <2>3 DEF WorkInv, Ended, EndsIn
<1>2. RunInv /\ BookInv /\ WorkInv /\ [Next]_vars => WorkInv'
  <2>1. SUFFICES ASSUME RunInv, BookInv, WorkInv, [Next]_vars PROVE WorkInv'
    OBVIOUS
  <2>2. CASE UNCHANGED vars
    BY <2>1, <2>2 DEF vars, runs, kernel, WorkInv, GoesOn, Ended
  <2>3. CASE HandleMessage \/ FinishTrigger \/ \E ids \in SUBSET Ids : TimerFires(ids)
    BY <2>1, <2>3, CronKeepsWork
  <2>4. CASE KernelStep
    BY <2>1, <2>4, KernelKeepsWork
  <2>5. CASE SenderStep \/ Restart
    BY <2>1, <2>5, OthersKeepWork
  <2>6. QED
    BY <2>1, <2>2, <2>3, <2>4, <2>5 DEF Next, SenderStep
<1>3. RunInv /\ WorkInv => OneSessionPerTask
  BY DEF RunInv, OneRunPerTask, WorkInv, GoesOn, OneSessionPerTask
<1>4. QED
  BY <1>1, <1>2, <1>3, BookInvariant, PTL DEF Spec

=============================================================================
