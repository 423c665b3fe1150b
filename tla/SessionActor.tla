---------------------------- MODULE SessionActor ----------------------------
(***************************************************************************)
(* The SessionActor of stellaclaw_core: the state machine that runs the    *)
(* turns of one agent session.                                             *)
(*                                                                         *)
(* The actor is one thread.  It takes one event at a time from five        *)
(* channels (requests of the host, provider events, tool completions, its  *)
(* own grace timers; tool progress only forwards an event and is left      *)
(* out), handles it, and then starts a turn from the queued messages if it *)
(* is idle.  Around it run the provider session thread, one thread per     *)
(* provider request, one worker per tool batch, one sleeping thread per    *)
(* grace timer and the host.  The process may die between any two steps.   *)
(*                                                                         *)
(* pc is where the actor thread is: "recv" in the select, "drain" about to *)
(* turn pending_data into a turn, "input" in the loop that appends the     *)
(* turn's messages, "announce" after it, "start" in the loop of            *)
(* start_provider_request, "final" appending the response that ends the    *)
(* turn, "dead" after an error or a crash, "down" after a shutdown.        *)
(***************************************************************************)
EXTENDS Integers, Sequences, FiniteSets

-----------------------------------------------------------------------------
(* The messages of a session's history, as far as the tool protocol goes:  *)
(* which tool calls are answered, and where a history may be cut without   *)
(* separating a call from its result.                                      *)
(*                                                                         *)
(* A message is a record [kind, turn, ref].  Its kind is                   *)
(*   "input"    a user or actor message, with the runtime notices put      *)
(*              before it; ref identifies the message                      *)
(*   "calls"    a model response that carries tool calls; ref stands for   *)
(*              the ids of the calls of that response                      *)
(*   "results"  the tool results that answer the calls ref                 *)
(*   "final"    a model response without tool calls                        *)
(*   "summary"  what a compaction puts in place of older messages          *)
(* turn is the number of the turn the message was appended in.             *)

Kinds == {"input", "calls", "results", "final", "summary"}

Message == [kind : Kinds, turn : Nat, ref : Nat]

Summary == [kind |-> "summary", turn |-> 0, ref |-> 0]

IsCall(m, r) == m.kind = "calls" /\ m.ref = r

IsResult(m, r) == m.kind = "results" /\ m.ref = r

\* collect_unclosed_tool_calls: the calls no later message answers.
Unclosed(h) ==
    {h[i].ref : i \in {j \in 1..Len(h) :
        /\ h[j].kind = "calls"
        /\ \A k \in (j + 1)..Len(h) : ~IsResult(h[k], h[j].ref)}}

\* The result at j answers a call that is open when it is reached.
Answers(h, j) ==
    \E i \in 1..(j - 1) :
        /\ IsCall(h[i], h[j].ref)
        /\ \A k \in (i + 1)..(j - 1) : ~IsResult(h[k], h[j].ref)

\* is_tool_protocol_closed_suffix, on a whole sequence: every result has its
\* call before it and every call its result after it.
IsToolProtocolClosed(h) ==
    /\ Unclosed(h) = {}
    /\ \A j \in 1..Len(h) : h[j].kind = "results" => Answers(h, j)

\* What is left of h when the first n messages are dropped.
DropFirst(h, n) == SubSeq(h, n + 1, Len(h))

\* request_too_large_prune_start: the cuts it looks at, in its order; it takes
\* the first one that leaves a closed history.
PruneStarts(h) ==
    {n \in 1..(Len(h) - 1) :
        /\ n >= Len(h) \div 2
        /\ IsToolProtocolClosed(DropFirst(h, n))}

Prunable(h) == PruneStarts(h) # {}

\* What pruning leaves: one history, or none when there is no such cut.
Prunes(h) ==
    {DropFirst(h, n) : n \in {m \in PruneStarts(h) :
                                 \A k \in PruneStarts(h) : m <= k}}

\* The cuts recent_tail_start_by_token_budget may choose, whatever the token
\* counts of the messages are: at least one message is kept, and the cut is
\* moved back to the originating call of a result.
CompactStarts(h) ==
    {n \in 1..(Len(h) - 1) : IsToolProtocolClosed(DropFirst(h, n))}

\* The histories a compaction may leave.  The replacement messages (a summary
\* and the call/result pairs it preserves) are one "summary" message; there are
\* none when the dropped part held nothing to summarise.
Compactions(h) ==
    UNION {{<<Summary>> \o DropFirst(h, n), DropFirst(h, n)} :
             n \in CompactStarts(h)}

-----------------------------------------------------------------------------

CONSTANTS
    Requests,      \* the kinds of request the host may send
    MaxRequests,   \* bound: requests of the host
    MaxSteps,      \* bound: tool rounds of one turn
    MaxStreams,    \* bound: stream and retry events of the provider
    MaxRestarts,   \* bound: restarts of the agent server process
    MaxAttempts,   \* REQUEST_TOO_LARGE_PRUNE_MAX_ATTEMPTS
    Compressor,    \* is a SessionCompressor configured?
    TooLarge,      \* may a request exceed the model's context?
    LegacyDisk     \* was session.json saved in the middle of a tool round?

DataKinds == {"user", "actor"}

ControlKinds == {"initial", "shutdown", "cancel", "continue", "compact"}

ASSUME RequestsAssumption == Requests \subseteq (DataKinds \cup ControlKinds)
ASSUME BoundsAssumption ==
    /\ MaxRequests \in Nat
    /\ MaxSteps \in Nat
    /\ MaxStreams \in Nat
    /\ MaxRestarts \in Nat
    /\ MaxAttempts \in Nat
ASSUME FlagsAssumption ==
    /\ Compressor \in BOOLEAN
    /\ TooLarge \in BOOLEAN
    /\ LegacyDisk \in BOOLEAN

VARIABLES
    pc,
    frame,                    \* arguments and locals of the running handler
    initial,                  \* has the Initial request been applied?
    pending_data,             \* data requests waiting for a turn
    history,                  \* the context sent to the model
    all_messages,             \* the whole transcript
    active_provider_request,
    active_tool_batch,
    pending_continuation,
    next_turn_id,
    next_batch_id,
    provider_context,         \* what the actor believes the session holds
    grace_timer,              \* active_provider_supersede_grace_timer_id, 0: none
    next_timer_id

VARIABLES
    disk,                     \* session.json
    client,                   \* what the SessionEvents told the host
    request_rx,               \* host -> actor
    sent,                     \* requests the host has sent
    restarts

VARIABLES
    session_context,          \* ProviderSession: current_context
    session_active,           \* ProviderSession: active
    abort_queued,             \* an Abort command is in its queue
    provider_threads,         \* requests whose thread may still send events
    provider_event_rx,
    streamed,                 \* stream and retry events sent so far
    running_batch,            \* LocalToolBatchExecutor: running_batch
    worker_done,              \* has its worker sent the completion?
    tool_completion_rx,
    timers,                   \* sleeping grace timer threads
    internal_event_rx,
    grace_elapsed,            \* 200ms since last_activity_at?
    renewed                   \* activity since the armed timer was started?

actorVars == <<pc, frame, initial, pending_data, history, all_messages,
               active_provider_request, active_tool_batch,
               pending_continuation, next_turn_id, next_batch_id,
               provider_context, grace_timer, next_timer_id>>

hostVars == <<disk, client, request_rx, sent, restarts>>

providerVars == <<session_context, session_active, abort_queued,
                  provider_threads, provider_event_rx, streamed>>

toolVars == <<running_batch, worker_done, tool_completion_rx>>

timeVars == <<timers, internal_event_rx, grace_elapsed, renewed>>

vars == <<actorVars, hostVars, providerVars, toolVars, timeVars>>

-----------------------------------------------------------------------------
(***************************************************************************)
(* Values                                                                  *)
(***************************************************************************)
DataRequest == [kind : DataKinds, id : Nat]

\* Provider request ids are "<turn>_provider_<step>_<attempts>".  Turns and
\* batches are numbered from 1: number 0 stands for None.
RequestId == [turn : Nat, step : Nat, attempts : Nat]

NoId == [turn |-> 0, step |-> 0, attempts |-> 0]

\* What a provider request may return.
Results == {"Final", "Calls", "TooLarge", "Error"}

ProviderRequest == [id : RequestId, message_index : Nat]

NoRequest == [id |-> NoId, message_index |-> 0]

Interrupts == {"None", "Cancel", "SupersededByUserMessage"}

ToolBatch == [turn : Nat, step : Nat, batch : Nat, call : Nat,
              interrupt : Interrupts]

NoBatch == [turn |-> 0, step |-> 0, batch |-> 0, call |-> 0,
            interrupt |-> "None"]

NoContinuation == [kind |-> "None", requests |-> <<>>]

CurrentHistory == [kind |-> "CurrentHistory", requests |-> <<>>]

DataRequests(rs) == [kind |-> "DataRequests", requests |-> rs]

Continuation == [kind : {"None", "CurrentHistory", "DataRequests"},
                 requests : Seq(DataRequest)]

Frame == [requests : Seq(DataRequest), at : Nat, from : Nat,
          turn : Nat, step : Nat, attempts : Nat, pushed : BOOLEAN,
          guarded : BOOLEAN]

NoFrame == [requests |-> <<>>, at |-> 1, from |-> 0,
            turn |-> 0, step |-> 0, attempts |-> 0, pushed |-> FALSE,
            guarded |-> FALSE]

Context == [turn : Nat, messages : Seq(Message)]

NoContext == [turn |-> 0, messages |-> <<>>]

PersistedState == [saved : BOOLEAN, history : Seq(Message),
                   all_messages : Seq(Message),
                   next_turn_id : Nat, next_batch_id : Nat]

NoState == [saved |-> FALSE, history |-> <<>>, all_messages |-> <<>>,
            next_turn_id |-> 1, next_batch_id |-> 1]

Client == [turn : Nat, can_continue : BOOLEAN, seen : SUBSET Nat]

IdleClient == [turn |-> 0, can_continue |-> FALSE, seen |-> {}]

HostRequest == [kind : DataKinds \cup ControlKinds, id : Nat]

ProviderEvent == [type : {"Stream", "Retry", "Result"},
                  id : RequestId, result : Results]

HasPendingUserMessage(q) == \E i \in 1..Len(q) : q[i].kind = "user"

ProviderIdle == active_provider_request = NoRequest

ToolsIdle == active_tool_batch = NoBatch

TypeOK ==
    /\ pc \in {"recv", "drain", "input", "announce", "start", "final",
              "dead", "down"}
    /\ frame \in Frame
    /\ initial \in BOOLEAN
    /\ pending_data \in Seq(DataRequest)
    /\ history \in Seq(Message)
    /\ all_messages \in Seq(Message)
    /\ active_provider_request \in ProviderRequest
    /\ active_tool_batch \in ToolBatch
    /\ pending_continuation \in Continuation
    /\ next_turn_id \in Nat
    /\ next_batch_id \in Nat
    /\ provider_context \in Context
    /\ grace_timer \in Nat
    /\ next_timer_id \in Nat
    /\ disk \in PersistedState
    /\ client \in Client
    /\ request_rx \in Seq(HostRequest)
    /\ sent \in Nat
    /\ restarts \in Nat
    /\ session_context \in Seq(Message)
    /\ session_active \in RequestId
    /\ abort_queued \in BOOLEAN
    /\ provider_threads \in SUBSET RequestId
    /\ provider_event_rx \in Seq(ProviderEvent)
    /\ streamed \in Nat
    /\ running_batch \in Nat
    /\ worker_done \in BOOLEAN
    /\ tool_completion_rx \in Seq(Nat)
    /\ timers \in SUBSET Nat
    /\ internal_event_rx \in Seq(Nat)
    /\ grace_elapsed \in BOOLEAN
    /\ renewed \in BOOLEAN

-----------------------------------------------------------------------------
(***************************************************************************)
(* The calls the handlers share                                            *)
(***************************************************************************)
\* Faulty: saves in the middle of a tool round.
PersistAlways(h, all, turn_id, batch_id) ==
    disk' = [saved |-> TRUE, history |-> h, all_messages |-> all,
             next_turn_id |-> turn_id, next_batch_id |-> batch_id]

\* persist_state_if_history_closed: nothing is written while a call is open.
PersistIfClosed(h, all, turn_id, batch_id) ==
    disk' = IF Unclosed(h) = {}
            THEN [saved |-> TRUE, history |-> h, all_messages |-> all,
                  next_turn_id |-> turn_id, next_batch_id |-> batch_id]
            ELSE disk

\* schedule_provider_supersede_grace_event_if_needed, with the timer, the queue,
\* the request and the clock as they are at the call.
ScheduleGrace(timer, data, request, elapsed) ==
    IF timer = 0 /\ HasPendingUserMessage(data) /\ request # NoRequest /\ ~elapsed
    THEN /\ grace_timer' = next_timer_id
         /\ next_timer_id' = next_timer_id + 1
         /\ timers' = timers \cup {next_timer_id}
         /\ renewed' = FALSE
    ELSE /\ grace_timer' = timer
         /\ UNCHANGED <<next_timer_id, timers, renewed>>

\* Faulty: does not ask for a running tool batch.
SettleIgnoringTools(request, batch, data) ==
    pc' = IF request = NoRequest /\ data # <<>> THEN "drain" ELSE "recv"

\* run_pending_data_if_idle, decided at the end of every handler; the loop of
\* the agent server ends after a shutdown.
Settle(request, batch, data) ==
    pc' = IF request = NoRequest /\ batch = NoBatch /\ data # <<>>
          THEN "drain" ELSE "recv"

\* The SessionEvents as the host sees them: the running turn, whether the last
\* failure offered to continue, and the transcript positions it was shown.
Shown(c, indices) == [c EXCEPT !.seen = @ \cup indices]

TurnStarted(c, turn) == [c EXCEPT !.turn = turn, !.can_continue = FALSE]

TurnCompleted(c) == [c EXCEPT !.turn = 0, !.can_continue = FALSE]

TurnFailed(c, can_continue) ==
    [c EXCEPT !.turn = 0, !.can_continue = can_continue]

\* An error leaves the handler: run_actor_loop emits RuntimeCrashed and ends.
Die(c) ==
    /\ pc' = "dead"
    /\ client' = TurnFailed(c, FALSE)

\* Faulty: offers to continue and keeps nothing to continue from.
FinishTurnErrorForgets(c, continuation) ==
    /\ client' = TurnFailed(c, TRUE)
    /\ Settle(NoRequest, NoBatch, pending_data)
    /\ UNCHANGED pending_continuation

\* Faulty: goes back to the select with messages queued.
FinishTurnErrorStops(c, continuation) ==
    /\ pending_continuation' = continuation
    /\ client' = TurnFailed(c, TRUE)
    /\ pc' = "recv"

\* finish_turn_error of a recoverable error.
FinishTurnError(c, continuation) ==
    /\ pending_continuation' = continuation
    /\ client' = TurnFailed(c, TRUE)
    /\ Settle(NoRequest, NoBatch, pending_data)

\* What append_history_message may turn the history into before it adds the
\* message, when it does not defer compression.
AppendBases(h) == {h} \cup (IF Compressor THEN Compactions(h) ELSE {})

\* What a request that is too large may make of the history: it is compacted on
\* the first attempt, and pruned on the others or when that achieves nothing.
Shrunk(h, attempts) ==
    Prunes(h) \cup (IF attempts = 0 /\ Compressor /\ Unclosed(h) = {}
                    THEN Compactions(h) ELSE {})

\* Faulty: leaves the request running in the provider session.
CancelWithoutAbort(emit_failure) ==
    /\ active_provider_request' = NoRequest
    /\ grace_timer' = 0
    /\ client' = IF emit_failure THEN TurnFailed(client, FALSE) ELSE client
    /\ Settle(NoRequest, active_tool_batch, pending_data)
    /\ UNCHANGED <<abort_queued, next_timer_id, timers, renewed>>

\* Faulty: leaves the grace timer of the cancelled request armed.
CancelWithoutDisarm(emit_failure) ==
    /\ active_provider_request' = NoRequest
    /\ abort_queued' = TRUE
    /\ client' = IF emit_failure THEN TurnFailed(client, FALSE) ELSE client
    /\ Settle(NoRequest, active_tool_batch, pending_data)
    /\ UNCHANGED <<grace_timer, next_timer_id, timers, renewed>>

\* cancel_active_provider_request.
CancelActiveProviderRequest(emit_failure) ==
    /\ active_provider_request' = NoRequest
    /\ grace_timer' = 0
    /\ abort_queued' = TRUE
    /\ client' = IF emit_failure THEN TurnFailed(client, FALSE) ELSE client
    /\ Settle(NoRequest, active_tool_batch, pending_data)
    /\ UNCHANGED <<next_timer_id, timers, renewed>>

\* wake_or_schedule_provider_supersede_if_needed, and the end of the timer's
\* handler.
WakeOrSchedule(timer, elapsed) ==
    IF /\ active_provider_request # NoRequest
       /\ HasPendingUserMessage(pending_data)
       /\ elapsed
    THEN CancelActiveProviderRequest(FALSE)
    ELSE /\ ScheduleGrace(timer, pending_data, active_provider_request, elapsed)
         /\ Settle(active_provider_request, active_tool_batch, pending_data)
         /\ UNCHANGED <<active_provider_request, abort_queued, client>>

-----------------------------------------------------------------------------
(***************************************************************************)
(* Requests of the host: handle_request_event                              *)
(***************************************************************************)
\* The head of the request channel is a request of this kind and is taken.
Receive(kind) ==
    /\ pc = "recv"
    /\ request_rx # <<>>
    /\ Head(request_rx).kind = kind
    /\ request_rx' = Tail(request_rx)

\* restored_history_needs_continuation.
NeedsContinuation(h) ==
    h # <<>> /\ h[Len(h)].kind \in {"input", "calls", "results"}

\* Faulty: restores the messages and starts counting turns afresh.
HandleInitialRecounts ==
    /\ Receive("initial")
    /\ IF initial
       THEN UNCHANGED <<initial, history, all_messages, disk,
                        pending_continuation, client>>
       ELSE /\ initial' = TRUE
            /\ history' = disk.history
            /\ all_messages' = disk.all_messages
            /\ disk' = [disk EXCEPT !.saved = TRUE]
            /\ IF NeedsContinuation(disk.history)
               THEN /\ pending_continuation' = CurrentHistory
                    /\ client' = TurnFailed(client, TRUE)
               ELSE UNCHANGED <<pending_continuation, client>>
    /\ Settle(active_provider_request, active_tool_batch, pending_data)
    /\ UNCHANGED <<frame, next_turn_id, next_batch_id, pending_data,
                   active_provider_request, active_tool_batch,
                   provider_context, grace_timer, next_timer_id, sent,
                   restarts, providerVars, toolVars, timeVars>>

\* Faulty: restores the model's context and not the transcript.
HandleInitialDropsTranscript ==
    /\ Receive("initial")
    /\ initial' = TRUE
    /\ IF initial
       THEN UNCHANGED <<history, next_turn_id, next_batch_id>>
       ELSE /\ history' = disk.history
            /\ next_turn_id' = disk.next_turn_id
            /\ next_batch_id' = disk.next_batch_id
    /\ Settle(active_provider_request, active_tool_batch, pending_data)
    /\ UNCHANGED <<frame, all_messages, pending_data, pending_continuation,
                   active_provider_request, active_tool_batch,
                   provider_context, grace_timer, next_timer_id, disk, client,
                   sent, restarts, providerVars, toolVars, timeVars>>

HandleInitial ==
    /\ Receive("initial")
    /\ IF initial
       THEN UNCHANGED <<initial, history, all_messages, next_turn_id,
                        next_batch_id, disk, pending_continuation, client>>
       ELSE /\ initial' = TRUE
            /\ history' = disk.history
            /\ all_messages' = disk.all_messages
            /\ next_turn_id' = disk.next_turn_id
            /\ next_batch_id' = disk.next_batch_id
            /\ disk' = [disk EXCEPT !.saved = TRUE]
            /\ IF NeedsContinuation(disk.history)
               THEN /\ pending_continuation' = CurrentHistory
                    /\ client' = TurnFailed(client, TRUE)
               ELSE UNCHANGED <<pending_continuation, client>>
    /\ Settle(active_provider_request, active_tool_batch, pending_data)
    /\ UNCHANGED <<frame, pending_data, active_provider_request,
                   active_tool_batch, provider_context, grace_timer,
                   next_timer_id, sent, restarts,
                   providerVars, toolVars, timeVars>>

HandleShutdown ==
    /\ Receive("shutdown")
    /\ pc' = "down"
    /\ UNCHANGED <<frame, initial, pending_data, history, all_messages,
                   active_provider_request, active_tool_batch,
                   pending_continuation, next_turn_id, next_batch_id,
                   provider_context, grace_timer, next_timer_id,
                   disk, client, sent, restarts,
                   providerVars, toolVars, timeVars>>

\* Faulty: forgets the interrupted batch instead of waiting for its completion.
InterruptDropsBatch(interrupt) ==
    /\ active_tool_batch' = NoBatch
    /\ Settle(active_provider_request, NoBatch, pending_data')
    /\ UNCHANGED client

\* request_active_tool_interrupt: the first interrupt of a batch wins; the
\* executor refuses a batch it does not run.
InterruptActiveTools(interrupt) ==
    IF active_tool_batch.interrupt # "None" \/ active_tool_batch = NoBatch
    THEN /\ UNCHANGED <<active_tool_batch, client>>
         /\ Settle(active_provider_request, active_tool_batch, pending_data')
    ELSE IF running_batch # active_tool_batch.batch
         THEN Die(client) /\ UNCHANGED active_tool_batch
         ELSE /\ active_tool_batch' =
                   [active_tool_batch EXCEPT !.interrupt = interrupt]
              /\ pc' = "recv"
              /\ UNCHANGED client

HandleData(kind) ==
    /\ Receive(kind)
    /\ pending_data' = Append(pending_data, Head(request_rx))
    /\ IF kind = "user"
       THEN /\ InterruptActiveTools("SupersededByUserMessage")
            /\ ScheduleGrace(grace_timer, pending_data',
                             active_provider_request, grace_elapsed)
       ELSE /\ Settle(active_provider_request, active_tool_batch, pending_data')
            /\ UNCHANGED <<active_tool_batch, client, grace_timer,
                           next_timer_id, timers, renewed>>
    /\ UNCHANGED <<frame, initial, history, all_messages,
                   active_provider_request, pending_continuation,
                   next_turn_id, next_batch_id, provider_context,
                   disk, sent, restarts, internal_event_rx, grace_elapsed,
                   providerVars, toolVars>>

\* Faulty: the cancellation waits in the data queue.
HandleCancelQueued ==
    /\ Receive("cancel")
    /\ pending_data' = Append(pending_data, Head(request_rx))
    /\ Settle(active_provider_request, active_tool_batch, pending_data')
    /\ UNCHANGED <<frame, initial, history, all_messages,
                   active_provider_request, active_tool_batch,
                   pending_continuation, next_turn_id, next_batch_id,
                   provider_context, grace_timer, next_timer_id,
                   disk, client, sent, restarts,
                   providerVars, toolVars, timeVars>>

HandleCancelTurn ==
    /\ Receive("cancel")
    /\ IF active_provider_request # NoRequest
       THEN /\ CancelActiveProviderRequest(TRUE)
            /\ UNCHANGED <<active_tool_batch, pending_data>>
       ELSE /\ UNCHANGED <<active_provider_request, grace_timer, abort_queued,
                           pending_data, next_timer_id, timers, renewed>>
            /\ InterruptActiveTools("Cancel")
    /\ UNCHANGED <<frame, initial, history, all_messages,
                   pending_continuation, next_turn_id, next_batch_id,
                   provider_context, disk, sent, restarts, session_context,
                   session_active, provider_threads, provider_event_rx,
                   streamed, internal_event_rx, grace_elapsed, toolVars>>

-----------------------------------------------------------------------------
(***************************************************************************)
(* Turns                                                                   *)
(***************************************************************************)
\* Faulty: the turn id is not used up.
BeginTurnReusingId(rs) ==
    /\ pending_continuation' = NoContinuation
    /\ frame' = [requests |-> rs, at |-> 1, from |-> Len(all_messages),
                 turn |-> next_turn_id, step |-> 0, attempts |-> 0,
                 pushed |-> FALSE, guarded |-> TRUE]
    /\ pc' = "input"
    /\ UNCHANGED next_turn_id

\* run_turn_from_data_requests up to its loop; the turn id is allocated here.
BeginTurn(rs) ==
    /\ pending_continuation' = NoContinuation
    /\ next_turn_id' = next_turn_id + 1
    /\ frame' = [requests |-> rs, at |-> 1, from |-> Len(all_messages),
                 turn |-> next_turn_id, step |-> 0, attempts |-> 0,
                 pushed |-> FALSE, guarded |-> TRUE]
    /\ pc' = "input"

\* run_pending_data_if_idle once the actor is idle: every queued message goes
\* into one turn; without an Initial the handler returns MissingInitial.
DrainPendingData ==
    /\ pc = "drain"
    /\ pending_data' = <<>>
    /\ IF initial
       THEN BeginTurn(pending_data) /\ UNCHANGED client
       ELSE Die(client) /\ UNCHANGED <<pending_continuation, next_turn_id, frame>>
    /\ UNCHANGED <<initial, history, all_messages, active_provider_request,
                   active_tool_batch, next_batch_id, provider_context,
                   grace_timer, next_timer_id, disk, request_rx, sent,
                   restarts, providerVars, toolVars, timeVars>>

\* continue_turn_from_history and the retry of the failed turn's messages.
HandleContinueTurn ==
    /\ Receive("continue")
    /\ IF ~initial
       THEN /\ Die(client)
            /\ UNCHANGED <<pending_continuation, next_turn_id, frame>>
       ELSE IF \/ active_provider_request # NoRequest
               \/ active_tool_batch # NoBatch
               \/ pending_continuation = NoContinuation
       THEN /\ Settle(active_provider_request, active_tool_batch, pending_data)
            /\ UNCHANGED <<pending_continuation, next_turn_id, frame, client>>
       ELSE IF pending_continuation.kind = "DataRequests"
       THEN BeginTurn(pending_continuation.requests) /\ UNCHANGED client
       ELSE IF history = <<>>
       THEN /\ pending_continuation' = NoContinuation
            /\ Settle(active_provider_request, active_tool_batch, pending_data)
            /\ UNCHANGED <<next_turn_id, frame, client>>
       ELSE /\ pending_continuation' = NoContinuation
            /\ next_turn_id' = next_turn_id + 1
            /\ frame' = [NoFrame EXCEPT !.turn = next_turn_id, !.guarded = TRUE]
            /\ client' = TurnStarted(client, next_turn_id)
            /\ pc' = "start"
    /\ UNCHANGED <<initial, pending_data, history, all_messages,
                   active_provider_request, active_tool_batch, next_batch_id,
                   provider_context, grace_timer, next_timer_id,
                   disk, sent, restarts, providerVars, toolVars, timeVars>>

\* The message being appended by append_history_message, and the transcript
\* once it is in there.
CurrentMessage ==
    IF pc = "final"
    THEN [kind |-> "final", turn |-> frame.turn, ref |-> 0]
    ELSE [kind |-> "input", turn |-> frame.turn,
          ref |-> frame.requests[frame.at].id]

Transcribed ==
    IF frame.pushed THEN all_messages ELSE Append(all_messages, CurrentMessage)

\* append_history_message: the compression asked for is itself too large a
\* request; half of the history is dropped and saved, with the new message in
\* the transcript and not yet in the history, and the compression tried again.
PruneWhileAppending ==
    /\ pc \in {"input", "final"}
    /\ Compressor /\ TooLarge
    /\ frame.attempts < MaxAttempts
    /\ history' \in Prunes(history)
    /\ all_messages' = Transcribed
    /\ PersistIfClosed(history', all_messages', next_turn_id, next_batch_id)
    /\ frame' = [frame EXCEPT !.attempts = @ + 1, !.pushed = TRUE]
    /\ UNCHANGED <<pc, initial, pending_data, active_provider_request,
                   active_tool_batch, pending_continuation, next_turn_id,
                   next_batch_id, provider_context, grace_timer, next_timer_id,
                   client, request_rx, sent, restarts,
                   providerVars, toolVars, timeVars>>

\* Faulty: nothing is saved before the model answers.
AppendInputUnsaved ==
    /\ pc = "input"
    /\ \E h \in AppendBases(history) :
         /\ history' = Append(h, CurrentMessage)
         /\ all_messages' = Transcribed
    /\ frame' = [frame EXCEPT !.at = @ + 1, !.attempts = 0, !.pushed = FALSE]
    /\ pc' = IF frame.at = Len(frame.requests) THEN "announce" ELSE "input"
    /\ UNCHANGED <<initial, pending_data, active_provider_request,
                   active_tool_batch, pending_continuation, next_turn_id,
                   next_batch_id, provider_context, grace_timer, next_timer_id,
                   disk, client, request_rx, sent, restarts,
                   providerVars, toolVars, timeVars>>

\* One iteration of the loop of run_turn_from_data_requests.
AppendInput ==
    /\ pc = "input"
    /\ \E h \in AppendBases(history) :
         /\ history' = Append(h, CurrentMessage)
         /\ all_messages' = Transcribed
         /\ PersistIfClosed(history', all_messages', next_turn_id, next_batch_id)
    /\ frame' = [frame EXCEPT !.at = @ + 1, !.attempts = 0, !.pushed = FALSE]
    /\ pc' = IF frame.at = Len(frame.requests) THEN "announce" ELSE "input"
    /\ UNCHANGED <<initial, pending_data, active_provider_request,
                   active_tool_batch, pending_continuation, next_turn_id,
                   next_batch_id, provider_context, grace_timer, next_timer_id,
                   client, request_rx, sent, restarts,
                   providerVars, toolVars, timeVars>>

\* append_runtime_synthetic_messages, which may fail, goes before a user message.
\* The notices it appends are part of the "input" message that follows them.
ReadsRuntimeMetadata == frame.requests[frame.at].kind = "user"

\* Faulty: the messages of the failed turn are not kept for the retry.
AppendInputFailsForgets ==
    /\ pc = "input"
    /\ ReadsRuntimeMetadata
    /\ FinishTurnError(client, CurrentHistory)
    /\ UNCHANGED <<frame, initial, pending_data, history, all_messages,
                   active_provider_request, active_tool_batch, next_turn_id,
                   next_batch_id, provider_context, grace_timer, next_timer_id,
                   disk, request_rx, sent, restarts,
                   providerVars, toolVars, timeVars>>

\* The iteration fails: the runtime metadata of a user turn cannot be read, or
\* the compression of the history fails after the transcript has the message.
AppendInputFails ==
    /\ pc = "input"
    /\ \/ /\ ReadsRuntimeMetadata
          /\ ~frame.pushed
          /\ UNCHANGED all_messages
       \/ /\ Compressor
          /\ all_messages' = Transcribed
    /\ FinishTurnError(client, DataRequests(frame.requests))
    /\ UNCHANGED <<frame, initial, pending_data, history,
                   active_provider_request, active_tool_batch, next_turn_id,
                   next_batch_id, provider_context, grace_timer, next_timer_id,
                   disk, request_rx, sent, restarts,
                   providerVars, toolVars, timeVars>>

\* Faulty: the turn is not announced when it takes over from another.
AnnounceFirstTurnOnly ==
    /\ pc = "announce"
    /\ client' = IF client.turn = 0 THEN TurnStarted(client, frame.turn)
                 ELSE Shown(client, (frame.from + 1)..Len(all_messages))
    /\ pc' = "start"
    /\ UNCHANGED <<frame, initial, pending_data, history, all_messages,
                   active_provider_request, active_tool_batch,
                   pending_continuation, next_turn_id, next_batch_id,
                   provider_context, grace_timer, next_timer_id,
                   disk, request_rx, sent, restarts,
                   providerVars, toolVars, timeVars>>

\* The messages of the turn and its start are announced.
AnnounceTurn ==
    /\ pc = "announce"
    /\ client' = TurnStarted(Shown(client, (frame.from + 1)..Len(all_messages)),
                             frame.turn)
    /\ pc' = "start"
    /\ UNCHANGED <<frame, initial, pending_data, history, all_messages,
                   active_provider_request, active_tool_batch,
                   pending_continuation, next_turn_id, next_batch_id,
                   provider_context, grace_timer, next_timer_id,
                   disk, request_rx, sent, restarts,
                   providerVars, toolVars, timeVars>>

-----------------------------------------------------------------------------
(***************************************************************************)
(* start_provider_request.  Its calls to the provider session wait for the *)
(* answers, so commands queued before them have been carried out.          *)
(***************************************************************************)
ResultsFor(call, turn) == [kind |-> "results", turn |-> turn, ref |-> call]

\* Faulty: sends the history as it is.
RepairNothing(h, unclosed, turn) == h

\* repair_unclosed_tool_calls_before_provider_request.
Repair(h, unclosed, turn) ==
    IF unclosed = {} THEN h
    ELSE Append(h, ResultsFor(CHOOSE r \in unclosed : TRUE, turn))

\* Faulty: compares the lengths only.
IsNoLongerThan(s, t) == Len(s) <= Len(t)

IsPrefixOf(s, t) == Len(s) <= Len(t) /\ SubSeq(t, 1, Len(s)) = s

CurrentId == [turn |-> frame.turn, step |-> frame.step,
              attempts |-> frame.attempts]

\* An error of start_provider_request: finish_turn_error where the caller
\* handles it, the end of the actor where the caller passes it on.
StartFails(c) ==
    /\ IF frame.guarded
       THEN FinishTurnError(c, CurrentHistory)
       ELSE Die(c) /\ UNCHANGED pending_continuation
    /\ UNCHANGED <<frame, active_provider_request, provider_context,
                   grace_timer, next_timer_id, timers, renewed, grace_elapsed,
                   session_context, session_active, provider_threads>>

\* sync_provider_context and start_current: the session refuses both while it
\* runs a request.
Launch(h, all, c) ==
    IF session_active # NoId THEN StartFails(c) ELSE
    /\ session_context' =
         IF /\ provider_context.turn = frame.turn
            /\ IsPrefixOf(provider_context.messages, h)
         THEN session_context
                \o DropFirst(h, Len(provider_context.messages))
         ELSE h
    /\ provider_context' = [turn |-> frame.turn, messages |-> h]
    /\ session_active' = CurrentId
    /\ provider_threads' = provider_threads \cup {CurrentId}
    /\ active_provider_request' = [id |-> CurrentId,
                                   message_index |-> Len(all) + 1]
    /\ grace_elapsed' = FALSE
    /\ ScheduleGrace(grace_timer, pending_data, active_provider_request', FALSE)
    /\ pc' = "recv"
    /\ client' = c
    /\ UNCHANGED <<frame, pending_continuation>>

\* The request is estimated too large: shrink the history and go round the loop.
Shrink(h, c) ==
    /\ history' \in Shrunk(h, frame.attempts)
    /\ frame' = [frame EXCEPT !.attempts = @ + 1]
    /\ client' = c
    /\ UNCHANGED <<pc, pending_continuation, active_provider_request,
                   provider_context, grace_timer, next_timer_id, timers,
                   renewed, grace_elapsed, session_context, session_active,
                   provider_threads>>

StartProviderRequest ==
    /\ pc = "start"
    /\ ~abort_queued
    /\ LET unclosed == Unclosed(history)
           h == Repair(history, unclosed, frame.turn)
           all == Repair(all_messages, unclosed, frame.turn)
           c == IF unclosed = {} THEN client ELSE Shown(client, {Len(all)})
       IN  /\ all_messages' = all
           /\ \/ Launch(h, all, c) /\ history' = h
              \/ /\ TooLarge
                 /\ frame.attempts < MaxAttempts
                 /\ Shrink(h, c)
              \/ /\ TooLarge
                 /\ frame.attempts >= MaxAttempts \/ ~Prunable(h)
                 /\ StartFails(c)
                 /\ history' = h
           /\ IF unclosed = {} /\ frame' = frame THEN UNCHANGED disk
              ELSE PersistIfClosed(history', all, next_turn_id, next_batch_id)
    /\ UNCHANGED <<initial, pending_data, active_tool_batch, next_turn_id,
                   next_batch_id, request_rx, sent, restarts, abort_queued,
                   provider_event_rx, streamed, internal_event_rx, toolVars>>

-----------------------------------------------------------------------------
(***************************************************************************)
(* Provider events: handle_provider_event.  timer is the armed grace timer *)
(* at the call; the caller has taken e from the channel.                   *)
(***************************************************************************)
\* Nothing happens: no request is active, or the event is of another request.
\* (Stream events that are not shown change nothing and are left out.)
IgnoreProviderEvent(e, timer) ==
    /\ \/ active_provider_request = NoRequest
       \/ e.type \in {"Stream", "Result"} /\ e.id # active_provider_request.id
    /\ grace_timer' = timer
    /\ Settle(active_provider_request, active_tool_batch, pending_data)
    /\ UNCHANGED <<frame, history, all_messages, active_provider_request,
                   active_tool_batch, pending_continuation, next_batch_id,
                   next_timer_id, disk, client, abort_queued, timers, renewed,
                   grace_elapsed, running_batch, worker_done>>

\* A delta of the active request: activity.
HandleStream(e, timer) ==
    /\ active_provider_request # NoRequest
    /\ e.type = "Stream" /\ e.id = active_provider_request.id
    /\ grace_elapsed' = FALSE
    /\ IF timer # 0
       THEN /\ renewed' = TRUE
            /\ grace_timer' = timer
            /\ pc' = "recv"
            /\ UNCHANGED <<next_timer_id, timers, active_provider_request,
                           abort_queued, client>>
       ELSE WakeOrSchedule(timer, FALSE)
    /\ UNCHANGED <<frame, history, all_messages, active_tool_batch,
                   pending_continuation, next_batch_id, disk,
                   running_batch, worker_done>>

\* A retry notice, of the active request or of an older one: no activity.
HandleRetry(e, timer) ==
    /\ active_provider_request # NoRequest
    /\ e.type = "Retry"
    /\ WakeOrSchedule(timer, grace_elapsed)
    /\ UNCHANGED <<frame, history, all_messages, active_tool_batch,
                   pending_continuation, next_batch_id, disk, grace_elapsed,
                   running_batch, worker_done>>

\* The result of the active request is taken: it is no longer active and its
\* timer is disarmed.
TakeResult(e, result) ==
    /\ active_provider_request # NoRequest
    /\ e.type = "Result" /\ e.id = active_provider_request.id
    /\ e.result = result
    /\ active_provider_request' = NoRequest
    /\ grace_timer' = 0
    /\ UNCHANGED <<next_timer_id, abort_queued, timers, renewed, grace_elapsed>>

Position == Len(all_messages) + 1

\* process_provider_message of a response without tool calls, up to its append.
HandleFinalResponse(e) ==
    /\ TakeResult(e, "Final")
    /\ frame' = [NoFrame EXCEPT !.turn = e.id.turn]
    /\ pc' = "final"
    /\ UNCHANGED <<history, all_messages, disk, client, active_tool_batch,
                   pending_continuation, next_batch_id, running_batch,
                   worker_done>>

\* ... and from there: the turn ends.
AppendFinal ==
    /\ pc = "final"
    /\ \E h \in AppendBases(history) :
         /\ history' = Append(h, CurrentMessage)
         /\ all_messages' = Transcribed
         /\ PersistIfClosed(history', all_messages', next_turn_id, next_batch_id)
    /\ client' = TurnCompleted(Shown(client, {Len(all_messages')}))
    /\ Settle(active_provider_request, active_tool_batch, pending_data)
    /\ UNCHANGED <<frame, initial, pending_data, active_provider_request,
                   active_tool_batch, pending_continuation, next_turn_id,
                   next_batch_id, provider_context, grace_timer, next_timer_id,
                   request_rx, sent, restarts,
                   providerVars, toolVars, timeVars>>

\* The compression the append asks for fails; the caller passes the error on.
AppendFinalFails ==
    /\ pc = "final"
    /\ Compressor
    /\ all_messages' = Transcribed
    /\ Die(client)
    /\ UNCHANGED <<frame, initial, pending_data, history,
                   active_provider_request, active_tool_batch,
                   pending_continuation, next_turn_id, next_batch_id,
                   provider_context, grace_timer, next_timer_id,
                   disk, request_rx, sent, restarts,
                   providerVars, toolVars, timeVars>>

\* process_provider_message of a response with tool calls: the batch is handed
\* to the executor, which refuses it while another one runs.
HandleToolCalls(e) ==
    LET m == [kind |-> "calls", turn |-> e.id.turn, ref |-> Position]
        r == ResultsFor(Position, e.id.turn)
    IN  /\ TakeResult(e, "Calls")
        /\ next_batch_id' = next_batch_id + 1
        /\ IF running_batch = 0
           THEN /\ history' = Append(history, m)
                /\ all_messages' = Append(all_messages, m)
                /\ client' = Shown(client, {Position})
                /\ active_tool_batch' =
                     [turn |-> e.id.turn, step |-> e.id.step,
                      batch |-> next_batch_id, call |-> Position,
                      interrupt |-> "None"]
                /\ running_batch' = next_batch_id
                /\ worker_done' = FALSE
                /\ pc' = "recv"
                /\ UNCHANGED frame
           ELSE /\ history' = history \o <<m, r>>
                /\ all_messages' = all_messages \o <<m, r>>
                /\ client' = Shown(client, {Position, Position + 1})
                /\ frame' = [NoFrame EXCEPT !.turn = e.id.turn,
                                            !.step = e.id.step + 1]
                /\ pc' = "start"
                /\ UNCHANGED <<active_tool_batch, running_batch, worker_done>>
        /\ PersistIfClosed(history', all_messages', next_turn_id, next_batch_id')
        /\ UNCHANGED pending_continuation

\* The provider found the request too large: shrink the history and start again;
\* when it cannot be shrunk the turn fails.
HandleTooLarge(e) ==
    /\ TakeResult(e, "TooLarge")
    /\ e.id.attempts < MaxAttempts
    /\ \/ /\ history' \in Shrunk(history, e.id.attempts)
          /\ PersistIfClosed(history', all_messages, next_turn_id, next_batch_id)
          /\ frame' = [NoFrame EXCEPT !.turn = e.id.turn, !.step = e.id.step,
                                      !.attempts = e.id.attempts + 1]
          /\ pc' = "start"
          /\ UNCHANGED <<pending_continuation, client>>
       \/ /\ ~Prunable(history)
          /\ FinishTurnError(client, CurrentHistory)
          /\ UNCHANGED <<history, frame, disk>>
    /\ UNCHANGED <<all_messages, active_tool_batch, next_batch_id,
                   running_batch, worker_done>>

\* Any other error, and a request still too large after the last attempt.
HandleProviderError(e) ==
    /\ \/ TakeResult(e, "Error")
       \/ TakeResult(e, "TooLarge") /\ e.id.attempts >= MaxAttempts
    /\ FinishTurnError(client, CurrentHistory)
    /\ UNCHANGED <<frame, history, all_messages, active_tool_batch,
                   next_batch_id, disk, running_batch, worker_done>>

HandleProviderEvent(e, timer) ==
    /\ \/ IgnoreProviderEvent(e, timer)
       \/ HandleStream(e, timer)
       \/ HandleRetry(e, timer)
       \/ HandleFinalResponse(e)
       \/ HandleToolCalls(e)
       \/ HandleTooLarge(e)
       \/ HandleProviderError(e)
    /\ provider_event_rx' = Tail(provider_event_rx)
    /\ UNCHANGED <<initial, pending_data, next_turn_id, provider_context,
                   request_rx, sent, restarts, session_context, session_active,
                   provider_threads, streamed, tool_completion_rx>>

ReceiveProviderEvent ==
    /\ pc = "recv"
    /\ provider_event_rx # <<>>
    /\ HandleProviderEvent(Head(provider_event_rx), grace_timer)
    /\ UNCHANGED internal_event_rx

\* handle_internal_event: a fired grace timer.  One that is no longer armed is
\* ignored; otherwise a provider event that is already there goes first.
HandleGraceElapsed ==
    /\ pc = "recv"
    /\ internal_event_rx # <<>>
    /\ internal_event_rx' = Tail(internal_event_rx)
    /\ IF Head(internal_event_rx) = grace_timer /\ provider_event_rx # <<>>
       THEN HandleProviderEvent(Head(provider_event_rx), 0)
       ELSE /\ IF Head(internal_event_rx) = grace_timer
               THEN WakeOrSchedule(0, grace_elapsed)
               ELSE /\ Settle(active_provider_request, active_tool_batch,
                              pending_data)
                    /\ UNCHANGED <<active_provider_request, grace_timer,
                                   next_timer_id, timers, renewed,
                                   abort_queued, client>>
            /\ UNCHANGED <<frame, initial, pending_data, history, all_messages,
                           active_tool_batch, pending_continuation,
                           next_turn_id, next_batch_id, provider_context,
                           disk, request_rx, sent, restarts, session_context,
                           session_active, provider_threads, provider_event_rx,
                           streamed, grace_elapsed, toolVars>>

\* Faulty: records the compaction in the transcript.
HandleCompactNowRecords ==
    /\ Receive("compact")
    /\ history' \in Compactions(history)
    /\ all_messages' = Append(all_messages, Summary)
    /\ PersistIfClosed(history', all_messages', next_turn_id, next_batch_id)
    /\ Settle(active_provider_request, active_tool_batch, pending_data)
    /\ UNCHANGED <<frame, initial, pending_data, active_provider_request,
                   active_tool_batch, pending_continuation, next_turn_id,
                   next_batch_id, provider_context, grace_timer,
                   next_timer_id, client, sent, restarts,
                   providerVars, toolVars, timeVars>>

\* handle_compact_now.  It does not ask whether a provider request is active.
HandleCompactNow ==
    /\ Receive("compact")
    /\ \/ UNCHANGED <<history, disk>>
       \/ /\ Compressor
          /\ active_tool_batch = NoBatch
          /\ Unclosed(history) = {}
          /\ history' \in Compactions(history)
          /\ PersistIfClosed(history', all_messages, next_turn_id, next_batch_id)
    /\ Settle(active_provider_request, active_tool_batch, pending_data)
    /\ UNCHANGED <<frame, initial, pending_data, all_messages,
                   active_provider_request, active_tool_batch,
                   pending_continuation, next_turn_id, next_batch_id,
                   provider_context, grace_timer, next_timer_id, client,
                   sent, restarts, providerVars, toolVars, timeVars>>

\* handle_tool_completion_event.
HandleToolCompletion ==
    LET batch == Head(tool_completion_rx)
        m == ResultsFor(active_tool_batch.call, active_tool_batch.turn)
    IN  /\ pc = "recv"
        /\ tool_completion_rx # <<>>
        /\ tool_completion_rx' = Tail(tool_completion_rx)
        /\ IF active_tool_batch = NoBatch
           THEN /\ Settle(active_provider_request, active_tool_batch,
                          pending_data)
                /\ UNCHANGED <<active_tool_batch, running_batch, worker_done,
                               history, all_messages, disk, client, frame>>
           ELSE IF batch # active_tool_batch.batch \/ batch # running_batch
           THEN /\ Die(client)
                /\ UNCHANGED <<active_tool_batch, running_batch, worker_done,
                               history, all_messages, disk, frame>>
           ELSE /\ active_tool_batch' = NoBatch
                /\ running_batch' = 0
                /\ worker_done' = FALSE
                /\ history' = Append(history, m)
                /\ all_messages' = Append(all_messages, m)
                /\ PersistIfClosed(history', all_messages', next_turn_id,
                                   next_batch_id)
                /\ client' = Shown(client, {Position})
                /\ IF active_tool_batch.interrupt = "SupersededByUserMessage"
                   THEN /\ Settle(active_provider_request, NoBatch, pending_data)
                        /\ UNCHANGED frame
                   ELSE /\ pc' = "start"
                        /\ frame' = [NoFrame EXCEPT
                                       !.turn = active_tool_batch.turn,
                                       !.step = active_tool_batch.step + 1,
                                       !.guarded = TRUE]
        /\ UNCHANGED <<initial, pending_data, active_provider_request,
                       pending_continuation, next_turn_id, next_batch_id,
                       provider_context, grace_timer, next_timer_id,
                       request_rx, sent, restarts, providerVars, timeVars>>

-----------------------------------------------------------------------------
(***************************************************************************)
(* The other threads and the host                                          *)
(***************************************************************************)
Alive == pc \notin {"dead", "down"}

SendRequest(kind) ==
    /\ Alive
    /\ sent < MaxRequests
    /\ sent' = sent + 1
    /\ request_rx' = Append(request_rx, [kind |-> kind, id |-> sent'])
    /\ UNCHANGED <<actorVars, disk, client, restarts,
                   providerVars, toolVars, timeVars>>

\* A delta or a retry notice from a request's thread.  The thread of an aborted
\* request is not stopped.
ProviderStreams(id, type) ==
    /\ Alive
    /\ id \in provider_threads
    /\ streamed < MaxStreams
    /\ streamed' = streamed + 1
    /\ provider_event_rx' = Append(provider_event_rx,
                              [type |-> type, id |-> id, result |-> "Error"])
    /\ UNCHANGED <<actorVars, hostVars, session_context, session_active,
                   abort_queued, provider_threads, toolVars, timeVars>>

\* The provider session takes the completion of its active request.
ProviderCompletes(result) ==
    /\ Alive
    /\ session_active # NoId
    /\ result = "Calls" => session_active.step < MaxSteps
    /\ result = "TooLarge" => TooLarge
    /\ provider_event_rx' = Append(provider_event_rx,
                 [type |-> "Result", id |-> session_active, result |-> result])
    /\ session_active' = NoId
    /\ provider_threads' = provider_threads \ {session_active}
    /\ UNCHANGED <<actorVars, hostVars, session_context, abort_queued, streamed,
                   toolVars, timeVars>>

\* The provider session takes an Abort command.
ProviderAborts ==
    /\ Alive
    /\ abort_queued
    /\ abort_queued' = FALSE
    /\ session_active' = NoId
    /\ provider_event_rx' =
         IF session_active = NoId THEN provider_event_rx
         ELSE Append(provider_event_rx, [type |-> "Result",
                                id |-> session_active, result |-> "Error"])
    /\ UNCHANGED <<actorVars, hostVars, session_context, provider_threads,
                   streamed, toolVars, timeVars>>

\* The worker of the running batch sends its completion.
WorkerCompletes ==
    /\ Alive
    /\ running_batch # 0 /\ ~worker_done
    /\ worker_done' = TRUE
    /\ tool_completion_rx' = Append(tool_completion_rx, running_batch)
    /\ UNCHANGED <<actorVars, hostVars, providerVars, running_batch, timeVars>>

\* 200ms pass without activity of the active request.
GraceWindowElapses ==
    /\ Alive
    /\ active_provider_request # NoRequest
    /\ ~grace_elapsed
    /\ grace_elapsed' = TRUE
    /\ UNCHANGED <<actorVars, hostVars, providerVars, toolVars, timers,
                   internal_event_rx, renewed>>

\* A sleeping timer wakes up: not before its window has passed, unless the
\* window was renewed or the timer was disarmed in the meantime.
TimerFires(t) ==
    /\ Alive
    /\ t \in timers
    /\ t = grace_timer => grace_elapsed \/ renewed
    /\ timers' = timers \ {t}
    /\ internal_event_rx' = Append(internal_event_rx, t)
    /\ UNCHANGED <<actorVars, hostVars, providerVars, toolVars, grace_elapsed,
                   renewed>>

\* The process dies, or an error that no handler recovers from ends it.
Crash ==
    /\ Alive
    /\ restarts < MaxRestarts
    /\ Die(client)
    /\ UNCHANGED <<frame, initial, pending_data, history, all_messages,
                   active_provider_request, active_tool_batch,
                   pending_continuation, next_turn_id, next_batch_id,
                   provider_context, grace_timer, next_timer_id,
                   disk, request_rx, sent, restarts,
                   providerVars, toolVars, timeVars>>

\* A new process; the first request it gets is the Initial.
FreshRequests == <<[kind |-> "initial", id |-> 0]>>

Restart ==
    /\ ~Alive
    /\ restarts < MaxRestarts
    /\ restarts' = restarts + 1
    /\ pc' = "recv"
    /\ frame' = NoFrame
    /\ initial' = FALSE
    /\ pending_data' = <<>>
    /\ history' = <<>>
    /\ all_messages' = <<>>
    /\ active_provider_request' = NoRequest
    /\ active_tool_batch' = NoBatch
    /\ pending_continuation' = NoContinuation
    /\ next_turn_id' = 1
    /\ next_batch_id' = 1
    /\ provider_context' = NoContext
    /\ grace_timer' = 0
    /\ next_timer_id' = 1
    /\ client' = IdleClient
    /\ request_rx' = FreshRequests
    /\ session_context' = <<>>
    /\ session_active' = NoId
    /\ abort_queued' = FALSE
    /\ provider_threads' = {}
    /\ provider_event_rx' = <<>>
    /\ running_batch' = 0
    /\ worker_done' = FALSE
    /\ tool_completion_rx' = <<>>
    /\ timers' = {}
    /\ internal_event_rx' = <<>>
    /\ grace_elapsed' = FALSE
    /\ renewed' = FALSE
    /\ UNCHANGED <<disk, sent, streamed>>

-----------------------------------------------------------------------------
\* A state saved by a version that also wrote while a tool call was open.
LegacyState ==
    [saved |-> TRUE, next_turn_id |-> 2, next_batch_id |-> 2,
     history |-> <<[kind |-> "input", turn |-> 1, ref |-> 0],
                   [kind |-> "calls", turn |-> 1, ref |-> 2]>>,
     all_messages |-> <<[kind |-> "input", turn |-> 1, ref |-> 0],
                        [kind |-> "calls", turn |-> 1, ref |-> 2]>>]

Init ==
    /\ pc = "recv"
    /\ frame = NoFrame
    /\ initial = FALSE
    /\ pending_data = <<>>
    /\ history = <<>>
    /\ all_messages = <<>>
    /\ active_provider_request = NoRequest
    /\ active_tool_batch = NoBatch
    /\ pending_continuation = NoContinuation
    /\ next_turn_id = 1
    /\ next_batch_id = 1
    /\ provider_context = NoContext
    /\ grace_timer = 0
    /\ next_timer_id = 1
    /\ disk = IF LegacyDisk THEN LegacyState ELSE NoState
    /\ client = IdleClient
    /\ request_rx = FreshRequests
    /\ sent = 0
    /\ restarts = 0
    /\ session_context = <<>>
    /\ session_active = NoId
    /\ abort_queued = FALSE
    /\ provider_threads = {}
    /\ provider_event_rx = <<>>
    /\ streamed = 0
    /\ running_batch = 0
    /\ worker_done = FALSE
    /\ tool_completion_rx = <<>>
    /\ timers = {}
    /\ internal_event_rx = <<>>
    /\ grace_elapsed = FALSE
    /\ renewed = FALSE

\* The steps of the actor thread.
Actor ==
    \/ HandleInitial
    \/ HandleShutdown
    \/ \E kind \in DataKinds : HandleData(kind)
    \/ HandleCancelTurn
    \/ HandleContinueTurn
    \/ HandleCompactNow
    \/ DrainPendingData
    \/ AppendInput
    \/ AppendInputFails
    \/ PruneWhileAppending
    \/ AppendFinal
    \/ AppendFinalFails
    \/ AnnounceTurn
    \/ StartProviderRequest
    \/ ReceiveProviderEvent
    \/ HandleGraceElapsed
    \/ HandleToolCompletion

Next ==
    \/ Actor
    \/ \E kind \in Requests : SendRequest(kind)
    \/ \E id \in provider_threads, type \in {"Stream", "Retry"} :
         ProviderStreams(id, type)
    \/ \E result \in Results : ProviderCompletes(result)
    \/ ProviderAborts
    \/ WorkerCompletes
    \/ GraceWindowElapses
    \/ \E t \in timers : TimerFires(t)
    \/ Crash
    \/ Restart

Spec == Init /\ [][Next]_vars

(***************************************************************************)
(* Fairness: the actor's loop and the threads it starts keep running, the  *)
(* provider session carries out an abort, and time passes.  FairSpec also  *)
(* assumes that a request ends (the provider clients have timeouts) and    *)
(* that a tool batch ends.                                                 *)
(***************************************************************************)
ThreadsRun ==
    /\ WF_vars(Actor)
    /\ WF_vars(ProviderAborts)
    /\ WF_vars(GraceWindowElapses)
    /\ WF_vars(\E t \in timers : TimerFires(t))

SilentSpec == Spec /\ ThreadsRun

FairSpec ==
    /\ Spec
    /\ ThreadsRun
    /\ WF_vars(\E result \in Results : ProviderCompletes(result))
    /\ WF_vars(WorkerCompletes)

-----------------------------------------------------------------------------
(***************************************************************************)
(* Properties                                                              *)
(***************************************************************************)
\* The actor works on one thing at a time: never a provider request and a tool
\* batch, and neither while a handler is about to start a request.  So
\* start_provider_request never finds a request running.
OneActivity ==
    Alive => /\ ProviderIdle \/ ToolsIdle
             /\ pc # "recv" => ProviderIdle /\ ToolsIdle

\* Actor and executor agree on the batch that runs, and its one completion is
\* the only one there is: handle_tool_completion_event never meets an
\* "unexpected tool batch completion" and finish never an unknown batch.
CompletionMatchesBatch ==
    Alive => /\ running_batch = active_tool_batch.batch
             /\ tool_completion_rx = IF running_batch # 0 /\ worker_done
                                     THEN <<running_batch>> ELSE <<>>

ResultsOf(id) == {i \in 1..Len(provider_event_rx) :
                    provider_event_rx[i].type = "Result"
                      /\ provider_event_rx[i].id = id}

\* The active request will be answered, once, and by its own result: either
\* the provider session still runs it or its result is in the channel, and a
\* late result of an aborted request never carries the id of a later one.
OneResultPerRequest ==
    Alive /\ ~ProviderIdle =>
        LET id == active_provider_request.id
        IN  \/ session_active = id /\ ResultsOf(id) = {}
            \/ session_active = NoId /\ Cardinality(ResultsOf(id)) = 1

\* The session is free, or about to be, whenever the actor goes to start a
\* request: "provider session is busy" is not reached by start_provider_request.
SessionNeverBusy ==
    Alive /\ pc # "recv" /\ session_active # NoId => abort_queued

\* Between two events an idle actor has no message waiting: whatever ended the
\* last turn also started the next.
NoMessageStranded ==
    pc = "recv" /\ ProviderIdle /\ ToolsIdle => pending_data = <<>>

\* The turn the host believes to be running is the one the actor works on: a
\* turn that is superseded without an event of its own is always followed by
\* the next TurnStarted.
HostSeesTurn ==
    pc = "recv" =>
        client.turn = IF ToolsIdle THEN active_provider_request.id.turn
                      ELSE active_tool_batch.turn

\* The armed grace timer belongs to the active request, a user message waits
\* for it, and it will fire.
GraceTimerWillFire ==
    Alive /\ grace_timer # 0 =>
        /\ ~ProviderIdle
        /\ HasPendingUserMessage(pending_data)
        /\ \/ grace_timer \in timers
           \/ \E i \in 1..Len(internal_event_rx) :
                internal_event_rx[i] = grace_timer

\* An active request is settled exactly once, however results, aborts, timers
\* and new messages meet: by its own result, or by the armed timer that will
\* cancel it, and the next one is not started while the session runs it.
RequestsAreSettled ==
    /\ OneResultPerRequest
    /\ SessionNeverBusy
    /\ GraceTimerWillFire

\* A failure that offered to continue is backed by a continuation the actor
\* still holds and can resume.
OfferIsBacked ==
    pc = "recv" /\ client.can_continue =>
        \/ pending_continuation.kind = "DataRequests"
        \/ pending_continuation.kind = "CurrentHistory" /\ history # <<>>

\* What the provider gets is the current history with every tool call answered,
\* also when the context is only extended by the new messages.
ProviderSeesClosedHistory ==
    [][session_active' # session_active /\ session_active' # NoId
         => /\ session_context' = history'
            /\ IsToolProtocolClosed(session_context')]_vars

\* The request that the provider works on has every tool call answered, also
\* when the saved history it was built from ends in the middle of a round.
RequestIsClosed == session_active # NoId => IsToolProtocolClosed(session_context)

\* The message id given out when a request starts carries the position its
\* response gets in the transcript.
MessageIdMatchesPosition ==
    Alive /\ ~ProviderIdle =>
        active_provider_request.message_index = Len(all_messages) + 1

\* What is on disk never has an open tool call or a result without its call.
DiskIsClosed == ~LegacyDisk => IsToolProtocolClosed(disk.history)

\* Every message the host was shown survives a crash, except the tool calls
\* that are still running.
ShownIsDurable ==
    Alive => \A i \in client.seen :
        i <= Len(disk.all_messages) \/ (~ToolsIdle /\ i = active_tool_batch.call)

\* No saved message belongs to a turn number that a restarted actor would
\* allocate again.
SavedTurnsNotReused ==
    \A i \in 1..Len(disk.all_messages) :
        disk.all_messages[i].turn < disk.next_turn_id

\* The transcript is the append-only log of Transcript: before the Initial has
\* been applied, the log is the saved one.
Log == INSTANCE Transcript
         WITH log <- IF initial THEN all_messages ELSE disk.all_messages,
              saved <- disk.all_messages,
              shown <- client.seen

\* No handler rewrites or drops a message of the transcript (a compaction, a
\* prune, a retry and a repair change the model's context only, or append), a
\* save covers all of it, the host is shown positions that exist, and a
\* restarted actor continues the saved transcript.
TranscriptIsAppendOnly == Log!Spec

\* What a crash leaves on disk is a state the actor can go on from: closed,
\* with everything the host was shown and with turn numbers that are not given
\* out again; and behind every offer to continue is something to continue.
SavedStateIsSound ==
    /\ OfferIsBacked
    /\ DiskIsClosed
    /\ ShownIsDurable
    /\ SavedTurnsNotReused

\* The transcript only grows, and the provider always works on the current,
\* closed history, whatever was compacted, pruned, retried or restored.
HistoryIsFaithful ==
    /\ TranscriptIsAppendOnly
    /\ ProviderSeesClosedHistory

\* ContinueTurn appends no message: no data request is in the transcript twice.
ContinueAppendsNothing ==
    \A i, j \in 1..Len(all_messages) :
        /\ all_messages[i].kind = "input"
        /\ all_messages[j] = [all_messages[i] EXCEPT !.turn = all_messages[j].turn]
        => i = j

\* A user message that reaches the actor gets into the transcript, or back to
\* the host as a failed turn it may continue, unless the actor ends first.
MessagesAreAppended ==
    \A n \in 1..MaxRequests :
        (\E i \in 1..Len(request_rx) :
            request_rx[i].id = n /\ request_rx[i].kind = "user")
          ~> \/ ~Alive
             \/ \E i \in 1..Len(all_messages) :
                  all_messages[i].kind = "input" /\ all_messages[i].ref = n
             \/ \E i \in 1..Len(pending_continuation.requests) :
                  pending_continuation.requests[i].id = n

\* A user message that waits for a provider request makes the actor give that
\* request up once the grace window has passed without activity.
SilentRequestIsSuperseded ==
    \A t \in 1..MaxRequests :
        (active_provider_request.id.turn = t /\ HasPendingUserMessage(pending_data))
          ~> (~Alive \/ active_provider_request.id.turn # t)

=============================================================================
