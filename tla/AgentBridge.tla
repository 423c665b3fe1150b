---------------------------- MODULE AgentBridge ----------------------------
(***************************************************************************)
(* The bridge between the tools of an agent server process (the runner)    *)
(* and the services of its conversation: the agent session service takes   *)
(* a runner's bridge requests, calls a service under a request id of its   *)
(* own, and sends the answer back under the runner's id.  Tools may be     *)
(* interrupted, answers may be late, and a new launch configuration        *)
(* replaces the runner by a new process.                                   *)
(*                                                                         *)
(* A tool call of kind "query" (memory, skill, cron) is given up without   *)
(* telling the service; one of kind "ensure" (tool_binary_ensure) sends a  *)
(* cancel request.  An answer is the call it was computed for.             *)
(***************************************************************************)
EXTENDS Naturals, Sequences, FiniteSets, SequencesExt

CONSTANTS
    Queries,     \* tool calls that are given up silently
    Ensures,     \* tool calls that send a cancel
    Messages,    \* user messages
    MaxRunners   \* bound: runner processes started

BridgeAssumption ==
    /\ Queries \cap Ensures = {}
    /\ MaxRunners \in Nat \ {0}

Calls == Queries \cup Ensures
KindOf(c) == IF c \in Ensures THEN "ensure" ELSE "query"
Given == "interrupted"   \* what a tool returns that gave up

VARIABLES
    gen,       \* which runner process this is
    serial,    \* requests the runner has numbered, per kind
    turn,      \* is the runner in a turn?
    place,     \* of a call: "new", "waiting", "done" or "gone" with its runner
    rid,       \* the runner's id of a call's request
    answer,    \* what a call returned
    rpc,       \* the runner's open bridge calls: pairs <<id, call>>
    up, down,  \* the runner's event stream and its request stream
    state,     \* what the service takes the session to be: "idle" or "running"
    launch,    \* is a launch configuration pending?
    pending,   \* the service's pending requests, oldest first
    expected,  \* service request ids that have a pending response kind
    calls,     \* requests and
    replies,   \* responses between the service and the other services
    next,      \* the service's next request id
    message    \* of a message: "new", "sent", "read", "answered" or "dropped"

runnerVars == <<gen, serial, turn, place, rid, answer, rpc>>
serviceVars == <<state, launch, pending, expected, calls, replies, next>>
vars == <<runnerVars, serviceVars, up, down, message>>

Waiting == {c \in Calls : place[c] = "waiting"}

-----------------------------------------------------------------------------
(* The runner.                                                             *)

NumberedFromZero(kind) == <<kind, serial[kind]>>

\* next_bridge_request_id and next_tool_binary_request_id count from 1 in each
\* process.
NextRequestId(kind) == <<kind, serial[kind] + 1>>

\* execute_bridge_tool, or ensure_tool_binary_interruptibly: the RPC loop emits
\* the request and files the caller under its id.
CallBridge(c) ==
    /\ turn
    /\ place[c] = "new"
    /\ LET kind == KindOf(c)
           id == NextRequestId(kind)
       IN /\ place' = [place EXCEPT ![c] = "waiting"]
          /\ serial' = [serial EXCEPT ![kind] = @ + 1]
          /\ rid' = [rid EXCEPT ![c] = id]
          /\ rpc' = {p \in rpc : p[1] # id} \cup {<<id, c>>}
          /\ up' = Append(up, [type |-> "request", id |-> id, call |-> c])
    /\ UNCHANGED <<gen, turn, answer, serviceVars, down, message>>

\* What an interrupted call sends: only tool_binary_ensure tells the service.
CancelOf(c) ==
    IF c \in Ensures THEN <<[type |-> "cancel", id |-> rid[c], call |-> c]>> ELSE <<>>

\* A waiting call is interrupted: it returns at once and the thread that waits
\* for its answer is left behind.
GiveUp(c) ==
    /\ place[c] = "waiting"
    /\ place' = [place EXCEPT ![c] = "done"]
    /\ answer' = [answer EXCEPT ![c] = Given]
    /\ up' = up \o CancelOf(c)
    /\ UNCHANGED <<gen, serial, turn, rid, rpc, serviceVars, down, message>>

\* handle_conversation_request on a resolution: the caller filed under the id
\* gets it; without one it only reaches the mailbox.
ReadResolution ==
    /\ down # <<>> /\ Head(down).type = "resolve"
    /\ LET r == Head(down)
           filed == {p \in rpc : p[1] = r.id}
           got == {c \in Waiting : <<r.id, c>> \in filed}
       IN /\ rpc' = rpc \ filed
          /\ place' = [c \in Calls |-> IF c \in got THEN "done" ELSE place[c]]
          /\ answer' = [c \in Calls |-> IF c \in got THEN r.answer ELSE answer[c]]
    /\ down' = Tail(down)
    /\ UNCHANGED <<gen, serial, turn, rid, serviceVars, up, message>>

\* A user message starts a turn, or joins the one that runs.
ReadMessage ==
    /\ down # <<>> /\ Head(down).type = "message"
    /\ message' = [message EXCEPT ![Head(down).message] = "read"]
    /\ turn' = TRUE
    /\ up' = IF turn THEN up ELSE Append(up, [type |-> "started"])
    /\ down' = Tail(down)
    /\ UNCHANGED <<gen, serial, place, rid, answer, rpc, serviceVars>>

\* The turn completes when no tool of it runs.
EndTurn ==
    /\ turn
    /\ Waiting = {}
    /\ turn' = FALSE
    /\ message' = [m \in Messages |-> IF message[m] = "read" THEN "answered" ELSE message[m]]
    /\ up' = Append(up, [type |-> "completed"])
    /\ UNCHANGED <<gen, serial, place, rid, answer, rpc, serviceVars, down>>

-----------------------------------------------------------------------------
(* The agent session service.                                              *)

\* start_real_session: a process that counts from 1, in no turn, with no open
\* call and fresh streams.
StartRealSession ==
    /\ serial' = [k \in {"query", "ensure"} |-> 0]
    /\ turn' = FALSE
    /\ rpc' = {}
    /\ down' = <<>>

\* restart_runner_for_launch: the old process is shut down with whatever it
\* was doing, its streams end, and a new process takes over.
\* The service's own bookkeeping stays as it is.
RestartRunner ==
    /\ gen < MaxRunners
    /\ gen' = gen + 1
    /\ StartRealSession
    /\ place' = [c \in Calls |-> IF place[c] = "waiting" THEN "gone" ELSE place[c]]
    /\ message' = [m \in Messages |-> IF message[m] \in {"sent", "read"} THEN "dropped" ELSE message[m]]
    /\ UNCHANGED <<rid, answer>>

\* EnqueueMessage.
EnqueueMessage(m) ==
    /\ message[m] = "new"
    /\ message' = [message EXCEPT ![m] = "sent"]
    /\ down' = Append(down, [type |-> "message", message |-> m])
    /\ UNCHANGED <<runnerVars, serviceVars, up>>

\* UpdateLaunchConfig: at once when the session is idle as far as the service
\* knows, at the next idle boundary otherwise.
UpdateLaunchConfig ==
    /\ gen < MaxRunners
    /\ \/ state = "idle" /\ RestartRunner /\ up' = <<>> /\ UNCHANGED launch
       \/ state # "idle" /\ launch' = TRUE /\ UNCHANGED <<runnerVars, up, down, message>>
    /\ UNCHANGED <<state, pending, expected, calls, replies, next>>

TrackOnly(e) ==
    /\ pending' = Append(pending, [sid |-> next, id |-> e.id, call |-> e.call])
    /\ expected' = expected \cup {<<next, KindOf(e.call)>>}
    /\ next' = next + 1
    /\ up' = Tail(up)
    /\ UNCHANGED <<runnerVars, message, launch, calls, replies, down>>

\* memory_bridge_call, skill_bridge_call, tool_binary_bridge_call: the call to
\* the service of the request's action, under the session's next id.
BridgeCall(e) == <<next, e.call>>

\* track_service_request: the request is filed and the call is sent.
TrackServiceRequest(e) ==
    /\ pending' = Append(pending, [sid |-> next, id |-> e.id, call |-> e.call])
    /\ expected' = expected \cup {<<next, KindOf(e.call)>>}
    /\ calls' = calls \cup {BridgeCall(e)}
    /\ next' = next + 1
    /\ up' = Tail(up)
    /\ UNCHANGED <<runnerVars, message, launch, replies, down>>

\* Which expected responses a cancel forgets.
CancelKeepsKind(p) == {}

CancelledIds(p) == {<<p.sid, "ensure">>}

\* tool_binary_cancel_bridge_response: the pending request and its response
\* kind go, and the runner gets an "interrupted" answer.
CancelRequest(e) ==
    LET at == {i \in DOMAIN pending : pending[i].id = e.id}
    IN /\ IF at = {} THEN UNCHANGED <<pending, expected, down>>
          ELSE LET i == CHOOSE j \in at : \A k \in at : j <= k
               IN /\ pending' = RemoveAt(pending, i)
                  /\ expected' = expected \ CancelledIds(pending[i])
                  /\ down' = Append(down, [type |-> "resolve", id |-> e.id, answer |-> Given])
       /\ up' = Tail(up)
       /\ UNCHANGED <<runnerVars, message, launch, calls, replies, next>>

\* apply_core_session_event: what an event of the runner makes of the state.
AppliedState(e) ==
    CASE e.type = "started" -> "running"
      [] e.type = "completed" -> "idle"
      [] OTHER -> state

\* maybe_apply_pending_launch, after every event that was handled.
MaybeApplyPendingLaunch(e) ==
    IF AppliedState(e) = "idle" /\ launch
    THEN RestartRunner /\ launch' = FALSE /\ up' = <<>>
    ELSE up' = Tail(up) /\ UNCHANGED <<runnerVars, launch, message, down>>

\* handle_core_session_event.
HandleEvent ==
    /\ up # <<>>
    /\ LET e == Head(up) IN
         /\ state' = AppliedState(e)
         /\ \/ e.type = "request" /\ TrackServiceRequest(e)
            \/ e.type = "cancel" /\ CancelRequest(e)
            \/ /\ e.type \in {"started", "completed"}
               /\ MaybeApplyPendingLaunch(e)
               /\ UNCHANGED <<pending, expected, calls, replies, next>>

\* pop_pending_bridge_request: by id, else the oldest of its queue.
OldestOfKind(kind) ==
    {i \in DOMAIN pending :
        /\ KindOf(pending[i].call) = kind
        /\ \A j \in DOMAIN pending : KindOf(pending[j].call) = kind => i <= j}

PopAlwaysOldest(sid, kind) == OldestOfKind(kind)

PopPending(sid, kind) ==
    LET exact == {i \in DOMAIN pending : pending[i].sid = sid}
    IN IF exact # {} THEN exact ELSE OldestOfKind(kind)

\* handle_memory_response, handle_skill_response, handle_tool_binary_response
\* and handle_cron_response: the pending request is taken out, and the runner
\* gets the response under its own id of that request.
Resolve(i, r) ==
    /\ pending' = RemoveAt(pending, i)
    /\ down' = Append(down, [type |-> "resolve", id |-> pending[i].id, answer |-> r[2]])

StaleFallsBack(r) == TRUE

\* A response is for a request only if one of them still expects it.
IsExpected(r) == \E x \in expected : x[1] = r[1]

\* handle_service_response: only a response some request still expects counts;
\* any other is stale.
HandleResponse ==
    \E r \in replies :
        /\ replies' = replies \ {r}
        /\ IF ~IsExpected(r) THEN UNCHANGED <<pending, expected, down>>
             ELSE LET hit == {x \in expected : x[1] = r[1]}
                      at == PopPending(r[1], KindOf(r[2]))
                  IN /\ expected' = expected \ hit
                     /\ IF at = {} THEN UNCHANGED <<pending, down>>
                        ELSE Resolve(CHOOSE j \in at : TRUE, r)
        /\ UNCHANGED <<runnerVars, state, launch, calls, next, up, message>>

\* The other services: each answers every call, in an order of its own.
ServiceAnswers ==
    \E r \in calls :
        /\ calls' = calls \ {r}
        /\ replies' = replies \cup {r}
        /\ UNCHANGED <<runnerVars, state, launch, pending, expected, next, up, down, message>>

-----------------------------------------------------------------------------

Init ==
    /\ gen = 1
    /\ serial = [k \in {"query", "ensure"} |-> 0]
    /\ turn = FALSE
    /\ place = [c \in Calls |-> "new"]
    /\ rid = [c \in Calls |-> <<"none", 0>>]
    /\ answer = [c \in Calls |-> "none"]
    /\ rpc = {}
    /\ up = <<>> /\ down = <<>>
    /\ state = "idle"
    /\ launch = FALSE
    /\ pending = <<>>
    /\ expected = {}
    /\ calls = {} /\ replies = {}
    /\ next = 1
    /\ message = [m \in Messages |-> "new"]

Runner == ReadResolution \/ ReadMessage \/ EndTurn
Service == HandleEvent \/ HandleResponse

Next ==
    \/ Runner \/ Service \/ ServiceAnswers \/ UpdateLaunchConfig
    \/ \E m \in Messages : EnqueueMessage(m)
    \/ \E c \in Calls : CallBridge(c) \/ GiveUp(c)

Spec == Init /\ [][Next]_vars

\* Both processes read their streams and the services answer.
FairSpec ==
    /\ Spec
    /\ WF_vars(ReadResolution) /\ WF_vars(ReadMessage) /\ WF_vars(EndTurn)
    /\ WF_vars(HandleEvent) /\ WF_vars(HandleResponse) /\ WF_vars(ServiceAnswers)

-----------------------------------------------------------------------------
(* Properties.                                                             *)

TypeOK ==
    /\ gen \in 1..MaxRunners
    /\ turn \in BOOLEAN /\ launch \in BOOLEAN
    /\ place \in [Calls -> {"new", "waiting", "done", "gone"}]
    /\ answer \in [Calls -> Calls \cup {"none", Given}]
    /\ rpc \subseteq ({"query", "ensure"} \X (1..Cardinality(Calls))) \X Calls
    /\ state \in {"idle", "running"}
    /\ expected \subseteq (1..next) \X {"query", "ensure"}
    /\ calls \subseteq (1..next) \X Calls
    /\ replies \subseteq (1..next) \X Calls
    /\ message \in [Messages -> {"new", "sent", "read", "answered", "dropped"}]

\* The answer a tool call returns was computed for that call, however late
\* answers arrive and whichever calls were given up before.
AnswerIsOwn == \A c \in Calls : answer[c] \in {"none", Given, c}

\* The ids that a response is expected for are those of the pending requests:
\* a request that is forgotten takes its expected response along.
ExpectedArePending ==
    expected = {<<pending[i].sid, KindOf(pending[i].call)>> : i \in DOMAIN pending}

\* A call that waits is backed by something on its way to it: its request, the
\* service's call or reply, or the resolution; no answer is lost on the way.
WaitingIsBacked ==
    \A c \in Waiting :
        \/ \E i \in DOMAIN up : up[i].type = "request" /\ up[i].call = c
        \/ \E i \in DOMAIN pending :
             /\ pending[i].call = c
             /\ <<pending[i].sid, c>> \in calls \cup replies
        \/ \E i \in DOMAIN down : down[i].type = "resolve" /\ down[i].id = rid[c]

\* Every bridge call returns.
CallsReturn == \A c \in Calls : place[c] = "waiting" ~> place[c] # "waiting"

\* A runner that has been given work is not replaced before it is done.
LaunchAtIdleBoundary ==
    [][gen' # gen => ~turn /\ \A m \in Messages : message[m] # "sent"]_vars

=============================================================================
