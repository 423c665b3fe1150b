------------------------------ MODULE Channel ------------------------------
(***************************************************************************)
(* The channel service of a conversation: it turns what the platform sends *)
(* (messages, workspace and terminal requests, kernel queries) into calls, *)
(* remembers what it is waiting for in four queues, and turns the          *)
(* responses back into events that carry the platform's request id.  The   *)
(* calls of all services pass through the kernel, one at a time and in     *)
(* order; the workspace and the terminal answer theirs one at a time.      *)
(* Responses of all services are JSON objects with a type tag, so the      *)
(* kernel's error for a service that is not running is read as an error of *)
(* the service when its response id is a pending one.                      *)
(***************************************************************************)
EXTENDS Naturals, Sequences, FiniteSets, SequencesExt

CONSTANTS
    ChannelId,   \* the channel's own id, paired with a foreground session
    Sessions,    \* ids of foreground sessions, ChannelId and others
    Subagents,   \* ids of subagents
    Paths,       \* paths of the workspace
    MaxIngress,  \* bound: inputs of the platform
    Stops,       \* may the conversation be stopped?
    MaxOutputs,  \* bound: terminal output chunks
    MaxEvents    \* bound: session events

\* A session's address is not that of a service, whatever its id.
ChannelAssumption ==
    /\ ChannelId \in Sessions
    /\ Sessions \cap Subagents = {}
    /\ (Sessions \cup Subagents) \cap {"kernel", "workspace", "terminal"} = {}
    /\ Stops \in BOOLEAN /\ MaxIngress \in Nat /\ MaxOutputs \in Nat /\ MaxEvents \in Nat

VARIABLES
    log,       \* what the platform has sent; its index is the request id
    kq,        \* outputs of the services, on their way to the kernel
    wsq, tmq,  \* inboxes of the workspace and the terminal
    inbox,     \* the channel's inbox
    pw, pt,    \* pending_workspace and pending_terminal
    pc, pm,    \* pending_kernel_runtime_config and pending_kernel_metadata
    answers,   \* events with a request id: [id, of], of being the request answered
    errors,    \* have errors without a request id been shown?
    shown,     \* sessions whose events were shown to the platform
    agent,     \* messages the sessions have taken, by their index in log
    up,        \* the services and sessions the kernel has mounted
    told,      \* the sessions that were told to shut down and still have to
    dead,      \* the sessions that did and whose notice the kernel has still to read
    attached,  \* has a terminal forwarder been started?
    outputs, events,  \* chunks and session events sent so far
    failed     \* has a failure, or a stop, ended the kernel and with it the conversation?

vars ==
    <<log, kq, wsq, tmq, inbox, pw, pt, pc, pm, answers, errors, shown, agent, up, told, dead, attached, outputs,
      events, failed>>

sessions == <<up, told, dead>>

Services == {"workspace", "terminal"}

\* What the platform asks for.  "control" stands for the calls to a session
\* that leave nothing pending (queries, cancel, continue, compact, host
\* coordination), "meta" for a query and an update of the metadata.
\* A message is also announced to the platform as queued, at once.
Kinds == {"plain", "data", "control", "delete", "create", "update", "config", "meta", "file", "term"}

ForSession == {"plain", "data", "control", "delete", "create"}

\* A call or a response; rid 0 when it has no id, of 0 when it is about no input.
Message(to, src, kind, rid, of) == [to |-> to, src |-> src, kind |-> kind, rid |-> rid, of |-> of]

-----------------------------------------------------------------------------
(* Ingress.                                                                *)

\* foreground_target: without a session the channel's own one.
ForegroundTarget(session) == IF session = "none" THEN ChannelId ELSE session

\* Whom an input is passed on to.  A message with data: files goes to the
\* workspace first.
Target(kind) ==
    CASE kind \in {"data", "file"} -> "workspace"
      [] kind = "term" -> "terminal"
      [] kind \in {"plain", "control", "delete"} -> "agent"
      [] OTHER -> "kernel"

\* Only calls to the workspace and the terminal carry the request's id.
CallId(kind, id) == IF Target(kind) \in Services THEN id ELSE 0

\* Faulty: a metadata query is remembered as a query of the runtime config.
IngressUntyped ==
    /\ Len(log) < MaxIngress
    /\ ~failed
    /\ \E kind \in {"config", "meta"} :
         LET id == Len(log) + 1
         IN /\ log' = Append(log, [kind |-> kind, session |-> ChannelId, path |-> CHOOSE p \in Paths : TRUE])
            /\ kq' = Append(kq, Message("kernel", "channel", kind, 0, id))
            /\ pc' = Append(pc, id)
    /\ UNCHANGED <<wsq, tmq, inbox, pw, pt, pm, answers, errors, shown, agent, sessions, attached, outputs, events, failed>>

\* Faulty: a workspace request is forwarded and not remembered.
IngressUnpended ==
    /\ Len(log) < MaxIngress
    /\ ~failed
    /\ \E path \in Paths :
         LET id == Len(log) + 1
         IN /\ log' = Append(log, [kind |-> "file", session |-> ChannelId, path |-> path])
            /\ kq' = Append(kq, Message("workspace", "channel", "file", id, id))
    /\ UNCHANGED <<wsq, tmq, inbox, pw, pt, pc, pm, answers, errors, shown, agent, sessions, attached, outputs, events, failed>>

\* handle_channel_ingress: one call, and a pending entry for what is answered
\* with a request id.
Ingress ==
    /\ Len(log) < MaxIngress
    /\ ~failed
    /\ \E kind \in Kinds, session \in Sessions \cup {"none"}, path \in Paths :
         LET id == Len(log) + 1
         IN /\ kind \in ForSession \/ session = "none"
            /\ kind = "file" \/ path = CHOOSE p \in Paths : TRUE
            /\ log' = Append(log, [kind |-> kind, session |-> ForegroundTarget(session), path |-> path])
            /\ kq' = Append(kq, Message(Target(kind), "channel", kind, CallId(kind, id), id))
            /\ pw' = IF kind \in {"data", "file"} THEN Append(pw, [id |-> id, kind |-> kind, path |-> path]) ELSE pw
            /\ pt' = IF kind = "term" THEN Append(pt, id) ELSE pt
            /\ pc' = IF kind = "config" THEN Append(pc, id) ELSE pc
            /\ pm' = IF kind = "meta" THEN Append(pm, id) ELSE pm
    /\ UNCHANGED <<wsq, tmq, inbox, answers, errors, shown, agent, sessions, attached, outputs, events, failed>>

-----------------------------------------------------------------------------
(* The kernel routes one output at a time.                                 *)

\* create_agent_session: an id that is mounted already is refused, and so is one
\* whose files cannot be written.
CreateSession(c) ==
    LET session == log[c.of].session
        answer(kind) == inbox' = Append(inbox, Message("channel", "kernel", kind, c.rid, c.of))
    IN
    /\ \/ session \notin up /\ up' = up \cup {session} /\ answer("created")
       \/ UNCHANGED up /\ answer("error")
    /\ UNCHANGED <<wsq, tmq, agent, told, dead, failed>>

\* The kernel's own failure: a file it cannot write.
KernelFails == failed' = TRUE /\ UNCHANGED <<wsq, tmq, inbox, agent, sessions>>

\* handle_kernel_call.  A new runtime config is also sent to the sessions and
\* the workspace, which answer nothing, and to the terminal, whose answer the
\* kernel does not understand and returns as an error, again and again.
KernelCall(c) ==
    \/ /\ c.kind \in {"config", "meta"}
       /\ inbox' = Append(inbox, Message("channel", "kernel", c.kind, c.rid, c.of))
       /\ UNCHANGED <<wsq, tmq, agent, sessions, failed>>
    \/ c.kind = "create" /\ CreateSession(c)
    \/ /\ c.kind = "update"
       /\ inbox' = Append(inbox, Message("channel", "kernel", "updated", c.rid, c.of))
       /\ tmq' = IF "terminal" \in up THEN Append(tmq, Message("terminal", "kernel", "configure", 0, 0)) ELSE tmq
       /\ UNCHANGED <<wsq, agent, sessions, failed>>
    \/ /\ c.kind = "echo"
       /\ tmq' = Append(tmq, Message("terminal", "kernel", "error", 0, 0))
       /\ UNCHANGED <<wsq, inbox, agent, sessions, failed>>
    \/ c.kind \in {"meta", "update"} /\ KernelFails

\* handle_output: a failure of a service ends the kernel, and a session that
\* stopped is taken out.
KernelNotice(c) ==
    \/ c.kind = "failed" /\ KernelFails
    \/ /\ c.kind = "stopped"
       /\ up' = up \ {c.src} /\ dead' = dead \ {c.src}
       /\ UNCHANGED <<wsq, tmq, inbox, agent, told, failed>>

\* A call to a service.  All of them carry an id, so that a service that is not
\* running is answered for.
ToService(c) ==
    /\ c.to \in Services
    /\ wsq' = IF c.to = "workspace" /\ c.to \in up THEN Append(wsq, c) ELSE wsq
    /\ tmq' = IF c.to = "terminal" /\ c.to \in up THEN Append(tmq, c) ELSE tmq
    /\ inbox' = IF c.to \notin up THEN Append(inbox, Message("channel", "kernel", "error", c.rid, c.of)) ELSE inbox
    /\ UNCHANGED <<agent, sessions, failed>>

\* A call to a session has no id: when the session is not mounted, or has
\* stopped, the call is an error that ends the kernel.  What is sent behind a
\* shutdown is never read.
ToSession(c) ==
    LET session == log[c.of].session IN
    /\ c.to = "agent"
    /\ \/ /\ session \in up \ (told \cup dead)
          /\ agent' = IF c.kind \in {"plain", "data"} THEN Append(agent, c.of) ELSE agent
          /\ told' = IF c.kind = "delete" THEN told \cup {session} ELSE told
          /\ UNCHANGED <<wsq, tmq, inbox, up, dead, failed>>
       \/ session \in told \cup dead /\ UNCHANGED <<wsq, tmq, inbox, agent, sessions, failed>>
       \/ session \notin up \ dead /\ KernelFails

ToChannel(c) ==
    /\ c.to = "channel"
    /\ inbox' = Append(inbox, c)
    /\ UNCHANGED <<wsq, tmq, agent, sessions, failed>>

\* dispatch_call.
Dispatch ==
    /\ kq # <<>>
    /\ ~failed
    /\ kq' = Tail(kq)
    /\ LET c == Head(kq)
       IN (c.to = "kernel" /\ (KernelCall(c) \/ KernelNotice(c))) \/ ToService(c) \/ ToSession(c) \/ ToChannel(c)
    /\ UNCHANGED <<log, pw, pt, pc, pm, answers, errors, shown, attached, outputs, events>>

-----------------------------------------------------------------------------
(* The other services, from how they answer.                               *)

\* A materialized message or a file, or an error; a message that cannot be
\* written ends the service.
WorkspaceAnswers ==
    /\ wsq # <<>>
    /\ ~failed
    /\ wsq' = Tail(wsq)
    /\ LET c == Head(wsq)
       IN \/ kq' = Append(kq, Message("channel", "workspace", c.kind, c.rid, c.of))
          \/ c.kind = "data" /\ kq' = Append(kq, Message("kernel", "workspace", "failed", 0, c.of))
    /\ UNCHANGED <<log, tmq, inbox, pw, pt, pc, pm, answers, errors, shown, agent, sessions, attached, outputs, events, failed>>

\* Every request is answered, and also what is none: a config of the kernel is
\* confirmed and an error of the kernel refused.
TerminalAnswers ==
    /\ tmq # <<>>
    /\ ~failed
    /\ LET c == Head(tmq)
       IN IF c.src = "kernel"
          THEN kq' = Append(kq, Message("kernel", "terminal", "echo", 0, 0)) /\ UNCHANGED attached
          ELSE kq' = Append(kq, Message("channel", "terminal", "term", c.rid, c.of)) /\ attached' = TRUE
    /\ tmq' = Tail(tmq)
    /\ UNCHANGED <<log, wsq, inbox, pw, pt, pc, pm, answers, errors, shown, agent, sessions, outputs, events, failed>>

\* forward_terminal_output: chunks come from a thread, without a request id.
TerminalOutput ==
    /\ attached
    /\ outputs < MaxOutputs
    /\ ~failed
    /\ outputs' = outputs + 1
    /\ kq' = Append(kq, Message("channel", "terminal", "output", 0, 0))
    /\ UNCHANGED <<log, wsq, tmq, inbox, pw, pt, pc, pm, answers, errors, shown, agent, sessions, attached, events, failed>>

\* AgentSessionRequest::Shutdown: the session answers, gives notice and ends.
SessionStops(s) ==
    /\ s \in told
    /\ ~failed
    /\ told' = told \ {s} /\ dead' = dead \cup {s}
    /\ kq' = kq \o <<Message("channel", s, "response", 0, 0), Message("kernel", s, "stopped", 0, 0)>>
    /\ UNCHANGED <<log, wsq, tmq, inbox, pw, pt, pc, pm, answers, errors, shown, agent, up, attached, outputs, events, failed>>

\* A session reports what it does to the channel, answers a call or reports an
\* error.
SessionReports ==
    /\ events < MaxEvents
    /\ ~failed
    /\ events' = events + 1
    /\ \E s \in Sessions \cup Subagents, kind \in {"event", "response", "error"} :
         kq' = Append(kq, Message("channel", s, kind, 0, 0))
    /\ UNCHANGED <<log, wsq, tmq, inbox, pw, pt, pc, pm, answers, errors, shown, agent, sessions, attached, outputs, failed>>

-----------------------------------------------------------------------------
(* Responses and events: handle_channel_request.                           *)

\* pending_workspace_matches_response: a response names the path it is about.
Matches(p, r) == p.kind = "file" /\ r.kind = "file" /\ p.path = log[r.of].path

\* Faulty: the newest message is taken for the one that was materialized.
PopNewest(r) == SelectLastInSeq(pw, LAMBDA p : IF r.kind = "data" THEN p.kind = "data" ELSE p.id = r.rid)

\* pop_pending_workspace: the entry with the response's id, else the only one
\* that fits its payload; without an id the oldest.  0 when there is none.
PopWorkspace(r) ==
    LET byId == {i \in DOMAIN pw : pw[i].id = r.rid}
        byPayload == {i \in DOMAIN pw : Matches(pw[i], r)}
        pick(S) == CHOOSE i \in S : \A j \in S : i <= j
    IN CASE r.rid = 0 -> IF pw = <<>> THEN 0 ELSE 1
         [] r.rid # 0 /\ byId # {} -> pick(byId)
         [] OTHER -> IF Cardinality(byPayload) = 1 THEN pick(byPayload) ELSE 0

\* handle_workspace_response: an event for the platform, or the materialized
\* message goes on to its session.  For any other answer to a message, such as
\* an error, the channel reports a failure.
WorkspaceResponse(r) ==
    LET i == PopWorkspace(r)
    IN /\ IF i = 0
          THEN errors' = TRUE /\ UNCHANGED <<pw, answers, kq>>
          ELSE /\ pw' = RemoveAt(pw, i)
               /\ IF pw[i].kind = "file"
                  THEN answers' = answers \cup {[id |-> pw[i].id, of |-> r.of]} /\ UNCHANGED kq
                  ELSE /\ kq' = Append(kq, IF r.kind = "data" THEN Message("agent", "channel", "data", 0, pw[i].id)
                                                              ELSE Message("kernel", "channel", "failed", 0, 0))
                       /\ UNCHANGED answers
               /\ UNCHANGED errors
       /\ UNCHANGED <<pt, pc, pm, shown>>

\* Faulty: a chunk of output is taken for an answer.
PopTerminalAlways(r) == IF pt = <<>> THEN 0 ELSE IF \E i \in DOMAIN pt : pt[i] = r.rid THEN SelectInSeq(pt, LAMBDA x : x = r.rid) ELSE 1

\* pop_pending_terminal: by id, else the oldest; a chunk of output pops none.
PopTerminal(r) ==
    IF r.kind = "output" \/ pt = <<>> THEN 0
    ELSE IF \E i \in DOMAIN pt : pt[i] = r.rid
    THEN SelectInSeq(pt, LAMBDA x : x = r.rid)
    ELSE 1

\* handle_terminal_response.
TerminalResponse(r) ==
    LET i == PopTerminal(r)
    IN /\ pt' = IF i = 0 THEN pt ELSE RemoveAt(pt, i)
       /\ answers' = IF i = 0 THEN answers ELSE answers \cup {[id |-> pt[i], of |-> r.of]}
       /\ UNCHANGED <<pw, pc, pm, errors, shown, kq>>

\* Faulty: the query stays pending.
ConfigKept(r) ==
    /\ answers' = answers \cup {[id |-> IF pc = <<>> THEN 0 ELSE Head(pc), of |-> r.of]}
    /\ UNCHANGED <<pw, pt, pc, pm, errors, shown, kq>>

\* handle_kernel_runtime_config_response.
ConfigResponse(r) ==
    /\ pc' = IF pc = <<>> THEN pc ELSE Tail(pc)
    /\ answers' = answers \cup {[id |-> IF pc = <<>> THEN 0 ELSE Head(pc), of |-> r.of]}
    /\ UNCHANGED <<pw, pt, pm, errors, shown, kq>>

\* handle_kernel_metadata_response.
MetadataResponse(r) ==
    /\ pm' = IF pm = <<>> THEN pm ELSE Tail(pm)
    /\ answers' = answers \cup {[id |-> IF pm = <<>> THEN 0 ELSE Head(pm), of |-> r.of]}
    /\ UNCHANGED <<pw, pt, pc, errors, shown, kq>>

\* Faulty: events of any session are shown.
BelongsAlways(s) == TRUE

\* session_event_belongs_to_channel.
Belongs(s) == s \in Subagents \/ s = ChannelId \/ ChannelId = "main"

\* handle_session_event: an event of a session that does not belong to the
\* channel is shown as an error.
SessionEvent(r) ==
    /\ shown' = IF Belongs(r.src) THEN shown \cup {r.src} ELSE shown
    /\ errors' = (errors \/ ~Belongs(r.src))
    /\ UNCHANGED <<pw, pt, pc, pm, answers, kq>>

\* An error that is not the answer to a pending request is shown without an id.
ShowError ==
    /\ errors' = TRUE
    /\ UNCHANGED <<pw, pt, pc, pm, answers, shown, kq>>

\* Created sessions, a new runtime config and what sessions answer are shown
\* and change nothing else.
ShowOnly == UNCHANGED <<pw, pt, pc, pm, answers, errors, shown, kq>>

\* Faulty: only answers of the service itself are taken for its answers.
BySource(r, source, ids) == r.src = source

\* A message is read as a response of a service when it comes from it or
\* answers a request that is pending there.
ReadAs(r, source, ids) == r.src = source \/ r.rid \in ids

\* handle_channel_request: the first reading that fits.
Handle ==
    /\ inbox # <<>>
    /\ ~failed
    /\ inbox' = Tail(inbox)
    /\ LET r == Head(inbox)
           forTerminal == ReadAs(r, "terminal", ToSet(pt))
           forWorkspace == ReadAs(r, "workspace", {p.id : p \in ToSet(pw)})
       IN \/ forTerminal /\ TerminalResponse(r)
          \/ ~forTerminal /\ forWorkspace /\ WorkspaceResponse(r)
          \/ ~forTerminal /\ ~forWorkspace /\
               \/ r.kind = "event" /\ SessionEvent(r)
               \/ r.kind = "config" /\ ConfigResponse(r)
               \/ r.kind = "meta" /\ MetadataResponse(r)
               \/ r.kind = "error" /\ ShowError
               \/ r.kind \in {"created", "updated", "response"} /\ ShowOnly
    /\ UNCHANGED <<log, wsq, tmq, agent, sessions, attached, outputs, events, failed>>

\* The kernel is told to stop, and stops its services.
Stop ==
    /\ Stops /\ ~failed /\ failed' = TRUE
    /\ UNCHANGED <<log, kq, wsq, tmq, inbox, pw, pt, pc, pm, answers, errors, shown, agent, sessions, attached, outputs, events>>

-----------------------------------------------------------------------------

Init ==
    /\ log = <<>> /\ kq = <<>> /\ wsq = <<>> /\ tmq = <<>> /\ inbox = <<>>
    /\ pw = <<>> /\ pt = <<>> /\ pc = <<>> /\ pm = <<>>
    /\ answers = {} /\ errors = FALSE /\ shown = {} /\ agent = <<>>
    /\ \E S \in SUBSET Services : up = S \cup Sessions
    /\ told = {} /\ dead = {}
    /\ attached = FALSE /\ outputs = 0 /\ events = 0 /\ failed = FALSE

Service == Dispatch \/ WorkspaceAnswers \/ TerminalAnswers \/ Handle

Next ==
    \/ Ingress \/ Service \/ TerminalOutput \/ SessionReports \/ Stop
    \/ \E s \in Sessions : SessionStops(s)

Spec == Init /\ [][Next]_vars

\* The kernel and the services run; the platform need not send anything.
FairSpec ==
    Spec /\ WF_vars(Dispatch) /\ WF_vars(WorkspaceAnswers) /\ WF_vars(TerminalAnswers) /\ WF_vars(Handle)

-----------------------------------------------------------------------------
(* Properties.                                                             *)

Requests == 1..Len(log)
OfKind(K) == {i \in Requests : log[i].kind \in K}

TypeOK ==
    /\ \A i \in DOMAIN pw : pw[i].id \in OfKind({"data", "file"})
    /\ ToSet(pt) \subseteq OfKind({"term"})
    /\ ToSet(pc) \subseteq OfKind({"config"})
    /\ ToSet(pm) \subseteq OfKind({"meta"})
    /\ up \subseteq Services \cup Sessions /\ told \subseteq Sessions /\ dead \subseteq Sessions
    /\ failed \in BOOLEAN /\ errors \in BOOLEAN

\* The event that carries a request id carries the answer to that request,
\* although the kernel's answers are matched by order alone, terminal output
\* arrives between the answers and the kernel answers for missing services.
AnswerIsOwn == \A a \in answers : a.id = a.of

\* A message reaches its session at most once, and messages that take the same
\* way stay in the order the platform sent them.
SameWayInOrder ==
    \A i, j \in DOMAIN agent :
        i < j => agent[i] # agent[j] /\ (log[agent[i]].kind = log[agent[j]].kind => agent[i] < agent[j])

InTransit == {c.of : c \in ToSet(kq) \cup ToSet(wsq) \cup ToSet(tmq) \cup ToSet(inbox)}

\* What is pending is on its way, services that are not running included: no
\* response leaves its entry behind for a later one to be matched with.
PendingIsBacked ==
    ~failed => {p.id : p \in ToSet(pw)} \cup ToSet(pt) \cup ToSet(pc) \cup ToSet(pm) \subseteq InTransit

\* The channel of a session shows events of this session and of subagents, and
\* none of another foreground session.
ShowsOwnSession == shown \subseteq Subagents \cup {ChannelId}

Answered(i) == [id |-> i, of |-> i] \in answers
Delivered(i) == i \in ToSet(agent)
Deleted(s) == \E i \in OfKind({"delete"}) : log[i].session = s

\* Every request is answered and every message delivered, whatever is not
\* running and however the kernel and the terminal keep each other busy, unless
\* a failure ends the conversation or the session was deleted.
RequestsAnswered ==
    \A i \in 1..MaxIngress :
        i \in Requests ~>
            /\ i \in Requests
            /\ \/ failed
               \/ log[i].kind \in {"plain", "data"} /\ (Delivered(i) \/ Deleted(log[i].session))
               \/ log[i].kind \in {"config", "meta", "file", "term"} /\ Answered(i)
               \/ log[i].kind \in {"control", "delete", "create", "update"}

=============================================================================
