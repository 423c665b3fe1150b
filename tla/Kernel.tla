------------------------------- MODULE Kernel -------------------------------
(***************************************************************************)
(* The kernel of one conversation: a thread that mounts the conversation's *)
(* services, routes their calls, restarts them from its manifest, and      *)
(* stops them all when it ends.                                            *)
(*                                                                         *)
(* Every service is a thread with an inbox; what it sends goes into the    *)
(* kernel's one channel (outputs).  A call to a service that is not        *)
(* mounted is answered with an error only when it carries a request id     *)
(* (asks), and ends the kernel otherwise; so does a call to a service      *)
(* whose thread has returned, and a service that reports a failure.        *)
(*                                                                         *)
(* Payloads are abstracted to what the kernel and the modelled services    *)
(* do with them.  Generated session ids are left out: every caller in the  *)
(* program names the session it creates.                                   *)
(***************************************************************************)
EXTENDS Naturals, Sequences, SequencesExt

CONSTANTS
    AddrOrder,     \* every address, in the order of its text
    StandardOrder, \* mount_standard_services, in its order
    Channel, Cron,
    Foreground,    \* addresses of foreground sessions
    Children,      \* addresses of subagents
    StopRequests,  \* does a service send StopService?
    Requests,      \* what services send (a subset of CallKinds)
    OpeningFaults, \* may opening fail, or the process die in it?
    MayTear,       \* may a crash interrupt the write of the manifest?
    MaxOutputs,    \* bound: outputs waiting for the kernel
    MaxCalls,      \* bound: calls services send of their own accord
    MaxConfigs,    \* bound: updates of the runtime config
    MaxFaults,     \* bound: failing mounts and services
    MaxOpens       \* bound: times the kernel is opened

Addrs == Range(AddrOrder)
Standard == Range(StandardOrder)
Agents == Foreground \cup Children
kernel_addr == "kernel"

CallKinds == {"message", "query", "shutdown", "event", "create", "update", "stop", "read"}

KernelAddrsAssumption ==
    /\ Standard \subseteq Addrs
    /\ Agents \subseteq Addrs
    /\ {Channel, Cron} \subseteq Standard
    /\ {Channel, Cron} \cap Agents = {}
    /\ kernel_addr \notin Addrs
KernelFlagsAssumption ==
    {StopRequests, OpeningFaults, MayTear} \subseteq BOOLEAN /\ Requests \subseteq CallKinds
KernelBoundsAssumption ==
    {MaxOutputs, MaxCalls, MaxConfigs, MaxFaults, MaxOpens} \subseteq Nat

VARIABLES
    kernel,     \* "none", "opening", "running", "joining" or "ended"
    todo,       \* addresses that opening still has to mount
    joining,    \* the service whose thread the kernel waits for, or kernel_addr
    thread,     \* mounted services: "live" or "returned"; "none": not mounted
    inbox,      \* calls delivered and not yet handled
    outputs,    \* services -> kernel
    binding,    \* parent of a child session (its event sink), or kernel_addr
    config,     \* the runtime config, its version
    seen        \* the config each service runs with

VARIABLES
    manifest,   \* manifest.json: the services it names, or Torn
    disk_binding, disk_config,
    wanted,     \* what was mounted and never stopped by a call or a notice
    why,        \* the kind of the call that last ended the kernel, or "none"
    awaiting,   \* sessions that wait for the answer to a call
    calls, faults, opens

memory == <<kernel, todo, joining, thread, inbox, outputs, binding, config, seen, awaiting>>
disk == <<manifest, disk_binding, disk_config>>
counts == <<calls, faults, opens>>
vars == <<memory, disk, wanted, why, counts>>

Torn == {kernel_addr}
Absent == {}

Mounted == {a \in Addrs : thread[a] # "none"}
Live == {a \in Addrs : thread[a] = "live"}

\* The services that update_runtime_config reaches, Workspace and Terminal
\* being like agents in this.
Configured == Addrs \ {Channel, Cron}

Call(kind, source, target, asks, about) ==
    [kind |-> kind, source |-> source, target |-> target, asks |-> asks, about |-> about, version |-> 0]

\* UpdateRuntimeConfig, as a service receives it.
ConfigBefore(a, version) == [Call("config", kernel_addr, a, FALSE, a) EXCEPT !.version = version - 1]

Config(a, version) == [Call("config", kernel_addr, a, FALSE, a) EXCEPT !.version = version]

NoticeOfKernel(kind, addr) == [kind |-> kind, addr |-> kernel_addr]

Notice(kind, addr) == [kind |-> kind, addr |-> addr]

Everyone == Addrs \cup {kernel_addr}

Answers == {"answer", "error", "stopped_reply"}

CallRecord ==
    [kind: CallKinds \cup Answers \cup {"config", "disable"}, source: Everyone,
     target: Everyone, asks: BOOLEAN, about: Everyone, version: 0..MaxConfigs]

Output == CallRecord \cup [kind: {"failed", "stopped"}, addr: Addrs]

-----------------------------------------------------------------------------
(* Routing.                                                                *)

\* dispatch_call: who gets the call.  An unknown target's caller gets an
\* error in its place when it waits for an answer.
Receiver(c) ==
    IF c.target \in Mounted THEN c.target
    ELSE IF c.asks /\ c.source \in Mounted THEN c.source ELSE kernel_addr

Delivered(c) ==
    IF c.target \in Mounted THEN c
    ELSE Call("error", kernel_addr, c.source, FALSE, c.target)

Deliverable(c) == Receiver(c) \in Live

Put(box, c) == [box EXCEPT ![Receiver(c)] = Append(@, Delivered(c))]

\* stop_all: every service is told to stop and joined; nothing is saved.
StopAll ==
    /\ kernel' = "ended"
    /\ thread' = [a \in Addrs |-> "none"]
    /\ inbox' = [a \in Addrs |-> <<>>]
    /\ outputs' = <<>>
    /\ todo' = <<>>
    /\ joining' = kernel_addr
    /\ awaiting' = {}

\* persist_manifest
PersistMounts(mounted, bound) == manifest' = manifest \cup mounted /\ disk_binding' = bound

Persist(mounted, bound) == manifest' = mounted /\ disk_binding' = bound

\* run, after handle_output returned an error.
Fail(kind) ==
    /\ StopAll
    /\ why' = kind
    /\ UNCHANGED <<binding, config, seen, disk, wanted, counts>>

-----------------------------------------------------------------------------
(* Opening and closing.                                                    *)

\* What opening mounts: the manifest's services, then the standard ones that
\* it does not name.
RestoredStandard == StandardOrder

Restored ==
    SelectSeq(AddrOrder, LAMBDA a : a \in manifest)
        \o SelectSeq(StandardOrder, LAMBDA a : a \notin manifest)

\* open_or_bootstrap, up to the loop over the manifest.  A manifest that
\* does not parse is an error, and nothing is opened.
Open ==
    /\ kernel \in {"none", "ended"}
    /\ opens < MaxOpens
    /\ opens' = opens + 1
    /\ manifest # Torn
    /\ kernel' = "opening"
    /\ todo' = Restored
    /\ binding' = disk_binding
    /\ config' = disk_config
    /\ UNCHANGED <<joining, thread, inbox, outputs, seen, awaiting, disk, wanted, why, calls, faults>>

\* mount_service_instance of the next service: its thread is spawned, and the
\* manifest rewritten with the services mounted so far.
MountNext ==
    /\ kernel = "opening"
    /\ todo # <<>>
    /\ LET a == Head(todo)
       IN /\ thread' = [thread EXCEPT ![a] = "live"]
          /\ seen' = [seen EXCEPT ![a] = config]
          /\ Persist(Mounted \cup {a}, binding)
          /\ wanted' = wanted \cup {a}
    /\ todo' = Tail(todo)
    /\ kernel' = IF Len(todo) = 1 THEN "running" ELSE "opening"
    /\ UNCHANGED <<joining, inbox, outputs, binding, config, awaiting, disk_config, why, counts>>

\* An error of mount_service_instance while opening: the kernel is dropped.
MountFails ==
    /\ kernel = "opening"
    /\ OpeningFaults
    /\ faults < MaxFaults
    /\ faults' = faults + 1
    /\ StopAll
    /\ UNCHANGED <<binding, config, seen, disk, wanted, why, calls, opens>>

\* KernelInput::Shutdown, or the host dropped its end of the channel.
Shutdown == kernel = "running" /\ Fail("none")

\* The process dies; a write of the manifest may be under way.
Crash ==
    /\ kernel \in {"running", "joining"} \/ (OpeningFaults /\ kernel = "opening")
    /\ kernel' = "none"
    /\ todo' = <<>>
    /\ joining' = kernel_addr
    /\ thread' = [a \in Addrs |-> "none"]
    /\ inbox' = [a \in Addrs |-> <<>>]
    /\ outputs' = <<>>
    /\ awaiting' = {}
    /\ manifest' \in {manifest} \cup (IF MayTear /\ kernel = "opening" THEN {Torn} ELSE {})
    /\ UNCHANGED <<binding, config, seen, disk_binding, disk_config, wanted, why, counts>>

-----------------------------------------------------------------------------
(* What the kernel does with an output.                                    *)

Output1 == Head(outputs)

Handling(kind) ==
    kernel = "running" /\ outputs # <<>> /\ Output1.kind = kind

Rest == outputs' = Tail(outputs)

\* handle_output, for a call to a service.
Dispatch ==
    /\ kernel = "running"
    /\ outputs # <<>>
    /\ Output1.kind \notin {"failed", "stopped"}
    /\ Output1.target # kernel_addr
    /\ \/ /\ Deliverable(Output1)
          /\ inbox' = Put(inbox, Output1)
          /\ Rest
          /\ UNCHANGED <<kernel, todo, joining, thread, binding, config, seen, awaiting,
                         disk, wanted, why, counts>>
       \/ ~Deliverable(Output1) /\ Fail(Output1.kind)

\* handle_output, for Failed.
HandleFailed == Handling("failed") /\ Fail("failed")

\* handle_output, for Stopped.  join_service waits for the mounted thread,
\* whichever thread sent the notice.
HandleStopped ==
    /\ Handling("stopped")
    /\ Rest
    /\ LET a == Output1.addr
       IN IF a \in Live
          THEN kernel' = "joining" /\ joining' = a /\ UNCHANGED <<thread, inbox, manifest, disk_binding>>
          ELSE /\ thread' = [thread EXCEPT ![a] = "none"]
               /\ inbox' = [inbox EXCEPT ![a] = <<>>]
               /\ IF a \in Mounted THEN Persist(Mounted \ {a}, binding)
                  ELSE UNCHANGED <<manifest, disk_binding>>
               /\ UNCHANGED <<kernel, joining>>
    /\ wanted' = wanted \ {Output1.addr}
    /\ UNCHANGED <<todo, binding, config, seen, awaiting, disk_config, why, counts>>

\* join_service returns once the thread has.
Joined ==
    /\ kernel = "joining"
    /\ thread[joining] = "returned"
    /\ kernel' = "running"
    /\ thread' = [thread EXCEPT ![joining] = "none"]
    /\ inbox' = [inbox EXCEPT ![joining] = <<>>]
    /\ Persist(Mounted \ {joining}, binding)
    /\ joining' = kernel_addr
    /\ UNCHANGED <<todo, outputs, binding, config, seen, awaiting, disk_config, wanted, why, counts>>

\* resolve_agent_session_binding: a channel creates foreground sessions that
\* report to it, an agent session creates children that report to itself.
Allowed(source, a) ==
    \/ a \in Foreground /\ source = Channel
    \/ a \in Children /\ source \in Agents \cap Mounted

\* handle_kernel_call, CreateAgentSession: the session is mounted before the
\* caller is answered.
HandleCreate ==
    /\ Handling("create")
    /\ LET c == Output1
           a == c.about
           fits == Allowed(c.source, a) /\ a \notin Mounted
           bound == [binding EXCEPT ![a] = IF a \in Children THEN c.source ELSE kernel_addr]
           answer == Call(IF fits THEN "answer" ELSE "error", kernel_addr, c.source, FALSE, a)
       IN /\ IF fits
             THEN /\ Persist(Mounted \cup {a}, bound)
                  /\ wanted' = wanted \cup {a}
                  /\ binding' = bound
                  /\ seen' = [seen EXCEPT ![a] = config]
             ELSE UNCHANGED <<manifest, disk_binding, wanted, binding, seen>>
          /\ IF Deliverable(answer)
             THEN /\ thread' = [thread EXCEPT ![a] = IF fits THEN "live" ELSE @]
                  /\ inbox' = Put(inbox, answer)
                  /\ Rest
                  /\ UNCHANGED <<kernel, todo, joining, awaiting, why>>
             ELSE StopAll /\ why' = answer.kind
    /\ UNCHANGED <<config, disk_config, counts>>

\* mount_service_instance fails before the thread runs (the nickname cannot be
\* saved, the storage not created, the thread not spawned): the caller gets the
\* error, and no session is there.
CreateFails ==
    /\ Handling("create") /\ faults < MaxFaults
    /\ Allowed(Output1.source, Output1.about) /\ Output1.about \notin Mounted
    /\ faults' = faults + 1
    /\ LET answer == Call("error", kernel_addr, Output1.source, FALSE, Output1.about)
       IN IF Deliverable(answer)
          THEN /\ inbox' = Put(inbox, answer) /\ Rest
               /\ UNCHANGED <<kernel, todo, joining, thread, awaiting, why>>
          ELSE StopAll /\ why' = "error"
    /\ UNCHANGED <<binding, config, seen, disk, wanted, calls, opens>>

\* handle_kernel_call, UpdateRuntimeConfig: applied, saved, then broadcast.
\* A service whose thread has returned makes the broadcast, and the kernel, fail.
HandleUpdate ==
    /\ Handling("update")
    /\ LET c == Output1
           told == Configured \cap Mounted
           box == [a \in Addrs |->
                     IF a \in told THEN Append(inbox[a], Config(a, config + 1))
                     ELSE inbox[a]]
       IN /\ config' = config + 1
          /\ disk_config' = config + 1
          /\ IF told \cup {c.source} \subseteq Live
             THEN /\ inbox' = Put(box, Call("answer", kernel_addr, c.source, FALSE, c.source))
                  /\ Rest
                  /\ UNCHANGED <<kernel, todo, joining, thread, awaiting, why>>
             ELSE StopAll /\ why' = "config"
    /\ UNCHANGED <<binding, seen, manifest, disk_binding, wanted, counts>>

\* handle_kernel_call, StopService: cron is told to disable the tasks of an
\* agent session, the service is stopped and joined (its notice is queued),
\* and the caller answered.
HandleStop ==
    /\ Handling("stop")
    /\ LET c == Output1
           a == c.about
           found == a \in Mounted
           disable == Call("disable", kernel_addr, Cron, FALSE, a)
           told == IF found /\ a \in Agents THEN Put(inbox, disable) ELSE inbox
           answer == Call(IF found THEN "answer" ELSE "error", kernel_addr, c.source, FALSE, a)
       IN /\ Deliverable(answer)
          /\ thread' = [thread EXCEPT ![a] = "none"]
          /\ inbox' = [Put(told, answer) EXCEPT ![a] = <<>>]
          /\ outputs' = Tail(outputs) \o (IF a \in Live THEN <<Notice("stopped", a)>> ELSE <<>>)
          /\ IF found THEN Persist(Mounted \ {a}, binding) ELSE UNCHANGED <<manifest, disk_binding>>
          /\ wanted' = wanted \ {a}
          /\ awaiting' = awaiting \ {a}
    /\ UNCHANGED <<kernel, todo, joining, binding, config, seen, disk_config, why, counts>>

\* handle_kernel_call, QueryRuntimeConfig, QueryMetadata and ListServices.
HandleRead ==
    /\ Handling("read")
    /\ LET answer == Call("answer", kernel_addr, Output1.source, Output1.asks, Output1.about)
       IN \/ /\ Deliverable(answer)
             /\ inbox' = Put(inbox, answer)
             /\ Rest
             /\ UNCHANGED <<kernel, todo, joining, thread, binding, config, seen, awaiting,
                            disk, wanted, why, counts>>
          \/ ~Deliverable(answer) /\ Fail("answer")

-----------------------------------------------------------------------------
(* The services.                                                           *)

\* What a service may send of its own accord.
Sends(a) ==
    IF a = Channel
    THEN {Call(k, a, f, FALSE, f) : k \in {"message", "shutdown"}, f \in Foreground}
         \cup {Call("query", a, f, TRUE, f) : f \in Foreground}
         \cup {Call("create", a, kernel_addr, FALSE, f) : f \in Foreground}
         \cup {Call("stop", a, kernel_addr, FALSE, f) : f \in IF StopRequests THEN Foreground ELSE {}}
         \cup {Call("update", a, kernel_addr, FALSE, a)}
    ELSE IF a \in Foreground
    THEN {Call("create", a, kernel_addr, TRUE, s) : s \in Children}
         \cup {Call("query", a, Cron, TRUE, Cron), Call("read", a, kernel_addr, TRUE, a)}
         \cup {Call("shutdown", a, s, FALSE, s) : s \in {t \in Children : binding[t] = a}}
    ELSE IF a \in Children THEN {Call("event", a, binding[a], FALSE, a)}
    ELSE {}

Send(a) ==
    /\ a \in Live
    /\ kernel \in {"opening", "running", "joining"}
    /\ a \notin awaiting
    /\ calls < MaxCalls
    /\ calls' = calls + 1
    /\ Len(outputs) < MaxOutputs
    /\ \E c \in Sends(a) :
         /\ c.kind \in Requests
         /\ c.kind = "update" => config + Len(SelectSeq(outputs, LAMBDA o : o.kind = "update")) < MaxConfigs
         /\ outputs' = Append(outputs, c)
         /\ awaiting' = IF c.asks THEN awaiting \cup {a} ELSE awaiting
    /\ UNCHANGED <<kernel, todo, joining, thread, inbox, binding, config, seen, disk, wanted, why, faults, opens>>

\* What a service sends when it handles a call: an agent session told to shut
\* down answers and reports that it stopped.
RepliesToShutdown(a, c) ==
    IF c.kind = "shutdown"
    THEN <<Call("stopped_reply", a, c.source, FALSE, a), Notice("stopped", a)>> ELSE <<>>

Replies(a, c) ==
    CASE c.kind = "shutdown" -> <<Call("stopped_reply", a, c.source, FALSE, a), Notice("stopped", a)>>
      [] c.kind = "query" -> <<Call("answer", a, c.source, FALSE, a)>>
      [] OTHER -> <<>>

\* The calls after which run returns.
EndsNever(c) == FALSE

EndsRun(c) == c.kind = "shutdown"

\* A service takes the next call of its inbox.
Handle(a) ==
    /\ a \in Live
    /\ inbox[a] # <<>>
    /\ Len(outputs) < MaxOutputs
    /\ LET c == Head(inbox[a])
       IN /\ inbox' = [inbox EXCEPT ![a] = Tail(@)]
          /\ outputs' = outputs \o Replies(a, c)
          /\ thread' = [thread EXCEPT ![a] = IF EndsRun(c) THEN "returned" ELSE @]
          /\ seen' = [seen EXCEPT ![a] = IF c.kind = "config" THEN c.version ELSE @]
          /\ awaiting' = IF c.kind \in {"answer", "error", "shutdown"} THEN awaiting \ {a} ELSE awaiting
    /\ UNCHANGED <<kernel, todo, joining, binding, config, disk, wanted, why, counts>>

\* run returns an error: the wrapper of the thread reports it.
ServiceFails(a) ==
    /\ a \in Live \cap Agents
    /\ faults < MaxFaults
    /\ faults' = faults + 1
    /\ thread' = [thread EXCEPT ![a] = "returned"]
    /\ outputs' = Append(outputs, Notice("failed", a))
    /\ awaiting' = awaiting \ {a}
    /\ UNCHANGED <<kernel, todo, joining, inbox, binding, config, seen, disk, wanted, why, calls, opens>>

-----------------------------------------------------------------------------

Init ==
    /\ kernel = "none"
    /\ todo = <<>>
    /\ joining = kernel_addr
    /\ thread = [a \in Addrs |-> "none"]
    /\ inbox = [a \in Addrs |-> <<>>]
    /\ outputs = <<>>
    /\ binding = [a \in Addrs |-> kernel_addr]
    /\ config = 0
    /\ seen = [a \in Addrs |-> 0]
    /\ manifest = Absent
    /\ disk_binding = binding
    /\ disk_config = 0
    /\ wanted = {}
    /\ why = "none"
    /\ awaiting = {}
    /\ calls = 0
    /\ faults = 0
    /\ opens = 0

KernelStep ==
    MountNext \/ Dispatch \/ HandleFailed \/ HandleStopped \/ Joined
    \/ HandleCreate \/ HandleUpdate \/ HandleStop \/ HandleRead

Next ==
    \/ Open \/ MountFails \/ CreateFails \/ Shutdown \/ Crash
    \/ KernelStep
    \/ \E a \in Addrs : Send(a) \/ Handle(a) \/ ServiceFails(a)

\* The kernel's thread and every service's loop run; nobody has to send,
\* shut down or crash.
Fairness == WF_vars(KernelStep) /\ \A a \in Addrs : WF_vars(Handle(a))

Spec == Init /\ [][Next]_vars

FairSpec == Spec /\ Fairness

-----------------------------------------------------------------------------
(* Properties.                                                             *)

TypeOK ==
    /\ kernel \in {"none", "opening", "running", "joining", "ended"}
    /\ todo \in Seq(Addrs)
    /\ joining \in Everyone
    /\ thread \in [Addrs -> {"none", "live", "returned"}]
    /\ inbox \in [Addrs -> Seq(CallRecord)]
    /\ outputs \in Seq(Output)
    /\ binding \in [Addrs -> Everyone]
    /\ config \in 0..MaxConfigs
    /\ seen \in [Addrs -> 0..MaxConfigs]
    /\ manifest \in SUBSET Everyone
    /\ disk_binding \in [Addrs -> Everyone]
    /\ disk_config \in 0..MaxConfigs
    /\ wanted \in SUBSET Addrs
    /\ why \in {"none", "failed"} \cup CallKinds \cup Answers \cup {"config"}
    /\ awaiting \in SUBSET Addrs

\* A running kernel's manifest names exactly the services it routes to, so
\* that a crash between two of its steps loses and invents none.
ManifestIsCurrent == kernel = "running" => manifest = Mounted

\* Whatever was mounted and not stopped is mounted again by every kernel that
\* finishes opening: after a shutdown, a failure or a crash.
ServicesSurvive == kernel = "running" => wanted \subseteq Mounted

\* The config a service runs with once it has handled its inbox.
LastConfig(a) ==
    LET told == SelectSeq(inbox[a], LAMBDA c : c.kind = "config")
    IN IF told = <<>> THEN seen[a] ELSE Last(told).version

\* Once a service has handled what is in its inbox it runs with the config
\* that the kernel has and has saved.
ConfigReachesAll ==
    kernel = "running" =>
        /\ disk_config = config
        /\ \A a \in Configured \cap Live : LastConfig(a) = config

\* Only a thread that has returned is waited for: the kernel never stops
\* serving because of a service that nobody told to stop.
KernelNeverWaits == kernel = "joining" => thread[joining] = "returned"

\* An agent session that asks cron or the kernel is answered, unless it or
\* the kernel ends first.
SessionAnswered == \A f \in Foreground : f \in awaiting ~> f \notin awaiting

\* Removing one session does not end the conversation: no answer to it and no
\* event of its children ends the kernel.
RemovalSparesKernel == why \notin {"answer", "event"}

\* A crash never leaves a manifest that the next start refuses.
ManifestReadable == manifest # Torn

=============================================================================
