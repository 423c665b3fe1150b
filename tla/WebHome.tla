-------------------------------- MODULE WebHome --------------------------------
(***************************************************************************)
(* The web channel's requests (channels/web/channel.rs) and the home       *)
(* stream.  Every connection has a thread of its own; a request is a list  *)
(* of steps, each of which waits for the host, the conversation's kernel   *)
(* or WebChannelMain, so requests interleave between steps.  A home        *)
(* client is shown the conversations, their names and their foreground     *)
(* sessions: first a snapshot, then the events published after it          *)
(* subscribed.  Events come from the requests and from the bridge          *)
(* (run_conversation_event_bridge), which hears every metadata update of   *)
(* the kernels it subscribed to.  The process may crash and start again.   *)
(*                                                                         *)
(* Two threads that open the same conversation at once are the subject of  *)
(* module Host; here opening is one step.                                  *)
(***************************************************************************)
EXTENDS Integers, Sequences, SequencesExt, FiniteSets

CONSTANTS
    Threads,    \* connections, and the dispatcher of session events
    Convs,      \* conversation ids
    Names,      \* nicknames of conversations
    Sessions,   \* foreground sessions besides the main one; clients give them names that are not empty
    Ops,        \* the requests that are made
    Serial,     \* the clients make one request at a time: see Client
    Known,      \* the clients name what exists: see Client
    MaxReqs,    \* bound: requests
    MaxCrashes, \* bound: crashes
    MaxFails,   \* bound: file operations that fail: writing the seen state, removing a conversation
    MaxLate     \* bound: answers of a kernel that take longer than the ten seconds a request waits

WebHomeAssumption ==
    /\ Ops \subseteq {"create", "rename", "delete", "get", "appended", "new", "renameS", "deleteS", "seen"}
    /\ Serial \in BOOLEAN /\ Known \in BOOLEAN /\ {MaxReqs, MaxCrashes, MaxFails, MaxLate} \subseteq Nat
    /\ Names \cap {"", "id", "absent"} = {}

VARIABLES
    disk,    \* Convs -> conversation metadata on disk: [ex, name, nicks]
    mem,     \* Convs -> the metadata the running kernel holds; ex = FALSE when none runs
    svcs,    \* Convs -> the foreground sessions of the kernel's manifest, which are mounted when it runs
    dying,   \* Convs -> those of them that were told to shut down
    thr,     \* Threads -> [op, c, s, name, todo, got, heard]: the request, the steps left, the metadata it was
             \* given, the session it heard to be created
    ear,     \* Convs -> the bridge's subscription: "none", "live", or "dead" when its kernel was stopped
    bus,     \* Convs -> updates of the kernel that wait in the bridge's subscription
    seen,    \* seen_states in memory: the last mark, 0 for none
    seenF,   \* seen_state.json, -1 when the file was cut
    told,    \* the last seen mark announced to home
    torn,    \* a write of the seen state was cut
    rx,      \* what was published to the home client
    view,    \* what it shows: Convs -> [ex, name, nicks]
    sub,     \* the home client: "off", "asking" while its snapshot is made, "on"
    ask,     \* the conversations that are still to be asked for the snapshot
    reqs, crashes, fails, late

vars == <<disk, mem, svcs, dying, thr, ear, bus, seen, seenF, told, torn, rx, view, sub, ask, reqs, crashes, fails, late>>

kernels == <<disk, mem, svcs, dying>>
bridge  == <<ear, bus>>
marks   == <<seen, seenF, told, torn>>
client  == <<rx, view, sub, ask>>
counts  == <<reqs, crashes, fails, late>>

None == [ex |-> FALSE, name |-> "", nicks |-> {}]

NoReq == [op |-> "none", c |-> "", s |-> "", name |-> "", todo |-> <<>>, got |-> None, heard |-> ""]

\* A conversation without a nickname of its own is named by its id.
Bare == [ex |-> TRUE, name |-> "id", nicks |-> {}]

Init ==
    /\ disk = [c \in Convs |-> None] /\ mem = disk /\ svcs = [c \in Convs |-> {}] /\ dying = svcs
    /\ thr = [t \in Threads |-> NoReq] /\ ear = [c \in Convs |-> "none"] /\ bus = [c \in Convs |-> <<>>]
    /\ seen = 0 /\ seenF = 0 /\ told = 0 /\ torn = FALSE
    /\ rx = <<>> /\ view = disk /\ sub = "off" /\ ask = {} /\ reqs = 0 /\ crashes = 0
    /\ fails = 0 /\ late = 0

--------------------------------------------------------------------------------
(* Requests. *)

\* The steps of each handler, in the order it makes them.  Every query and update first ensures that the
\* conversation runs, and so does every question a summary asks.
CreateSteps  == <<"write", "ensure", "query", "summary", "upsert">>
RenameSteps  == <<"ensure", "update", "summary", "upsert">>
DeleteSteps  == <<"stop", "remove", "deleted">>
GetSteps     == <<"ensure">>
AppendedSteps == <<"ensure", "query", "summary", "upsert">>
NewSteps     == <<"ensure", "mount", "ensure", "name", "summary", "upsertS">>
RenameSSteps == <<"ensure", "nick", "summary", "updatedS">>
DeleteSSteps == <<"unmount", "ensure", "unnick", "deletedS">>

Steps(op) ==
    CASE op = "create"   -> CreateSteps
      [] op = "rename"   -> RenameSteps
      [] op = "delete"   -> DeleteSteps
      [] op = "get"      -> GetSteps
      [] op = "appended" -> AppendedSteps
      [] op = "new"      -> NewSteps
      [] op = "renameS"  -> RenameSSteps
      [] op = "deleteS"  -> DeleteSSteps
      [] op = "seen"     -> <<"seen">>

\* handle_request: a connection starts a request.  The dispatcher hears of an appended message from the bridge.
Request(t, op, c, s, n) ==
    /\ thr[t] = NoReq /\ reqs < MaxReqs /\ reqs' = reqs + 1
    /\ op = "appended" => ear[c] = "live"
    /\ thr' = [thr EXCEPT ![t] = [op |-> op, c |-> c, s |-> s, name |-> n, todo |-> Steps(op), got |-> None, heard |-> ""]]
    /\ UNCHANGED <<kernels, bridge, marks, client, crashes, fails, late>>

\* What the clients ask for, which the code leaves open.  A name may be blank, and for a new session it may be
\* absent.  A careful client (Serial) waits for its answer, and neither deletes a conversation while a snapshot is
\* made or while the bridge is behind nor opens home while it deletes; it (Known) names conversations and sessions that exist, gives a new one an
\* id of its own, and gives sessions no blank names.
Client(op, c, s, n) ==
    /\ n = "absent" => op = "new"
    /\ Serial => (\A o \in Threads : thr[o] = NoReq) /\ (op = "delete" => sub # "asking" /\ bus[c] = <<>>)
    /\ Known => /\ IF op = "create" THEN ~disk[c].ex /\ \A o \in Threads : thr[o].op = "create" => thr[o].c # c
                                    ELSE disk[c].ex
                /\ op \in {"renameS", "deleteS"} => s \in svcs[c] \ dying[c]
                /\ op = "new" => s \notin svcs[c]
                /\ op \in {"new", "renameS"} => n # ""

\* Thread t is at a step of the given name.
At(t, step) == thr[t].todo # <<>> /\ Head(thr[t].todo) = step

Advance(t, got) ==
    thr' = [thr EXCEPT ![t] = IF Len(@.todo) = 1 THEN NoReq ELSE [@ EXCEPT !.todo = Tail(@), !.got = got]]

Abort(t) == thr' = [thr EXCEPT ![t] = NoReq]

\* create_conversation writes the metadata itself; the nickname is optional.
Write(t) ==
    LET c   == thr[t].c
        old == IF disk[c].ex THEN disk[c] ELSE Bare
        new == IF thr[t].name = "" THEN old ELSE [old EXCEPT !.name = thr[t].name]
    IN
    /\ At(t, "write")
    /\ disk' = [disk EXCEPT ![c] = new]
    /\ Advance(t, new)
    /\ UNCHANGED <<mem, svcs, dying, bridge, marks, client, counts>>

\* What open_or_bootstrap makes of the files of c: the services of the manifest are mounted, and one without a
\* nickname is given its default one.
Opened(c) == IF disk[c].ex THEN [disk[c] EXCEPT !.nicks = @ \cup svcs[c]] ELSE Bare

\* ensure_conversation_started: a conversation that does not run is opened, or bootstrapped when it is not there.
EnsureStarted(c) ==
    IF mem[c].ex THEN UNCHANGED <<disk, mem, dying>>
    ELSE /\ mem' = [mem EXCEPT ![c] = Opened(c)]
         /\ disk' = [disk EXCEPT ![c] = Opened(c)]
         /\ dying' = [dying EXCEPT ![c] = {}]

Ensure(t) ==
    /\ At(t, "ensure")
    /\ EnsureStarted(thr[t].c)
    /\ Advance(t, thr[t].got)
    /\ UNCHANGED <<svcs, bridge, marks, client, counts>>

\* conversation_summary and foreground_session_summary ask the messages of each session and the runtime config, one
\* after the other; what does not answer is left out.
Summary(t) ==
    /\ At(t, "summary")
    /\ EnsureStarted(thr[t].c)
    /\ Advance(t, thr[t].got) \/ UNCHANGED thr
    /\ UNCHANGED <<svcs, bridge, marks, client, counts>>

\* wait_for_event gives up after ten seconds, although the kernel may have done what it was asked.
TooLate == late < MaxLate /\ late' = late + 1

\* query_conversation_metadata: the kernel's copy.  When the kernel was stopped meanwhile, or answers too late, the
\* request fails, except that create_conversation goes on with what it wrote.
Query(t) ==
    /\ At(t, "query")
    /\ \/ mem[thr[t].c].ex /\ Advance(t, mem[thr[t].c]) /\ UNCHANGED late
       \/ /\ IF mem[thr[t].c].ex THEN TooLate ELSE UNCHANGED late
          /\ IF thr[t].op = "create" THEN Advance(t, thr[t].got) ELSE Abort(t)
    /\ UNCHANGED <<kernels, bridge, marks, client, reqs, crashes, fails>>

\* Faulty: the kernel answers before it writes.
PatchedInMemory(t, m) ==
    LET c == thr[t].c IN
    IF ~mem[c].ex THEN Abort(t) /\ UNCHANGED <<kernels, bridge, late>>
    ELSE /\ mem' = [mem EXCEPT ![c] = m]
         /\ bus' = [bus EXCEPT ![c] = IF ear[c] = "live" THEN Append(@, m) ELSE @]
         /\ Advance(t, m)
         /\ UNCHANGED <<disk, svcs, dying, ear, late>>

\* update_conversation_metadata: the kernel changes its copy, writes it and answers with it, which the bridge hears.
\* The request fails when the answer comes too late, or when the kernel was stopped.
Patched(t, m) ==
    LET c == thr[t].c IN
    IF ~mem[c].ex THEN Abort(t) /\ UNCHANGED <<kernels, bridge, late>>
    ELSE /\ mem' = [mem EXCEPT ![c] = m]
         /\ disk' = [disk EXCEPT ![c] = m]
         /\ bus' = [bus EXCEPT ![c] = IF ear[c] = "live" THEN Append(@, m) ELSE @]
         /\ (Advance(t, m) /\ UNCHANGED late) \/ (Abort(t) /\ TooLate)
         /\ UNCHANGED <<svcs, dying, ear>>

\* apply_metadata_patch: an empty name of the conversation gives its id, an empty name of a session takes it away.
Named(m, n) == [m EXCEPT !.name = IF n = "" THEN "id" ELSE n]

NamedS(m, s, n) == [m EXCEPT !.nicks = IF n = "" THEN @ \ {s} ELSE @ \cup {s}]

\* rename_conversation
Update(t) ==
    /\ At(t, "update")
    /\ Patched(t, Named(mem[thr[t].c], thr[t].name))
    /\ UNCHANGED <<marks, client, reqs, crashes, fails>>

\* rename_foreground_session, which does not ask whether there is such a session
Nick(t) ==
    /\ At(t, "nick")
    /\ Patched(t, NamedS(mem[thr[t].c], thr[t].s, thr[t].name))
    /\ UNCHANGED <<marks, client, reqs, crashes, fails>>

\* Faulty: the nickname stays.
UnnickNothing(t) ==
    /\ At(t, "unnick")
    /\ Patched(t, mem[thr[t].c])
    /\ UNCHANGED <<marks, client, reqs, crashes, fails>>

\* delete_foreground_session takes the nickname away
Unnick(t) ==
    /\ At(t, "unnick")
    /\ Patched(t, NamedS(mem[thr[t].c], thr[t].s, ""))
    /\ UNCHANGED <<marks, client, reqs, crashes, fails>>

\* create_foreground_session: the kernel mounts the service and gives it a nickname; one that is there already is
\* refused.  wait_agent_session_created takes the first creation it hears of after it subscribed, also that of
\* another request; a refusal, a kernel that stops or an answer that is too late is taken for created.
Mount(t) ==
    LET c     == thr[t].c
        fresh == mem[c].ex /\ thr[t].s \notin svcs[c]
        hears(o) == thr[o].c = c /\ At(o, "mount") /\ thr[o].heard = "" IN
    /\ At(t, "mount")
    /\ \/ /\ mem[c].ex
          /\ svcs' = [svcs EXCEPT ![c] = @ \cup {thr[t].s}]
          /\ mem' = IF fresh THEN [mem EXCEPT ![c].nicks = @ \cup {thr[t].s}] ELSE mem
          /\ disk' = IF fresh THEN [disk EXCEPT ![c] = mem'[c]] ELSE disk
          /\ thr' = [o \in Threads |->
                IF o = t THEN [thr[t] EXCEPT !.todo = Tail(@), !.s = IF thr[t].heard = "" THEN @ ELSE thr[t].heard]
                ELSE IF fresh /\ hears(o) THEN [thr[o] EXCEPT !.heard = thr[t].s] ELSE thr[o]]
       \/ ~mem[c].ex /\ (Abort(t) \/ Advance(t, None)) /\ UNCHANGED <<disk, mem, svcs>>
    /\ UNCHANGED <<dying, bridge, marks, client, counts>>

\* ... and then names the session, or asks for the metadata when the client gave no name.
NameNew(t) ==
    LET c == thr[t].c IN
    /\ At(t, "name")
    /\ IF thr[t].name # "absent" THEN Patched(t, NamedS(mem[c], thr[t].s, thr[t].name))
       ELSE /\ \/ mem[c].ex /\ Advance(t, mem[c]) /\ UNCHANGED late
               \/ Abort(t) /\ (IF mem[c].ex THEN TooLate ELSE UNCHANGED late)
            /\ UNCHANGED <<kernels, bridge>>
    /\ UNCHANGED <<marks, client, reqs, crashes, fails>>

\* delete_foreground_session: the service is told to shut down, and not waited for.
Unmount(t) ==
    LET c == thr[t].c IN
    /\ At(t, "unmount")
    /\ IF mem[c].ex THEN dying' = [dying EXCEPT ![c] = @ \cup ({thr[t].s} \cap svcs[c])] /\ Advance(t, None)
       ELSE Abort(t) /\ UNCHANGED dying
    /\ UNCHANGED <<disk, mem, svcs, bridge, marks, client, counts>>

\* The session's service has stopped: the kernel takes it out of its manifest.
Stopped(c, s) ==
    /\ mem[c].ex /\ s \in dying[c]
    /\ dying' = [dying EXCEPT ![c] = @ \ {s}]
    /\ svcs' = [svcs EXCEPT ![c] = @ \ {s}]
    /\ UNCHANGED <<disk, mem, thr, bridge, marks, client, counts>>

\* delete_conversation: stop_conversation, then ConversationMetadataStore::remove.
Stop(t) ==
    LET c == thr[t].c IN
    /\ At(t, "stop")
    /\ mem' = [mem EXCEPT ![c] = None]
    /\ dying' = [dying EXCEPT ![c] = {}]
    /\ ear' = [ear EXCEPT ![c] = IF mem[c].ex /\ @ = "live" THEN "dead" ELSE @]
    /\ Advance(t, None)
    /\ UNCHANGED <<disk, svcs, bus, marks, client, counts>>

\* The files of the services, the metadata among them, are removed after those of the workspace: when that fails,
\* they stay, and nobody is told.
Delete(t) ==
    /\ At(t, "remove")
    /\ \/ /\ disk' = [disk EXCEPT ![thr[t].c] = None] /\ svcs' = [svcs EXCEPT ![thr[t].c] = {}]
          /\ Advance(t, None)
          /\ UNCHANGED fails
       \/ /\ fails < MaxFails /\ fails' = fails + 1
          /\ Abort(t)
          /\ UNCHANGED <<disk, svcs>>
    /\ UNCHANGED <<mem, dying, bridge, marks, client, reqs, crashes, late>>

--------------------------------------------------------------------------------
(* What is published to home. *)

\* publish_home: to every subscriber, in the order the main thread takes the commands.
Publish(kind, c, s, m) == rx' = IF sub = "off" THEN rx ELSE Append(rx, [kind |-> kind, c |-> c, s |-> s, m |-> m])

\* Faulty: the summary is made from what home shows of the sessions.
PublishStale(t) ==
    /\ At(t, "upsert")
    /\ Publish("upserted", thr[t].c, "", [thr[t].got EXCEPT !.nicks = view[thr[t].c].nicks])
    /\ Advance(t, None)
    /\ UNCHANGED <<kernels, bridge, marks, view, sub, ask, counts>>

\* home_conversation_upserted: the summary of the metadata the request was given
Upsert(t) ==
    /\ At(t, "upsert")
    /\ Publish("upserted", thr[t].c, "", thr[t].got)
    /\ Advance(t, None)
    /\ UNCHANGED <<kernels, bridge, marks, view, sub, ask, counts>>

\* home_conversation_deleted, and the events about one session: upserted, updated and deleted
Announce(t, step) ==
    /\ At(t, step)
    /\ Publish(step, thr[t].c, IF step = "deleted" THEN "" ELSE thr[t].s, thr[t].got)
    /\ Advance(t, None)
    /\ UNCHANGED <<kernels, bridge, marks, view, sub, ask, counts>>

\* The bridge subscribes once to every conversation it finds, also when that one is started again later.
Listen(c) ==
    /\ mem[c].ex /\ ear[c] = "none"
    /\ ear' = [ear EXCEPT ![c] = "live"]
    /\ UNCHANGED <<kernels, thr, bus, marks, client, counts>>

\* The bridge reads the subscriptions of the conversations that run.  project_channel_event reads the metadata file
\* first: without it the event is lost.
Project(c) ==
    /\ mem[c].ex /\ bus[c] # <<>> /\ bus' = [bus EXCEPT ![c] = Tail(@)]
    /\ IF disk[c].ex THEN Publish("patched", c, "", Head(bus[c])) ELSE UNCHANGED rx
    /\ UNCHANGED <<kernels, thr, ear, marks, view, sub, ask, counts>>

\* Faulty: a mark that was not written is announced.
MarkAlways(t) ==
    /\ At(t, "seen")
    /\ seen' = seen + 1 /\ told' = seen + 1
    /\ \/ seenF' = seen + 1 /\ UNCHANGED fails
       \/ fails < MaxFails /\ fails' = fails + 1 /\ UNCHANGED seenF
    /\ Advance(t, None)
    /\ UNCHANGED <<kernels, bridge, torn, client, reqs, crashes, late>>

\* UpdateSeen: the mark is kept, written in place, and announced when the write succeeded.
Mark(t) ==
    /\ At(t, "seen")
    /\ seen' = seen + 1
    /\ \/ seenF' = seen + 1 /\ told' = seen + 1 /\ UNCHANGED <<torn, fails>>
       \/ /\ fails < MaxFails /\ fails' = fails + 1
          /\ (seenF' = -1 /\ torn' = TRUE) \/ UNCHANGED <<seenF, torn>>
          /\ UNCHANGED told
    /\ Advance(t, None)
    /\ UNCHANGED <<kernels, bridge, client, reqs, crashes, late>>

--------------------------------------------------------------------------------
(* The home client. *)

\* accept_home_stream subscribes and then asks the conversations that run, one after the other.
Subscribe ==
    /\ sub = "off" /\ sub' = "asking" /\ rx' = <<>>
    /\ ask' = {c \in Convs : mem[c].ex}
    /\ UNCHANGED <<kernels, thr, bridge, marks, view, counts>>

\* conversation_summaries asks each with query_conversation_metadata, which ensures that it runs; one that answers
\* too late is left out.
Snapshot(c) ==
    /\ sub = "asking" /\ c \in ask
    /\ ask' = ask \ {c}
    /\ EnsureStarted(c)
    /\ (view' = [view EXCEPT ![c] = mem'[c]] /\ UNCHANGED late) \/ (UNCHANGED view /\ TooLate)
    /\ UNCHANGED <<svcs, thr, bridge, marks, rx, sub, reqs, crashes, fails>>

SnapshotSent ==
    /\ sub = "asking" /\ ask = {} /\ sub' = "on"
    /\ UNCHANGED <<kernels, thr, bridge, marks, rx, view, ask, counts>>

\* What the client makes of an event (applyConversationStreamEvent): it replaces the conversation, or changes what it
\* has of it.  It lists the sessions it was told of; the session_nicknames of a patch it does not read.
Applied(v, e) ==
    CASE e.kind = "upserted"            -> e.m
      [] e.kind = "deleted"             -> None
      [] e.kind = "patched"  /\ v.ex    -> [v EXCEPT !.name = e.m.name]
      [] e.kind \in {"upsertS", "updatedS"} /\ v.ex -> [v EXCEPT !.nicks = @ \cup {e.s}]
      [] e.kind = "deletedS" /\ v.ex    -> [v EXCEPT !.nicks = @ \ {e.s}]
      [] OTHER                          -> v

\* websocket_event_loop
Receive ==
    /\ sub = "on" /\ rx # <<>>
    /\ rx' = Tail(rx)
    /\ view' = [view EXCEPT ![Head(rx).c] = Applied(@, Head(rx))]
    /\ UNCHANGED <<kernels, thr, bridge, marks, sub, ask, counts>>

\* The home client goes away; the next event that is sent to it finds that out.
LeaveHome ==
    /\ sub # "off" /\ sub' = "off" /\ rx' = <<>> /\ view' = [c \in Convs |-> None] /\ ask' = {}
    /\ UNCHANGED <<kernels, thr, bridge, marks, counts>>

--------------------------------------------------------------------------------
(* Crashes. *)

\* load_seen_state: a file that does not parse counts as none.
LoadSeen(f) == IF f < 0 THEN 0 ELSE f

\* The process dies, perhaps while the seen state is written, and starts again: start_existing opens every
\* conversation that has metadata.
Crash ==
    /\ crashes < MaxCrashes /\ crashes' = crashes + 1
    /\ \/ UNCHANGED <<seenF, torn>>
       \/ (\E t \in Threads : At(t, "seen")) /\ seenF' = -1 /\ torn' = TRUE
    /\ disk' = [c \in Convs |-> IF disk[c].ex THEN Opened(c) ELSE None]
    /\ mem' = disk'
    /\ dying' = [c \in Convs |-> {}] /\ thr' = [t \in Threads |-> NoReq]
    /\ ear' = [c \in Convs |-> "none"] /\ bus' = [c \in Convs |-> <<>>]
    /\ seen' = LoadSeen(seenF')
    /\ sub' = "off" /\ rx' = <<>> /\ view' = [c \in Convs |-> None] /\ ask' = {}
    /\ UNCHANGED <<svcs, told, reqs, fails, late>>

Next ==
    \/ \E t \in Threads, op \in Ops, c \in Convs, s \in Sessions, n \in Names \cup {"", "absent"} :
          Client(op, c, s, n) /\ Request(t, op, c, s, n)
    \/ \E t \in Threads : \/ Write(t) \/ Ensure(t) \/ Summary(t) \/ Query(t) \/ Update(t) \/ Nick(t) \/ Unnick(t)
                          \/ Mount(t) \/ NameNew(t) \/ Unmount(t) \/ Stop(t) \/ Delete(t) \/ Upsert(t) \/ Mark(t)
                          \/ \E step \in {"deleted", "upsertS", "updatedS", "deletedS"} : Announce(t, step)
    \/ \E c \in Convs : \/ Listen(c) \/ Project(c) \/ Snapshot(c)
                        \/ \E s \in Sessions : Stopped(c, s)
    \/ (Serial => \A t \in Threads : thr[t].op # "delete") /\ Subscribe
    \/ SnapshotSent \/ Receive \/ LeaveHome \/ Crash

Spec == Init /\ [][Next]_vars

--------------------------------------------------------------------------------
(* Properties. *)

Meta == [ex : BOOLEAN, name : Names \cup {"", "id"}, nicks : SUBSET Sessions]

TypeOK ==
    /\ disk \in [Convs -> Meta] /\ mem \in [Convs -> Meta]
    /\ svcs \in [Convs -> SUBSET Sessions] /\ \A c \in Convs : dying[c] \subseteq svcs[c]
    /\ ear \in [Convs -> {"none", "live", "dead"}]
    /\ view \in [Convs -> Meta] /\ sub \in {"off", "asking", "on"} /\ ask \subseteq Convs
    /\ seen \in 0..MaxReqs /\ seenF \in -1..MaxReqs /\ told \in 0..MaxReqs /\ torn \in BOOLEAN

Resting == bus = [c \in Convs |-> <<>>] /\ \A t \in Threads : thr[t] = NoReq

\* The client has read all it was sent; no kernel answered too late to be heard, and no removal failed.
Shown == Resting /\ sub = "on" /\ rx = <<>> /\ late = 0 /\ fails = 0

\* When nothing is under way and the home client has read all it was sent, it shows every conversation as the
\* kernels have it: the name, the sessions, and none that was deleted, although updates also come through the
\* bridge, later than the answers to the requests that made them.
HomeIsTrue == Shown => view = mem

\* A kernel that runs has its metadata on disk as it holds it, so a restart finds what clients were told, also by
\* requests that gave up waiting.
KernelIsOnDisk == Resting => \A c \in Convs : mem[c].ex => disk[c] = mem[c]

\* Every foreground session the client is shown has a service that answers it and is not about to stop.
SessionIsThere == Shown => \A c \in Convs : view[c].nicks \subseteq svcs[c] \ dying[c]

\* A seen mark that home clients were told survives a restart, unless a write of the file was cut in between.
SeenIsDurable == torn \/ told <= LoadSeen(seenF)

===============================================================================
