----------------------------- MODULE Forkserver -----------------------------
(***************************************************************************)
(* The provider fork server of an agent server: a process that forks one   *)
(* worker per provider session and one per request of a tool, hands        *)
(* requests to them, passes their events on and kills the worker of a      *)
(* cancelled request.  It polls its socket and the workers' pipes, handles *)
(* the commands that have come and then the pipes that were ready.         *)
(*                                                                         *)
(* A session keeps its worker between requests; a tool's worker serves one *)
(* request.  A request is a number; what is asked and answered is left out:*)
(* of the context that Set keeps and Append extends, only whether it is    *)
(* set.  A line is read whole, as half a line waits for the rest.  The end *)
(* of the agent server, which ends the fork server with it, is left out:   *)
(* nobody sends the Shutdown of the fork server itself.                    *)
(***************************************************************************)
EXTENDS Integers, Sequences, FiniteSets, SequencesExt, TLC

CONSTANTS
    Sessions,     \* the provider sessions of the process
    Tools,        \* the tools that use a model, each for one request
    MaxRequests,  \* bound: requests, also of a session for a compaction
    MaxWorkers,   \* bound: workers started
    MaxExits,     \* bound: workers that die by themselves, or cannot be forked
    MaxAborts     \* bound: requests that are cancelled and sessions shut down

ForkserverAssumption ==
    /\ Sessions \intersect Tools = {}
    /\ MaxRequests \in Nat /\ MaxWorkers \in Nat /\ MaxExits \in Nat /\ MaxAborts \in Nat

VARIABLES
    client,   \* a session or a tool: [pc, worker, bind, req, retry, want, set]; a
              \* tool that was cancelled is "left" while its thread waits on
    reply,    \* what a blocked client waits for: an event, or NoEvent
    inbox,    \* fork_server_event_rx of a session
    waiting,  \* pending_workers, pending, pending_compact and event_routes: [t, id, by]
    cmds,     \* commands written to the fork server
    evts,     \* events written to the agent server
    server,   \* the loop of the fork server: [pc, batch, ready, done]; "dead" after
              \* a panic, then "closed", and "ended" when the reader has seen it
    workers,  \* its list of workers: [id, active, temporary]
    proc,     \* the worker processes: [job, kind, out, streamed, gone]
    shown,    \* per request, what its client has been told
    ran,      \* per request, the workers it was handed to
    nextReq, nextWorker, exits, aborts

vars == <<client, reply, inbox, waiting, cmds, evts, server, workers, proc, shown, ran,
          nextReq, nextWorker, exits, aborts>>

Clients == Sessions \union Tools
Requests == 1 .. MaxRequests
NoEvent == [t |-> "none", id |-> 0, r |-> ""]
Event(t, id, r) == [t |-> t, id |-> id, r |-> r]

-----------------------------------------------------------------------------
(* The side of the agent server.                                           *)

\* send_command: written while anyone holds the other end.  The workers do,
\* so after the fork server has died a command may be written and lost.
Open == server.pc \notin {"closed", "ended"}
Written(cs) == IF server.pc = "dead" THEN cmds ELSE cmds \o cs

Tell(r, what) == shown' = [shown EXCEPT ![r] = Append(@, what)]

\* Faulty: the counter is read and not advanced.
NumberKept == UNCHANGED nextWorker

\* next_worker_id.fetch_add.
NumberTaken == nextWorker' = nextWorker + 1

\* start_worker: the client blocks until the worker is acknowledged.  When
\* the command cannot be written its registration is taken back; a tool has
\* registered its request before, and leaves it there on an error.
Bind(c, rec, waits) ==
    /\ NumberTaken
    /\ IF Open THEN
        /\ waiting' = waits \union {[t |-> "worker", id |-> nextWorker, by |-> c]}
        /\ cmds' = Written(<<[t |-> "worker", id |-> 0, worker |-> nextWorker, temporary |-> c \in Tools]>>)
        /\ client' = [client EXCEPT ![c] = [rec EXCEPT !.pc = "binding", !.bind = nextWorker]]
        /\ UNCHANGED shown
       ELSE
        /\ waiting' = waits
        /\ client' = [client EXCEPT ![c] = [rec EXCEPT !.pc = "idle"]]
        /\ Tell(rec.req, "error")
        /\ UNCHANGED cmds

\* start_on_worker_event and compact_on_worker.
Launch(c, rec) ==
    IF Open THEN
        /\ waiting' = waiting \union {[t |-> IF rec.want = "compact" THEN "compact" ELSE "event",
                                       id |-> rec.req, by |-> c]}
        /\ cmds' = Written(<<[t |-> rec.want, id |-> rec.req, worker |-> rec.worker, temporary |-> FALSE]>>)
        /\ client' = [client EXCEPT ![c] = [rec EXCEPT !.pc = IF rec.want = "compact" THEN "compacting" ELSE "running"]]
        /\ UNCHANGED <<shown, nextWorker>>
    ELSE
        /\ client' = [client EXCEPT ![c] = [rec EXCEPT !.pc = "idle"]]
        /\ Tell(rec.req, "error")
        /\ UNCHANGED <<waiting, cmds, nextWorker>>

\* ensure_fork_server_worker, then the request.
Ensure(c, rec) == IF rec.worker = 0 THEN Bind(c, rec, waiting) ELSE Launch(c, rec)

\* Set: the context of the requests, refused while one is under way.  Append
\* adds to a context that is set, and is refused otherwise.
SetContext(s) ==
    /\ client[s].pc = "idle"
    /\ client' = [client EXCEPT ![s].set = TRUE]
    /\ UNCHANGED <<reply, inbox, waiting, cmds, evts, server, workers, proc, shown, ran, nextReq, nextWorker, exits, aborts>>

\* StartCurrent and Compact: refused while a request is under way, and
\* StartCurrent without a context; Compact brings its own.  The sessions are
\* those whose provider compacts; for another one Compact is a no-op.
Ask(s, want) ==
    /\ client[s].pc \in {"idle", "running"}
    /\ nextReq <= MaxRequests /\ nextWorker <= MaxWorkers
    /\ nextReq' = nextReq + 1
    /\ IF client[s].pc = "running" \/ (want = "run" /\ ~client[s].set)
       THEN /\ Tell(nextReq, "error")
            /\ UNCHANGED <<client, waiting, cmds, nextWorker>>
       ELSE Ensure(s, [client[s] EXCEPT !.req = nextReq, !.retry = 1, !.want = want])
    /\ UNCHANGED <<reply, inbox, evts, server, workers, proc, ran, exits, aborts>>

StartCurrent(s) == Ask(s, "run")
Compact(s) == Ask(s, "compact")

\* start: a tool's request, with a worker of its own.
ToolRequest(c) ==
    /\ client[c].pc = "idle" /\ client[c].req = 0
    /\ nextReq <= MaxRequests /\ nextWorker <= MaxWorkers
    /\ nextReq' = nextReq + 1
    /\ Bind(c, [client[c] EXCEPT !.req = nextReq, !.want = "run"],
            waiting \union {[t |-> "pending", id |-> nextReq, by |-> c]})
    /\ UNCHANGED <<reply, inbox, evts, server, workers, proc, ran, exits, aborts>>

\* The acknowledgement of a worker, or the error of its start.
Bound(c) ==
    /\ client[c].pc = "binding" /\ reply[c] # NoEvent
    /\ reply' = [reply EXCEPT ![c] = NoEvent]
    /\ LET rec == [client[c] EXCEPT !.worker = IF reply[c].t = "started" THEN client[c].bind ELSE 0, !.bind = 0]
       IN CASE reply[c].t # "started" ->
                 /\ client' = [client EXCEPT ![c] = [rec EXCEPT !.pc = "idle"]]
                 /\ Tell(rec.req, "error")
                 /\ UNCHANGED <<waiting, cmds, nextWorker>>
            [] reply[c].t = "started" /\ c \in Sessions -> Launch(c, rec)
            [] OTHER ->
                 /\ cmds' = IF Open THEN Written(<<[t |-> "run", id |-> rec.req, worker |-> rec.worker, temporary |-> FALSE]>>) ELSE cmds
                 /\ waiting' = IF Open THEN waiting ELSE {x \in waiting : x.id # rec.req \/ x.t # "pending"}
                 /\ client' = [client EXCEPT ![c] = [rec EXCEPT !.pc = IF Open THEN "running" ELSE "idle"]]
                 /\ IF Open THEN UNCHANGED shown ELSE Tell(rec.req, "error")
                 /\ UNCHANGED nextWorker  \* the shutdown_worker of a failed write fails too
    /\ UNCHANGED <<inbox, evts, server, workers, proc, ran, nextReq, exits, aborts>>

\* Faulty: a request whose worker exited is made again too.
FinishRepeatsLost(s, r) ==
    LET rec == client[s]
    IN IF r \in {"unknown", "exited"} /\ rec.retry > 0
       THEN Bind(s, [rec EXCEPT !.worker = 0, !.retry = 0], waiting)
       ELSE /\ client' = [client EXCEPT ![s] = [rec EXCEPT !.pc = "idle"]]
            /\ Tell(rec.req, IF r = "ok" THEN "answer" ELSE "error")
            /\ UNCHANGED <<waiting, cmds, nextWorker>>

\* What became of a request: an unknown worker is forgotten and the request
\* made once more, under its id; a compaction takes a new id, for which the same
\* number stands, as nothing of the refused one is under way.  A worker that is
\* unknown again, or exited, is forgotten after a request, not a compaction.
Finish(s, r) ==
    LET rec == client[s]
    IN IF r = "unknown" /\ rec.retry > 0
       THEN Bind(s, [rec EXCEPT !.worker = 0, !.retry = 0], waiting)
       ELSE /\ client' = [client EXCEPT ![s] = [rec EXCEPT !.pc = "idle",
                              !.worker = IF r \in {"unknown", "exited"} /\ rec.want = "run" THEN 0 ELSE @]]
            /\ Tell(rec.req, IF r = "ok" THEN "answer" ELSE "error")
            /\ UNCHANGED <<waiting, cmds, nextWorker>>

\* A completion is for the request under way or for none.
Completed(s, ev) ==
    IF client[s].pc = "running" /\ client[s].req = ev.id THEN Finish(s, ev.r)
    ELSE UNCHANGED <<client, waiting, cmds, shown, nextWorker>>

\* The event arm of fork_server_provider_session_loop.
SessionEvent(s) ==
    /\ client[s].pc \in {"idle", "running"} /\ inbox[s] # <<>>
    /\ inbox' = [inbox EXCEPT ![s] = Tail(@)]
    /\ LET ev == Head(inbox[s])
       IN IF ev.t = "stream"
          THEN /\ IF client[s].pc = "running" /\ client[s].req = ev.id THEN Tell(ev.id, "stream") ELSE UNCHANGED shown
               /\ UNCHANGED <<client, waiting, cmds, nextWorker>>
          ELSE Completed(s, ev)
    /\ UNCHANGED <<reply, evts, server, workers, proc, ran, nextReq, exits, aborts>>

\* The wait of compact_on_fork_server_worker, or of a tool's thread; nobody
\* hears the thread of a tool that was cancelled.
Answered(c) ==
    /\ \/ client[c].pc = "compacting"
       \/ c \in Tools /\ client[c].pc \in {"running", "left"}
    /\ reply[c] # NoEvent
    /\ reply' = [reply EXCEPT ![c] = NoEvent]
    /\ IF client[c].pc = "left"
       THEN /\ client' = [client EXCEPT ![c].pc = "idle"]
            /\ UNCHANGED <<waiting, cmds, shown, nextWorker>>
       ELSE Finish(c, reply[c].r)
    /\ UNCHANGED <<inbox, evts, server, workers, proc, ran, nextReq, exits, aborts>>

\* Faulty: the cancelled request stays the active one.
AbortKeepsActive(s) ==
    /\ client[s].pc = "running" /\ aborts < MaxAborts
    /\ aborts' = aborts + 1
    /\ cmds' = IF Open THEN Written(<<[t |-> "cancel", id |-> client[s].req, worker |-> 0, temporary |-> FALSE]>>) ELSE cmds
    /\ client' = [client EXCEPT ![s].worker = 0]
    /\ Tell(client[s].req, "error")
    /\ UNCHANGED <<reply, inbox, waiting, evts, server, workers, proc, ran, nextReq, nextWorker, exits>>

\* Abort: the worker is forgotten, for the fork server kills it; it does not
\* when the request has completed meanwhile, and that worker stays unused.
Abort(s) ==
    /\ client[s].pc = "running" /\ aborts < MaxAborts
    /\ aborts' = aborts + 1
    /\ cmds' = IF Open THEN Written(<<[t |-> "cancel", id |-> client[s].req, worker |-> 0, temporary |-> FALSE]>>) ELSE cmds
    /\ client' = [client EXCEPT ![s].pc = "idle", ![s].worker = 0]
    /\ Tell(client[s].req, "error")
    /\ UNCHANGED <<reply, inbox, waiting, evts, server, workers, proc, ran, nextReq, nextWorker, exits>>

\* A tool that is cancelled reports so at once; its thread waits on.
ToolAbort(c) ==
    /\ client[c].pc = "running" /\ aborts < MaxAborts
    /\ aborts' = aborts + 1
    /\ cmds' = IF Open THEN Written(<<[t |-> "cancel", id |-> client[c].req, worker |-> 0, temporary |-> FALSE]>>) ELSE cmds
    /\ client' = [client EXCEPT ![c].pc = "left"]
    /\ Tell(client[c].req, "interrupted")
    /\ UNCHANGED <<reply, inbox, waiting, evts, server, workers, proc, ran, nextReq, nextWorker, exits>>

\* Shutdown: the request under way is cancelled and the worker shut down.
Shutdown(s) ==
    /\ client[s].pc \in {"idle", "running"} /\ aborts < MaxAborts
    /\ aborts' = aborts + 1
    /\ LET cancel == IF client[s].pc = "running"
                     THEN <<[t |-> "cancel", id |-> client[s].req, worker |-> 0, temporary |-> FALSE]>> ELSE <<>>
           shut == IF client[s].worker # 0
                   THEN <<[t |-> "shutdown", id |-> 0, worker |-> client[s].worker, temporary |-> FALSE]>> ELSE <<>>
       IN cmds' = IF Open THEN Written(cancel \o shut) ELSE cmds
    /\ client' = [client EXCEPT ![s].pc = "down", ![s].worker = 0]
    /\ UNCHANGED <<shown, reply, inbox, waiting, evts, server, workers, proc, ran, nextReq, nextWorker, exits>>

\* Faulty: the waits of compactions are not looked up.
RegisteredForRuns(kinds, id) == {x \in waiting : x.t \in kinds \ {"compact"} /\ x.id = id}

Registered(kinds, id) == {x \in waiting : x.t \in kinds /\ x.id = id}

\* The event reader: each event goes to whoever registered for it.
ReadEvent ==
    /\ evts # <<>>
    /\ evts' = Tail(evts)
    /\ LET ev == Head(evts)
           to == CASE ev.t \in {"started", "failed"} -> Registered({"worker"}, ev.id)
                   [] ev.t = "compacted" -> Registered({"compact"}, ev.id)
                   [] ev.t = "stream" -> Registered({"event"}, ev.id)
                   [] ev.t = "completed" -> IF Registered({"pending"}, ev.id) # {}
                                            THEN Registered({"pending"}, ev.id) ELSE Registered({"event"}, ev.id)
           blocked == {x.by : x \in {y \in to : y.t # "event"}}
           looping == {x.by : x \in {y \in to : y.t = "event"}}
       IN /\ waiting' = IF ev.t = "stream" THEN waiting ELSE waiting \ to
          /\ reply' = [c \in Clients |-> IF c \in blocked THEN ev ELSE reply[c]]
          /\ inbox' = [s \in Sessions |-> IF s \in looping THEN Append(inbox[s], ev) ELSE inbox[s]]
    /\ UNCHANGED <<client, cmds, server, workers, proc, shown, ran, nextReq, nextWorker, exits, aborts>>

\* Its end, when the socket is closed: everyone who is registered is failed.
ReaderEnds ==
    /\ server.pc = "closed" /\ evts = <<>>
    /\ server' = [server EXCEPT !.pc = "ended"]
    /\ waiting' = {}
    /\ reply' = [c \in Clients |-> IF \E x \in waiting : x.by = c /\ x.t # "event"
                                   THEN Event("closed", 0, "closed") ELSE reply[c]]
    /\ inbox' = [s \in Sessions |-> inbox[s] \o SetToSeq({Event("completed", x.id, "closed") :
                                        x \in {y \in waiting : y.by = s /\ y.t = "event"}})]
    /\ UNCHANGED <<client, cmds, evts, workers, proc, shown, ran, nextReq, nextWorker, exits, aborts>>

-----------------------------------------------------------------------------
(* The fork server.                                                        *)

\* A pipe with data, or whose worker has ended.
Readable(w) == proc[w].out # <<>> \/ proc[w].gone

\* poll reports the socket and the pipes by position, for this round.
Poll ==
    /\ server.pc = "poll"
    /\ LET ready == {i \in DOMAIN workers : Readable(workers[i].id)}
       IN /\ cmds # <<>> \/ ready # {}
          /\ server' = [pc |-> IF cmds # <<>> THEN "commands" ELSE "pipes", batch |-> <<>>,
                        ready |-> ready, done |-> {}]
    /\ UNCHANGED <<client, reply, inbox, waiting, cmds, evts, workers, proc, shown, ran, nextReq, nextWorker, exits, aborts>>

\* read_available on the socket: what has been written by now.
ReadCommands ==
    /\ server.pc = "commands" /\ server.batch = <<>>
    /\ server' = [server EXCEPT !.batch = cmds]
    /\ cmds' = <<>>
    /\ UNCHANGED <<client, reply, inbox, waiting, evts, workers, proc, shown, ran, nextReq, nextWorker, exits, aborts>>

\* swap_remove of a vector: the last worker takes the place.
SwapRemove(i) == IF i = Len(workers) THEN Front(workers) ELSE Front([workers EXCEPT ![i] = Last(workers)])
Position(P(_)) == {i \in DOMAIN workers : P(workers[i])}

\* start_provider_worker: the worker is forked, or cannot be.
StartWorker(cmd) ==
    \/ /\ workers' = Append(workers, [id |-> cmd.worker, active |-> 0, temporary |-> cmd.temporary])
       /\ proc' = (cmd.worker :> [job |-> 0, kind |-> "", out |-> <<>>, streamed |-> FALSE, gone |-> FALSE]) @@ proc
       /\ evts' = Append(evts, Event("started", cmd.worker, ""))
       /\ UNCHANGED <<ran, exits>>
    \/ /\ exits < MaxExits
       /\ exits' = exits + 1
       /\ evts' = Append(evts, Event("failed", cmd.worker, ""))
       /\ UNCHANGED <<workers, proc, ran>>

\* start_request_on_worker and compact_on_worker.
HandOver(cmd) ==
    LET at == Position(LAMBDA w : w.id = cmd.worker)
        refuse(r) == /\ evts' = Append(evts, Event(IF cmd.t = "compact" THEN "compacted" ELSE "completed", cmd.id, r))
                     /\ UNCHANGED <<workers, proc, ran>>
    IN /\ CASE at = {} -> refuse("unknown")
            [] at # {} /\ \E i \in at : workers[i].active # 0 -> refuse("busy")
            [] at # {} /\ (\A i \in at : workers[i].active = 0) /\ proc[cmd.worker].gone -> refuse("write")
            [] OTHER ->
                 /\ workers' = [i \in DOMAIN workers |->
                                  IF i \in at THEN [workers[i] EXCEPT !.active = cmd.id] ELSE workers[i]]
                 /\ proc' = [proc EXCEPT ![cmd.worker].job = cmd.id, ![cmd.worker].kind = cmd.t, ![cmd.worker].streamed = FALSE]
                 /\ ran' = [ran EXCEPT ![cmd.id] = @ + 1]
                 /\ UNCHANGED evts
       /\ UNCHANGED exits

\* The worker is killed or told to end, its pipes closed and its process reaped.
Kill(i) ==
    /\ workers' = SwapRemove(i)
    /\ proc' = [proc EXCEPT ![workers[i].id].gone = TRUE, ![workers[i].id].job = 0]

\* cancel_worker_request.
Cancel(cmd) ==
    LET at == Position(LAMBDA w : w.active = cmd.id)
    IN /\ IF at = {} THEN UNCHANGED <<workers, proc, evts>>
          ELSE (\E i \in at : Kill(i)) /\ evts' = Append(evts, Event("completed", cmd.id, "cancelled"))
       /\ UNCHANGED <<ran, exits>>

\* shutdown_provider_worker.
ShutdownWorker(cmd) ==
    LET at == Position(LAMBDA w : w.id = cmd.worker)
    IN /\ IF at = {} THEN UNCHANGED <<workers, proc>> ELSE \E i \in at : Kill(i)
       /\ UNCHANGED <<evts, ran, exits>>

\* handle_forkserver_command, until the batch is done.
HandleCommand ==
    /\ server.pc = "commands" /\ server.batch # <<>>
    /\ LET cmd == Head(server.batch)
       IN CASE cmd.t = "worker" -> StartWorker(cmd)
            [] cmd.t \in {"run", "compact"} -> HandOver(cmd)
            [] cmd.t = "cancel" -> Cancel(cmd)
            [] cmd.t = "shutdown" -> ShutdownWorker(cmd)
    /\ server' = [server EXCEPT !.batch = Tail(@), !.pc = IF Len(server.batch) = 1 THEN "pipes" ELSE @]
    /\ UNCHANGED <<client, reply, inbox, waiting, cmds, shown, nextReq, nextWorker, aborts>>

\* Faulty: a session's worker keeps its request after the completion.
KeepBusy(w, events) ==
    IF w.temporary /\ \E k \in DOMAIN events : events[k].t # "stream" THEN [w EXCEPT !.active = 0] ELSE w

\* complete_worker_event, for every line that was read.
AfterEvents(w, events) == [w EXCEPT !.active = IF \E k \in DOMAIN events : events[k].t # "stream" THEN 0 ELSE @]

\* One pipe that poll reported, by its position of then: the vector may have
\* changed since.  A position past its end panics; a pipe without data blocks
\* the loop until its worker writes or ends.
ReadPipe ==
    /\ server.pc = "pipes" /\ server.ready # {}
    /\ LET i == CHOOSE j \in server.ready : \A k \in server.ready : j <= k
       IN IF i > Len(workers) THEN
              /\ server' = [server EXCEPT !.pc = "dead"]
              /\ workers' = <<>>
              /\ UNCHANGED <<proc, evts>>
          ELSE
              LET w == workers[i]
                  lines == proc[w.id].out
              IN /\ Readable(w.id)
                 /\ evts' = evts \o lines
                 /\ proc' = [proc EXCEPT ![w.id].out = <<>>]
                 /\ workers' = [workers EXCEPT ![i] = AfterEvents(w, lines)]
                 /\ server' = [server EXCEPT !.ready = @ \ {i},
                                  !.done = @ \union
                                     IF \/ lines = <<>>
                                        \/ w.temporary /\ \E k \in DOMAIN lines : lines[k].t # "stream"
                                     THEN {i} ELSE {}]
    /\ UNCHANGED <<client, reply, inbox, waiting, cmds, shown, ran, nextReq, nextWorker, exits, aborts>>

\* Faulty: from the first to the last.
LowestDone == CHOOSE j \in server.done : \A k \in server.done : j <= k

\* The positions to remove are taken from the last to the first.
NextDone == CHOOSE j \in server.done : \A k \in server.done : j >= k

\* Faulty: nobody is told.
ExitSilently(w) == <<>>

\* complete_worker_exit: a request that was under way is failed, whatever it was.
ExitEvents(w) ==
    IF w.active = 0 THEN <<>>
    ELSE <<Event("completed", w.active, "exited"), Event("compacted", w.active, "exited")>>

RemoveDone ==
    /\ server.pc = "pipes" /\ server.ready = {}
    /\ IF server.done = {} THEN /\ server' = [server EXCEPT !.pc = "poll"]
                                /\ UNCHANGED <<workers, evts, proc>>
       ELSE LET i == NextDone
            IN IF i > Len(workers) THEN /\ server' = [server EXCEPT !.pc = "dead"]
                                        /\ workers' = <<>>
                                        /\ UNCHANGED <<evts, proc>>
               ELSE /\ evts' = evts \o ExitEvents(workers[i])
                    /\ Kill(i)
                    /\ server' = [server EXCEPT !.done = @ \ {i}]
    /\ UNCHANGED <<client, reply, inbox, waiting, cmds, shown, ran, nextReq, nextWorker, exits, aborts>>

\* After a panic the socket closes when the last worker has ended.
HangUp ==
    /\ server.pc = "dead"
    /\ server' = [server EXCEPT !.pc = "closed", !.batch = <<>>]
    /\ cmds' = <<>>
    /\ UNCHANGED <<client, reply, inbox, waiting, evts, workers, proc, shown, ran, nextReq, nextWorker, exits, aborts>>

-----------------------------------------------------------------------------
(* The workers.                                                            *)

Alive(w) == w \in DOMAIN proc /\ ~proc[w].gone

\* Something the provider streams; one event per request stands for any number.
WorkerStream(w) ==
    /\ Alive(w) /\ proc[w].job # 0 /\ proc[w].kind = "run" /\ ~proc[w].streamed
    /\ proc' = [proc EXCEPT ![w].out = Append(@, Event("stream", proc[w].job, "")), ![w].streamed = TRUE]
    /\ UNCHANGED <<client, reply, inbox, waiting, cmds, evts, server, workers, shown, ran, nextReq, nextWorker, exits, aborts>>

\* The result of the provider, an error of its own included.
WorkerDone(w) ==
    /\ Alive(w) /\ proc[w].job # 0
    /\ proc' = [proc EXCEPT ![w].out = Append(@, Event(IF proc[w].kind = "run" THEN "completed" ELSE "compacted", proc[w].job, "ok")),
                            ![w].job = 0]
    /\ UNCHANGED <<client, reply, inbox, waiting, cmds, evts, server, workers, shown, ran, nextReq, nextWorker, exits, aborts>>

\* The process dies by itself.
WorkerExit(w) ==
    /\ Alive(w) /\ exits < MaxExits
    /\ exits' = exits + 1
    /\ proc' = [proc EXCEPT ![w].gone = TRUE, ![w].job = 0]
    /\ UNCHANGED <<client, reply, inbox, waiting, cmds, evts, server, workers, shown, ran, nextReq, nextWorker, aborts>>

-----------------------------------------------------------------------------

Init ==
    /\ client = [c \in Clients |-> [pc |-> "idle", worker |-> 0, bind |-> 0, req |-> 0, retry |-> 0, want |-> "", set |-> FALSE]]
    /\ reply = [c \in Clients |-> NoEvent]
    /\ inbox = [s \in Sessions |-> <<>>]
    /\ waiting = {}
    /\ cmds = <<>> /\ evts = <<>>
    /\ server = [pc |-> "poll", batch |-> <<>>, ready |-> {}, done |-> {}]
    /\ workers = <<>>
    /\ proc = <<>>
    /\ shown = [r \in Requests |-> <<>>]
    /\ ran = [r \in Requests |-> 0]
    /\ nextReq = 1 /\ nextWorker = 1 /\ exits = 0 /\ aborts = 0

ServerStep == Poll \/ ReadCommands \/ HandleCommand \/ ReadPipe \/ RemoveDone \/ HangUp
ReaderStep == ReadEvent \/ ReaderEnds
Workers == DOMAIN proc

Next ==
    \/ \E s \in Sessions : SetContext(s) \/ StartCurrent(s) \/ Compact(s) \/ SessionEvent(s) \/ Abort(s) \/ Shutdown(s)
    \/ \E c \in Tools : ToolRequest(c) \/ ToolAbort(c)
    \/ \E c \in Clients : Bound(c) \/ Answered(c)
    \/ ServerStep \/ ReaderStep
    \/ \E w \in Workers : WorkerStream(w) \/ WorkerDone(w) \/ WorkerExit(w)

Spec == Init /\ [][Next]_vars

\* The threads and processes run: the loop of each session, the waits of each
\* client, the reader, the fork server, and a worker ends its requests.
Fairness ==
    /\ WF_vars(ServerStep) /\ WF_vars(ReaderStep)
    /\ \A s \in Sessions : WF_vars(SessionEvent(s))
    /\ \A c \in Clients : WF_vars(Bound(c)) /\ WF_vars(Answered(c))
    /\ \A w \in 1 .. (MaxWorkers + MaxRequests) : WF_vars(WorkerDone(w))

FairSpec == Spec /\ Fairness

-----------------------------------------------------------------------------
(* Properties.                                                             *)

TypeOK ==
    /\ \A c \in Clients : /\ client[c].pc \in {"idle", "binding", "running", "compacting", "left", "down"}
                          /\ client[c].worker \in 0 .. nextWorker - 1 /\ client[c].req \in 0 .. nextReq - 1
    /\ \A x \in waiting : x.t \in {"worker", "event", "pending", "compact"} /\ x.by \in Clients
    /\ server.pc \in {"poll", "commands", "pipes", "dead", "closed", "ended"}
    /\ \A i \in DOMAIN workers : workers[i].id \in DOMAIN proc /\ workers[i].active \in 0 .. MaxRequests

\* A request is answered once, by a result, an error or its cancellation, and
\* nothing of it is shown after that: also when its worker is lost, when it is
\* made again and when its completion races its cancellation.
AnswerIsLast ==
    \A r \in Requests : \A k \in DOMAIN shown[r] : shown[r][k] # "stream" => k = Len(shown[r])

\* A request is handed to a worker at most once: it is made again only after
\* a refusal, so nothing is asked of the model twice.
RunsAtMostOnce == \A r \in Requests : ran[r] <= 1

\* A client's worker is free when the client uses it: no request is refused
\* because another one is under way.
NeverBusy == \A k \in DOMAIN evts : evts[k].r # "busy"

\* Without cancellations and shutdowns the list of workers and the positions
\* that poll reported agree, and the fork server does not panic.
ServerSurvives == MaxAborts = 0 => server.pc \notin {"dead", "closed", "ended"}

\* Whoever waits is still going to hear: a registration is held by a command
\* not yet handled, a worker that has the request, an event under way, or the
\* end of the reader.
WaiterIsServed ==
    \A x \in waiting :
        \/ server.pc \in {"dead", "closed", "ended"}
        \/ \E k \in DOMAIN cmds \union DOMAIN server.batch :
              \E q \in {cmds, server.batch} :
                 k \in DOMAIN q /\ IF x.t = "worker" THEN q[k].t = "worker" /\ q[k].worker = x.id
                                   ELSE q[k].t \in {"run", "compact"} /\ q[k].id = x.id
        \/ \E k \in DOMAIN evts : evts[k].id = x.id /\ evts[k].t # "stream"
        \/ x.t # "worker" /\ \E i \in DOMAIN workers : workers[i].active = x.id
        \/ x.t = "pending" /\ (client[x.by].pc = "binding" \/ shown[x.id] # <<>>)

\* Every request of a session or a tool is answered in the end.
RequestEnds ==
    \A c \in Clients : client[c].pc \in {"binding", "running", "compacting"} ~> client[c].pc \in {"idle", "left", "down"}
=============================================================================
