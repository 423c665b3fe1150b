------------------------------- MODULE Terminal -------------------------------
(***************************************************************************)
(* Interactive terminals: the terminal service and its runtime             *)
(* (terminal.rs, terminal_runtime.rs) and the web stream that shows a      *)
(* terminal to a client (channels/web/terminal.rs).                        *)
(*                                                                         *)
(* One terminal: a child on a pty, a reader thread that keeps the output   *)
(* in a bounded buffer and publishes it to subscribers, one forwarder      *)
(* thread per subscription, and the service thread that handles requests   *)
(* one by one.  What the service sends reaches every open stream, which    *)
(* picks what is meant for it.  A byte of output is its offset.            *)
(***************************************************************************)
EXTENDS Integers, Sequences, SequencesExt, FiniteSets, FiniteSetsExt

CONSTANTS
    Clients,      \* web clients
    MaxOut,       \* bound: bytes the child writes
    BufferMax,    \* MAX_OUTPUT_BUFFER_BYTES
    ChanCap,      \* TERMINAL_STREAM_CHANNEL_CAPACITY
    InputCap,     \* what the pty holds before a write to it blocks
    MaxRequests,  \* bound: requests sent
    Lingers,      \* the child may close its terminal and go on
    Ops           \* the requests that are sent

TerminalAssumption ==
    /\ {MaxOut, MaxRequests} \subseteq Nat
    /\ {BufferMax, ChanCap, InputCap} \subseteq Nat \ {0} /\ Lingers \in BOOLEAN
    /\ Ops \subseteq {"attach", "detach", "terminate", "input", "config"}

VARIABLES
    child,    \* the child: run, killed, exited
    tty,      \* the child holds its side of the terminal
    wrote,    \* bytes written by the child
    unread,   \* bytes the reader has not read
    input,    \* bytes of input the child has not read
    reader,   \* the reader thread: read, publish, wait, status, clear, done
    chunk,    \* the byte it is about to publish
    start, next, \* OutputBuffer: the offsets it holds are start .. next - 1
    running,  \* TerminalStatus.running
    subs,     \* OutputSubscribers: the ids whose sender the session holds
    chan,     \* id -> the bytes in the channel of the subscription
    nextSub,  \* the next subscriber id
    fwd,      \* forwarder threads: the subscription ids they serve
    managed,  \* the manager holds the session
    svc,      \* the service thread: idle, attached, kill, write
    req,      \* the request it is handling
    inbox,    \* requests on their way
    sent,     \* requests sent
    web       \* Clients -> [st, sub, pos, rx, asked, low, ok]

vars == <<child, tty, wrote, unread, input, reader, chunk, start, next, running, subs, chan, nextSub,
          fwd, managed, svc, req, inbox, sent, web>>

proc    == <<child, tty, wrote, unread, input>>
output  == <<reader, chunk, start, next, running>>
sublist == <<subs, chan, nextSub, fwd>>

NoReq == [op |-> "none", c |-> "", arg |-> 0]
NoSub == 0 - 1

Closed(pos) == [st |-> "closed", sub |-> NoSub, pos |-> pos, rx |-> <<>>, dup |-> FALSE,
                gap |-> FALSE, back |-> FALSE, last |-> 0 - 1]

Init ==
    /\ child = "run" /\ tty = TRUE /\ wrote = 0 /\ unread = <<>> /\ input = 0
    /\ reader = "read" /\ chunk = 0 /\ start = 0 /\ next = 0 /\ running = TRUE
    /\ subs = {} /\ chan = <<>> /\ nextSub = 0 /\ fwd = {} /\ managed = TRUE
    /\ svc = "idle" /\ req = NoReq /\ inbox = <<>> /\ sent = 0
    /\ web = [c \in Clients |-> Closed(0)]

----------------------------------------------------------------------------
(* The child and the reader thread *)

Writes ==
    /\ child # "exited" /\ tty /\ wrote < MaxOut
    /\ unread' = Append(unread, wrote) /\ wrote' = wrote + 1
    /\ UNCHANGED <<child, tty, input, output, sublist, managed, svc, req, inbox, sent, web>>

ReadsInput ==
    /\ child = "run" /\ input > 0 /\ input' = input - 1
    /\ UNCHANGED <<child, tty, wrote, unread, output, sublist, managed, svc, req, inbox, sent, web>>

\* the child ends, by itself or killed
Exits ==
    /\ child # "exited"
    /\ child' = "exited" /\ tty' = FALSE
    /\ UNCHANGED <<wrote, unread, input, output, sublist, managed, svc, req, inbox, sent, web>>

\* the child closes its terminal and goes on
Lets ==
    /\ Lingers /\ child = "run" /\ tty /\ tty' = FALSE
    /\ UNCHANGED <<child, wrote, unread, input, output, sublist, managed, svc, req, inbox, sent, web>>

AppendAll == next' = next + 1 /\ start' = start

\* OutputBuffer::append
Append1 == next' = next + 1 /\ start' = Max({start, next + 1 - BufferMax})

\* the reader keeps a byte under the lock of the buffer
ReaderReads ==
    /\ reader = "read" /\ unread # <<>>
    /\ Append1 /\ chunk' = Head(unread) /\ unread' = Tail(unread) /\ reader' = "publish"
    /\ UNCHANGED <<child, tty, wrote, input, running, sublist, managed, svc, req, inbox, sent, web>>

\* publish_output_chunk: a subscriber whose channel is full is dropped
Publish ==
    LET keep == {i \in subs : Len(chan[i]) < ChanCap}
    IN  subs' = keep /\ chan' = [i \in DOMAIN chan |-> IF i \in keep THEN Append(chan[i], chunk) ELSE chan[i]]

\* ... and publishes it under the lock of the subscribers
ReaderPublishes ==
    /\ reader = "publish" /\ Publish /\ reader' = "read"
    /\ UNCHANGED <<proc, chunk, start, next, running, nextSub, fwd, managed, svc, req, inbox, sent, web>>

\* the end of the output: wait for the child while holding its lock
ReaderEnds ==
    /\ reader = "read" /\ unread = <<>> /\ ~tty /\ reader' = "wait"
    /\ UNCHANGED <<proc, chunk, start, next, running, sublist, managed, svc, req, inbox, sent, web>>

ReaderWaited ==
    /\ reader = "wait" /\ child = "exited" /\ reader' = "status"
    /\ UNCHANGED <<proc, chunk, start, next, running, sublist, managed, svc, req, inbox, sent, web>>

ClearsFirst ==
    \/ reader = "status" /\ reader' = "clear" /\ subs' = {} /\ running' = running
    \/ reader = "clear" /\ reader' = "done" /\ running' = FALSE /\ subs' = subs

\* the status is set before the subscribers are cleared
Finishing ==
    \/ reader = "status" /\ reader' = "clear" /\ running' = FALSE /\ subs' = subs
    \/ reader = "clear" /\ reader' = "done" /\ subs' = {} /\ running' = running

ReaderFinishes ==
    /\ Finishing
    /\ UNCHANGED <<proc, chunk, start, next, chan, nextSub, fwd, managed, svc, req, inbox, sent, web>>

----------------------------------------------------------------------------
(* Events from the service and its forwarders go to every open stream *)

Broadcast(ev) ==
    web' = [c \in Clients |-> IF web[c].st = "closed" THEN web[c] ELSE [web[c] EXCEPT !.rx = Append(@, ev)]]

Event(kind, c, sub, from, to) == [kind |-> kind, c |-> c, sub |-> sub, from |-> from, to |-> to]

\* forward_terminal_output: a chunk is sent on
Forwards(i) ==
    /\ i \in fwd /\ chan[i] # <<>>
    /\ Broadcast(Event("output", "", i, Head(chan[i]), 0))
    /\ chan' = [chan EXCEPT ![i] = Tail(@)]
    /\ UNCHANGED <<proc, output, subs, nextSub, fwd, managed, svc, req, inbox, sent>>

\* ... and the thread ends when the channel is empty and its sender is gone
ForwarderEnds(i) ==
    /\ i \in fwd /\ i \notin subs /\ chan[i] = <<>> /\ fwd' = fwd \ {i}
    /\ UNCHANGED <<proc, output, subs, chan, nextSub, managed, svc, req, inbox, sent, web>>

----------------------------------------------------------------------------
(* The service thread *)

Take(op) == svc = "idle" /\ inbox # <<>> /\ Head(inbox).op = op /\ inbox' = Tail(inbox)

Answer(kind) == Broadcast(Event(kind, Head(inbox).c, NoSub, 0, 0))

\* lookup fails; a changed configuration that concerns no terminal is taken
TakeUnknown(op) ==
    /\ Take(op) /\ ~managed /\ Answer(IF op = "config" THEN "done" ELSE "error")
    /\ UNCHANGED <<proc, output, sublist, managed, svc, req, sent>>

\* attach: a replay and, while the terminal runs, a subscription, under the
\* locks of status, buffer and subscribers; the forwarder starts at once
ServeAttach ==
    /\ Take("attach") /\ managed
    /\ LET r == Head(inbox)
           from == Max({r.arg, start})
       IN  /\ req' = [op |-> "attached", c |-> r.c, arg |-> [from |-> from, to |-> next,
                                                             sub |-> IF running THEN nextSub ELSE NoSub]]
           /\ svc' = "attached"
    /\ IF running
       THEN /\ subs' = subs \cup {nextSub}
            /\ chan' = [i \in DOMAIN chan \cup {nextSub} |-> IF i = nextSub THEN <<>> ELSE chan[i]]
            /\ nextSub' = nextSub + 1 /\ fwd' = fwd \cup {nextSub}
       ELSE UNCHANGED sublist
    /\ UNCHANGED <<proc, output, managed, sent, web>>

\* ... only then is the answer sent
SendAttached ==
    /\ svc = "attached" /\ svc' = "idle" /\ req' = NoReq
    /\ Broadcast(Event("attached", req.c, req.arg.sub, req.arg.from, req.arg.to))
    /\ UNCHANGED <<proc, output, sublist, managed, inbox, sent>>

DetachKeeps(i) == subs' = subs

\* detach
Unsubscribe(i) == subs' = subs \ {i}

ServeDetach ==
    /\ Take("detach") /\ managed
    /\ Unsubscribe(Head(inbox).arg)
    /\ Broadcast(Event("detached", Head(inbox).c, Head(inbox).arg, 0, 0))
    /\ UNCHANGED <<proc, output, chan, nextSub, fwd, managed, svc, req, sent>>

\* input_bytes_for_context: write_all blocks while the pty is full
ServeInput ==
    /\ Take("input") /\ managed
    /\ IF running THEN svc' = "write" /\ req' = Head(inbox) /\ web' = web
       ELSE Answer("error") /\ UNCHANGED <<svc, req>>
    /\ UNCHANGED <<proc, output, sublist, managed, sent>>

InputWritten ==
    /\ svc = "write" /\ (input < InputCap \/ ~tty)
    /\ input' = IF tty THEN input + 1 ELSE input
    /\ svc' = "idle" /\ req' = NoReq
    /\ Broadcast(Event(IF ~tty THEN "error" ELSE IF running THEN "terminal" ELSE "ended", req.c, NoSub, 0, 0))
    /\ UNCHANGED <<child, tty, wrote, unread, output, sublist, managed, inbox, sent>>

\* terminate_for_context, and reset_stale_terminals after UpdateRuntimeConfig:
\* a session that runs is killed under the lock of the child
ServeTerminate(op) ==
    /\ op \in {"terminate", "config"} /\ Take(op) /\ managed
    /\ IF running \/ op = "config"
       THEN svc' = "kill" /\ req' = Head(inbox) /\ UNCHANGED <<managed, web>>
       ELSE managed' = FALSE /\ Answer("ended") /\ UNCHANGED <<svc, req>>
    /\ UNCHANGED <<proc, output, sublist, sent>>

KillWaits == child = "exited" /\ child' = child

KillSkipped == child' = child

\* kill_terminal_session
Kill == child' = IF child = "run" THEN "killed" ELSE child

\* finish, remove and answer
Killed ==
    /\ svc = "kill" /\ reader # "wait"
    /\ Kill /\ running' = FALSE /\ managed' = FALSE
    /\ svc' = "idle" /\ req' = NoReq
    /\ Broadcast(Event(IF req.op = "config" THEN "config" ELSE "ended", req.c, NoSub, 0, 0))
    /\ UNCHANGED <<tty, wrote, unread, input, reader, chunk, start, next, sublist, inbox, sent>>

----------------------------------------------------------------------------
(* The web stream *)

Sends(r) == sent < MaxRequests /\ r.op \in Ops /\ sent' = sent + 1 /\ inbox' = Append(inbox, r)

\* accept_terminal_stream: subscribe to the events, then ask to attach from
\* the offset the client has
WebAttach(c) ==
    /\ web[c].st = "closed"
    /\ Sends([op |-> "attach", c |-> c, arg |-> web[c].pos])
    /\ web' = [web EXCEPT ![c] = [Closed(@.pos) EXCEPT !.st = "asked"]]
    /\ UNCHANGED <<proc, output, sublist, managed, svc, req>>

\* wait_for_event throws away what it does not wait for
WebWaits(c) ==
    /\ web[c].st = "asked" /\ web[c].rx # <<>>
    /\ LET ev == Head(web[c].rx)
           w  == [web[c] EXCEPT !.rx = Tail(@)]
       IN  web' = [web EXCEPT ![c] =
             IF ev.c # c \/ ev.kind \notin {"attached", "error"} THEN w
             ELSE IF ev.kind = "error" THEN Closed(w.pos)
             ELSE [w EXCEPT !.st = "stream", !.sub = ev.sub, !.pos = ev.to, !.last = ev.to - 1]]
    /\ UNCHANGED <<proc, output, sublist, managed, svc, req, inbox, sent>>

AnyOutput(w, ev) == ev.kind = "output"

\* the subscription a chunk belongs to is part of the event
Mine(w, ev) == ev.kind = "output" /\ ev.sub = w.sub

\* the stream picks the output of its subscription, and the events that end it
WebStreams(c) ==
    /\ web[c].st = "stream" /\ web[c].rx # <<>>
    /\ LET ev == Head(web[c].rx)
           w  == [web[c] EXCEPT !.rx = Tail(@)]
       IN  web' = [web EXCEPT ![c] =
             CASE Mine(w, ev) ->
                     [w EXCEPT !.pos = @ + 1, !.last = ev.from,
                               !.dup = @ \/ ev.from = w.last, !.gap = @ \/ ev.from > w.last + 1,
                               !.back = @ \/ ev.from < w.last]
               [] ev.kind = "ended" \/ (ev.kind = "detached" /\ ev.sub = w.sub) -> Closed(w.pos)
               [] OTHER -> w]
    /\ UNCHANGED <<proc, output, sublist, managed, svc, req, inbox, sent>>

\* the client closes: the reading thread asks to detach and the stream ends
\* with the answer
WebCloses(c) ==
    /\ web[c].st = "stream" /\ web[c].sub # NoSub
    /\ Sends([op |-> "detach", c |-> c, arg |-> web[c].sub])
    /\ UNCHANGED <<proc, output, sublist, managed, svc, req, web>>

\* other requests, over the stream or over HTTP
WebRequests ==
    /\ \E op \in {"terminate", "input", "config"} : Sends([op |-> op, c |-> "", arg |-> 0])
    /\ UNCHANGED <<proc, output, sublist, managed, svc, req, web>>

Service ==
    \/ \E op \in {"attach", "detach", "terminate", "input", "config"} : TakeUnknown(op)
    \/ ServeAttach \/ SendAttached \/ ServeDetach \/ ServeInput \/ InputWritten
    \/ \E op \in {"terminate", "config"} : ServeTerminate(op)
    \/ Killed

Reader == ReaderReads \/ ReaderPublishes \/ ReaderEnds \/ ReaderWaited \/ ReaderFinishes

Next ==
    \/ Writes \/ ReadsInput \/ Exits \/ Lets \/ Reader \/ Service
    \/ \E i \in fwd : Forwards(i) \/ ForwarderEnds(i)
    \/ \E c \in Clients : WebAttach(c) \/ WebWaits(c) \/ WebStreams(c) \/ WebCloses(c)
    \/ WebRequests

Spec == Init /\ [][Next]_vars

\* every thread goes on, a killed child ends and a child reads its input;
\* clients need not ask for anything and a child need not end
FairSpec ==
    /\ Spec /\ WF_vars(Reader) /\ WF_vars(Service) /\ WF_vars(ReadsInput)
    /\ WF_vars(child = "killed" /\ Exits)
    /\ \A i \in 0..(MaxRequests - 1) : WF_vars(i \in fwd /\ (Forwards(i) \/ ForwarderEnds(i)))
    /\ \A c \in Clients : WF_vars(WebWaits(c)) /\ WF_vars(WebStreams(c))

----------------------------------------------------------------------------
TypeOK ==
    /\ child \in {"run", "killed", "exited"} /\ tty \in BOOLEAN /\ running \in BOOLEAN
    /\ start <= next /\ next - start <= BufferMax /\ input \in 0..InputCap
    /\ reader \in {"read", "publish", "wait", "status", "clear", "done"}
    /\ svc \in {"idle", "attached", "kill", "write"}
    /\ \A i \in subs : i < nextSub /\ Len(chan[i]) <= ChanCap
    /\ \A c \in Clients : web[c].st \in {"closed", "asked", "stream"}

\* Output never reaches a client out of order, whatever was replayed,
\* published and forwarded at the same time.
OutputKeepsOrder == \A c \in Clients : ~web[c].back

\* When the reader has finished, no subscription is left whose forwarder
\* would wait for ever: attaching checks the status under the lock that the
\* reader takes before it clears the subscribers.
NoOrphanSubscriber == reader = "done" => subs = {}

\* A terminal leaves the manager only when its child is killed or has ended.
ForgottenIsKilled == ~managed => child # "run"

\* A subscription that was asked to end ends, also when the terminal ends or
\* is forgotten first.
DetachIsDone ==
    \A i \in 0..(MaxRequests - 1) :
        (\E k \in 1..Len(inbox) : inbox[k].op = "detach" /\ inbox[k].arg = i) ~> (i \notin subs)

\* Every request is answered: the service thread comes back to its inbox.
ServiceComesBack == (inbox # <<>> \/ svc # "idle") ~> (inbox = <<>> /\ svc = "idle")

\* A client that attached from an offset gets no byte twice.
NoByteTwice == \A c \in Clients : ~web[c].dup

\* ... and misses none.
NoByteMissing == \A c \in Clients : ~web[c].gap

\* A stream whose subscription is gone is told that it has ended.
EndIsTold ==
    \A c \in Clients : (web[c].st = "stream" /\ web[c].sub \notin subs) ~> (web[c].st = "closed")
=============================================================================
