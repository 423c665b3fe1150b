----------------------------- MODULE ShellProcess -----------------------------
(***************************************************************************)
(* The process tools of the agent server (process_tools.rs): shell_exec    *)
(* starts a fresh process, shell_write_stdin writes to it or observes it,  *)
(* shell_stop stops it.  Around one process run a reader of its terminal,  *)
(* or one of its stdout and one of its stderr, a waiter for its exit, a    *)
(* watcher of its hard timeout and the data thread that owns the buffered  *)
(* output and the status.  Tool calls reach the data thread through a      *)
(* command channel and are woken by a notification channel of one place.   *)
(* Neither a call nor the watcher waits for the data thread for ever.      *)
(*                                                                         *)
(* One process is modelled; the manager's map is whether it holds it.  A   *)
(* byte of output is its position, 0 the line the watcher adds.  The       *)
(* aggregate buffer is modelled; the buffers of stdout and stderr alone    *)
(* use the same code and are left out, as is the text cut to a token       *)
(* budget.  The screen emulator is the module TerminalScreen.              *)
(***************************************************************************)
EXTENDS Integers, Sequences, SequencesExt, FiniteSets, TLC

CONSTANTS
    Callers,     \* tool calls that can be under way at once
    MaxCalls,    \* bound: calls made in a behaviour
    MaxOut,      \* bound: bytes the process writes
    BufferMax,   \* SHELL_BUFFER_MAX_BYTES
    StdinSlots,  \* SHELL_STDIN_QUEUE_SLOTS
    Tty,         \* the process was started with tty = true
    TimeoutSet,  \* shell_exec was given a timeout_ms
    Deaf,        \* the process ignores interrupt and terminate
    Stops,       \* shell_stop is called
    Deadlines,   \* the yield deadline of a call passes
    BadArgs,     \* yield_time_ms or max_output_tokens is not a number
    Prompt,      \* the 50 ms after an exit are enough to read what is in the pipes
    Slow         \* the data thread may answer after more than 1 s to the watcher, 5 s to a call

ShellAssumption ==
    /\ MaxCalls \in Nat /\ MaxOut \in Nat /\ BufferMax \in Nat \ {0} /\ StdinSlots \in Nat \ {0}
    /\ {Tty, TimeoutSet, Deaf, Stops, Deadlines, BadArgs, Prompt, Slow} \subseteq BOOLEAN

VARIABLES
    os,       \* the operating system's process: none, running, doomed, exited
    wrote,    \* bytes it has written
    pipe,     \* per stream, the bytes nobody has read yet
    stderr,   \* history: the bytes that were written to stderr
    dataQ,    \* the data channel: chunks of bytes
    buffer,   \* HeadTailBuffer: [head, tail]
    since,    \* history: the bytes pushed since the last drain
    stateQ,   \* the state channel
    status,   \* ShellStatus: [running, exitCode, timedOut]
    event,    \* the notification channel holds its one notification
    cmdQ,     \* the command channel: a caller's drain, a drain whose call gave up ("lost"), the watcher's mark
    waiter,   \* the exit waiter has reported
    watcher,  \* the timeout watcher: off, sleep, asked, gone (without an answer), kill, note, done
    stdin,    \* writes queued for the process
    managed,  \* SHELL_MANAGER holds the session
    call,     \* Callers -> [st, woken, reply]
    calls,    \* calls made
    known,    \* an answer has named the process id
    stopped,  \* shell_stop has taken the session
    shown,    \* history: the bytes drained into answers
    final     \* history: how the call waited that reported the end

vars == <<os, wrote, pipe, stderr, dataQ, buffer, since, stateQ, status, event, cmdQ, waiter, watcher,
          stdin, managed, call, calls, known, stopped, shown, final>>

process == <<os, wrote, pipe, stderr>>
queues  == <<dataQ, stateQ, cmdQ, event>>
data    == <<buffer, since, status, shown>>
tools   == <<call, calls, known, stopped, managed, final>>

\* The reader threads: of the terminal, or of stdout (1) and stderr (2).
Streams == IF Tty THEN {1} ELSE {1, 2}

Idle == [st |-> "idle", woken |-> FALSE, running |-> TRUE]

Init ==
    /\ os = "none" /\ wrote = 0 /\ pipe = [s \in Streams |-> <<>>] /\ stderr = {} /\ dataQ = <<>>
    /\ buffer = [head |-> <<>>, tail |-> <<>>] /\ since = <<>>
    /\ stateQ = <<>> /\ status = [running |-> TRUE, exitCode |-> FALSE, timedOut |-> FALSE]
    /\ event = FALSE /\ cmdQ = <<>> /\ waiter = FALSE /\ watcher = "off" /\ stdin = <<>>
    /\ managed = FALSE /\ call = [c \in Callers |-> Idle] /\ calls = 0
    /\ known = FALSE /\ stopped = FALSE /\ shown = <<>> /\ final = "none"

----------------------------------------------------------------------------
(* HeadTailBuffer: the first half of the budget is kept from the front, the *)
(* rest from the back.                                                      *)

HeadBudget == BufferMax \div 2
TailBudget == BufferMax - HeadBudget

LastBytes(s, n) == SubSeq(s, Len(s) - n + 1, Len(s))

PushTailNoTrim(b, bytes) == [b EXCEPT !.tail = @ \o bytes]

\* push_tail and trim_tail: the newest bytes push the oldest of the tail out
PushTail(b, bytes) ==
    LET all == b.tail \o bytes
    IN  [b EXCEPT !.tail = IF Len(all) > TailBudget THEN LastBytes(all, TailBudget) ELSE all]

PushWhole(b, bytes) ==
    IF Len(bytes) <= HeadBudget - Len(b.head) THEN [b EXCEPT !.head = @ \o bytes]
    ELSE PushTail(b, bytes)

\* push: fill the head first, what does not fit goes to the tail
Push(b, bytes) ==
    LET room == HeadBudget - Len(b.head)
        k    == IF Len(bytes) <= room THEN Len(bytes) ELSE room
    IN  PushTail([b EXCEPT !.head = @ \o SubSeq(bytes, 1, k)], SubSeq(bytes, k + 1, Len(bytes)))

PushAll(b, chunks) == FoldLeft(Push, b, chunks)

----------------------------------------------------------------------------
(* The process and the threads around it *)

\* the process writes a byte
Writes ==
    /\ os \in {"running", "doomed"} /\ wrote < MaxOut
    /\ wrote' = wrote + 1
    /\ \E s \in Streams :
          /\ pipe' = [pipe EXCEPT ![s] = Append(@, wrote + 1)]
          /\ stderr' = IF s = 2 THEN stderr \cup {wrote + 1} ELSE stderr
    /\ UNCHANGED <<os, queues, data, waiter, watcher, stdin, tools>>

\* the process ends, by itself or by a signal
Exits ==
    /\ os \in {"running", "doomed"}
    /\ os' = "exited"
    /\ UNCHANGED <<wrote, pipe, stderr, queues, data, waiter, watcher, stdin, tools>>

\* the process reads one write from its terminal
ReadsStdin ==
    /\ stdin # <<>> /\ os \in {"running", "doomed"}
    /\ stdin' = Tail(stdin)
    /\ UNCHANGED <<process, queues, data, waiter, watcher, tools>>

\* a reader thread: some of what is in its pipe becomes one chunk.  Both
\* readers send into the same channel.
Reads(s) ==
    /\ \E k \in 1..Len(pipe[s]) :
          /\ dataQ' = Append(dataQ, SubSeq(pipe[s], 1, k))
          /\ pipe' = [pipe EXCEPT ![s] = SubSeq(@, k + 1, Len(@))]
    /\ UNCHANGED <<os, wrote, stderr, stateQ, cmdQ, event, data, waiter, watcher, stdin, tools>>

\* the waiter thread: mark_process_exited
Waits ==
    /\ os = "exited" /\ ~waiter
    /\ waiter' = TRUE /\ stateQ' = Append(stateQ, "exited")
    /\ UNCHANGED <<process, dataQ, cmdQ, event, data, watcher, stdin, tools>>

\* stop_process: a process with a terminal is killed whatever the signal.
Signal(sig) == IF os = "running" /\ (Tty \/ sig = "kill" \/ ~Deaf) THEN os' = "doomed" ELSE os' = os

\* spawn_timeout_watcher: ask the data thread after the sleep
TimeoutFires ==
    /\ watcher = "sleep"
    /\ watcher' = "asked" /\ cmdQ' = Append(cmdQ, "mark")
    /\ UNCHANGED <<process, dataQ, stateQ, event, data, waiter, stdin, tools>>

\* ... give up when there is no answer within a second: the command stays
\* queued, the process is left alone
WatcherGivesUp ==
    /\ Slow /\ watcher = "asked" /\ watcher' = "gone"
    /\ UNCHANGED <<process, queues, data, waiter, stdin, tools>>

\* ... kill the process and say so
TimeoutKills ==
    /\ watcher = "kill" /\ watcher' = "note"
    /\ Signal("kill")
    /\ UNCHANGED <<wrote, pipe, stderr, queues, data, waiter, stdin, tools>>

TimeoutNotes ==
    /\ watcher = "note" /\ watcher' = "done"
    /\ dataQ' = Append(dataQ, <<0>>)
    /\ UNCHANGED <<process, stateQ, cmdQ, event, data, waiter, stdin, tools>>

----------------------------------------------------------------------------
(* The data thread: run_shell_data_thread prefers states, then commands *)

HandleStateSilent(e) ==
    /\ status' = [status EXCEPT !.running = FALSE, !.exitCode = @ \/ e = "exited"]
    /\ event' = event

\* handle_shell_state_event: try_send into the one-place channel
HandleState(e) ==
    /\ status' = [status EXCEPT !.running = FALSE, !.exitCode = @ \/ e = "exited"]
    /\ event' = TRUE

DataState ==
    /\ stateQ # <<>> /\ stateQ' = Tail(stateQ)
    /\ HandleState(Head(stateQ))
    /\ UNCHANGED <<process, dataQ, cmdQ, buffer, since, shown, waiter, watcher, stdin, tools>>

DrainNoReset(c) ==
    LET b == PushAll(buffer, dataQ)
    IN  /\ shown' = shown \o b.head \o b.tail
        /\ dataQ' = <<>> /\ buffer' = b /\ since' = since \o FlattenSeq(dataQ)
        /\ call' = [call EXCEPT ![c].st = "answer", ![c].running = status.running]

\* handle_shell_data_command, Drain: flush the data channel, empty the
\* buffers and copy the status
Drain(c) ==
    LET b == PushAll(buffer, dataQ)
    IN  /\ shown' = shown \o b.head \o b.tail
        /\ dataQ' = <<>> /\ buffer' = [head |-> <<>>, tail |-> <<>>] /\ since' = <<>>
        /\ call' = [call EXCEPT ![c].st = "answer", ![c].running = status.running]

\* ... for a call that has given up: what is drained is in no answer
DrainForNobody ==
    /\ dataQ' = <<>> /\ buffer' = [head |-> <<>>, tail |-> <<>>] /\ since' = <<>>
    /\ UNCHANGED <<shown, call>>

\* The answer to the watcher, unless it has given up.
AnswerWatcher(stop) == watcher' = IF watcher = "gone" THEN "gone" ELSE IF stop THEN "kill" ELSE "done"

MarkNever == status' = status /\ AnswerWatcher(FALSE)

MarkAsEnded ==
    /\ status' = [status EXCEPT !.timedOut = @ \/ status.running, !.running = FALSE]
    /\ AnswerWatcher(status.running)

\* handle_shell_data_command, MarkTimedOut: only a running process is stopped,
\* and reported as timed out also when the watcher no longer waits
MarkTimedOut ==
    /\ status' = [status EXCEPT !.timedOut = @ \/ status.running]
    /\ AnswerWatcher(status.running)

DataCommand ==
    /\ stateQ = <<>> /\ cmdQ # <<>> /\ cmdQ' = Tail(cmdQ)
    /\ \/ /\ Head(cmdQ) = "mark" /\ MarkTimedOut
          /\ UNCHANGED <<dataQ, buffer, since, shown, call>>
       \/ /\ Head(cmdQ) = "lost" /\ DrainForNobody
          /\ UNCHANGED <<status, watcher>>
       \/ \E c \in Callers :
             /\ Head(cmdQ) = ToString(c) /\ Drain(c)
             /\ UNCHANGED <<status, watcher>>
    /\ UNCHANGED <<process, stateQ, event, waiter, stdin, calls, known, stopped, managed, final>>

\* handle_shell_data_event
DataOutput ==
    /\ stateQ = <<>> /\ cmdQ = <<>> /\ dataQ # <<>>
    /\ dataQ' = Tail(dataQ) /\ buffer' = Push(buffer, Head(dataQ)) /\ since' = since \o Head(dataQ)
    /\ UNCHANGED <<process, stateQ, cmdQ, event, status, shown, waiter, watcher, stdin, tools>>

----------------------------------------------------------------------------
(* The tool calls *)

NewCall(c) == call[c].st = "idle" /\ calls < MaxCalls /\ calls' = calls + 1

StartsWaiting(c) == call' = [call EXCEPT ![c] = [Idle EXCEPT !.st = "wait"]]

Started ==
    /\ os' = "running" /\ managed' = TRUE
    /\ watcher' = IF TimeoutSet THEN "sleep" ELSE "off"

\* spawn_pty_process: a terminal with a queue of writes
SpawnPty == Tty /\ Started

\* spawn_pipe_process: stdin is closed
SpawnPipe == ~Tty /\ Started

\* shell_exec: spawn, put the session into the manager, only then read the
\* arguments that say how long to wait
Exec(c) ==
    /\ NewCall(c) /\ os = "none"
    /\ SpawnPty \/ SpawnPipe
    /\ \/ StartsWaiting(c)
       \/ BadArgs /\ call' = call
    /\ UNCHANGED <<wrote, pipe, stderr, queues, data, waiter, stdin, known, stopped, final>>

\* shell_write_stdin with no characters: observe
Poll(c) ==
    /\ NewCall(c) /\ known
    /\ IF managed THEN StartsWaiting(c) ELSE call' = call
    /\ UNCHANGED <<process, queues, data, waiter, watcher, stdin, managed, known, stopped, final>>

\* shell_write_stdin: stdin_closed without a terminal, stdin_backpressure
\* when the queue is full
WriteStdin(c) ==
    /\ NewCall(c) /\ known /\ managed
    /\ IF Tty /\ Len(stdin) < StdinSlots
       THEN stdin' = Append(stdin, calls) /\ StartsWaiting(c)
       ELSE UNCHANGED <<stdin, call>>
    /\ UNCHANGED <<process, queues, data, waiter, watcher, managed, known, stopped, final>>

\* shell_stop: take the session out of the manager
Stop(c) ==
    /\ Stops /\ NewCall(c) /\ known
    /\ managed' = FALSE /\ stopped' = (stopped \/ managed)
    /\ call' = IF managed THEN [call EXCEPT ![c].st = "stop"] ELSE call
    /\ UNCHANGED <<process, queues, data, waiter, watcher, stdin, known, final>>

\* ... signal the process and report it stopped
StopSignals(c) ==
    /\ call[c].st = "stop" /\ call' = [call EXCEPT ![c] = Idle]
    /\ \E sig \in {"interrupt", "terminate", "kill"} : Signal(sig)
    /\ stateQ' = Append(stateQ, "stopped")
    /\ UNCHANGED <<wrote, pipe, stderr, dataQ, cmdQ, event, data, waiter, watcher, stdin, calls, known,
                   stopped, managed, final>>

AsksDrain(c, how) ==
    /\ cmdQ' = Append(cmdQ, ToString(c))
    /\ call' = [call EXCEPT ![c].st = "drain", ![c].woken = how]

\* collect_until: the deadline or a cancellation ends the wait
Yields(c) ==
    /\ Deadlines /\ call[c].st = "wait" /\ AsksDrain(c, FALSE)
    /\ UNCHANGED <<process, dataQ, stateQ, event, data, waiter, watcher, stdin, calls, known,
                   stopped, managed, final>>

EventWakesAtOnce(c) ==
    /\ call[c].st = "wait" /\ event
    /\ event' = FALSE /\ AsksDrain(c, TRUE)
    /\ UNCHANGED <<process, dataQ, stateQ, data, waiter, watcher, stdin, calls, known, stopped,
                   managed, final>>

\* collect_until: the notification of the exit ends the wait
EventWakes(c) ==
    /\ call[c].st = "wait" /\ event
    /\ event' = FALSE /\ call' = [call EXCEPT ![c].st = "grace"]
    /\ UNCHANGED <<process, dataQ, stateQ, cmdQ, data, waiter, watcher, stdin, calls, known,
                   stopped, managed, final>>

\* ... 50 ms later the output is drained
GraceEnds(c) ==
    /\ call[c].st = "grace" /\ (Prompt => \A s \in Streams : pipe[s] = <<>>)
    /\ AsksDrain(c, TRUE)
    /\ UNCHANGED <<process, dataQ, stateQ, event, data, waiter, watcher, stdin, calls, known,
                   stopped, managed, final>>

\* drain_shell_data: the call fails when there is no answer within 5 seconds.
\* Its command stays queued.
DrainGivesUp(c) ==
    /\ Slow /\ call[c].st = "drain"
    /\ cmdQ' = [i \in DOMAIN cmdQ |-> IF cmdQ[i] = ToString(c) THEN "lost" ELSE cmdQ[i]]
    /\ call' = [call EXCEPT ![c] = Idle]
    /\ UNCHANGED <<process, dataQ, stateQ, event, data, waiter, watcher, stdin, calls, known,
                   stopped, managed, final>>

ForgetsAlways(c) == FALSE

\* remove_completed_process is for a process that has ended
KeepsSession(c) == call[c].running /\ managed

\* structured_shell_result and remove_completed_process
Answers(c) ==
    /\ call[c].st = "answer" /\ call' = [call EXCEPT ![c] = Idle]
    /\ known' = TRUE /\ managed' = KeepsSession(c)
    /\ final' = IF call[c].running \/ final # "none" THEN final
                ELSE IF call[c].woken THEN "woken" ELSE "yield"
    /\ UNCHANGED <<process, queues, data, waiter, watcher, stdin, calls, stopped>>

Next ==
    \/ Writes \/ Exits \/ ReadsStdin \/ Waits \/ \E s \in Streams : Reads(s)
    \/ TimeoutFires \/ WatcherGivesUp \/ TimeoutKills \/ TimeoutNotes
    \/ DataState \/ DataCommand \/ DataOutput
    \/ \E c \in Callers :
          \/ Exec(c) \/ Poll(c) \/ WriteStdin(c) \/ Stop(c) \/ StopSignals(c)
          \/ Yields(c) \/ EventWakes(c) \/ GraceEnds(c) \/ DrainGivesUp(c) \/ Answers(c)

Spec == Init /\ [][Next]_vars

\* threads are scheduled, a killed process ends, a call once begun goes on;
\* nobody has to call a tool and a process need not end by itself
FairSpec ==
    /\ Spec
    /\ (\A s \in Streams : WF_vars(Reads(s))) /\ WF_vars(Waits) /\ WF_vars(os = "doomed" /\ Exits)
    /\ WF_vars(TimeoutFires) /\ WF_vars(TimeoutKills) /\ WF_vars(TimeoutNotes)
    /\ WF_vars(DataState) /\ WF_vars(DataCommand) /\ WF_vars(DataOutput)
    /\ \A c \in Callers : WF_vars(StopSignals(c)) /\ WF_vars(EventWakes(c))
                          /\ WF_vars(GraceEnds(c)) /\ WF_vars(Answers(c))

----------------------------------------------------------------------------
TypeOK ==
    /\ os \in {"none", "running", "doomed", "exited"}
    /\ wrote \in 0..MaxOut /\ event \in BOOLEAN /\ waiter \in BOOLEAN
    /\ watcher \in {"off", "sleep", "asked", "gone", "kill", "note", "done"}
    /\ Len(buffer.head) <= HeadBudget /\ Len(buffer.tail) <= TailBudget
    /\ Len(stdin) <= StdinSlots /\ calls \in 0..MaxCalls
    /\ \A c \in Callers : call[c].st \in {"idle", "wait", "grace", "drain", "answer", "stop"}

\* What the process wrote to one stream reaches the answers in the order in
\* which it was written, and no byte twice, however reading, flushing and
\* draining interleave.  Between stdout and stderr no order is kept: each has
\* a reader of its own.
OutputInOrder ==
    LET way(s) == SelectSeq(shown \o buffer.head \o buffer.tail \o FlattenSeq(dataQ) \o pipe[s],
                            LAMBDA b : b > 0 /\ (Tty \/ (b \in stderr) = (s = 2)))
    IN  \A s \in Streams : \A i \in 1..(Len(way(s)) - 1) : way(s)[i] < way(s)[i + 1]

\* The buffer is what arrived since the last drain, or its first and its last
\* bytes when it is over the budget: only the middle is ever dropped.
OnlyMiddleIsDropped ==
    buffer.head \o buffer.tail =
        IF Len(since) <= BufferMax THEN since
        ELSE SubSeq(since, 1, HeadBudget) \o LastBytes(since, TailBudget)

\* The manager forgets a process that runs only when shell_stop took it.
RunningIsManaged == os \in {"running", "doomed"} => managed \/ stopped

\* When a call that was woken by the exit reports the end, all output is in
\* the answers, or, when it is over the budget, at least the end of a stream
\* (given that 50 ms are enough for the readers and that no drain was lost).
EndShowsLastByte ==
    final = "woken" /\ ~stopped /\ wrote > 0 /\ ~Slow =>
        IF wrote < BufferMax THEN 1..wrote \subseteq ToSet(shown)
        ELSE \E b \in ToSet(shown) \ {0} :
               \A later \in (b + 1)..wrote : (later \in stderr) # (b \in stderr)

\* A process is reported as finished only when it has ended or was stopped.
FinishedIsTrue == final # "none" => os = "exited" \/ stopped

\* A call that waits for a process that has ended is answered without its
\* deadline passing.
ExitEndsWait == \A c \in Callers : (call[c].st = "wait" /\ os = "exited") ~> call[c].st = "idle"

\* A process with a timeout does not run for ever, unless the data thread let
\* the watcher wait for more than a second: then nothing stops the process.
TimeoutIsHard == (watcher = "sleep") ~> (os = "exited" \/ watcher = "gone")

\* A process that runs while no call is under way is one whose id was told.
RunningIsNamed == os = "running" /\ (\A c \in Callers : call[c].st = "idle") => known

\* A call that waits while output is buffered is answered before its deadline.
OutputEndsWait ==
    \A c \in Callers : (call[c].st = "wait" /\ buffer.head # <<>>) ~> (call[c].st # "wait")
=============================================================================
