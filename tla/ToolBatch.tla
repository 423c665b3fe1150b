----------------------------- MODULE ToolBatch -----------------------------
(***************************************************************************)
(* The executor that runs the tool calls of one model answer: a worker     *)
(* thread walks over the batch, a serial operation by itself and a run of  *)
(* parallel ones together, each in a thread of its own, until all have     *)
(* answered or the actor interrupts the batch.  Operations may panic, and  *)
(* return late or not before they are cancelled.                           *)
(***************************************************************************)
EXTENDS Naturals, Sequences, FiniteSets, SequencesExt

CONSTANTS
    MaxOps,      \* bound: operations of a batch
    MaxBatches,  \* bound: batches the actor starts
    MaxPanics    \* bound: operations that panic

BatchAssumption == MaxOps \in Nat \ {0} /\ MaxBatches \in Nat \ {0} /\ MaxPanics \in Nat

VARIABLES
    ops,         \* concurrency of each operation of the batch
    worker,      \* "none", "check", "segment", "drain" or "ended"
    first, last, \* the operations of the current segment
    thread,      \* of an operation: "none", "queued", "running", "sent", "panicked" or "done"
    cancelled,   \* operations whose cancel token has fired
    poisoned,    \* the lock, after a panic under a write guard
    token,       \* is an interrupt in the batch's channel?
    asked,       \* has the actor interrupted this batch?
    results,     \* operations in the order of their results
    progress,    \* operations in the order their progress was reported
    registered,  \* does the executor have a running batch?
    batches      \* batches started

vars == <<ops, worker, first, last, thread, cancelled, poisoned, token, asked,
          results, progress, registered, batches>>

\* default_concurrency: patches, shell and stop tools are serial.
Concurrency == {"serial", "parallel"}

Ops == DOMAIN ops
Segment == first..last
Running == {i \in Ops : thread[i] = "running"}
Panicked == {i \in Ops : thread[i] = "panicked"}

-----------------------------------------------------------------------------
(* The actor.                                                              *)

\* start: refused while a batch is registered; an empty batch is refused.
Start ==
    /\ ~registered
    /\ batches < MaxBatches
    /\ \E n \in 1..MaxOps : ops' \in [1..n -> Concurrency]
    /\ registered' = TRUE
    /\ batches' = batches + 1
    /\ worker' = "check"
    /\ first' = 1 /\ last' = 0
    /\ thread' = [i \in DOMAIN ops' |-> "none"]
    /\ cancelled' = {} /\ poisoned' = FALSE
    /\ token' = FALSE /\ asked' = FALSE
    /\ results' = <<>> /\ progress' = <<>>

\* interrupt; the actor asks once per batch.
Interrupt ==
    /\ registered
    /\ ~asked
    /\ asked' = TRUE
    /\ token' = (worker # "ended")
    /\ UNCHANGED <<ops, worker, first, last, thread, cancelled, poisoned, results, progress, registered, batches>>

\* finish, when the completion has arrived.
Finish ==
    /\ registered
    /\ worker = "ended"
    /\ registered' = FALSE
    /\ UNCHANGED <<ops, worker, first, last, thread, cancelled, poisoned, token, asked, results, progress, batches>>

-----------------------------------------------------------------------------
(* The worker.                                                             *)

\* Faulty: the operation at i itself is left without a result.
InterruptedBeyond(i) == [k \in 1..(Len(ops) + 1 - i) |-> i + k]

\* interrupted_results for the operations from i on.
Interrupted(i) == [k \in 1..(Len(ops) + 1 - i) |-> i + k - 1]

\* next_serial_operation_index.
ParallelEnd(i) ==
    LET serial == {j \in i..Len(ops) : ops[j] = "serial"}
    IN IF serial = {} THEN Len(ops) ELSE (CHOOSE j \in serial : \A k \in serial : j <= k) - 1

\* Faulty: serial operations are run together with the others.
SegmentEndAll(i) == Len(ops)

\* A serial operation is a segment of its own.
SegmentEnd(i) == IF ops[i] = "serial" THEN i ELSE ParallelEnd(i)

\* The head of the loop: the end, an interrupt, or the next segment's threads.
NextSegment ==
    /\ worker = "check"
    /\ IF first > Len(ops)
       THEN worker' = "ended" /\ UNCHANGED <<last, thread, token, results, progress>>
       ELSE IF token
       THEN /\ worker' = "ended"
            /\ token' = FALSE
            /\ results' = results \o Interrupted(first)
            /\ progress' = progress \o Interrupted(first)
            /\ UNCHANGED <<last, thread>>
       ELSE /\ worker' = "segment"
            /\ last' = SegmentEnd(first)
            /\ thread' = [i \in Ops |-> IF i \in first..SegmentEnd(first) THEN "queued" ELSE thread[i]]
            /\ UNCHANGED <<token, results, progress>>
    /\ UNCHANGED <<ops, first, cancelled, poisoned, asked, registered, batches>>

\* Faulty: the result is collected without a progress report.
CollectSilently(i) ==
    /\ worker \in {"segment", "drain"}
    /\ thread[i] = "sent"
    /\ thread' = [thread EXCEPT ![i] = "done"]
    /\ UNCHANGED <<ops, worker, first, last, cancelled, poisoned, token, asked, results, progress, registered, batches>>

\* collect_parallel_result, or a serial operation's result: the thread is
\* joined and its result reported.
Collect(i) ==
    /\ worker \in {"segment", "drain"}
    /\ thread[i] = "sent"
    /\ thread' = [thread EXCEPT ![i] = "done"]
    /\ progress' = Append(progress, i)
    /\ UNCHANGED <<ops, worker, first, last, cancelled, poisoned, token, asked, results, registered, batches>>

\* Does the worker still wait for an operation of the segment?  Once it has
\* counted them all, an interrupt is left for the head of the loop.
Waiting == \E i \in Segment : thread[i] # "done"

\* Faulty: the segment is cancelled and the walk continues behind it.
TakeGoesOn ==
    /\ worker = "segment"
    /\ token /\ Waiting
    /\ token' = FALSE
    /\ cancelled' = Segment
    /\ UNCHANGED <<ops, worker, first, last, thread, poisoned, asked, results, progress, registered, batches>>

\* Faulty: the worker waits for operations it has not cancelled.
TakeWithoutCancel ==
    /\ worker = "segment"
    /\ token /\ Waiting
    /\ token' = FALSE
    /\ worker' = "drain"
    /\ UNCHANGED <<ops, first, last, thread, cancelled, poisoned, asked, results, progress, registered, batches>>

\* The interrupt is received while a segment runs: its operations are
\* cancelled and the worker waits for all of them.
TakeInterrupt ==
    /\ worker = "segment"
    /\ token /\ Waiting
    /\ token' = FALSE
    /\ worker' = "drain"
    /\ cancelled' = Segment
    /\ UNCHANGED <<ops, first, last, thread, poisoned, asked, results, progress, registered, batches>>

\* Faulty: an answer in the channel counts before it is collected.
IgnoreUncollected == \A i \in Segment : thread[i] \in {"done", "panicked", "sent"}

\* Every operation of the segment has answered or, with the channel closed,
\* has panicked and is given an error result.
SegmentOver == \A i \in Segment : thread[i] \in {"done", "panicked"}

\* Faulty: the results in the order in which they came in.
ByCompletion == SelectSeq(progress, LAMBDA i : i \in Segment)

\* A segment's results are in the order of its operations.
SegmentResults == [k \in 1..(last + 1 - first) |-> first + k - 1]

\* What is left of an interrupted batch.
Remaining == Interrupted(last + 1)

\* The error result of a serial operation that panicked is reported here.
SerialPanic == IF ops[first] = "serial" /\ thread[first] = "panicked" THEN <<first>> ELSE <<>>

\* The segment's results are added; an interrupted batch ends with the results
\* of what it did not start.
EndSegment ==
    /\ worker \in {"segment", "drain"}
    /\ SegmentOver
    /\ LET rest == IF worker = "drain" THEN Remaining ELSE <<>>
       IN /\ results' = results \o SegmentResults \o rest
          /\ progress' = progress \o SerialPanic \o rest
    /\ worker' = IF worker = "drain" THEN "ended" ELSE "check"
    /\ first' = last + 1
    /\ UNCHANGED <<ops, last, thread, cancelled, poisoned, token, asked, registered, batches>>

-----------------------------------------------------------------------------
(* The threads of the operations.                                          *)

\* execute_scheduled_operation: a serial operation holds the lock for writing,
\* a parallel one for reading.
LockFree(i) ==
    IF ops[i] = "serial" THEN Running = {} ELSE \A j \in Running : ops[j] = "parallel"

Acquire(i) ==
    /\ thread[i] = "queued"
    /\ poisoned \/ LockFree(i)
    /\ thread' = [thread EXCEPT ![i] = IF poisoned THEN "sent" ELSE "running"]
    /\ UNCHANGED <<ops, worker, first, last, cancelled, poisoned, token, asked, results, progress, registered, batches>>

\* execute_operation returns a result or an error, capped in size.
Return(i) ==
    /\ thread[i] = "running"
    /\ thread' = [thread EXCEPT ![i] = "sent"]
    /\ UNCHANGED <<ops, worker, first, last, cancelled, poisoned, token, asked, results, progress, registered, batches>>

\* An operation panics: its thread sends nothing, and a panic under the write
\* guard poisons the lock.
Panic(i) ==
    /\ thread[i] = "running"
    /\ Cardinality(Panicked) < MaxPanics
    /\ thread' = [thread EXCEPT ![i] = "panicked"]
    /\ poisoned' = (poisoned \/ ops[i] = "serial")
    /\ UNCHANGED <<ops, worker, first, last, cancelled, token, asked, results, progress, registered, batches>>

-----------------------------------------------------------------------------

Init ==
    /\ ops = <<>>
    /\ worker = "none"
    /\ first = 1 /\ last = 0
    /\ thread = <<>>
    /\ cancelled = {} /\ poisoned = FALSE
    /\ token = FALSE /\ asked = FALSE
    /\ results = <<>> /\ progress = <<>>
    /\ registered = FALSE
    /\ batches = 0

Worker == NextSegment \/ TakeInterrupt \/ EndSegment \/ \E i \in Ops : Collect(i)

Next ==
    \/ Start \/ Interrupt \/ Finish \/ Worker
    \/ \E i \in Ops : Acquire(i) \/ Return(i) \/ Panic(i)

Spec == Init /\ [][Next]_vars

\* The worker and the threads run.  An operation need not return by itself,
\* but one that is cancelled does.
FairSpec ==
    /\ Spec
    /\ WF_vars(Worker)
    /\ \A i \in 1..MaxOps :
         /\ WF_vars(i \in Ops /\ Acquire(i))
         /\ WF_vars(i \in Ops /\ i \in cancelled /\ Return(i))

-----------------------------------------------------------------------------
(* Properties.                                                             *)

TypeOK ==
    /\ worker \in {"none", "check", "segment", "drain", "ended"}
    /\ first \in 1..(MaxOps + 1) /\ last \in 0..MaxOps
    /\ thread \in [Ops -> {"none", "queued", "running", "sent", "panicked", "done"}]
    /\ cancelled \subseteq 1..MaxOps
    /\ \A i \in DOMAIN results : results[i] \in Ops
    /\ batches \in 0..MaxBatches

\* A batch that ended has one result per operation, in the order of the calls,
\* however operations finished, failed or were interrupted.
ResultsMatchCalls == worker = "ended" => results = [i \in Ops |-> i]

\* A serial operation runs after all earlier calls have answered and before
\* any later one begins.
SerialInOrder ==
    \A i \in Running : ops[i] = "serial" =>
        \A j \in Ops \ {i} : thread[j] \in (IF j < i THEN {"done", "panicked"} ELSE {"none"})

\* No operation is started once the batch's interrupt has been received.
NothingStartsAfterInterrupt ==
    [][asked /\ ~token /\ batches' = batches =>
        \A i \in Ops : thread[i] = "none" => thread'[i] = "none"]_vars

\* No thread of an operation outlives its batch: when the worker has ended, the
\* next batch does not run next to a leftover of this one.
NoThreadLeft == worker = "ended" => \A i \in Ops : thread[i] \in {"none", "done", "panicked"}

\* A tool batch runs its operations in the order that serial ones ask for,
\* starts nothing after its interrupt, and ends with one result per call and
\* no thread left.
BatchKeepsOrder ==
    /\ [](TypeOK /\ ResultsMatchCalls /\ SerialInOrder /\ NoThreadLeft)
    /\ NothingStartsAfterInterrupt

\* Progress is reported at most once for an operation, and for every one that
\* did not panic.
ProgressOnce ==
    /\ \A i, j \in DOMAIN progress : i # j => progress[i] # progress[j]
    /\ worker = "ended" => Ops \ Panicked \subseteq ToSet(progress)

\* An interrupted batch ends, so the actor is not stuck with it.
InterruptedBatchEnds == asked /\ worker # "ended" ~> worker = "ended"

=============================================================================
