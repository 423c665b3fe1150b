-------------------------- MODULE ToolBatchProofs --------------------------
(***************************************************************************)
(* Theorems about ToolBatch, for batches of any size and any number of     *)
(* panics: one result per call in the order of the calls, serial           *)
(* operations by themselves, no thread that outlives its batch, nothing    *)
(* started after the interrupt was received, progress reported once.       *)
(*                                                                         *)
(* BatchInv follows the worker's walk: everything before the segment has   *)
(* answered, nothing behind it was started, and a segment with a serial    *)
(* operation has no other.                                                 *)
(***************************************************************************)
EXTENDS ToolBatch, SequenceTheorems, WellFoundedInduction, TLAPS

ThreadState == {"none", "queued", "running", "sent", "panicked", "done"}

\* The worker is walking over a batch, or in a segment of it.
Walking == worker \in {"check", "segment", "drain"}
InSegment == worker \in {"segment", "drain"}

BatchTypes ==
    /\ ops \in Seq(Concurrency)
    /\ Len(ops) <= MaxOps
    /\ worker \in {"none", "check", "segment", "drain", "ended"}
    /\ first \in Nat \ {0} /\ last \in Nat
    /\ first <= Len(ops) + 1 /\ last <= Len(ops)
    /\ thread \in [Ops -> ThreadState]
    /\ cancelled \subseteq 1..MaxOps
    /\ poisoned \in BOOLEAN /\ token \in BOOLEAN
    /\ asked \in BOOLEAN /\ registered \in BOOLEAN
    /\ results \in Seq(Nat)
    /\ progress \in Seq(Nat)
    /\ batches \in 0..MaxBatches

\* The segment is a part of the batch, and a serial operation is alone in it.
SegmentInv ==
    /\ worker = "none" => ops = <<>> /\ results = <<>> /\ ~registered
    /\ InSegment => first <= last
    /\ InSegment => \A i \in Segment : ops[i] = "serial" => first = last

\* Before the segment all have answered, behind it none was started.
ThreadsInv ==
    \A i \in Ops :
        /\ Walking /\ i < first => thread[i] \in {"done", "panicked"}
        /\ worker = "check" /\ first <= i => thread[i] = "none"
        /\ InSegment /\ last < i => thread[i] = "none"
        /\ InSegment /\ i \in Segment => thread[i] # "none"
        /\ worker = "ended" => thread[i] \in {"none", "done", "panicked"}

UpTo(n) == [k \in 1..n |-> k]

\* The results so far are those of the operations before the segment.
ResultsInv ==
    /\ Walking => results = UpTo(first - 1)
    /\ worker = "ended" => results = UpTo(Len(ops))

Distinct(s) == \A j, k \in DOMAIN s : j # k => s[j] # s[k]

\* What was reported has answered or panicked, and what has answered was reported.
ReportsInv ==
    /\ Distinct(progress)
    /\ ToSet(progress) \subseteq Ops
    /\ Walking => \A i \in ToSet(progress) : i < first \/ thread[i] = "done"
    /\ \A i \in Ops : thread[i] = "done" => i \in ToSet(progress)
    /\ worker = "ended" => \A i \in Ops : thread[i] # "panicked" => i \in ToSet(progress)

\* An interrupt waits in the channel until the worker has received it.
TokenInv == asked /\ ~token => worker \in {"drain", "ended"}

BatchInv == BatchTypes /\ SegmentInv /\ ThreadsInv /\ ResultsInv /\ ReportsInv /\ TokenInv

-----------------------------------------------------------------------------
(* Sequences of operations.                                                *)

LEMMA OpsRange == ASSUME BatchTypes PROVE Ops = 1..Len(ops)
BY DEF BatchTypes, Ops

\* A walk from 1 to n, continued by m more.
LEMMA UpToExtended ==
    ASSUME NEW n \in Nat, NEW m \in Nat
    PROVE  /\ UpTo(n) \in Seq(Nat)
           /\ [k \in 1..m |-> n + k] \in Seq(Nat)
           /\ UpTo(n) \o [k \in 1..m |-> n + k] = UpTo(n + m)
<1> DEFINE more == [k \in 1..m |-> n + k]
<1>1. /\ UpTo(n) \in Seq(Nat) /\ Len(UpTo(n)) = n
      /\ more \in Seq(Nat) /\ Len(more) = m
      /\ UpTo(n + m) \in Seq(Nat) /\ Len(UpTo(n + m)) = n + m
  BY DEF UpTo
<1>2. /\ UpTo(n) \o more \in Seq(Nat)
      /\ Len(UpTo(n) \o more) = n + m
      /\ \A i \in 1..(n + m) :
           (UpTo(n) \o more)[i] = IF i <= n THEN UpTo(n)[i] ELSE more[i - n]
  <2>1. ASSUME NEW s \in Seq(Nat), NEW t \in Seq(Nat), Len(s) = n, Len(t) = m
        PROVE  /\ s \o t \in Seq(Nat)
               /\ Len(s \o t) = n + m
               /\ \A i \in 1..(n + m) : (s \o t)[i] = IF i <= n THEN s[i] ELSE t[i - n]
    BY <2>1, ConcatProperties
  <2> HIDE DEF more
  <2> QED
    BY <1>1, <2>1
<1>3. \A i \in 1..(n + m) : (UpTo(n) \o more)[i] = UpTo(n + m)[i]
  <2>1. TAKE i \in 1..(n + m)
  <2>2. CASE i <= n
    BY <1>2, <2>2 DEF UpTo
  <2>3. CASE ~(i <= n)
    <3>1. i - n \in 1..m
      BY <2>3
    <3> QED
      BY <1>2, <2>3, <3>1 DEF UpTo
  <2> QED
    BY <2>2, <2>3
<1>4. UpTo(n) \o more = UpTo(n + m)
  <2> HIDE DEF more
  <2> QED
    BY <1>1, <1>2, <1>3, SeqEqual
<1> QED
  BY <1>1, <1>4

FromTo(i, j) == [k \in 1..(j + 1 - i) |-> i + k - 1]

\* The operations from i to j, each once, continue the walk to j.
LEMMA FromToExtends ==
    ASSUME NEW i \in Nat \ {0}, NEW j \in Nat, i <= j + 1
    PROVE  /\ FromTo(i, j) \in Seq(Nat)
           /\ ToSet(FromTo(i, j)) = i..j
           /\ Distinct(FromTo(i, j))
           /\ UpTo(i - 1) \o FromTo(i, j) = UpTo(j)
<1> DEFINE n == i - 1
           m == j + 1 - i
<1>1. n \in Nat /\ m \in Nat /\ n + m = j /\ i = n + 1
  OBVIOUS
<1>2. FromTo(i, j) = [k \in 1..m |-> n + k]
  <2>1. \A k \in 1..m : i + k - 1 = n + k
    OBVIOUS
  <2> QED
    BY <2>1 DEF FromTo
<1> HIDE DEF n, m
<1>3. /\ FromTo(i, j) \in Seq(Nat)
      /\ UpTo(n) \o FromTo(i, j) = UpTo(n + m)
  BY <1>1, <1>2, UpToExtended
<1>4. /\ DOMAIN FromTo(i, j) = 1..m
      /\ \A k \in 1..m : FromTo(i, j)[k] = n + k
  BY <1>1, <1>2
<1>5. ToSet(FromTo(i, j)) = i..j
  <2>1. ToSet(FromTo(i, j)) \subseteq i..j
    BY <1>1, <1>4 DEF ToSet
  <2>2. ASSUME NEW x \in i..j
        PROVE  x \in ToSet(FromTo(i, j))
    <3>1. x - n \in 1..m /\ n + (x - n) = x
      BY <1>1
    <3> QED
      BY <1>4, <3>1 DEF ToSet
  <2> QED
    BY <2>1, <2>2
<1>6. Distinct(FromTo(i, j))
  BY <1>1, <1>4 DEF Distinct
<1>7. UpTo(i - 1) \o FromTo(i, j) = UpTo(j)
  <2>1. i - 1 = n
    BY <1>1
  <2> QED
    BY <1>1, <1>3, <2>1
<1> QED
  BY <1>3, <1>5, <1>6, <1>7

\* A list of numbers to which other ones are added, each once.
LEMMA ConcatDistinct ==
    ASSUME NEW s \in Seq(Nat), NEW t \in Seq(Nat),
           Distinct(s), Distinct(t), ToSet(s) \cap ToSet(t) = {}
    PROVE  /\ s \o t \in Seq(Nat)
           /\ ToSet(s \o t) = ToSet(s) \cup ToSet(t)
           /\ Distinct(s \o t)
<1> DEFINE u == s \o t
<1>1. /\ u \in Seq(Nat) /\ Len(u) = Len(s) + Len(t)
      /\ \A i \in 1..(Len(s) + Len(t)) : u[i] = IF i <= Len(s) THEN s[i] ELSE t[i - Len(s)]
  BY ConcatProperties
<1>2. /\ DOMAIN s = 1..Len(s) /\ DOMAIN t = 1..Len(t) /\ DOMAIN u = 1..Len(u)
      /\ Len(s) \in Nat /\ Len(t) \in Nat
  BY <1>1
<1> HIDE DEF u
<1>3. \A k \in DOMAIN u :
        \/ k \in DOMAIN s /\ u[k] = s[k]
        \/ k > Len(s) /\ k - Len(s) \in DOMAIN t /\ u[k] = t[k - Len(s)]
  BY <1>1, <1>2
<1>4. \A j \in DOMAIN s, k \in DOMAIN t : s[j] # t[k]
  BY DEF ToSet
<1>5. Distinct(u)
  BY <1>2, <1>3, <1>4 DEF Distinct
<1>6. \A j \in DOMAIN s : j \in DOMAIN u /\ u[j] = s[j]
  BY <1>1, <1>2
<1>7. \A j \in DOMAIN t : Len(s) + j \in DOMAIN u /\ u[Len(s) + j] = t[j]
  <2>1. TAKE j \in DOMAIN t
  <2>2. Len(s) + j \in 1..(Len(s) + Len(t)) /\ ~(Len(s) + j <= Len(s)) /\ (Len(s) + j) - Len(s) = j
    BY <1>2
  <2> QED
    BY <1>1, <1>2, <2>2
<1>8. ToSet(u) = ToSet(s) \cup ToSet(t)
  <2>1. ToSet(u) \subseteq ToSet(s) \cup ToSet(t)
    BY <1>3 DEF ToSet
  <2>2. ToSet(s) \subseteq ToSet(u)
    BY <1>6 DEF ToSet
  <2>3. ToSet(t) \subseteq ToSet(u)
    BY <1>7 DEF ToSet
  <2> QED
    BY <2>1, <2>2, <2>3
<1> QED
  BY <1>1, <1>5, <1>8 DEF u

LEMMA SingleList ==
    ASSUME NEW x \in Nat
    PROVE  <<x>> \in Seq(Nat) /\ Distinct(<<x>>) /\ ToSet(<<x>>) = {x}
BY DEF Distinct, ToSet

LEMMA EmptyList == <<>> \in Seq(Nat) /\ Distinct(<<>>) /\ ToSet(<<>>) = {}
BY DEF Distinct, ToSet

LEMMA AppendDistinct ==
    ASSUME NEW s \in Seq(Nat), NEW x \in Nat, Distinct(s), x \notin ToSet(s)
    PROVE  /\ Append(s, x) \in Seq(Nat)
           /\ ToSet(Append(s, x)) = ToSet(s) \cup {x}
           /\ Distinct(Append(s, x))
<1> DEFINE u == Append(s, x)
<1>1. /\ u \in Seq(Nat) /\ DOMAIN s = 1..Len(s) /\ Len(s) \in Nat
      /\ DOMAIN u = 1..(Len(s) + 1)
      /\ u[Len(s) + 1] = x
      /\ \A k \in DOMAIN s : u[k] = s[k]
  OBVIOUS
<1> HIDE DEF u
<1>2. \A k \in DOMAIN s : s[k] # x
  BY DEF ToSet
<1>3. Distinct(u)
  BY <1>1, <1>2 DEF Distinct
<1>4. ToSet(u) = ToSet(s) \cup {x}
  BY <1>1 DEF ToSet
<1> QED
  BY <1>1, <1>3, <1>4 DEF u

\* Every set of operations that is not empty has a first one.
LEMMA LessThanRelation ==
    ASSUME NEW x \in Nat, NEW y \in Nat, x < y
    PROVE  <<x, y>> \in OpToRel(<, Nat)
BY DEF OpToRel

LEMMA LeastExists ==
    ASSUME NEW S \in SUBSET Nat, S # {}
    PROVE  \E x \in S : \A y \in S : x <= y
<1>1. PICK x \in S : \A y \in S : ~(<<y, x>> \in OpToRel(<, Nat))
  BY NatLessThanWellFounded, WFMin
<1>2. \A y \in S : ~(y < x)
  BY <1>1, LessThanRelation
<1> QED
  BY <1>2

\* The end of a segment.
LEMMA SegmentEndIs ==
    ASSUME BatchTypes, NEW i \in 1..Len(ops)
    PROVE  /\ SegmentEnd(i) \in i..Len(ops)
           /\ \A k \in i..SegmentEnd(i) : ops[k] = "serial" => SegmentEnd(i) = i
<1>1. Len(ops) \in Nat /\ \A k \in 1..Len(ops) : ops[k] \in Concurrency
  BY DEF BatchTypes
<1>2. CASE ops[i] = "serial"
  BY <1>1, <1>2 DEF SegmentEnd
<1>3. CASE ops[i] # "serial"
  <2> DEFINE serial == {j \in i..Len(ops) : ops[j] = "serial"}
  <2>1. SegmentEnd(i) = IF serial = {} THEN Len(ops)
                        ELSE (CHOOSE j \in serial : \A k \in serial : j <= k) - 1
    BY <1>3 DEF SegmentEnd, ParallelEnd
  <2>2. CASE serial = {}
    BY <1>1, <2>1, <2>2
  <2>3. CASE serial # {}
    <3>1. serial \subseteq Nat
      BY <1>1
    <3>3. \E x \in serial : \A y \in serial : x <= y
      <4> HIDE DEF serial
      <4> QED
        BY <2>3, <3>1, LeastExists
    <3> DEFINE least == CHOOSE j \in serial : \A k \in serial : j <= k
    <3>4. least \in serial /\ \A k \in serial : least <= k
      <4> HIDE DEF serial
      <4> QED
        BY <3>3
    <3>5. SegmentEnd(i) = least - 1
      BY <2>1, <2>3
    <3> HIDE DEF least
    <3>6. least \in i..Len(ops) /\ ops[least] = "serial" /\ least # i
      BY <1>3, <3>4
    <3>7. SegmentEnd(i) \in i..Len(ops)
      BY <1>1, <3>5, <3>6
    <3>8. \A k \in i..SegmentEnd(i) : ops[k] # "serial"
      BY <1>1, <3>4, <3>5, <3>6
    <3> QED
      BY <3>7, <3>8
  <2> QED
    BY <2>2, <2>3
<1> QED
  BY <1>2, <1>3

-----------------------------------------------------------------------------
(* The steps.                                                              *)

LEMMA BatchInit == ASSUME BatchAssumption, Init PROVE BatchInv
<1>1. ops = <<>> /\ thread = <<>> /\ Ops = {}
  BY DEF Init, Ops
<1>2. thread \in [Ops -> ThreadState]
  BY <1>1
<1>3. MaxOps \in Nat /\ MaxBatches \in Nat
  BY DEF BatchAssumption
<1>4. BatchTypes
  <2>1. ops \in Seq(Concurrency) /\ Len(ops) = 0
    BY <1>1
  <2>2. results \in Seq(Nat) /\ progress \in Seq(Nat)
    BY DEF Init
  <2>3. /\ poisoned \in BOOLEAN /\ token \in BOOLEAN
        /\ asked \in BOOLEAN /\ registered \in BOOLEAN
    BY Zenon DEF Init
  <2> QED
    BY <1>2, <1>3, <2>1, <2>2, <2>3 DEF Init, BatchTypes
<1> QED
  BY <1>1, <1>4, EmptyList DEF Init, BatchInv, SegmentInv, ThreadsInv, ResultsInv, ReportsInv, TokenInv,
                    Walking, InSegment

LEMMA StepStart == ASSUME BatchAssumption, BatchInv, Start PROVE BatchInv'
<1>1. PICK n \in 1..MaxOps : ops' \in [1..n -> Concurrency]
  BY DEF Start
<1>2. ops' \in Seq(Concurrency) /\ Len(ops') = n /\ Ops' = 1..n /\ n \in Nat
  BY <1>1 DEF Ops, BatchAssumption
<1>3. thread' = [i \in Ops' |-> "none"]
  BY DEF Start, Ops
<1>4. BatchTypes'
  <2>1. MaxOps \in Nat /\ MaxBatches \in Nat /\ n <= MaxOps
    BY <1>1 DEF BatchAssumption
  <2>2. batches' \in 0..MaxBatches
    BY <2>1 DEF Start, BatchInv, BatchTypes
  <2>3. thread' \in [Ops' -> ThreadState]
    BY <1>3 DEF ThreadState
  <2>4. results' \in Seq(Nat) /\ progress' \in Seq(Nat)
    BY DEF Start
  <2>5. /\ poisoned' \in BOOLEAN /\ token' \in BOOLEAN
        /\ asked' \in BOOLEAN /\ registered' \in BOOLEAN
    BY Zenon DEF Start
  <2> QED
    BY <1>2, <2>1, <2>2, <2>3, <2>4, <2>5 DEF Start, BatchTypes
<1>5. results' = UpTo(first' - 1)
  BY DEF Start, UpTo
<1> QED
  BY <1>2, <1>3, <1>4, <1>5, EmptyList
     DEF Start, BatchInv, SegmentInv, ThreadsInv, ResultsInv, ReportsInv, TokenInv,
         Walking, InSegment, Segment

\* What the actor does to a running batch.
LEMMA StepActor == ASSUME BatchInv, Interrupt \/ Finish PROVE BatchInv'
<1>1. UNCHANGED <<ops, worker, first, last, thread, cancelled, poisoned, results, progress, batches>>
  BY DEF Interrupt, Finish
<1>2. BatchTypes'
  BY <1>1 DEF Interrupt, Finish, BatchInv, BatchTypes, Ops
<1>3. TokenInv'
  BY <1>1 DEF Interrupt, Finish, BatchInv, TokenInv, BatchTypes
<1>4. SegmentInv' /\ ThreadsInv' /\ ResultsInv' /\ ReportsInv'
  BY <1>1 DEF Interrupt, Finish, BatchInv, SegmentInv, ThreadsInv, ResultsInv, ReportsInv,
              Walking, InSegment, Segment, Ops
<1> QED
  BY <1>2, <1>3, <1>4 DEF BatchInv

\* A thread that was started and has not answered is in the segment.
LEMMA StartedIsInSegment ==
    ASSUME BatchInv, NEW i \in Ops, thread[i] \in {"queued", "running", "sent"}
    PROVE  InSegment /\ i \in Segment
<1>1. Ops = 1..Len(ops) /\ Len(ops) \in Nat
  BY OpsRange DEF BatchInv, BatchTypes
<1>2. worker # "none"
  BY <1>1 DEF BatchInv, SegmentInv
<1>3. InSegment
  <2>1. worker \in {"none", "check", "segment", "drain", "ended"} /\ first \in Nat /\ i \in Nat
    BY <1>1 DEF BatchInv, BatchTypes
  <2>2. worker # "ended"
    BY DEF BatchInv, ThreadsInv
  <2>3. worker # "check"
    BY <2>1 DEF BatchInv, ThreadsInv, Walking
  <2> QED
    BY <1>2, <2>1, <2>2, <2>3 DEF InSegment
<1>4. i \in Segment
  <2>1. first \in Nat /\ last \in Nat /\ i \in Nat
    BY <1>1 DEF BatchInv, BatchTypes
  <2>2. ~(i < first) /\ ~(last < i)
    BY <1>3 DEF BatchInv, ThreadsInv, InSegment, Walking
  <2> QED
    BY <2>1, <2>2 DEF Segment
<1> QED
  BY <1>3, <1>4

\* A thread goes on without an answer that was collected.
LEMMA StepThread ==
    ASSUME BatchInv, NEW i \in Ops, thread[i] \in {"queued", "running"},
           NEW x \in {"running", "sent", "panicked"},
           thread' = [thread EXCEPT ![i] = x], poisoned' \in BOOLEAN,
           UNCHANGED <<ops, worker, first, last, cancelled, token, asked, results, progress, registered, batches>>
    PROVE  BatchInv'
<1>1. InSegment /\ i \in Segment
  BY StartedIsInSegment
<1>2. thread \in [Ops -> ThreadState] /\ Ops' = Ops
  BY DEF BatchInv, BatchTypes, Ops
<1>3. /\ thread' \in [Ops' -> ThreadState]
      /\ thread'[i] = x
      /\ \A j \in Ops : j # i => thread'[j] = thread[j]
  BY <1>2 DEF ThreadState
<1>4. BatchTypes'
  BY <1>3 DEF BatchInv, BatchTypes
<1>5. SegmentInv' /\ ResultsInv' /\ TokenInv'
  BY DEF BatchInv, SegmentInv, ResultsInv, TokenInv, InSegment, Walking, Segment
<1>6. ThreadsInv'
  <2>1. worker # "check" /\ worker # "ended" /\ ~(i < first) /\ ~(last < i)
    BY <1>1, OpsRange DEF InSegment, Segment, BatchInv, BatchTypes
  <2> QED
    BY <1>1, <1>2, <1>3, <2>1 DEF BatchInv, ThreadsInv, InSegment, Walking, Segment
<1>7. ReportsInv'
  <2>1. worker # "ended"
    BY <1>1 DEF InSegment
  <2> QED
    BY <1>2, <1>3, <2>1 DEF BatchInv, ReportsInv, Walking
<1> QED
  BY <1>4, <1>5, <1>6, <1>7 DEF BatchInv

LEMMA StepOperation ==
    ASSUME BatchInv, NEW i \in Ops, Acquire(i) \/ Return(i) \/ Panic(i)
    PROVE  BatchInv'
<1>1. poisoned \in BOOLEAN
  BY DEF BatchInv, BatchTypes
<1>2. CASE Acquire(i)
  <2>1. CASE poisoned
    BY <1>1, <1>2, <2>1, StepThread DEF Acquire
  <2>2. CASE ~poisoned
    BY <1>1, <1>2, <2>2, StepThread DEF Acquire
  <2> QED
    BY <2>1, <2>2
<1>3. CASE Return(i)
  BY <1>1, <1>3, StepThread DEF Return
<1>4. CASE Panic(i)
  BY <1>1, <1>4, StepThread DEF Panic
<1> QED
  BY <1>2, <1>3, <1>4

\* The result of an operation is collected and reported for the first time.
LEMMA StepCollect ==
    ASSUME BatchInv, NEW i \in Ops, Collect(i)
    PROVE  BatchInv'
<1>1. InSegment /\ i \in Segment
  BY StartedIsInSegment DEF Collect
<1>2. /\ thread \in [Ops -> ThreadState] /\ Ops' = Ops /\ Ops = 1..Len(ops)
      /\ first \in Nat /\ last \in Nat /\ progress \in Seq(Nat)
  BY OpsRange DEF Collect, BatchInv, BatchTypes, Ops
<1>3. /\ thread' \in [Ops' -> ThreadState]
      /\ thread'[i] = "done"
      /\ \A j \in Ops : j # i => thread'[j] = thread[j]
  BY <1>2 DEF Collect, ThreadState
<1>4. /\ UNCHANGED <<ops, worker, first, last, cancelled, poisoned, token, asked, results, registered, batches>>
      /\ progress' = Append(progress, i)
      /\ thread[i] = "sent"
  BY DEF Collect
<1>5. i \in Nat
  BY <1>2
<1>6. worker # "check" /\ worker # "ended" /\ worker # "none" /\ ~(i < first) /\ ~(last < i)
  BY <1>1, <1>2, <1>5 DEF InSegment, Segment
<1>7. i \notin ToSet(progress)
  BY <1>1, <1>4, <1>6 DEF BatchInv, ReportsInv, InSegment, Walking
<1>8. /\ progress' \in Seq(Nat)
       /\ ToSet(progress') = ToSet(progress) \cup {i}
       /\ Distinct(progress')
  <2>1. Distinct(progress)
    BY DEF BatchInv, ReportsInv
  <2> QED
    BY <1>2, <1>4, <1>5, <1>7, <2>1, AppendDistinct
<1>9. BatchTypes'
  BY <1>3, <1>4, <1>8 DEF BatchInv, BatchTypes
<1>10. SegmentInv' /\ ResultsInv' /\ TokenInv'
  BY <1>4 DEF BatchInv, SegmentInv, ResultsInv, TokenInv, InSegment, Walking, Segment
<1>11. ThreadsInv'
  BY <1>1, <1>2, <1>3, <1>4, <1>6 DEF BatchInv, ThreadsInv, InSegment, Walking, Segment
<1>12. ReportsInv'
  BY <1>1, <1>2, <1>3, <1>4, <1>6, <1>8 DEF BatchInv, ReportsInv, InSegment, Walking
<1> QED
  BY <1>9, <1>10, <1>11, <1>12 DEF BatchInv

LEMMA StepNextSegment == ASSUME BatchInv, NextSegment PROVE BatchInv'
<1>1. /\ worker = "check"
      /\ UNCHANGED <<ops, first, cancelled, poisoned, asked, registered, batches>>
  BY DEF NextSegment
<1>2. /\ Ops = 1..Len(ops) /\ Ops' = Ops /\ Len(ops) \in Nat
      /\ first \in Nat \ {0} /\ first <= Len(ops) + 1 /\ last \in Nat
      /\ thread \in [Ops -> ThreadState]
      /\ progress \in Seq(Nat) /\ results = UpTo(first - 1)
  BY <1>1, OpsRange DEF BatchInv, BatchTypes, Ops, ResultsInv, Walking
<1>3. \A i \in Ops : IF i < first THEN thread[i] \in {"done", "panicked"} ELSE thread[i] = "none"
  BY <1>1, <1>2 DEF BatchInv, ThreadsInv, Walking
<1>4. CASE first > Len(ops)
  <2>1. worker' = "ended" /\ UNCHANGED <<last, thread, token, results, progress>>
    BY <1>1, <1>4 DEF NextSegment
  <2>2. first - 1 = Len(ops)
    BY <1>2, <1>4
  <2>3. BatchTypes'
    BY <1>1, <2>1 DEF BatchInv, BatchTypes, Ops
  <2>4. SegmentInv' /\ ResultsInv' /\ TokenInv'
    BY <1>1, <1>2, <2>1, <2>2 DEF SegmentInv, ResultsInv, TokenInv, InSegment, Walking
  <2>5. \A i \in Ops : thread[i] \in {"done", "panicked"}
    BY <1>2, <1>3, <1>4
  <2>6. ThreadsInv'
    BY <1>2, <2>1, <2>5 DEF ThreadsInv, InSegment, Walking
  <2>7. ReportsInv'
    BY <1>1, <1>2, <2>1, <2>5 DEF BatchInv, ReportsInv, Walking
  <2> QED
    BY <2>3, <2>4, <2>6, <2>7 DEF BatchInv
<1>5. CASE ~(first > Len(ops)) /\ token
  <2> DEFINE rest == Interrupted(first)
  <2>1. /\ worker' = "ended" /\ token' = FALSE
        /\ results' = results \o rest /\ progress' = progress \o rest
        /\ UNCHANGED <<last, thread>>
    BY <1>1, <1>5 DEF NextSegment
  <2>2. rest = FromTo(first, Len(ops))
    BY DEF Interrupted, FromTo
  <2> HIDE DEF rest
  <2>3. /\ rest \in Seq(Nat) /\ Distinct(rest) /\ ToSet(rest) = first..Len(ops)
        /\ UpTo(first - 1) \o rest = UpTo(Len(ops))
    BY <1>2, <2>2, FromToExtends
  <2>4. ToSet(progress) \subseteq Ops /\ \A i \in ToSet(progress) : i < first
    BY <1>1, <1>2, <1>3 DEF BatchInv, ReportsInv, Walking
  <2>5. ToSet(progress) \cap ToSet(rest) = {}
    BY <1>2, <2>3, <2>4
  <2>6. Distinct(progress)
    BY DEF BatchInv, ReportsInv
  <2>7. /\ progress' \in Seq(Nat)
        /\ ToSet(progress') = ToSet(progress) \cup ToSet(rest)
        /\ Distinct(progress')
    BY <1>2, <2>1, <2>3, <2>5, <2>6, ConcatDistinct
  <2>8. results' = UpTo(Len(ops)) /\ results' \in Seq(Nat)
    BY <1>2, <2>1, <2>3, UpToExtended, ConcatProperties
  <2>9. BatchTypes'
    <3>1. token' \in BOOLEAN
      BY <2>1, Zenon
    <3> QED
      BY <1>1, <2>1, <2>7, <2>8, <3>1 DEF BatchInv, BatchTypes, Ops
  <2>10. SegmentInv' /\ ResultsInv' /\ TokenInv'
    BY <1>1, <2>1, <2>8 DEF SegmentInv, ResultsInv, TokenInv, InSegment, Walking
  <2>11. ThreadsInv'
    BY <1>2, <1>3, <2>1 DEF ThreadsInv, InSegment, Walking
  <2>12. \A i \in Ops : thread[i] # "panicked" => i \in ToSet(progress')
    <3>1. \A i \in Ops : i < first /\ thread[i] # "panicked" => i \in ToSet(progress)
      BY <1>3 DEF BatchInv, ReportsInv
    <3> QED
      BY <1>2, <2>3, <2>7, <3>1
  <2>13. ToSet(progress') \subseteq Ops
    BY <1>2, <2>3, <2>4, <2>7
  <2>14. ReportsInv'
    BY <1>2, <2>1, <2>7, <2>12, <2>13 DEF ReportsInv, Walking
  <2> QED
    BY <2>9, <2>10, <2>11, <2>14 DEF BatchInv
<1>6. CASE ~(first > Len(ops)) /\ ~token
  <2> DEFINE e == SegmentEnd(first)
  <2>1. /\ worker' = "segment" /\ last' = e
        /\ thread' = [i \in Ops |-> IF i \in first..e THEN "queued" ELSE thread[i]]
        /\ UNCHANGED <<token, results, progress>>
    BY <1>1, <1>6 DEF NextSegment
  <2>2. /\ e \in first..Len(ops)
        /\ \A k \in first..e : ops[k] = "serial" => e = first
    BY <1>2, <1>6, SegmentEndIs DEF BatchInv
  <2> HIDE DEF e
  <2>3. /\ thread' \in [Ops' -> ThreadState]
        /\ \A i \in Ops : i \in first..e => thread'[i] = "queued"
        /\ \A i \in Ops : i \notin first..e => thread'[i] = thread[i]
    BY <1>2, <2>1 DEF ThreadState
  <2>4. BatchTypes'
    BY <1>1, <1>2, <2>1, <2>2, <2>3 DEF BatchInv, BatchTypes
  <2>5. SegmentInv' /\ ResultsInv' /\ TokenInv'
    BY <1>1, <1>2, <1>6, <2>1, <2>2
       DEF BatchInv, SegmentInv, ResultsInv, TokenInv, InSegment, Walking, Segment
  <2>6. ThreadsInv'
    BY <1>1, <1>2, <1>3, <2>1, <2>2, <2>3 DEF ThreadsInv, InSegment, Walking, Segment
  <2>7. ReportsInv'
    <3>1. \A i \in Ops : thread'[i] = "done" <=> thread[i] = "done"
      BY <1>2, <1>3, <2>2, <2>3
    <3> QED
      BY <1>1, <1>2, <2>1, <3>1 DEF BatchInv, ReportsInv, Walking
  <2> QED
    BY <2>4, <2>5, <2>6, <2>7 DEF BatchInv
<1> QED
  BY <1>4, <1>5, <1>6

LEMMA StepTakeInterrupt == ASSUME BatchAssumption, BatchInv, TakeInterrupt PROVE BatchInv'
<1>1. /\ worker = "segment" /\ worker' = "drain" /\ token' = FALSE /\ cancelled' = Segment
      /\ UNCHANGED <<ops, first, last, thread, poisoned, asked, results, progress, registered, batches>>
  BY DEF TakeInterrupt
<1>2. BatchTypes'
  <2>1. token' \in BOOLEAN
    BY <1>1, Zenon
  <2>2. Segment \subseteq 1..MaxOps
    BY DEF BatchAssumption, BatchInv, BatchTypes, Segment
  <2> QED
    BY <1>1, <2>1, <2>2 DEF BatchInv, BatchTypes, Ops
<1>3. SegmentInv' /\ ThreadsInv' /\ ResultsInv' /\ ReportsInv' /\ TokenInv'
  BY <1>1 DEF BatchInv, SegmentInv, ThreadsInv, ResultsInv, ReportsInv, TokenInv,
              Walking, InSegment, Segment, Ops
<1> QED
  BY <1>2, <1>3 DEF BatchInv

LEMMA StepEndSegment == ASSUME BatchInv, EndSegment PROVE BatchInv'
<1> DEFINE rest == IF worker = "drain" THEN Remaining ELSE <<>>
<1>1. /\ InSegment /\ SegmentOver
      /\ results' = (results \o SegmentResults) \o rest
      /\ progress' = (progress \o SerialPanic) \o rest
      /\ worker' = IF worker = "drain" THEN "ended" ELSE "check"
      /\ first' = last + 1
      /\ UNCHANGED <<ops, last, thread, cancelled, poisoned, token, asked, registered, batches>>
  BY DEF EndSegment, InSegment
<1>2. /\ Ops = 1..Len(ops) /\ Ops' = Ops /\ Len(ops) \in Nat
      /\ first \in Nat \ {0} /\ last \in Nat /\ first <= last /\ last <= Len(ops)
      /\ thread \in [Ops -> ThreadState]
      /\ progress \in Seq(Nat) /\ results = UpTo(first - 1)
  BY <1>1, OpsRange DEF BatchInv, BatchTypes, Ops, ResultsInv, SegmentInv, InSegment, Walking
<1>3. /\ \A i \in Ops : i <= last => thread[i] \in {"done", "panicked"}
      /\ \A i \in Ops : last < i => thread[i] = "none"
  <2>1. \A i \in Ops : i < first => thread[i] \in {"done", "panicked"}
    BY <1>1, <1>2 DEF BatchInv, ThreadsInv, InSegment, Walking
  <2>2. \A i \in Ops : first <= i /\ i <= last => thread[i] \in {"done", "panicked"}
    BY <1>1, <1>2 DEF SegmentOver, Segment
  <2>3. \A i \in Ops : last < i => thread[i] = "none"
    BY <1>1, <1>2 DEF BatchInv, ThreadsInv
  <2> QED
    BY <1>2, <2>1, <2>2, <2>3
<1>4. /\ rest \in Seq(Nat) /\ Distinct(rest)
      /\ ToSet(rest) = IF worker = "drain" THEN (last + 1)..Len(ops) ELSE {}
      /\ UpTo(last) \o rest = IF worker = "drain" THEN UpTo(Len(ops)) ELSE UpTo(last)
  <2>1. CASE worker = "drain"
    <3>1. rest = FromTo(last + 1, Len(ops))
      BY <2>1 DEF Remaining, Interrupted, FromTo
    <3>2. last + 1 \in Nat \ {0} /\ last + 1 <= Len(ops) + 1 /\ (last + 1) - 1 = last
      BY <1>2
    <3> HIDE DEF rest
    <3>3. /\ rest \in Seq(Nat) /\ Distinct(rest)
          /\ ToSet(rest) = (last + 1)..Len(ops)
          /\ UpTo((last + 1) - 1) \o rest = UpTo(Len(ops))
      BY <1>2, <3>1, <3>2, FromToExtends
    <3> QED
      BY <2>1, <3>2, <3>3
  <2>2. CASE worker # "drain"
    <3>1. rest = <<>>
      BY <2>2
    <3>2. UpTo(last) \in Seq(Nat)
      BY <1>2, UpToExtended
    <3>3. UpTo(last) \o <<>> = UpTo(last)
      BY <3>2, ConcatEmptySeq
    <3> HIDE DEF rest
    <3> QED
      BY <2>2, <3>1, <3>3, EmptyList
  <2> QED
    BY <2>1, <2>2
<1> HIDE DEF rest
<1>5. results' = (IF worker = "drain" THEN UpTo(Len(ops)) ELSE UpTo(last)) /\ results' \in Seq(Nat)
  <2>1. SegmentResults = FromTo(first, last)
    BY DEF SegmentResults, FromTo
  <2>2. results \o SegmentResults = UpTo(last)
    <3>1. first <= last + 1
      BY <1>2
    <3>2. UpTo(first - 1) \o FromTo(first, last) = UpTo(last)
      BY <1>2, <3>1, FromToExtends
    <3> QED
      BY <1>2, <2>1, <3>2
  <2>3. UpTo(last) \in Seq(Nat)
    BY <1>2, UpToExtended
  <2>4. UpTo(last) \o rest \in Seq(Nat)
    BY <1>4, <2>3, ConcatProperties
  <2> QED
    BY <1>1, <1>4, <2>2, <2>4
<1> DEFINE soFar == progress \o SerialPanic
<1>6. /\ soFar \in Seq(Nat) /\ Distinct(soFar)
      /\ ToSet(progress) \subseteq ToSet(soFar)
      /\ ToSet(soFar) \subseteq 1..last
  <2>1. /\ Distinct(progress)
        /\ \A i \in ToSet(progress) : i \in Ops /\ (i < first \/ thread[i] = "done")
    BY <1>1 DEF BatchInv, ReportsInv, InSegment, Walking
  <2>2. ToSet(progress) \subseteq 1..last
    BY <1>2, <1>3, <2>1
  <2>3. CASE SerialPanic = <<first>> /\ thread[first] = "panicked"
    <3>1. first \in Nat /\ first \in 1..last
      BY <1>2
    <3>2. /\ <<first>> \in Seq(Nat) /\ Distinct(<<first>>) /\ ToSet(<<first>>) = {first}
      BY <3>1, SingleList
    <3>3. first \notin ToSet(progress)
      BY <1>2, <2>1, <2>3
    <3>4. /\ progress \o <<first>> \in Seq(Nat)
          /\ ToSet(progress \o <<first>>) = ToSet(progress) \cup ToSet(<<first>>)
          /\ Distinct(progress \o <<first>>)
      BY <1>2, <2>1, <3>2, <3>3, ConcatDistinct
    <3> QED
      BY <2>2, <2>3, <3>1, <3>2, <3>4
  <2>4. CASE SerialPanic = <<>>
    <3>1. progress \o <<>> = progress
      BY <1>2, ConcatEmptySeq
    <3> QED
      BY <1>2, <2>1, <2>2, <2>4, <3>1
  <2> QED
    BY <2>3, <2>4 DEF SerialPanic
<1> HIDE DEF soFar
<1>7. /\ progress' \in Seq(Nat) /\ Distinct(progress')
      /\ ToSet(progress') = ToSet(soFar) \cup ToSet(rest)
  <2>1. ToSet(soFar) \cap ToSet(rest) = {}
    BY <1>2, <1>4, <1>6
  <2>2. progress' = soFar \o rest
    BY <1>1 DEF soFar
  <2> QED
    BY <1>4, <1>6, <2>1, <2>2, ConcatDistinct
<1>8. BatchTypes'
  <2>1. first' \in Nat \ {0} /\ first' <= Len(ops) + 1
    BY <1>1, <1>2
  <2> QED
    BY <1>1, <1>2, <1>5, <1>7, <2>1 DEF BatchInv, BatchTypes
<1>9. SegmentInv' /\ ResultsInv' /\ TokenInv'
  <2>1. first' - 1 = last
    BY <1>1, <1>2
  <2> QED
    BY <1>1, <1>5, <2>1 DEF BatchInv, SegmentInv, ResultsInv, TokenInv, InSegment, Walking
<1>10. ThreadsInv'
  BY <1>1, <1>2, <1>3 DEF ThreadsInv, InSegment, Walking
<1>11. ReportsInv'
  <2>1. ToSet(progress') \subseteq Ops
    BY <1>2, <1>4, <1>6, <1>7
  <2>2. worker' = "check" => \A i \in ToSet(progress') : i < first'
    BY <1>1, <1>2, <1>4, <1>6, <1>7
  <2>3. \A i \in Ops : thread[i] = "done" => i \in ToSet(progress')
    BY <1>6, <1>7 DEF BatchInv, ReportsInv
  <2>4. worker' = "ended" => \A i \in Ops : thread[i] # "panicked" => i \in ToSet(progress')
    <3>1. SUFFICES ASSUME worker' = "ended", NEW i \in Ops, thread[i] # "panicked"
                   PROVE  i \in ToSet(progress')
      OBVIOUS
    <3>2. worker = "drain"
      BY <1>1, <3>1
    <3> QED
      BY <1>2, <1>3, <1>4, <1>7, <2>3, <3>1, <3>2
  <2> QED
    BY <1>1, <1>2, <1>7, <2>1, <2>2, <2>3, <2>4 DEF ReportsInv, Walking
<1> QED
  BY <1>8, <1>9, <1>10, <1>11 DEF BatchInv

LEMMA BatchStep == ASSUME BatchAssumption, BatchInv, [Next]_vars PROVE BatchInv'
<1>1. CASE UNCHANGED vars
  BY <1>1 DEF vars, BatchInv, BatchTypes, SegmentInv, ThreadsInv, ResultsInv, ReportsInv, TokenInv,
              Walking, InSegment, Segment, Ops
<1>2. CASE Worker
  BY <1>2, StepNextSegment, StepTakeInterrupt, StepEndSegment, StepCollect DEF Worker
<1>3. CASE \E i \in Ops : Acquire(i) \/ Return(i) \/ Panic(i)
  BY <1>3, StepOperation
<1> QED
  BY <1>1, <1>2, <1>3, StepStart, StepActor DEF Next

-----------------------------------------------------------------------------
(* The theorems.                                                           *)

\* The invariant of the worker's walk (run_batch in tool_executor.rs).
THEOREM BatchInvariant == ASSUME BatchAssumption PROVE Spec => []BatchInv
<1>1. Init => BatchInv
  BY BatchInit
<1>2. BatchInv /\ [Next]_vars => BatchInv'
  BY BatchStep
<1> QED
  BY <1>1, <1>2, PTL DEF Spec

\* A batch that ended has one result per call, in the order of the calls, and
\* no thread of it runs on, however its operations finished, panicked or were
\* interrupted (the completion the actor appends to the history).
THEOREM BatchAlwaysComplete ==
    ASSUME BatchAssumption
    PROVE  Spec => [](TypeOK /\ ResultsMatchCalls /\ NoThreadLeft)
<1>1. BatchInv => TypeOK /\ ResultsMatchCalls /\ NoThreadLeft
  <2>1. SUFFICES ASSUME BatchInv PROVE TypeOK /\ ResultsMatchCalls /\ NoThreadLeft
    OBVIOUS
  <2>2. Ops = 1..Len(ops) /\ Len(ops) \in Nat /\ Len(ops) <= MaxOps /\ MaxOps \in Nat
    BY <2>1, OpsRange DEF BatchInv, BatchTypes, BatchAssumption
  <2>3. ResultsMatchCalls
    BY <2>1, <2>2 DEF BatchInv, ResultsInv, ResultsMatchCalls, UpTo
  <2>4. NoThreadLeft
    BY <2>1 DEF BatchInv, ThreadsInv, NoThreadLeft
  <2>5. \A i \in DOMAIN results : results[i] \in Ops
    <3>1. CASE worker = "none"
      BY <2>1, <3>1 DEF BatchInv, SegmentInv
    <3>2. CASE Walking
      BY <2>1, <2>2, <3>2 DEF BatchInv, BatchTypes, ResultsInv, UpTo
    <3>3. CASE worker = "ended"
      BY <2>1, <2>2, <3>3 DEF BatchInv, ResultsInv, UpTo
    <3> QED
      BY <2>1, <3>1, <3>2, <3>3 DEF BatchInv, BatchTypes, Walking
  <2>6. TypeOK
    BY <2>1, <2>2, <2>5 DEF BatchInv, BatchTypes, TypeOK, ThreadState
  <2> QED
    BY <2>3, <2>4, <2>6
<1> QED
  BY <1>1, BatchInvariant, PTL

\* A serial operation runs after all earlier calls have answered and before any
\* later one begins (the segments of run_batch and the lock's write guard).
THEOREM SerialAlwaysInOrder == ASSUME BatchAssumption PROVE Spec => []SerialInOrder
<1>1. BatchInv => SerialInOrder
  <2>1. SUFFICES ASSUME BatchInv, NEW i \in Running, ops[i] = "serial", NEW j \in Ops \ {i}
                 PROVE  thread[j] \in (IF j < i THEN {"done", "panicked"} ELSE {"none"})
    BY DEF SerialInOrder
  <2>2. i \in Ops /\ InSegment /\ i \in Segment
    BY <2>1, StartedIsInSegment DEF Running
  <2>3. /\ Ops = 1..Len(ops) /\ Len(ops) \in Nat /\ first \in Nat /\ last \in Nat
    BY <2>1, OpsRange DEF BatchInv, BatchTypes
  <2>4. first = i /\ last = i
    BY <2>1, <2>2, <2>3 DEF BatchInv, SegmentInv, Segment
  <2>5. CASE j < i
    BY <2>1, <2>2, <2>4, <2>5 DEF BatchInv, ThreadsInv, InSegment, Walking
  <2>6. CASE ~(j < i)
    <3>1. last < j
      BY <2>1, <2>3, <2>4, <2>6
    <3> QED
      BY <2>1, <2>2, <2>6, <3>1 DEF BatchInv, ThreadsInv
  <2> QED
    BY <2>5, <2>6
<1> QED
  BY <1>1, BatchInvariant, PTL

\* Progress is reported at most once for an operation, and by the end of the
\* batch for every one that did not panic (collect_parallel_result).
THEOREM ProgressAlwaysOnce == ASSUME BatchAssumption PROVE Spec => []ProgressOnce
<1>1. BatchInv => ProgressOnce
  BY DEF BatchInv, ReportsInv, ProgressOnce, Distinct, Panicked
<1> QED
  BY <1>1, BatchInvariant, PTL

\* Once the batch's interrupt has been received no operation is started: the
\* worker drains its segment and ends (the interrupt arms of run_batch).
THEOREM NothingEverStartsAfterInterrupt ==
    ASSUME BatchAssumption PROVE Spec => NothingStartsAfterInterrupt
<1> DEFINE Calm == asked /\ ~token /\ batches' = batches =>
                     \A i \in Ops : thread[i] = "none" => thread'[i] = "none"
<1>1. BatchInv /\ [Next]_vars => [Calm]_vars
  <2>1. SUFFICES ASSUME BatchInv, Next, asked, ~token, batches' = batches,
                        NEW i \in Ops, thread[i] = "none"
                 PROVE  thread'[i] = "none"
    OBVIOUS
  <2>2. worker \in {"drain", "ended"}
    BY <2>1 DEF BatchInv, TokenInv
  <2>3. ~Start
    BY <2>1 DEF Start, BatchInv, BatchTypes
  <2>4. thread \in [Ops -> ThreadState]
    BY <2>1 DEF BatchInv, BatchTypes
  <2>5. CASE Interrupt \/ Finish \/ TakeInterrupt \/ EndSegment
    BY <2>1, <2>5 DEF Interrupt, Finish, TakeInterrupt, EndSegment
  <2>6. ~NextSegment
    BY <2>2 DEF NextSegment
  <2>7. CASE \E j \in Ops : Collect(j) \/ Acquire(j) \/ Return(j) \/ Panic(j)
    <3>1. PICK j \in Ops : Collect(j) \/ Acquire(j) \/ Return(j) \/ Panic(j)
      BY <2>7
    <3>2. j # i
      BY <2>1, <3>1 DEF Collect, Acquire, Return, Panic
    <3> QED
      BY <2>1, <2>4, <3>1, <3>2 DEF Collect, Acquire, Return, Panic
  <2> QED
    BY <2>1, <2>3, <2>5, <2>6, <2>7 DEF Next, Worker
<1>2. Spec => [][Calm]_vars
  <2> HIDE DEF Calm
  <2> QED
    BY <1>1, BatchInvariant, PTL DEF Spec
<1> QED
  BY <1>2 DEF NothingStartsAfterInterrupt

\* The whole promise of a tool batch to the actor: the order serial operations
\* ask for, nothing started after the interrupt, one result per call and no
\* thread left, for any number of operations, batches and panics.
THEOREM BatchAlwaysKeepsOrder == ASSUME BatchAssumption PROVE Spec => BatchKeepsOrder
BY BatchAlwaysComplete, SerialAlwaysInOrder, NothingEverStartsAfterInterrupt, PTL
   DEF BatchKeepsOrder

=============================================================================
