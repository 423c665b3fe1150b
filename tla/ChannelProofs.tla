--------------------------- MODULE ChannelProofs ---------------------------
(***************************************************************************)
(* The event with a request's id carries the answer to that request, what  *)
(* the channel waits for is on its way, and messages reach their sessions  *)
(* once and in order.                                                      *)
(*                                                                         *)
(* The platform's request ids grow.  A call to the workspace or the        *)
(* terminal and its answer carry the id, no two messages on their way      *)
(* carry the same one, and the ids on their way are pending: so a response *)
(* is taken for the request it answers.  The kernel's answers carry none;  *)
(* but read from the front, the answers in the inbox, then the queries in  *)
(* the kernel's queue, are about growing requests, and so is what is       *)
(* pending: both begin with the same one.                                  *)
(***************************************************************************)
EXTENDS Channel, SequenceTheorems, TLAPS

\* The ids and, for one kind of messages, the requests in a queue.
Rids(q) == {q[i].rid : i \in 1..Len(q)} \ {0}
Ofs(q, kind) == {q[i].of : i \in {j \in 1..Len(q) : q[j].kind = kind}}

\* No two messages of a queue have the same id.
Apart(q) == \A i, j \in 1..Len(q) : q[i].rid = q[j].rid /\ q[i].rid # 0 => i = j

\* The messages of a kind are about growing requests.
Grows(q, kind) ==
    \A i, j \in 1..Len(q) : i < j /\ q[i].kind = kind /\ q[j].kind = kind => q[i].of < q[j].of

Increasing(s) == \A i, j \in 1..Len(s) : i < j => s[i] < s[j]

Growing(s) == \A i, j \in 1..Len(s) : i < j => s[i].id < s[j].id

Queries == {"config", "meta"}

Addresses == {"kernel", "agent", "channel"} \cup Services
MessageKinds == Kinds \cup {"echo", "failed", "stopped", "event", "response", "error", "output", "created", "updated", "configure"}
Messages == [to : Addresses, src : Addresses \cup Sessions \cup Subagents, kind : MessageKinds, rid : Nat, of : Nat]

\* Which messages carry an id.
Shape(c) ==
    /\ c.rid # 0 => c.of = c.rid
    /\ c.to \in {"kernel", "agent"} => c.rid = 0
    /\ c.to = "workspace" => c.rid # 0
    /\ c.to = "terminal" => (c.rid = 0 <=> c.src = "kernel")
    /\ c.to = "channel" /\ c.src = "terminal" => (c.rid = 0 <=> c.kind = "output")
    /\ c.to = "channel" /\ c.src = "workspace" => c.rid # 0
    /\ c.kind \in Queries => c.rid = 0 /\ c.to \in {"kernel", "channel"} /\ c.src \notin Services
    /\ c.kind = "output" => c.rid = 0
    /\ c.kind = "failed" => c.to = "kernel"

\* A message of terminal T's: a call to it or its answer.
OfTerminal(c) == c.rid # 0 /\ (c.to = "terminal" \/ c.src = "terminal")

\* The messages of a queue to some addresses, about the first n requests, of
\* which the ones in T are pending at the terminal.
GoodQueue(q, to, n, T) ==
    /\ q \in Seq(Messages)
    /\ Apart(q)
    /\ \A i \in 1..Len(q) :
         /\ Shape(q[i]) /\ q[i].to \in to /\ q[i].of <= n
         /\ OfTerminal(q[i]) => q[i].rid \in T

\* What is pending for a kind of queries to the kernel, given the channel's
\* inbox and the kernel's queue.
Order(kind, pending, box, queue) ==
    /\ Grows(box, kind) /\ Grows(queue, kind)
    /\ \A a \in Ofs(box, kind), b \in Ofs(queue, kind) : a < b
    /\ pending \in Seq(Nat)
    /\ Increasing(pending)
    /\ {pending[i] : i \in 1..Len(pending)} = Ofs(box, kind) \cup Ofs(queue, kind)

Ids(s) == {s[i].id : i \in 1..Len(s)}
Values(s) == {s[i] : i \in 1..Len(s)}

\* Four sets are apart and hold nothing but elements of P.
Split(a, b, c, d, P) ==
    /\ a \cup b \cup c \cup d \subseteq P
    /\ a \cap b = {} /\ a \cap c = {} /\ a \cap d = {} /\ b \cap c = {} /\ b \cap d = {} /\ c \cap d = {}

QueuesGood ==
    /\ GoodQueue(kq, Addresses, Len(log), Values(pt))
    /\ GoodQueue(wsq, {"workspace"}, Len(log), Values(pt))
    /\ GoodQueue(tmq, {"terminal"}, Len(log), Values(pt))
    /\ GoodQueue(inbox, {"channel"}, Len(log), Values(pt))
    /\ Split(Rids(kq), Rids(wsq), Rids(tmq), Rids(inbox), Values(pt) \cup Ids(pw))

\* What may be pending at the workspace, for the first n requests.
Entries(n) == [id : 1..n, kind : {"data", "file"}, path : Paths]

PendingGood ==
    /\ log \in Seq([kind : Kinds, session : Sessions \cup {ChannelId}, path : Paths])
    /\ pt \in Seq(1..Len(log)) /\ Increasing(pt)
    /\ pw \in Seq(Entries(Len(log)))
    /\ Growing(pw)
    /\ Values(pt) \cap Ids(pw) = {}

QueriesGood == Order("config", pc, inbox, kq) /\ Order("meta", pm, inbox, kq)

\* Each pending id is on its way, or the failure that lost it is.
Backed ==
    Values(pt) \cup Ids(pw)
        \subseteq Rids(kq) \cup Rids(wsq) \cup Rids(tmq) \cup Rids(inbox) \cup Ofs(kq, "failed")

Matched == QueuesGood /\ PendingGood /\ QueriesGood /\ Backed

\* Nothing is claimed of the queues once a failure has ended the kernel: no
\* service takes a step after it.
MatchInv == AnswerIsOwn /\ (~failed => Matched)

-----------------------------------------------------------------------------
(* Queues that grow at the end and are read from the front.                *)

\* The elements of a longer queue.
LEMMA AppendParts ==
    ASSUME NEW S, NEW q \in Seq(S), NEW m \in S
    PROVE  /\ Append(q, m) \in Seq(S)
           /\ Len(q) \in Nat /\ Len(Append(q, m)) = Len(q) + 1
           /\ 1..Len(Append(q, m)) = (1..Len(q)) \cup {Len(q) + 1}
           /\ \A i \in 1..Len(q) : Append(q, m)[i] = q[i]
           /\ Append(q, m)[Len(q) + 1] = m
OBVIOUS

\* The elements of a queue whose first one is taken: each of the others has its
\* place in the rest, one further to the front.
LEMMA TailParts ==
    ASSUME NEW S, NEW q \in Seq(S), q # <<>>
    PROVE  /\ Tail(q) \in Seq(S) /\ Head(q) \in S
           /\ Len(q) \in Nat /\ 1 \in 1..Len(q) /\ Head(q) = q[1]
           /\ \A i \in 1..Len(Tail(q)) : i + 1 \in 1..Len(q) /\ i \in Nat /\ Tail(q)[i] = q[i + 1]
           /\ \A i \in 1..Len(q) :
                i # 1 => \E j \in 1..Len(Tail(q)) : j + 1 = i /\ Tail(q)[j] = q[i]
<1>1. /\ Tail(q) \in Seq(S) /\ Head(q) \in S
      /\ Len(q) \in Nat /\ 1 \in 1..Len(q) /\ Head(q) = q[1]
      /\ Len(Tail(q)) = Len(q) - 1
      /\ \A i \in 1..Len(Tail(q)) : Tail(q)[i] = q[i + 1]
  OBVIOUS
<1>2. \A i \in 1..Len(Tail(q)) : i + 1 \in 1..Len(q) /\ i \in Nat
  BY <1>1
<1>3. ASSUME NEW i \in 1..Len(q), i # 1
      PROVE  \E j \in 1..Len(Tail(q)) : j + 1 = i /\ Tail(q)[j] = q[i]
  <2>1. i - 1 \in 1..Len(Tail(q)) /\ (i - 1) + 1 = i
    BY <1>1, <1>3
  <2>2. Tail(q)[i - 1] = q[i]
    BY <1>1, <2>1
  <2>3. QED
    BY <2>1, <2>2
<1>4. QED
  BY <1>1, <1>2, <1>3

\* A queue stays good when a good message with a new id is sent.
LEMMA GoodAppend ==
    ASSUME NEW q, NEW to, NEW n, NEW T, GoodQueue(q, to, n, T),
           NEW m \in Messages, Shape(m), m.to \in to, m.of <= n,
           OfTerminal(m) => m.rid \in T, m.rid \notin Rids(q)
    PROVE  /\ GoodQueue(Append(q, m), to, n, T)
           /\ Rids(Append(q, m)) = Rids(q) \cup ({m.rid} \ {0})
<1> DEFINE longer == Append(q, m)
<1>1. /\ longer \in Seq(Messages)
      /\ Len(q) \in Nat /\ Len(longer) = Len(q) + 1
      /\ 1..Len(longer) = (1..Len(q)) \cup {Len(q) + 1}
      /\ \A i \in 1..Len(q) : longer[i] = q[i]
      /\ longer[Len(q) + 1] = m
  BY AppendParts DEF GoodQueue
<1> HIDE DEF longer
<1>2. Rids(longer) = Rids(q) \cup ({m.rid} \ {0})
  BY <1>1 DEF Rids
<1>3. Apart(longer)
  <2>1. \A i \in 1..Len(q) : q[i].rid # 0 => q[i].rid \in Rids(q)
    BY DEF Rids
  <2>2. QED
    BY <1>1, <2>1 DEF Apart, GoodQueue
<1>4. QED
  BY <1>1, <1>2, <1>3 DEF GoodQueue, longer

\* A queue stays good when its first message is taken, which was good, and
\* nothing that is left has its id.
LEMMA GoodTail ==
    ASSUME NEW q, NEW to, NEW n, NEW T, GoodQueue(q, to, n, T), q # <<>>
    PROVE  /\ GoodQueue(Tail(q), to, n, T)
           /\ Rids(Tail(q)) = Rids(q) \ {Head(q).rid}
           /\ Head(q).rid # 0 => Head(q).rid \in Rids(q)
           /\ Head(q) \in Messages /\ Shape(Head(q)) /\ Head(q).to \in to /\ Head(q).of <= n
           /\ OfTerminal(Head(q)) => Head(q).rid \in T
<1> DEFINE rest == Tail(q)
           first == Head(q)
<1>1. /\ rest \in Seq(Messages) /\ first \in Messages
      /\ Len(q) \in Nat /\ 1 \in 1..Len(q) /\ first = q[1]
      /\ \A i \in 1..Len(rest) : i + 1 \in 1..Len(q) /\ i \in Nat /\ rest[i] = q[i + 1]
      /\ \A i \in 1..Len(q) : i # 1 => \E j \in 1..Len(rest) : j + 1 = i /\ rest[j] = q[i]
  BY TailParts DEF GoodQueue
<1> HIDE DEF rest, first
<1>2. \A i \in 1..Len(rest) : rest[i].rid # 0 => rest[i].rid # first.rid
  <2>1. \A i \in 1..Len(rest) : i + 1 # 1
    BY <1>1
  <2>2. QED
    BY <1>1, <2>1 DEF GoodQueue, Apart
<1>3. Rids(rest) = Rids(q) \ {first.rid}
  <2>1. Rids(rest) \subseteq Rids(q) \ {first.rid}
    BY <1>1, <1>2 DEF Rids
  <2>2. Rids(q) \ {first.rid} \subseteq Rids(rest)
    BY <1>1 DEF Rids
  <2>3. QED
    BY <2>1, <2>2
<1>4. Apart(rest)
  <2>1. SUFFICES ASSUME NEW i \in 1..Len(rest), NEW j \in 1..Len(rest),
                        rest[i].rid = rest[j].rid, rest[i].rid # 0
                 PROVE  i = j
    BY DEF Apart
  <2>2. i + 1 = j + 1
    BY <1>1, <2>1 DEF GoodQueue, Apart
  <2>3. QED
    BY <1>1, <2>2
<1>5. \A i \in 1..Len(rest) :
        /\ Shape(rest[i]) /\ rest[i].to \in to /\ rest[i].of <= n
        /\ OfTerminal(rest[i]) => rest[i].rid \in T
  BY <1>1 DEF GoodQueue
<1>6. first.rid # 0 => first.rid \in Rids(q)
  BY <1>1 DEF Rids
<1>7. /\ Shape(first) /\ first.to \in to /\ first.of <= n
      /\ OfTerminal(first) => first.rid \in T
  BY <1>1 DEF GoodQueue
<1>8. QED
  BY <1>1, <1>3, <1>4, <1>5, <1>6, <1>7 DEF GoodQueue, rest, first

\* A queue stays good when more was requested, and when something is answered
\* at the terminal that no message of the queue is about.
LEMMA GoodStays ==
    ASSUME NEW q, NEW to, NEW n \in Nat, NEW T, GoodQueue(q, to, n, T),
           NEW m \in Nat, n <= m, NEW U, \A x \in T : x \in U \/ x \notin Rids(q)
    PROVE  GoodQueue(q, to, m, U)
<1>1. ASSUME NEW i \in 1..Len(q)
      PROVE  /\ Shape(q[i]) /\ q[i].to \in to /\ q[i].of <= m
             /\ OfTerminal(q[i]) => q[i].rid \in U
  <2>1. q[i] \in Messages
    BY DEF GoodQueue
  <2>2. q[i].of \in Nat /\ q[i].of <= n
    BY <2>1 DEF GoodQueue, Messages
  <2>3. q[i].rid # 0 => q[i].rid \in Rids(q)
    BY DEF Rids
  <2>4. OfTerminal(q[i]) => q[i].rid \in U
    BY <2>3 DEF GoodQueue, OfTerminal
  <2>5. q[i].of <= m
    BY <2>2
  <2>6. QED
    BY <2>4, <2>5 DEF GoodQueue
<1>2. QED
  BY <1>1 DEF GoodQueue

\* The requests of a kind of messages when one is sent.
LEMMA OfsAppend ==
    ASSUME NEW q \in Seq(Messages), NEW m \in Messages, NEW kind
    PROVE  /\ Ofs(Append(q, m), kind) = Ofs(q, kind) \cup (IF m.kind = kind THEN {m.of} ELSE {})
           /\ Grows(q, kind) /\ (m.kind = kind => \A a \in Ofs(q, kind) : a < m.of)
                => Grows(Append(q, m), kind)
<1> DEFINE longer == Append(q, m)
<1>1. /\ Len(q) \in Nat /\ Len(longer) = Len(q) + 1
      /\ 1..Len(longer) = (1..Len(q)) \cup {Len(q) + 1}
      /\ \A i \in 1..Len(q) : longer[i] = q[i]
      /\ longer[Len(q) + 1] = m
  BY AppendParts
<1> HIDE DEF longer
<1>2. Ofs(longer, kind) = Ofs(q, kind) \cup (IF m.kind = kind THEN {m.of} ELSE {})
  BY <1>1 DEF Ofs
<1>3. ASSUME Grows(q, kind), m.kind = kind => \A a \in Ofs(q, kind) : a < m.of
      PROVE  Grows(longer, kind)
  <2>1. \A i \in 1..Len(q) : q[i].kind = kind => q[i].of \in Ofs(q, kind)
    BY DEF Ofs
  <2>2. \A i \in 1..Len(q) : ~(Len(q) + 1 < i)
    BY <1>1
  <2>3. ~(Len(q) + 1 < Len(q) + 1)
    BY <1>1
  <2>4. QED
    BY <1>1, <1>3, <2>1, <2>2, <2>3 DEF Grows
<1>4. QED
  BY <1>2, <1>3 DEF longer

\* The requests of a kind of messages when the first message is taken: it was
\* about the smallest.
LEMMA OfsTail ==
    ASSUME NEW q \in Seq(Messages), q # <<>>, NEW kind, Grows(q, kind)
    PROVE  /\ Grows(Tail(q), kind)
           /\ Ofs(q, kind) = Ofs(Tail(q), kind) \cup (IF Head(q).kind = kind THEN {Head(q).of} ELSE {})
           /\ Head(q).kind = kind => \A a \in Ofs(Tail(q), kind) : Head(q).of < a
<1> DEFINE rest == Tail(q)
           first == Head(q)
<1>1. /\ Len(q) \in Nat /\ 1 \in 1..Len(q) /\ first = q[1]
      /\ \A i \in 1..Len(rest) : i + 1 \in 1..Len(q) /\ i \in Nat /\ rest[i] = q[i + 1]
      /\ \A i \in 1..Len(q) : i # 1 => \E j \in 1..Len(rest) : j + 1 = i /\ rest[j] = q[i]
  BY TailParts
<1> HIDE DEF rest, first
<1>2. \A i \in 1..Len(rest) : 1 < i + 1
  OBVIOUS
<1>3. Grows(rest, kind)
  <2>1. SUFFICES ASSUME NEW i \in 1..Len(rest), NEW j \in 1..Len(rest), i < j,
                        rest[i].kind = kind, rest[j].kind = kind
                 PROVE  rest[i].of < rest[j].of
    BY DEF Grows
  <2>2. i + 1 < j + 1
    BY <2>1
  <2>3. /\ i + 1 \in 1..Len(q) /\ rest[i] = q[i + 1]
        /\ j + 1 \in 1..Len(q) /\ rest[j] = q[j + 1]
    BY <1>1
  <2>4. q[i + 1].of < q[j + 1].of
    BY <2>1, <2>2, <2>3 DEF Grows
  <2>5. QED
    BY <2>3, <2>4
<1>4. Ofs(q, kind) = Ofs(rest, kind) \cup (IF first.kind = kind THEN {first.of} ELSE {})
  <2>1. Ofs(q, kind) \subseteq Ofs(rest, kind) \cup (IF first.kind = kind THEN {first.of} ELSE {})
    BY <1>1 DEF Ofs
  <2>2. Ofs(rest, kind) \subseteq Ofs(q, kind)
    BY <1>1 DEF Ofs
  <2>3. (IF first.kind = kind THEN {first.of} ELSE {}) \subseteq Ofs(q, kind)
    BY <1>1 DEF Ofs
  <2>4. QED
    BY <2>1, <2>2, <2>3
<1>5. first.kind = kind => \A a \in Ofs(rest, kind) : first.of < a
  BY <1>1, <1>2 DEF Ofs, Grows
<1>6. QED
  BY <1>3, <1>4, <1>5 DEF rest, first

-----------------------------------------------------------------------------
(* Queries to the kernel.                                                  *)

\* A sequence that gets a larger number.
LEMMA IncreasingAppend ==
    ASSUME NEW s \in Seq(Nat), Increasing(s), NEW x \in Nat, \A v \in Values(s) : v < x
    PROVE  /\ Append(s, x) \in Seq(Nat) /\ Increasing(Append(s, x))
           /\ Values(Append(s, x)) = Values(s) \cup {x}
<1> DEFINE longer == Append(s, x)
<1>1. /\ longer \in Seq(Nat)
      /\ Len(s) \in Nat /\ Len(longer) = Len(s) + 1
      /\ 1..Len(longer) = (1..Len(s)) \cup {Len(s) + 1}
      /\ \A i \in 1..Len(s) : longer[i] = s[i]
      /\ longer[Len(s) + 1] = x
  BY AppendParts
<1> HIDE DEF longer
<1>2. Values(longer) = Values(s) \cup {x}
  BY <1>1 DEF Values
<1>3. Increasing(longer)
  <2>1. \A i \in 1..Len(s) : s[i] \in Values(s) /\ ~(Len(s) + 1 < i)
    BY <1>1 DEF Values
  <2>2. ~(Len(s) + 1 < Len(s) + 1)
    BY <1>1
  <2>3. QED
    BY <1>1, <2>1, <2>2 DEF Increasing
<1>4. QED
  BY <1>1, <1>2, <1>3 DEF longer

\* A sequence that loses its first number, the smallest.
LEMMA IncreasingTail ==
    ASSUME NEW s \in Seq(Nat), s # <<>>, Increasing(s)
    PROVE  /\ Tail(s) \in Seq(Nat) /\ Increasing(Tail(s)) /\ Head(s) \in Nat
           /\ Values(s) = Values(Tail(s)) \cup {Head(s)}
           /\ \A v \in Values(Tail(s)) : Head(s) < v
<1> DEFINE rest == Tail(s)
           first == Head(s)
<1>1. /\ rest \in Seq(Nat) /\ first \in Nat
      /\ Len(s) \in Nat /\ 1 \in 1..Len(s) /\ first = s[1]
      /\ \A i \in 1..Len(rest) : i + 1 \in 1..Len(s) /\ i \in Nat /\ rest[i] = s[i + 1]
      /\ \A i \in 1..Len(s) : i # 1 => \E j \in 1..Len(rest) : j + 1 = i /\ rest[j] = s[i]
  BY TailParts
<1> HIDE DEF rest, first
<1>2. Increasing(rest)
  <2>1. SUFFICES ASSUME NEW i \in 1..Len(rest), NEW j \in 1..Len(rest), i < j
                 PROVE  rest[i] < rest[j]
    BY DEF Increasing
  <2>2. i + 1 < j + 1
    BY <2>1
  <2>3. s[i + 1] < s[j + 1]
    BY <1>1, <2>2 DEF Increasing
  <2>4. QED
    BY <1>1, <2>3
<1>3. Values(s) = Values(rest) \cup {first}
  <2>1. ASSUME NEW v \in Values(s)
        PROVE  v \in Values(rest) \cup {first}
    <3>1. PICK i \in 1..Len(s) : s[i] = v
      BY DEF Values
    <3>2. i = 1 \/ \E j \in 1..Len(rest) : rest[j] = v
      BY <1>1, <3>1
    <3>3. QED
      BY <1>1, <3>1, <3>2 DEF Values
  <2>2. Values(rest) \cup {first} \subseteq Values(s)
    BY <1>1 DEF Values
  <2>3. QED
    BY <2>1, <2>2
<1>4. \A i \in 1..Len(rest) : 1 < i + 1
  OBVIOUS
<1>5. \A v \in Values(rest) : first < v
  BY <1>1, <1>4 DEF Values, Increasing
<1>6. QED
  BY <1>1, <1>2, <1>3, <1>5 DEF rest, first

\* The requests that messages are about are numbers.
LEMMA OfsTyped ==
    ASSUME NEW q \in Seq(Messages), NEW kind
    PROVE  Ofs(q, kind) \subseteq Nat
<1>1. \A i \in 1..Len(q) : q[i] \in Messages
  OBVIOUS
<1>2. \A m \in Messages : m.of \in Nat
  BY DEF Messages
<1>3. QED
  BY <1>1, <1>2 DEF Ofs

\* A message of another kind is sent to the channel, or to the kernel.
LEMMA OrderOtherSent ==
    ASSUME NEW kind, NEW p, NEW box \in Seq(Messages), NEW queue \in Seq(Messages),
           Order(kind, p, box, queue), NEW m \in Messages, m.kind # kind
    PROVE  Order(kind, p, Append(box, m), queue) /\ Order(kind, p, box, Append(queue, m))
<1>1. ASSUME NEW q \in Seq(Messages), Grows(q, kind)
      PROVE  Ofs(Append(q, m), kind) = Ofs(q, kind) /\ Grows(Append(q, m), kind)
  <2>1. /\ Ofs(Append(q, m), kind) = Ofs(q, kind) \cup (IF m.kind = kind THEN {m.of} ELSE {})
        /\ Grows(q, kind) /\ (m.kind = kind => \A a \in Ofs(q, kind) : a < m.of)
             => Grows(Append(q, m), kind)
    BY OfsAppend
  <2>2. QED
    BY <1>1, <2>1
<1>2. QED
  BY <1>1 DEF Order

\* A message of another kind is taken.
LEMMA OrderOtherTaken ==
    ASSUME NEW kind, NEW p, NEW box \in Seq(Messages), NEW queue \in Seq(Messages),
           Order(kind, p, box, queue)
    PROVE  /\ box # <<>> /\ Head(box).kind # kind => Order(kind, p, Tail(box), queue)
           /\ queue # <<>> /\ Head(queue).kind # kind => Order(kind, p, box, Tail(queue))
<1>1. ASSUME NEW q \in Seq(Messages), Grows(q, kind), q # <<>>, Head(q).kind # kind
      PROVE  Ofs(Tail(q), kind) = Ofs(q, kind) /\ Grows(Tail(q), kind)
  <2>1. /\ Grows(Tail(q), kind)
        /\ Ofs(q, kind) = Ofs(Tail(q), kind) \cup (IF Head(q).kind = kind THEN {Head(q).of} ELSE {})
    BY <1>1, OfsTail
  <2>2. QED
    BY <1>1, <2>1
<1>2. QED
  BY <1>1 DEF Order

\* A query about a new request is sent and remembered.
LEMMA OrderAsk ==
    ASSUME NEW kind, NEW p, NEW box \in Seq(Messages), NEW queue \in Seq(Messages),
           Order(kind, p, box, queue), NEW m \in Messages, m.kind = kind,
           \A v \in Values(p) : v < m.of
    PROVE  Order(kind, Append(p, m.of), box, Append(queue, m))
<1>1. m.of \in Nat
  BY DEF Messages
<1>2. Values(p) = Ofs(box, kind) \cup Ofs(queue, kind)
  BY DEF Order, Values
<1>3. /\ Ofs(Append(queue, m), kind) = Ofs(queue, kind) \cup {m.of}
      /\ Grows(Append(queue, m), kind)
  BY <1>2, OfsAppend DEF Order
<1>4. /\ Append(p, m.of) \in Seq(Nat) /\ Increasing(Append(p, m.of))
      /\ Values(Append(p, m.of)) = Values(p) \cup {m.of}
  BY <1>1, IncreasingAppend DEF Order
<1>5. \A a \in Ofs(box, kind), b \in Ofs(Append(queue, m), kind) : a < b
  BY <1>2, <1>3 DEF Order
<1>6. QED
  BY <1>2, <1>3, <1>4, <1>5 DEF Order, Values

\* The kernel answers a query.
LEMMA OrderMove ==
    ASSUME NEW kind, NEW p, NEW box \in Seq(Messages), NEW queue \in Seq(Messages),
           Order(kind, p, box, queue), queue # <<>>, Head(queue).kind = kind,
           NEW m \in Messages, m.kind = kind, m.of = Head(queue).of
    PROVE  Order(kind, p, Append(box, m), Tail(queue))
<1>1. /\ Grows(Tail(queue), kind)
      /\ Ofs(queue, kind) = Ofs(Tail(queue), kind) \cup {m.of}
      /\ \A a \in Ofs(Tail(queue), kind) : m.of < a
  BY OfsTail DEF Order
<1>2. \A a \in Ofs(box, kind) : a < m.of
  BY <1>1 DEF Order
<1>3. Ofs(Append(box, m), kind) = Ofs(box, kind) \cup {m.of} /\ Grows(Append(box, m), kind)
  BY <1>2, OfsAppend DEF Order
<1>4. QED
  BY <1>1, <1>3 DEF Order

\* The channel takes an answer: it is the one for the oldest pending query.
LEMMA OrderTake ==
    ASSUME NEW kind, NEW p, NEW box \in Seq(Messages), NEW queue \in Seq(Messages),
           Order(kind, p, box, queue), box # <<>>, Head(box).kind = kind
    PROVE  /\ p # <<>> /\ Head(p) = Head(box).of
           /\ Order(kind, Tail(p), Tail(box), queue)
<1> DEFINE of == Head(box).of
<1>1. /\ Grows(Tail(box), kind)
      /\ Ofs(box, kind) = Ofs(Tail(box), kind) \cup {of}
      /\ \A a \in Ofs(Tail(box), kind) : of < a
  BY OfsTail DEF Order
<1> HIDE DEF of
<1>2. of \in Ofs(box, kind) /\ of \in Nat
  BY <1>1, OfsTyped
<1>3. Values(p) = Ofs(box, kind) \cup Ofs(queue, kind) /\ p \in Seq(Nat) /\ Increasing(p)
  BY DEF Order, Values
<1>4. p # <<>>
  <2>1. Values(<<>>) = {}
    BY DEF Values
  <2>2. QED
    BY <1>2, <1>3, <2>1
<1>5. /\ Tail(p) \in Seq(Nat) /\ Increasing(Tail(p)) /\ Head(p) \in Nat
      /\ Values(p) = Values(Tail(p)) \cup {Head(p)}
      /\ \A v \in Values(Tail(p)) : Head(p) < v
  BY <1>3, <1>4, IncreasingTail
<1>6. \A v \in Values(p) : v = of \/ of < v
  BY <1>1, <1>2, <1>3 DEF Order
<1>7. Head(p) = of
  <2>1. of = Head(p) \/ Head(p) < of
    BY <1>2, <1>3, <1>5
  <2>2. Head(p) = of \/ of < Head(p)
    BY <1>5, <1>6
  <2>3. QED
    BY <1>2, <1>5, <2>1, <2>2
<1>8. of \notin Values(Tail(p)) /\ of \notin Ofs(Tail(box), kind) /\ of \notin Ofs(queue, kind)
  BY <1>1, <1>2, <1>5, <1>7 DEF Order
<1>9. Values(Tail(p)) = Ofs(Tail(box), kind) \cup Ofs(queue, kind)
  BY <1>1, <1>3, <1>5, <1>7, <1>8
<1>10. Order(kind, Tail(p), Tail(box), queue)
  BY <1>1, <1>5, <1>9 DEF Order, Values
<1>11. QED
  BY <1>4, <1>7, <1>10 DEF of

-----------------------------------------------------------------------------
(* What is pending at the workspace and the terminal.                      *)

\* The parts of a sequence without one of its elements.
LEMMA RemoveParts ==
    ASSUME NEW S, NEW s \in Seq(S), NEW i \in 1..Len(s)
    PROVE  /\ RemoveAt(s, i) \in Seq(S)
           /\ \A j \in 1..Len(RemoveAt(s, i)) :
                \/ j < i /\ j \in 1..Len(s) /\ RemoveAt(s, i)[j] = s[j]
                \/ i <= j /\ j + 1 \in 1..Len(s) /\ RemoveAt(s, i)[j] = s[j + 1]
           /\ \A k \in 1..Len(s) :
                k # i => \E j \in 1..Len(RemoveAt(s, i)) : RemoveAt(s, i)[j] = s[k]
<1> DEFINE a == SubSeq(s, 1, i - 1)
           b == SubSeq(s, i + 1, Len(s))
<1>1. /\ i \in Nat /\ Len(s) \in Nat /\ 1 <= i /\ i <= Len(s)
      /\ i - 1 \in Nat /\ Len(s) - i \in Nat
  OBVIOUS
<1>2. /\ a \in Seq(S) /\ Len(a) = i - 1
      /\ \A j \in 1..(i - 1) : a[j] = s[j]
  BY <1>1, SubSeqProperties
<1>3. /\ b \in Seq(S) /\ Len(b) = Len(s) - i
      /\ \A j \in 1..(Len(s) - i) : b[j] = s[i + j]
  <2>1. i + 1 \in 1..(Len(s) + 1)
    BY <1>1
  <2>2. b \in Seq(S)
    BY <1>1
  <2>3. Len(b) = Len(s) - i
    BY <1>1
  <2>4. \A j \in 1..(Len(s) - i) : b[j] = s[i + j]
    BY <1>1
  <2>5. QED
    BY <2>2, <2>3, <2>4
<1> HIDE DEF a, b
<1>4. RemoveAt(s, i) = a \o b
  BY DEF RemoveAt, a, b
<1>5. /\ a \o b \in Seq(S) /\ Len(a \o b) = Len(s) - 1
      /\ \A j \in 1..(Len(s) - 1) : (a \o b)[j] = IF j < i THEN s[j] ELSE s[j + 1]
  <2>1. a \o b \in Seq(S) /\ Len(a \o b) = Len(a) + Len(b)
    BY <1>2, <1>3, ConcatProperties
  <2>2. Len(a) + Len(b) = Len(s) - 1
    BY <1>1, <1>2, <1>3
  <2>3. ASSUME NEW j \in 1..(Len(s) - 1), j < i
        PROVE  (a \o b)[j] = s[j]
    <3>1. j \in 1..Len(a)
      BY <1>1, <1>2, <2>3
    <3>2. (a \o b)[j] = a[j]
      BY <1>2, <1>3, <3>1
    <3>3. QED
      BY <1>2, <3>1, <3>2
  <2>4. ASSUME NEW j \in 1..(Len(s) - 1), ~(j < i)
        PROVE  (a \o b)[j] = s[j + 1]
    <3>1. j - Len(a) \in 1..Len(b) /\ i + (j - Len(a)) = j + 1 /\ j \in (Len(a) + 1)..(Len(a) + Len(b))
      BY <1>1, <1>2, <1>3, <2>4
    <3>2. (a \o b)[j] = b[j - Len(a)]
      BY <1>2, <1>3, <3>1
    <3>3. b[j - Len(a)] = s[i + (j - Len(a))]
      BY <1>3, <3>1
    <3>4. QED
      BY <3>1, <3>2, <3>3
  <2>5. QED
    BY <2>1, <2>2, <2>3, <2>4
<1>6. ASSUME NEW k \in 1..Len(s), k # i
      PROVE  \E j \in 1..(Len(s) - 1) : (a \o b)[j] = s[k]
  <2>1. CASE k < i
    <3>1. k \in 1..(Len(s) - 1)
      BY <1>1, <2>1
    <3>2. (a \o b)[k] = s[k]
      BY <1>5, <2>1, <3>1
    <3>3. QED
      BY <3>1, <3>2
  <2>2. CASE i < k
    <3>1. k - 1 \in 1..(Len(s) - 1) /\ ~(k - 1 < i) /\ (k - 1) + 1 = k
      BY <1>1, <2>2
    <3>2. (a \o b)[k - 1] = s[k]
      BY <1>5, <3>1
    <3>3. QED
      BY <3>1, <3>2
  <2>3. k < i \/ i < k
    BY <1>1, <1>6
  <2>4. QED
    BY <2>1, <2>2, <2>3
<1>7. ASSUME NEW j \in 1..(Len(s) - 1)
      PROVE  j \in 1..Len(s) /\ j + 1 \in 1..Len(s) /\ (j < i \/ i <= j)
  BY <1>1
<1>8. QED
  BY <1>4, <1>5, <1>6, <1>7

\* A sequence of growing numbers without one of them.
LEMMA RemoveNumber ==
    ASSUME NEW n \in Nat, NEW s \in Seq(1..n), Increasing(s), NEW i \in 1..Len(s)
    PROVE  /\ RemoveAt(s, i) \in Seq(1..n) /\ Increasing(RemoveAt(s, i))
           /\ Values(RemoveAt(s, i)) = Values(s) \ {s[i]}
<1> DEFINE rest == RemoveAt(s, i)
<1>1. /\ rest \in Seq(1..n)
      /\ \A j \in 1..Len(rest) :
           \/ j < i /\ j \in 1..Len(s) /\ rest[j] = s[j]
           \/ i <= j /\ j + 1 \in 1..Len(s) /\ rest[j] = s[j + 1]
      /\ \A k \in 1..Len(s) : k # i => \E j \in 1..Len(rest) : rest[j] = s[k]
  BY RemoveParts
<1>2. \A j \in 1..Len(rest) : j \in Nat
  OBVIOUS
<1> HIDE DEF rest
<1>3. \A j \in 1..Len(s) : s[j] \in Nat
  OBVIOUS
<1>4. ASSUME NEW j \in 1..Len(rest)
      PROVE  \E k \in 1..Len(s) : k # i /\ rest[j] = s[k] /\ (k = j \/ k = j + 1) /\ (k = j => j < i) /\ (k = j + 1 => i <= j)
  <2>1. CASE j < i /\ j \in 1..Len(s) /\ rest[j] = s[j]
    BY <1>2, <2>1
  <2>2. CASE i <= j /\ j + 1 \in 1..Len(s) /\ rest[j] = s[j + 1]
    BY <1>2, <2>2
  <2>3. QED
    BY <1>1, <2>1, <2>2
<1>5. Increasing(rest)
  <2>1. SUFFICES ASSUME NEW j \in 1..Len(rest), NEW k \in 1..Len(rest), j < k
                 PROVE  rest[j] < rest[k]
    BY DEF Increasing
  <2>2. PICK a \in 1..Len(s) : /\ a # i /\ rest[j] = s[a] /\ (a = j \/ a = j + 1)
                               /\ (a = j => j < i) /\ (a = j + 1 => i <= j)
    BY <1>4
  <2>3. PICK b \in 1..Len(s) : /\ b # i /\ rest[k] = s[b] /\ (b = k \/ b = k + 1)
                               /\ (b = k => k < i) /\ (b = k + 1 => i <= k)
    BY <1>4
  <2>4. a < b
    BY <1>2, <2>1, <2>2, <2>3
  <2>5. QED
    BY <2>2, <2>3, <2>4 DEF Increasing
<1>6. \A k \in 1..Len(s) : k # i => s[k] # s[i]
  <2>1. SUFFICES ASSUME NEW k \in 1..Len(s), k # i PROVE s[k] # s[i]
    OBVIOUS
  <2>2. k < i \/ i < k
    BY <2>1
  <2>3. s[k] < s[i] \/ s[i] < s[k]
    BY <2>2 DEF Increasing
  <2>4. QED
    BY <1>3, <2>3
<1>7. Values(rest) = Values(s) \ {s[i]}
  <2>1. Values(rest) \subseteq Values(s) \ {s[i]}
    BY <1>4, <1>6 DEF Values
  <2>2. ASSUME NEW v \in Values(s), v # s[i]
        PROVE  v \in Values(rest)
    <3>1. PICK k \in 1..Len(s) : s[k] = v
      BY DEF Values
    <3>2. PICK j \in 1..Len(rest) : rest[j] = v
      BY <1>1, <2>2, <3>1
    <3>3. QED
      BY <3>2 DEF Values
  <2>3. QED
    BY <2>1, <2>2
<1>8. QED
  BY <1>1, <1>5, <1>7 DEF rest

\* The same for entries with growing ids.
LEMMA RemoveEntry ==
    ASSUME NEW n \in Nat, NEW s \in Seq(Entries(n)), Growing(s), NEW i \in 1..Len(s)
    PROVE  /\ RemoveAt(s, i) \in Seq(Entries(n)) /\ Growing(RemoveAt(s, i))
           /\ Ids(RemoveAt(s, i)) = Ids(s) \ {s[i].id}
<1> DEFINE rest == RemoveAt(s, i)
<1>1. /\ rest \in Seq(Entries(n))
      /\ \A j \in 1..Len(rest) :
           \/ j < i /\ j \in 1..Len(s) /\ rest[j] = s[j]
           \/ i <= j /\ j + 1 \in 1..Len(s) /\ rest[j] = s[j + 1]
      /\ \A k \in 1..Len(s) : k # i => \E j \in 1..Len(rest) : rest[j] = s[k]
  BY RemoveParts
<1>2. \A j \in 1..Len(rest) : j \in Nat
  OBVIOUS
<1> HIDE DEF rest
<1>3. \A j \in 1..Len(s) : s[j].id \in Nat
  <2>1. \A j \in 1..Len(s) : s[j] \in Entries(n)
    OBVIOUS
  <2>2. \A e \in Entries(n) : e.id \in Nat
    BY DEF Entries
  <2>3. QED
    BY <2>1, <2>2
<1>4. ASSUME NEW j \in 1..Len(rest)
      PROVE  \E k \in 1..Len(s) : k # i /\ rest[j] = s[k] /\ (k = j \/ k = j + 1) /\ (k = j => j < i) /\ (k = j + 1 => i <= j)
  <2>1. CASE j < i /\ j \in 1..Len(s) /\ rest[j] = s[j]
    BY <1>2, <2>1
  <2>2. CASE i <= j /\ j + 1 \in 1..Len(s) /\ rest[j] = s[j + 1]
    BY <1>2, <2>2
  <2>3. QED
    BY <1>1, <2>1, <2>2
<1>5. Growing(rest)
  <2>1. SUFFICES ASSUME NEW j \in 1..Len(rest), NEW k \in 1..Len(rest), j < k
                 PROVE  rest[j].id < rest[k].id
    BY DEF Growing
  <2>2. PICK a \in 1..Len(s) : /\ a # i /\ rest[j] = s[a] /\ (a = j \/ a = j + 1)
                               /\ (a = j => j < i) /\ (a = j + 1 => i <= j)
    BY <1>4
  <2>3. PICK b \in 1..Len(s) : /\ b # i /\ rest[k] = s[b] /\ (b = k \/ b = k + 1)
                               /\ (b = k => k < i) /\ (b = k + 1 => i <= k)
    BY <1>4
  <2>4. a < b
    BY <1>2, <2>1, <2>2, <2>3
  <2>5. QED
    BY <2>2, <2>3, <2>4 DEF Growing
<1>6. \A k \in 1..Len(s) : k # i => s[k].id # s[i].id
  <2>1. SUFFICES ASSUME NEW k \in 1..Len(s), k # i PROVE s[k].id # s[i].id
    OBVIOUS
  <2>2. k < i \/ i < k
    BY <2>1
  <2>3. s[k].id < s[i].id \/ s[i].id < s[k].id
    BY <2>2 DEF Growing
  <2>4. QED
    BY <1>3, <2>3
<1>7. Ids(rest) = Ids(s) \ {s[i].id}
  <2>1. Ids(rest) \subseteq Ids(s) \ {s[i].id}
    BY <1>4, <1>6 DEF Ids
  <2>2. ASSUME NEW v \in Ids(s), v # s[i].id
        PROVE  v \in Ids(rest)
    <3>1. PICK k \in 1..Len(s) : s[k].id = v
      BY DEF Ids
    <3>2. PICK j \in 1..Len(rest) : rest[j] = s[k]
      BY <1>1, <2>2, <3>1
    <3>3. QED
      BY <3>1, <3>2 DEF Ids
  <2>3. QED
    BY <2>1, <2>2
<1>8. QED
  BY <1>1, <1>5, <1>7 DEF rest

\* A sequence gets an entry with a larger id.
LEMMA AddEntry ==
    ASSUME NEW n \in Nat, NEW s \in Seq(Entries(n)), Growing(s), NEW e \in Entries(n),
           \A x \in Ids(s) : x < e.id
    PROVE  /\ Append(s, e) \in Seq(Entries(n)) /\ Growing(Append(s, e))
           /\ Ids(Append(s, e)) = Ids(s) \cup {e.id}
<1> DEFINE longer == Append(s, e)
<1>1. /\ longer \in Seq(Entries(n))
      /\ Len(s) \in Nat /\ Len(longer) = Len(s) + 1
      /\ 1..Len(longer) = (1..Len(s)) \cup {Len(s) + 1}
      /\ \A i \in 1..Len(s) : longer[i] = s[i]
      /\ longer[Len(s) + 1] = e
  BY AppendParts
<1> HIDE DEF longer
<1>2. Ids(longer) = Ids(s) \cup {e.id}
  BY <1>1 DEF Ids
<1>3. Growing(longer)
  <2>1. \A i \in 1..Len(s) : s[i].id \in Ids(s) /\ ~(Len(s) + 1 < i)
    BY <1>1 DEF Ids
  <2>2. ~(Len(s) + 1 < Len(s) + 1)
    BY <1>1
  <2>3. QED
    BY <1>1, <2>1, <2>2 DEF Growing
<1>4. QED
  BY <1>1, <1>2, <1>3 DEF longer

\* pop_pending_terminal finds the request that a response names.
LEMMA TerminalFound ==
    ASSUME PendingGood, NEW r, r.rid \in Values(pt), r.kind # "output"
    PROVE  \E i \in 1..Len(pt) : PopTerminal(r) = i /\ pt[i] = r.rid
<1>1. PICK i \in 1..Len(pt) : pt[i] = r.rid
  BY DEF Values
<1>2. \A j \in 1..Len(pt) : pt[j] = r.rid => j = i
  <2>1. SUFFICES ASSUME NEW j \in 1..Len(pt), pt[j] = r.rid, j # i PROVE FALSE
    OBVIOUS
  <2>2. j < i \/ i < j
    BY <2>1
  <2>3. pt[j] < pt[i] \/ pt[i] < pt[j]
    BY <2>2 DEF PendingGood, Increasing
  <2>4. pt[i] \in Nat
    BY DEF PendingGood
  <2>5. QED
    BY <1>1, <2>1, <2>3, <2>4
<1>3. {j \in 1..Len(pt) : pt[j] = r.rid} = {i}
  BY <1>1, <1>2
<1>4. SelectInSeq(pt, LAMBDA x : x = r.rid) = i
  <2>1. Min({i}) = i
    BY DEF Min
  <2>2. SelectInSeq(pt, LAMBDA x : x = r.rid) = Min({i})
    BY <1>3 DEF SelectInSeq
  <2>3. QED
    BY <2>1, <2>2
<1>5. pt # <<>> /\ DOMAIN pt = 1..Len(pt)
  BY DEF PendingGood
<1>6. PopTerminal(r) = i
  BY <1>1, <1>4, <1>5 DEF PopTerminal
<1>7. QED
  BY <1>1, <1>6

\* pop_pending_workspace finds the request that a response names.
LEMMA WorkspaceFound ==
    ASSUME PendingGood, NEW r, r.rid \in Ids(pw), r.rid # 0
    PROVE  \E i \in 1..Len(pw) : PopWorkspace(r) = i /\ pw[i].id = r.rid /\ i # 0
<1>1. PICK i \in 1..Len(pw) : pw[i].id = r.rid
  BY DEF Ids
<1>2. \A j \in 1..Len(pw) : pw[j].id = r.rid => j = i
  <2>1. SUFFICES ASSUME NEW j \in 1..Len(pw), pw[j].id = r.rid, j # i PROVE FALSE
    OBVIOUS
  <2>2. j < i \/ i < j
    BY <2>1
  <2>3. pw[j].id < pw[i].id \/ pw[i].id < pw[j].id
    BY <2>2 DEF PendingGood, Growing
  <2>4. pw[i] \in Entries(Len(log)) /\ Len(log) \in Nat
    BY DEF PendingGood
  <2>5. pw[i].id \in Nat
    BY <2>4 DEF Entries
  <2>6. QED
    BY <1>1, <2>1, <2>3, <2>5
<1>3. DOMAIN pw = 1..Len(pw)
  BY DEF PendingGood
<1>4. {j \in DOMAIN pw : pw[j].id = r.rid} = {i}
  BY <1>1, <1>2, <1>3
<1>5. (CHOOSE k \in {i} : \A j \in {i} : k <= j) = i
  OBVIOUS
<1>6. PopWorkspace(r) = i
  BY <1>4, <1>5 DEF PopWorkspace
<1>7. QED
  BY <1>1, <1>6

-----------------------------------------------------------------------------
(* The steps.                                                              *)

\* A message without an id that is no query is sent to the kernel.
LEMMA QuietSend ==
    ASSUME NEW q, NEW to, NEW n, NEW T, GoodQueue(q, to, n, T),
           NEW m \in Messages, Shape(m), m.to \in to, m.of <= n, m.rid = 0, m.kind \notin Queries
    PROVE  /\ GoodQueue(Append(q, m), to, n, T)
           /\ Rids(Append(q, m)) = Rids(q)
           /\ Ofs(q, "failed") \subseteq Ofs(Append(q, m), "failed")
           /\ \A kind \in Queries : \A p : \A box \in Seq(Messages) :
                Order(kind, p, box, q) => Order(kind, p, box, Append(q, m))
<1>1. q \in Seq(Messages)
  BY DEF GoodQueue
<1>2. 0 \notin Rids(q)
  BY DEF Rids
<1>3. ~OfTerminal(m)
  BY DEF OfTerminal
<1>4. /\ GoodQueue(Append(q, m), to, n, T)
      /\ Rids(Append(q, m)) = Rids(q) \cup ({m.rid} \ {0})
  BY <1>2, <1>3, GoodAppend
<1>5. Ofs(Append(q, m), "failed") = Ofs(q, "failed") \cup (IF m.kind = "failed" THEN {m.of} ELSE {})
  BY <1>1, OfsAppend
<1>6. ASSUME NEW kind \in Queries, NEW p, NEW box \in Seq(Messages), Order(kind, p, box, q)
      PROVE  Order(kind, p, box, Append(q, m))
  <2>1. m.kind # kind
    BY <1>6
  <2>2. QED
    BY <1>1, <1>6, <2>1, OrderOtherSent
<1>7. QED
  BY <1>4, <1>5, <1>6

\* A step that only sends such a message.
LEMMA QuietStep ==
    ASSUME Matched, UNCHANGED <<log, wsq, tmq, inbox, pw, pt, pc, pm>>,
           NEW m \in Messages, Shape(m), m.of <= Len(log), m.rid = 0, m.kind \notin Queries,
           kq' = Append(kq, m)
    PROVE  Matched'
<1>1. GoodQueue(kq, Addresses, Len(log), Values(pt)) /\ m.to \in Addresses
  BY DEF Matched, QueuesGood, Messages
<1>2. /\ GoodQueue(kq', Addresses, Len(log), Values(pt))
      /\ Rids(kq') = Rids(kq)
      /\ Ofs(kq, "failed") \subseteq Ofs(kq', "failed")
      /\ \A kind \in Queries : \A p : \A box \in Seq(Messages) :
           Order(kind, p, box, kq) => Order(kind, p, box, kq')
  BY <1>1, QuietSend
<1>3. inbox \in Seq(Messages)
  BY DEF Matched, QueuesGood, GoodQueue
<1>4. QueuesGood'
  BY <1>2 DEF Matched, QueuesGood
<1>5. PendingGood'
  BY DEF Matched, PendingGood
<1>6. QueriesGood'
  BY <1>2, <1>3 DEF Matched, QueriesGood, Queries
<1>7. Backed'
  BY <1>2 DEF Matched, Backed
<1>8. QED
  BY <1>4, <1>5, <1>6, <1>7 DEF Matched

\* The requests that messages of a queue are about have been made.
LEMMA OfsMade ==
    ASSUME NEW q, NEW to, NEW n \in Nat, NEW T, GoodQueue(q, to, n, T), NEW kind
    PROVE  \A a \in Ofs(q, kind) : a \in Nat /\ a <= n
<1>1. \A i \in 1..Len(q) : q[i] \in Messages /\ q[i].of <= n
  BY DEF GoodQueue
<1>2. \A m \in Messages : m.of \in Nat
  BY DEF Messages
<1>3. QED
  BY <1>1, <1>2 DEF Ofs

\* Ids of pending requests have been handed out.
LEMMA PendingMade ==
    ASSUME PendingGood
    PROVE  /\ Len(log) \in Nat
           /\ \A x \in Values(pt) \cup Ids(pw) : x \in Nat /\ x # 0 /\ x <= Len(log)
<1>1. Len(log) \in Nat
  BY DEF PendingGood
<1>2. \A x \in Values(pt) : x \in 1..Len(log)
  BY DEF PendingGood, Values
<1>3. \A i \in 1..Len(pw) : pw[i] \in Entries(Len(log))
  BY DEF PendingGood
<1>4. \A e \in Entries(Len(log)) : e.id \in 1..Len(log)
  BY DEF Entries
<1>5. \A x \in Ids(pw) : x \in 1..Len(log)
  BY <1>3, <1>4 DEF Ids
<1>6. QED
  BY <1>1, <1>2, <1>5

\* Sequences over a larger set.
LEMMA SeqWider ==
    ASSUME NEW S, NEW T, S \subseteq T, NEW s \in Seq(S)
    PROVE  s \in Seq(T)
OBVIOUS

\* The call that an input becomes.
LEMMA CallShape ==
    ASSUME NEW kind \in Kinds, NEW id \in Nat, id # 0
    PROVE  LET m == Message(Target(kind), "channel", kind, CallId(kind, id), id)
           IN /\ m \in Messages /\ Shape(m) /\ m.kind = kind /\ m.of = id
              /\ m.rid = IF kind \in {"data", "file", "term"} THEN id ELSE 0
              /\ OfTerminal(m) <=> kind = "term"
<1>1. CASE kind \in {"data", "file"}
  BY <1>1 DEF Message, Messages, Shape, OfTerminal, Target, CallId, Services, Addresses, MessageKinds, Kinds, Queries
<1>2. CASE kind = "term"
  BY <1>2 DEF Message, Messages, Shape, OfTerminal, Target, CallId, Services, Addresses, MessageKinds, Kinds, Queries
<1>3. CASE kind \in {"plain", "control", "delete"}
  BY <1>3 DEF Message, Messages, Shape, OfTerminal, Target, CallId, Services, Addresses, MessageKinds, Kinds, Queries
<1>4. CASE kind \in {"create", "update", "config", "meta"}
  BY <1>4 DEF Message, Messages, Shape, OfTerminal, Target, CallId, Services, Addresses, MessageKinds, Kinds, Queries
<1>5. QED
  BY <1>1, <1>2, <1>3, <1>4 DEF Kinds

\* The channel passes on an input.
LEMMA IngressKeeps ==
    ASSUME Matched, Ingress
    PROVE  Matched'
<1> DEFINE n == Len(log)
           id == Len(log) + 1
<1>1. PICK kind \in Kinds, session \in Sessions \cup {"none"}, path \in Paths :
        /\ log' = Append(log, [kind |-> kind, session |-> ForegroundTarget(session), path |-> path])
        /\ kq' = Append(kq, Message(Target(kind), "channel", kind, CallId(kind, id), id))
        /\ pw' = IF kind \in {"data", "file"} THEN Append(pw, [id |-> id, kind |-> kind, path |-> path]) ELSE pw
        /\ pt' = IF kind = "term" THEN Append(pt, id) ELSE pt
        /\ pc' = IF kind = "config" THEN Append(pc, id) ELSE pc
        /\ pm' = IF kind = "meta" THEN Append(pm, id) ELSE pm
  BY DEF Ingress
<1>2. UNCHANGED <<wsq, tmq, inbox>>
  BY DEF Ingress
<1> DEFINE entry == [kind |-> kind, session |-> ForegroundTarget(session), path |-> path]
           Inputs == [kind : Kinds, session : Sessions \cup {ChannelId}, path : Paths]
<1>3. entry \in Inputs
  BY <1>1 DEF ForegroundTarget
<1>4. n \in Nat /\ Len(log') = id /\ id \in Nat /\ n <= id /\ id # 0 /\ n < id /\ log' \in Seq(Inputs)
  <2>1. log \in Seq(Inputs)
    BY DEF Matched, PendingGood
  <2> HIDE DEF Inputs, entry
  <2>2. log' = Append(log, entry)
    BY <1>1 DEF entry
  <2>3. QED
    BY <1>3, <2>1, <2>2
<1>5. PendingGood /\ QueuesGood /\ QueriesGood /\ Backed
  BY DEF Matched
<1>6. \A x \in Values(pt) \cup Ids(pw) : x \in Nat /\ x # 0 /\ x <= n
  BY <1>5, PendingMade
<1>7. \A x \in Values(pt) \cup Ids(pw) : x < id /\ x # id
  BY <1>4, <1>6
<1> DEFINE m == Message(Target(kind), "channel", kind, CallId(kind, id), id)
<1>8. /\ m \in Messages /\ Shape(m) /\ m.kind = kind /\ m.of = id
      /\ m.rid = IF kind \in {"data", "file", "term"} THEN id ELSE 0
      /\ OfTerminal(m) <=> kind = "term"
  BY <1>1, <1>4, CallShape
<1>9. kq' = Append(kq, m) /\ m.to \in Addresses
  BY <1>1, <1>8 DEF Messages
<1> HIDE DEF n, id, m, entry, Inputs
<1>10. /\ pt' \in Seq(1..id) /\ Increasing(pt')
       /\ Values(pt') = Values(pt) \cup (IF kind = "term" THEN {id} ELSE {})
  <2>1. pt \in Seq(1..n) /\ Increasing(pt)
    BY <1>5 DEF PendingGood, n
  <2>2. pt \in Seq(Nat) /\ pt \in Seq(1..id)
    <3>1. 1..n \subseteq 1..id /\ 1..n \subseteq Nat
      BY <1>4
    <3>2. QED
      BY <2>1, <3>1, SeqWider
  <2>3. CASE kind = "term"
    <3>1. Increasing(Append(pt, id)) /\ Values(Append(pt, id)) = Values(pt) \cup {id}
      BY <1>4, <1>7, <2>1, <2>2, IncreasingAppend
    <3>2. Append(pt, id) \in Seq(1..id)
      BY <1>4, <2>2
    <3>3. QED
      BY <1>1, <2>3, <3>1, <3>2 DEF id
  <2>4. CASE kind # "term"
    BY <1>1, <2>1, <2>2, <2>4
  <2>5. QED
    BY <2>3, <2>4
<1>11. /\ pw' \in Seq(Entries(id)) /\ Growing(pw')
       /\ Ids(pw') = Ids(pw) \cup (IF kind \in {"data", "file"} THEN {id} ELSE {})
  <2>1. pw \in Seq(Entries(n)) /\ Growing(pw)
    BY <1>5 DEF PendingGood, n
  <2>2. pw \in Seq(Entries(id))
    <3>1. Entries(n) \subseteq Entries(id)
      BY <1>4 DEF Entries
    <3>2. QED
      BY <2>1, <3>1
  <2>3. CASE kind \in {"data", "file"}
    <3> DEFINE e == [id |-> id, kind |-> kind, path |-> path]
    <3>1. e \in Entries(id) /\ e.id = id
      BY <1>4, <2>3 DEF Entries
    <3>2. pw' = Append(pw, e)
      BY <1>1, <2>3 DEF id
    <3> HIDE DEF e
    <3>3. /\ Append(pw, e) \in Seq(Entries(id)) /\ Growing(Append(pw, e))
          /\ Ids(Append(pw, e)) = Ids(pw) \cup {e.id}
      BY <1>4, <1>7, <2>1, <2>2, <3>1, AddEntry
    <3>4. QED
      BY <2>3, <3>1, <3>2, <3>3
  <2>4. CASE kind \notin {"data", "file"}
    BY <1>1, <2>1, <2>2, <2>4
  <2>5. QED
    BY <2>3, <2>4
<1>12. PendingGood'
  <2>1. Values(pt') \cap Ids(pw') = {}
    BY <1>5, <1>7, <1>10, <1>11 DEF PendingGood
  <2>2. QED
    BY <1>4, <1>10, <1>11, <2>1 DEF PendingGood, Inputs
<1>13. /\ GoodQueue(kq, Addresses, id, Values(pt')) /\ GoodQueue(wsq, {"workspace"}, id, Values(pt'))
       /\ GoodQueue(tmq, {"terminal"}, id, Values(pt')) /\ GoodQueue(inbox, {"channel"}, id, Values(pt'))
  <2>1. \A x \in Values(pt) : x \in Values(pt')
    BY <1>10
  <2>2. /\ GoodQueue(kq, Addresses, n, Values(pt)) /\ GoodQueue(wsq, {"workspace"}, n, Values(pt))
        /\ GoodQueue(tmq, {"terminal"}, n, Values(pt)) /\ GoodQueue(inbox, {"channel"}, n, Values(pt))
    BY <1>5 DEF QueuesGood, n
  <2>3. QED
    BY <1>4, <2>1, <2>2, GoodStays
<1>14. Split(Rids(kq), Rids(wsq), Rids(tmq), Rids(inbox), Values(pt) \cup Ids(pw))
  BY <1>5 DEF QueuesGood
<1>15. id \notin Rids(kq) \cup Rids(wsq) \cup Rids(tmq) \cup Rids(inbox)
  BY <1>7, <1>14 DEF Split
<1>16. /\ GoodQueue(kq', Addresses, id, Values(pt'))
       /\ Rids(kq') = Rids(kq) \cup ({m.rid} \ {0})
  <2>1. m.rid \notin Rids(kq)
    BY <1>8, <1>15 DEF Rids
  <2>2. OfTerminal(m) => m.rid \in Values(pt')
    BY <1>8, <1>10
  <2>3. m.of <= id
    BY <1>4, <1>8
  <2>4. QED
    BY <1>8, <1>9, <1>13, <2>1, <2>2, <2>3, GoodAppend
<1>17. QueuesGood'
  <2>1. Split(Rids(kq'), Rids(wsq), Rids(tmq), Rids(inbox), Values(pt') \cup Ids(pw'))
    BY <1>8, <1>10, <1>11, <1>14, <1>15, <1>16 DEF Split
  <2>2. QED
    BY <1>2, <1>4, <1>13, <1>16, <2>1 DEF QueuesGood
<1>18. kq \in Seq(Messages) /\ inbox \in Seq(Messages)
  BY <1>13 DEF GoodQueue
<1>19. ASSUME NEW k \in Queries, NEW p, Order(k, p, inbox, kq)
       PROVE  /\ kind = k => Order(k, Append(p, id), inbox, kq')
              /\ kind # k => Order(k, p, inbox, kq')
  <2>1. \A v \in Values(p) : v \in Nat /\ v <= n
    <3>1. Values(p) = Ofs(inbox, k) \cup Ofs(kq, k)
      BY <1>19 DEF Order, Values
    <3>2. /\ \A a \in Ofs(inbox, k) : a \in Nat /\ a <= n
          /\ \A a \in Ofs(kq, k) : a \in Nat /\ a <= n
      BY <1>4, <1>5, OfsMade DEF QueuesGood, n
    <3>3. QED
      BY <3>1, <3>2
  <2>2. \A v \in Values(p) : v < m.of
    BY <1>4, <1>8, <2>1
  <2>3. kind = k => Order(k, Append(p, m.of), inbox, Append(kq, m))
    BY <1>8, <1>18, <1>19, <2>2, OrderAsk
  <2>4. kind # k => Order(k, p, inbox, Append(kq, m))
    BY <1>8, <1>18, <1>19, OrderOtherSent
  <2>5. QED
    BY <1>8, <1>9, <2>3, <2>4
<1>20. QueriesGood'
  <2>1. Order("config", pc', inbox, kq')
    BY <1>1, <1>5, <1>19 DEF QueriesGood, Queries, id
  <2>2. Order("meta", pm', inbox, kq')
    BY <1>1, <1>5, <1>19 DEF QueriesGood, Queries, id
  <2>3. QED
    BY <1>2, <2>1, <2>2 DEF QueriesGood
<1>21. Backed'
  <2>1. Ofs(kq', "failed") = Ofs(kq, "failed")
    <3>1. Ofs(Append(kq, m), "failed") = Ofs(kq, "failed") \cup (IF m.kind = "failed" THEN {m.of} ELSE {})
      BY <1>8, <1>18, OfsAppend
    <3>2. m.kind # "failed"
      BY <1>8 DEF Kinds
    <3>3. QED
      BY <1>9, <3>1, <3>2
  <2>2. QED
    BY <1>2, <1>4, <1>5, <1>8, <1>10, <1>11, <1>16, <2>1 DEF Backed
<1>22. QED
  BY <1>12, <1>17, <1>20, <1>21 DEF Matched

\* What the kernel may do with a message c: answer it, or pass it on, to the
\* channel; send something to the terminal.
Answering(c, m) ==
    /\ m \in Messages /\ Shape(m) /\ m.to = "channel" /\ m.rid = c.rid /\ m.of = c.of
    /\ c.kind \in Queries \/ m.kind \in Queries => m.kind = c.kind
    /\ OfTerminal(m) => OfTerminal(c)

ToTerminalOnly(z) ==
    /\ z \in Messages /\ Shape(z) /\ z.to = "terminal" /\ z.rid = 0 /\ z.of = 0 /\ z.kind \notin Queries

\* One output of a service is answered, forgotten or passed on.
Routed(c) ==
    \/ /\ \/ \E m : Answering(c, m) /\ inbox' = Append(inbox, m)
          \/ c.rid = 0 /\ c.kind \notin Queries /\ inbox' = inbox
       /\ wsq' = wsq
       /\ tmq' = tmq \/ \E z : ToTerminalOnly(z) /\ tmq' = Append(tmq, z)
    \/ c.to = "workspace" /\ wsq' = Append(wsq, c) /\ UNCHANGED <<tmq, inbox>>
    \/ c.to = "terminal" /\ tmq' = Append(tmq, c) /\ UNCHANGED <<wsq, inbox>>

\* The messages of the kernel.
LEMMA KernelMessages ==
    ASSUME NEW c \in Messages, Shape(c)
    PROVE  /\ \A kind \in {"created", "updated", "error"} :
                c.kind \notin Queries => Answering(c, Message("channel", "kernel", kind, c.rid, c.of))
           /\ c.kind \in Queries => Answering(c, Message("channel", "kernel", c.kind, c.rid, c.of))
           /\ \A kind \in {"configure", "error"} : ToTerminalOnly(Message("terminal", "kernel", kind, 0, 0))
<1>1. c.rid \in Nat /\ c.of \in Nat
  BY DEF Messages
<1>2. ASSUME NEW kind \in {"created", "updated", "error"}, c.kind \notin Queries
      PROVE  Answering(c, Message("channel", "kernel", kind, c.rid, c.of))
  <2> DEFINE m == Message("channel", "kernel", kind, c.rid, c.of)
  <2>1. m \in Messages
    BY <1>1 DEF Message, Messages, Addresses, Services, MessageKinds
  <2>2. Shape(m)
    BY DEF Message, Shape, Services, Queries
  <2>3. QED
    BY <1>2, <2>1, <2>2 DEF Answering, Message, OfTerminal, Queries
<1>3. ASSUME c.kind \in Queries
      PROVE  Answering(c, Message("channel", "kernel", c.kind, c.rid, c.of))
  <2> DEFINE m == Message("channel", "kernel", c.kind, c.rid, c.of)
  <2>1. m \in Messages
    BY <1>1, <1>3 DEF Message, Messages, Addresses, Services, MessageKinds, Queries, Kinds
  <2>2. Shape(m)
    BY <1>3 DEF Message, Shape, Services, Queries
  <2>3. QED
    BY <2>1, <2>2 DEF Answering, Message, OfTerminal
<1>4. ASSUME NEW kind \in {"configure", "error"}
      PROVE  ToTerminalOnly(Message("terminal", "kernel", kind, 0, 0))
  <2>1. Message("terminal", "kernel", kind, 0, 0) \in Messages
    BY DEF Message, Messages, Addresses, Services, MessageKinds
  <2>2. Shape(Message("terminal", "kernel", kind, 0, 0))
    BY DEF Message, Shape, Services, Queries
  <2>3. QED
    BY <2>1, <2>2 DEF ToTerminalOnly, Message, Queries
<1>5. QED
  BY <1>2, <1>3, <1>4

\* Every output that does not end the kernel is routed, and then it was no
\* failure.
LEMMA DispatchRoutes ==
    ASSUME Matched, Dispatch, ~failed'
    PROVE  Routed(Head(kq)) /\ Head(kq).kind # "failed"
<1> DEFINE c == Head(kq)
<1>1. c \in Messages /\ Shape(c) /\ kq # <<>>
  BY GoodTail DEF Dispatch, Matched, QueuesGood
<1>2. /\ \A kind \in {"created", "updated", "error"} :
           c.kind \notin Queries => Answering(c, Message("channel", "kernel", kind, c.rid, c.of))
      /\ c.kind \in Queries => Answering(c, Message("channel", "kernel", c.kind, c.rid, c.of))
      /\ \A kind \in {"configure", "error"} : ToTerminalOnly(Message("terminal", "kernel", kind, 0, 0))
  BY <1>1, KernelMessages
<1>3. (c.to = "kernel" /\ (KernelCall(c) \/ KernelNotice(c))) \/ ToService(c) \/ ToSession(c) \/ ToChannel(c)
  BY DEF Dispatch
<1> SUFFICES Routed(c) /\ c.kind # "failed"
  BY DEF c
<1> HIDE DEF c
<1>4. ~KernelFails
  BY DEF KernelFails
<1>5. CASE c.to = "kernel" /\ KernelCall(c)
  <2>1. c.rid = 0
    BY <1>1, <1>5 DEF Shape
  <2>2. CASE /\ c.kind \in {"config", "meta"}
             /\ inbox' = Append(inbox, Message("channel", "kernel", c.kind, c.rid, c.of))
             /\ UNCHANGED <<wsq, tmq, agent, sessions, failed>>
    BY <1>2, <2>2 DEF Routed, Queries
  <2>3. CASE c.kind = "create" /\ CreateSession(c)
    <3>1. c.kind \notin Queries /\ c.kind # "failed"
      BY <2>3 DEF Queries
    <3>2. /\ UNCHANGED <<wsq, tmq>>
          /\ \/ inbox' = Append(inbox, Message("channel", "kernel", "created", c.rid, c.of))
             \/ inbox' = Append(inbox, Message("channel", "kernel", "error", c.rid, c.of))
      BY <2>3 DEF CreateSession
    <3>3. QED
      BY <1>2, <3>1, <3>2 DEF Routed
  <2>4. CASE /\ c.kind = "update"
             /\ inbox' = Append(inbox, Message("channel", "kernel", "updated", c.rid, c.of))
             /\ tmq' = IF "terminal" \in up THEN Append(tmq, Message("terminal", "kernel", "configure", 0, 0)) ELSE tmq
             /\ UNCHANGED <<wsq, agent, sessions, failed>>
    <3>1. c.kind \notin Queries /\ c.kind # "failed"
      BY <2>4 DEF Queries
    <3>2. QED
      BY <1>2, <2>4, <3>1 DEF Routed
  <2>5. CASE /\ c.kind = "echo"
             /\ tmq' = Append(tmq, Message("terminal", "kernel", "error", 0, 0))
             /\ UNCHANGED <<wsq, inbox, agent, sessions, failed>>
    <3>1. c.kind \notin Queries /\ c.kind # "failed"
      BY <2>5 DEF Queries
    <3>2. QED
      BY <1>2, <2>1, <2>5, <3>1 DEF Routed
  <2>6. QED
    BY <1>4, <1>5, <2>2, <2>3, <2>4, <2>5 DEF KernelCall
<1>6. CASE c.to = "kernel" /\ KernelNotice(c)
  <2>1. c.kind = "stopped" /\ UNCHANGED <<wsq, tmq, inbox>>
    BY <1>4, <1>6 DEF KernelNotice
  <2>2. c.rid = 0 /\ c.kind \notin Queries /\ c.kind # "failed"
    BY <1>1, <1>6, <2>1 DEF Shape, Queries
  <2>3. QED
    BY <2>1, <2>2 DEF Routed
<1>7. CASE ToService(c)
  <2>1. c.kind \notin Queries /\ c.kind # "failed" /\ c.to \in {"workspace", "terminal"}
    BY <1>1, <1>7 DEF ToService, Shape, Services
  <2>2. CASE c.to \in up
    BY <1>7, <2>1, <2>2 DEF ToService, Routed
  <2>3. CASE c.to \notin up
    <3>1. /\ inbox' = Append(inbox, Message("channel", "kernel", "error", c.rid, c.of))
          /\ UNCHANGED <<wsq, tmq>>
      BY <1>7, <2>3 DEF ToService
    <3>2. QED
      BY <1>2, <2>1, <3>1 DEF Routed
  <2>4. QED
    BY <2>2, <2>3
<1>8. CASE ToSession(c)
  <2>1. c.to = "agent" /\ UNCHANGED <<wsq, tmq, inbox>>
    BY <1>4, <1>8 DEF ToSession
  <2>2. c.rid = 0 /\ c.kind \notin Queries /\ c.kind # "failed"
    BY <1>1, <2>1 DEF Shape
  <2>3. QED
    BY <2>1, <2>2 DEF Routed
<1>9. CASE ToChannel(c)
  <2>1. c.to = "channel" /\ inbox' = Append(inbox, c) /\ UNCHANGED <<wsq, tmq>>
    BY <1>9 DEF ToChannel
  <2>2. Answering(c, c) /\ c.kind # "failed"
    BY <1>1, <2>1 DEF Answering, Shape
  <2>3. QED
    BY <2>1, <2>2 DEF Routed
<1>10. QED
  BY <1>3, <1>5, <1>6, <1>7, <1>8, <1>9

\* The kernel routes one output.
LEMMA DispatchKeeps ==
    ASSUME Matched, Dispatch, ~failed'
    PROVE  Matched'
<1> DEFINE c == Head(kq)
           n == Len(log)
           T == Values(pt)
<1>1. /\ kq # <<>> /\ kq' = Tail(kq)
      /\ UNCHANGED <<log, pw, pt, pc, pm>>
  BY DEF Dispatch
<1>2. Routed(c) /\ c.kind # "failed"
  BY DispatchRoutes
<1>3. /\ GoodQueue(kq, Addresses, n, T) /\ GoodQueue(wsq, {"workspace"}, n, T)
      /\ GoodQueue(tmq, {"terminal"}, n, T) /\ GoodQueue(inbox, {"channel"}, n, T)
      /\ Split(Rids(kq), Rids(wsq), Rids(tmq), Rids(inbox), T \cup Ids(pw))
  BY DEF Matched, QueuesGood
<1>4. /\ GoodQueue(kq', Addresses, n, T)
      /\ Rids(kq') = Rids(kq) \ {c.rid}
      /\ c.rid # 0 => c.rid \in Rids(kq)
      /\ c \in Messages /\ Shape(c) /\ c.of <= n
      /\ OfTerminal(c) => c.rid \in T
  BY <1>1, <1>3, GoodTail
<1>5. n \in Nat /\ 0 <= n
  BY PendingMade DEF Matched
<1>6. kq \in Seq(Messages) /\ kq' \in Seq(Messages) /\ inbox \in Seq(Messages)
  BY <1>3, <1>4 DEF GoodQueue
<1>7. Order("config", pc, inbox, kq) /\ Order("meta", pm, inbox, kq)
  BY DEF Matched, QueriesGood
<1>8. Ofs(kq', "failed") = Ofs(kq, "failed")
  <2>1. ASSUME NEW q \in Seq(Messages), q # <<>>, Head(q).kind # "failed"
        PROVE  Ofs(Tail(q), "failed") = Ofs(q, "failed")
    <3>1. /\ 1 \in 1..Len(q) /\ Head(q) = q[1]
          /\ \A i \in 1..Len(Tail(q)) : i + 1 \in 1..Len(q) /\ i \in Nat /\ Tail(q)[i] = q[i + 1]
          /\ \A i \in 1..Len(q) : i # 1 => \E j \in 1..Len(Tail(q)) : j + 1 = i /\ Tail(q)[j] = q[i]
      BY <2>1, TailParts
    <3>2. Ofs(Tail(q), "failed") \subseteq Ofs(q, "failed")
      BY <3>1 DEF Ofs
    <3>3. Ofs(q, "failed") \subseteq Ofs(Tail(q), "failed")
      BY <2>1, <3>1 DEF Ofs
    <3>4. QED
      BY <3>2, <3>3
  <2>2. QED
    BY <1>1, <1>2, <1>6, <2>1
<1>9. PendingGood'
  BY <1>1 DEF Matched, PendingGood
<1> HIDE DEF c
<1>10. 0 \notin Rids(kq) /\ 0 \notin Rids(tmq) /\ 0 \notin Rids(inbox) /\ 0 \notin Rids(wsq)
  BY DEF Rids
<1>11. CASE /\ \/ \E m : Answering(c, m) /\ inbox' = Append(inbox, m)
               \/ c.rid = 0 /\ c.kind \notin Queries /\ inbox' = inbox
            /\ wsq' = wsq
            /\ tmq' = tmq \/ \E z : ToTerminalOnly(z) /\ tmq' = Append(tmq, z)
  <2>1. GoodQueue(tmq', {"terminal"}, n, T) /\ Rids(tmq') = Rids(tmq)
    <3>1. CASE tmq' = tmq
      BY <1>3, <3>1
    <3>2. ASSUME NEW z, ToTerminalOnly(z), tmq' = Append(tmq, z)
          PROVE  GoodQueue(tmq', {"terminal"}, n, T) /\ Rids(tmq') = Rids(tmq)
      <4>1. z \in Messages /\ Shape(z) /\ z.to \in {"terminal"} /\ z.of <= n /\ z.rid = 0 /\ z.kind \notin Queries
        BY <1>5, <3>2 DEF ToTerminalOnly
      <4>2. GoodQueue(Append(tmq, z), {"terminal"}, n, T) /\ Rids(Append(tmq, z)) = Rids(tmq)
        BY <1>3, <4>1, QuietSend
      <4>3. QED
        BY <3>2, <4>2
    <3>3. QED
      BY <1>11, <3>1, <3>2
  <2>2. CASE c.rid = 0 /\ c.kind \notin Queries /\ inbox' = inbox
    <3>1. Rids(kq') = Rids(kq)
      BY <1>4, <1>10, <2>2
    <3>2. QueuesGood'
      BY <1>1, <1>3, <1>4, <1>11, <2>1, <2>2, <3>1 DEF QueuesGood
    <3>3. Order("config", pc, inbox, kq') /\ Order("meta", pm, inbox, kq')
      BY <1>1, <1>6, <1>7, <2>2, OrderOtherTaken DEF Queries, c
    <3>4. QueriesGood'
      BY <1>1, <2>2, <3>3 DEF QueriesGood
    <3>5. Backed'
      BY <1>1, <1>8, <1>11, <2>1, <2>2, <3>1 DEF Matched, Backed
    <3>6. QED
      BY <1>9, <3>2, <3>4, <3>5 DEF Matched
  <2>3. ASSUME NEW m, Answering(c, m), inbox' = Append(inbox, m)
        PROVE  Matched'
    <3>1. /\ m \in Messages /\ Shape(m) /\ m.to \in {"channel"} /\ m.of <= n
          /\ m.rid = c.rid /\ m.of = c.of
          /\ OfTerminal(m) => m.rid \in T
      BY <1>4, <2>3 DEF Answering
    <3>2. m.rid \notin Rids(inbox)
      BY <1>3, <1>4, <1>10, <3>1 DEF Split
    <3>3. GoodQueue(inbox', {"channel"}, n, T) /\ Rids(inbox') = Rids(inbox) \cup ({c.rid} \ {0})
      BY <1>3, <2>3, <3>1, <3>2, GoodAppend
    <3>4. QueuesGood'
      <4>1. Split(Rids(kq'), Rids(wsq), Rids(tmq), Rids(inbox'), T \cup Ids(pw))
        BY <1>3, <1>4, <3>3 DEF Split
      <4>2. QED
        BY <1>1, <1>3, <1>4, <1>11, <2>1, <3>3, <4>1 DEF QueuesGood
    <3>5. ASSUME NEW k \in Queries, NEW p, Order(k, p, inbox, kq)
          PROVE  Order(k, p, inbox', kq')
      <4>1. CASE c.kind = k
        <5>1. m.kind = k
          BY <2>3, <3>5, <4>1 DEF Answering
        <5>2. Order(k, p, Append(inbox, m), Tail(kq))
          BY <1>1, <1>6, <3>1, <3>5, <4>1, <5>1, OrderMove DEF c
        <5>3. QED
          BY <1>1, <2>3, <5>2
      <4>2. CASE c.kind # k
        <5>1. m.kind # k
          BY <2>3, <3>5, <4>2 DEF Answering
        <5>2. Order(k, p, inbox, kq')
          BY <1>1, <1>6, <3>5, <4>2, OrderOtherTaken DEF c
        <5>3. Order(k, p, Append(inbox, m), kq')
          BY <1>6, <3>1, <5>1, <5>2, OrderOtherSent
        <5>4. QED
          BY <2>3, <5>3
      <4>3. QED
        BY <4>1, <4>2
    <3>6. QueriesGood'
      BY <1>1, <1>7, <3>5 DEF QueriesGood, Queries
    <3>7. Backed'
      BY <1>1, <1>4, <1>8, <1>10, <1>11, <2>1, <3>3 DEF Matched, Backed
    <3>8. QED
      BY <1>9, <3>4, <3>6, <3>7 DEF Matched
  <2>4. QED
    BY <1>11, <2>2, <2>3
<1>12. ASSUME c.to \in {"workspace", "terminal"}, inbox' = inbox
       PROVE  QueriesGood'
  <2>1. c.kind \notin Queries
    BY <1>4, <1>12 DEF Shape
  <2>2. Order("config", pc, inbox, kq') /\ Order("meta", pm, inbox, kq')
    BY <1>1, <1>6, <1>7, <2>1, OrderOtherTaken DEF Queries, c
  <2>3. QED
    BY <1>1, <1>12, <2>2 DEF QueriesGood
<1>13. CASE c.to = "workspace" /\ wsq' = Append(wsq, c) /\ UNCHANGED <<tmq, inbox>>
  <2>1. c.rid \notin Rids(wsq)
    BY <1>3, <1>4, <1>10 DEF Split
  <2>2. GoodQueue(wsq', {"workspace"}, n, T) /\ Rids(wsq') = Rids(wsq) \cup ({c.rid} \ {0})
    BY <1>3, <1>4, <1>13, <2>1, GoodAppend
  <2>3. Split(Rids(kq'), Rids(wsq'), Rids(tmq), Rids(inbox), T \cup Ids(pw))
    BY <1>3, <1>4, <2>2 DEF Split
  <2>4. QueuesGood'
    BY <1>1, <1>3, <1>4, <1>13, <2>2, <2>3 DEF QueuesGood
  <2>5. Backed'
    BY <1>1, <1>4, <1>8, <1>10, <1>13, <2>2 DEF Matched, Backed
  <2>6. QED
    BY <1>9, <1>12, <1>13, <2>4, <2>5 DEF Matched
<1>14. CASE c.to = "terminal" /\ tmq' = Append(tmq, c) /\ UNCHANGED <<wsq, inbox>>
  <2>1. c.rid \notin Rids(tmq)
    BY <1>3, <1>4, <1>10 DEF Split
  <2>2. GoodQueue(tmq', {"terminal"}, n, T) /\ Rids(tmq') = Rids(tmq) \cup ({c.rid} \ {0})
    BY <1>3, <1>4, <1>14, <2>1, GoodAppend
  <2>3. Split(Rids(kq'), Rids(wsq), Rids(tmq'), Rids(inbox), T \cup Ids(pw))
    BY <1>3, <1>4, <2>2 DEF Split
  <2>4. QueuesGood'
    BY <1>1, <1>3, <1>4, <1>14, <2>2, <2>3 DEF QueuesGood
  <2>5. Backed'
    BY <1>1, <1>4, <1>8, <1>10, <1>14, <2>2 DEF Matched, Backed
  <2>6. QED
    BY <1>9, <1>12, <1>14, <2>4, <2>5 DEF Matched
<1>15. QED
  BY <1>2, <1>11, <1>13, <1>14 DEF Routed

\* The workspace answers, or reports that it cannot go on.
LEMMA WorkspaceKeeps ==
    ASSUME Matched, WorkspaceAnswers
    PROVE  Matched'
<1> DEFINE c == Head(wsq)
           n == Len(log)
           T == Values(pt)
           yes == Message("channel", "workspace", c.kind, c.rid, c.of)
           no == Message("kernel", "workspace", "failed", 0, c.of)
<1>1. /\ wsq # <<>> /\ wsq' = Tail(wsq) /\ UNCHANGED <<log, tmq, inbox, pw, pt, pc, pm>>
      /\ kq' = Append(kq, yes) \/ kq' = Append(kq, no)
  BY DEF WorkspaceAnswers
<1>2. /\ GoodQueue(kq, Addresses, n, T) /\ GoodQueue(wsq, {"workspace"}, n, T)
      /\ GoodQueue(tmq, {"terminal"}, n, T) /\ GoodQueue(inbox, {"channel"}, n, T)
      /\ Split(Rids(kq), Rids(wsq), Rids(tmq), Rids(inbox), T \cup Ids(pw))
  BY DEF Matched, QueuesGood
<1>3. /\ GoodQueue(wsq', {"workspace"}, n, T)
      /\ Rids(wsq') = Rids(wsq) \ {c.rid}
      /\ c.rid # 0 => c.rid \in Rids(wsq)
      /\ c \in Messages /\ Shape(c) /\ c.to \in {"workspace"} /\ c.of <= n
  BY <1>1, <1>2, GoodTail
<1>4. c.rid # 0 /\ c.rid \in Nat /\ c.of = c.rid /\ c.kind \notin Queries /\ c.kind # "output"
      /\ c.kind # "failed" /\ c.kind \in MessageKinds
  BY <1>3 DEF Shape, Messages
<1>5. PendingGood'
  BY <1>1 DEF Matched, PendingGood
<1>6. kq \in Seq(Messages) /\ inbox \in Seq(Messages)
  BY <1>2 DEF GoodQueue
<1>7. Order("config", pc, inbox, kq) /\ Order("meta", pm, inbox, kq)
  BY DEF Matched, QueriesGood
<1>8. /\ yes \in Messages /\ Shape(yes) /\ yes.kind = c.kind /\ yes.rid = c.rid /\ yes.of = c.of
      /\ ~OfTerminal(yes) /\ yes.to \in Addresses
  BY <1>4 DEF Message, Messages, Shape, Addresses, Services, OfTerminal
<1>9. /\ no \in Messages /\ Shape(no) /\ no.kind = "failed" /\ no.rid = 0 /\ no.of = c.of
      /\ ~OfTerminal(no) /\ no.to \in Addresses /\ no.kind \notin Queries
  BY <1>4 DEF Message, Messages, Shape, Addresses, Services, OfTerminal, MessageKinds, Queries
<1> HIDE DEF c, yes, no
<1>10. CASE kq' = Append(kq, yes)
  <2>1. yes.rid \notin Rids(kq)
    BY <1>2, <1>3, <1>4, <1>8 DEF Split
  <2>2. GoodQueue(kq', Addresses, n, T) /\ Rids(kq') = Rids(kq) \cup ({c.rid} \ {0})
    BY <1>2, <1>3, <1>8, <1>10, <2>1, GoodAppend
  <2>3. Split(Rids(kq'), Rids(wsq'), Rids(tmq), Rids(inbox), T \cup Ids(pw))
    BY <1>2, <1>3, <1>4, <2>2 DEF Split
  <2>4. QueuesGood'
    BY <1>1, <1>2, <1>3, <2>2, <2>3 DEF QueuesGood
  <2>5. Order("config", pc, inbox, kq') /\ Order("meta", pm, inbox, kq')
    BY <1>4, <1>6, <1>7, <1>8, <1>10, OrderOtherSent DEF Queries
  <2>6. QueriesGood'
    BY <1>1, <2>5 DEF QueriesGood
  <2>7. Ofs(kq, "failed") \subseteq Ofs(kq', "failed")
    BY <1>6, <1>8, <1>10, OfsAppend
  <2>8. Backed'
    BY <1>1, <1>3, <1>4, <2>2, <2>7 DEF Matched, Backed
  <2>9. QED
    BY <1>5, <2>4, <2>6, <2>8 DEF Matched
<1>11. CASE kq' = Append(kq, no)
  <2>1. /\ GoodQueue(kq', Addresses, n, T) /\ Rids(kq') = Rids(kq)
        /\ \A kind \in Queries : \A p : \A box \in Seq(Messages) :
             Order(kind, p, box, kq) => Order(kind, p, box, kq')
    BY <1>2, <1>3, <1>9, <1>11, QuietSend
  <2>2. Split(Rids(kq'), Rids(wsq'), Rids(tmq), Rids(inbox), T \cup Ids(pw))
    BY <1>2, <1>3, <2>1 DEF Split
  <2>3. QueuesGood'
    BY <1>1, <1>2, <1>3, <2>1, <2>2 DEF QueuesGood
  <2>4. QueriesGood'
    BY <1>1, <1>6, <1>7, <2>1 DEF QueriesGood, Queries
  <2>5. Ofs(kq', "failed") = Ofs(kq, "failed") \cup {c.rid}
    <3>1. Ofs(Append(kq, no), "failed") = Ofs(kq, "failed") \cup (IF no.kind = "failed" THEN {no.of} ELSE {})
      BY <1>6, <1>9, OfsAppend
    <3>2. QED
      BY <1>4, <1>9, <1>11, <3>1
  <2>6. Backed'
    BY <1>1, <1>3, <2>1, <2>5 DEF Matched, Backed
  <2>7. QED
    BY <1>5, <2>3, <2>4, <2>6 DEF Matched
<1>12. QED
  BY <1>1, <1>10, <1>11

\* The terminal answers a request, or what is none.
LEMMA TerminalKeeps ==
    ASSUME Matched, TerminalAnswers
    PROVE  Matched'
<1> DEFINE c == Head(tmq)
           n == Len(log)
           T == Values(pt)
           echo == Message("kernel", "terminal", "echo", 0, 0)
           yes == Message("channel", "terminal", "term", c.rid, c.of)
<1>1. /\ tmq # <<>> /\ tmq' = Tail(tmq) /\ UNCHANGED <<log, wsq, inbox, pw, pt, pc, pm>>
      /\ kq' = Append(kq, IF c.src = "kernel" THEN echo ELSE yes)
  BY DEF TerminalAnswers
<1>2. /\ GoodQueue(kq, Addresses, n, T) /\ GoodQueue(wsq, {"workspace"}, n, T)
      /\ GoodQueue(tmq, {"terminal"}, n, T) /\ GoodQueue(inbox, {"channel"}, n, T)
      /\ Split(Rids(kq), Rids(wsq), Rids(tmq), Rids(inbox), T \cup Ids(pw))
  BY DEF Matched, QueuesGood
<1>3. /\ GoodQueue(tmq', {"terminal"}, n, T)
      /\ Rids(tmq') = Rids(tmq) \ {c.rid}
      /\ c.rid # 0 => c.rid \in Rids(tmq)
      /\ c \in Messages /\ Shape(c) /\ c.to \in {"terminal"} /\ c.of <= n
      /\ OfTerminal(c) => c.rid \in T
  BY <1>1, <1>2, GoodTail
<1>4. /\ c.rid = 0 <=> c.src = "kernel"
      /\ c.rid \in Nat /\ c.of \in Nat /\ (c.rid # 0 => c.of = c.rid /\ c.rid \in T)
  BY <1>3 DEF Shape, Messages, OfTerminal
<1>5. PendingGood' /\ n \in Nat
  BY <1>1, PendingMade DEF Matched, PendingGood
<1>6. kq \in Seq(Messages) /\ inbox \in Seq(Messages)
  BY <1>2 DEF GoodQueue
<1>7. Order("config", pc, inbox, kq) /\ Order("meta", pm, inbox, kq)
  BY DEF Matched, QueriesGood
<1>8. /\ echo \in Messages /\ Shape(echo) /\ echo.rid = 0 /\ echo.of <= n
      /\ echo.kind \notin Queries /\ echo.to \in Addresses
  BY <1>5 DEF Message, Messages, Shape, Addresses, Services, MessageKinds, Queries
<1>9. ASSUME c.rid # 0
      PROVE  /\ yes \in Messages /\ Shape(yes) /\ yes.rid = c.rid /\ yes.of = c.of
             /\ yes.kind \notin Queries /\ yes.to \in Addresses /\ yes.kind # "failed"
  BY <1>4, <1>9 DEF Message, Messages, Shape, Addresses, Services, MessageKinds, Queries, Kinds
<1> HIDE DEF c, yes, echo
<1>10. CASE c.rid = 0
  <2>1. kq' = Append(kq, echo)
    BY <1>1, <1>4, <1>10
  <2>2. /\ GoodQueue(kq', Addresses, n, T) /\ Rids(kq') = Rids(kq)
        /\ Ofs(kq, "failed") \subseteq Ofs(kq', "failed")
        /\ \A kind \in Queries : \A p : \A box \in Seq(Messages) :
             Order(kind, p, box, kq) => Order(kind, p, box, kq')
    BY <1>2, <1>8, <2>1, QuietSend
  <2>3. Rids(tmq') = Rids(tmq)
    BY <1>3, <1>10 DEF Rids
  <2>4. QueuesGood'
    BY <1>1, <1>2, <1>3, <2>2, <2>3 DEF QueuesGood
  <2>5. QueriesGood'
    BY <1>1, <1>6, <1>7, <2>2 DEF QueriesGood, Queries
  <2>6. Backed'
    BY <1>1, <2>2, <2>3 DEF Matched, Backed
  <2>7. QED
    BY <1>5, <2>4, <2>5, <2>6 DEF Matched
<1>11. CASE c.rid # 0
  <2>1. kq' = Append(kq, yes)
    BY <1>1, <1>4, <1>11
  <2>2. yes.rid \notin Rids(kq)
    BY <1>2, <1>3, <1>9, <1>11 DEF Split
  <2>3. GoodQueue(kq', Addresses, n, T) /\ Rids(kq') = Rids(kq) \cup ({c.rid} \ {0})
    BY <1>2, <1>3, <1>4, <1>9, <1>11, <2>1, <2>2, GoodAppend
  <2>4. Split(Rids(kq'), Rids(wsq), Rids(tmq'), Rids(inbox), T \cup Ids(pw))
    BY <1>2, <1>3, <1>11, <2>3 DEF Split
  <2>5. QueuesGood'
    BY <1>1, <1>2, <1>3, <2>3, <2>4 DEF QueuesGood
  <2>6. Order("config", pc, inbox, kq') /\ Order("meta", pm, inbox, kq')
    BY <1>6, <1>7, <1>9, <1>11, <2>1, OrderOtherSent DEF Queries
  <2>7. QueriesGood'
    BY <1>1, <2>6 DEF QueriesGood
  <2>8. Ofs(kq, "failed") \subseteq Ofs(kq', "failed")
    BY <1>6, <1>9, <1>11, <2>1, OfsAppend
  <2>9. Backed'
    BY <1>1, <1>3, <1>11, <2>3, <2>8 DEF Matched, Backed
  <2>10. QED
    BY <1>5, <2>5, <2>7, <2>9 DEF Matched
<1>12. QED
  BY <1>10, <1>11

\* The messages of sessions and chunks of output.
LEMMA SessionMessages ==
    ASSUME ChannelAssumption, PendingGood, NEW s \in Sessions \cup Subagents
    PROVE  /\ \A kind \in {"event", "response", "error"} :
                LET m == Message("channel", s, kind, 0, 0)
                IN m \in Messages /\ Shape(m) /\ m.of <= Len(log) /\ m.rid = 0 /\ m.kind \notin Queries
                   /\ m.to \in Addresses
           /\ LET m == Message("kernel", s, "stopped", 0, 0)
              IN m \in Messages /\ Shape(m) /\ m.of <= Len(log) /\ m.rid = 0 /\ m.kind \notin Queries
                 /\ m.to \in Addresses
           /\ LET m == Message("channel", "terminal", "output", 0, 0)
              IN m \in Messages /\ Shape(m) /\ m.of <= Len(log) /\ m.rid = 0 /\ m.kind \notin Queries
<1>1. 0 <= Len(log)
  BY PendingMade
<1>2. s \notin {"kernel", "workspace", "terminal"}
  BY DEF ChannelAssumption
<1>3. ASSUME NEW kind \in {"event", "response", "error"}
      PROVE  LET m == Message("channel", s, kind, 0, 0)
             IN m \in Messages /\ Shape(m) /\ m.of <= Len(log) /\ m.rid = 0 /\ m.kind \notin Queries
                /\ m.to \in Addresses
  BY <1>1, <1>2 DEF Message, Messages, Shape, Addresses, Services, MessageKinds, Queries
<1>4. LET m == Message("kernel", s, "stopped", 0, 0)
      IN m \in Messages /\ Shape(m) /\ m.of <= Len(log) /\ m.rid = 0 /\ m.kind \notin Queries
         /\ m.to \in Addresses
  BY <1>1, <1>2 DEF Message, Messages, Shape, Addresses, Services, MessageKinds, Queries
<1>5. LET m == Message("channel", "terminal", "output", 0, 0)
      IN m \in Messages /\ Shape(m) /\ m.of <= Len(log) /\ m.rid = 0 /\ m.kind \notin Queries
  BY <1>1 DEF Message, Messages, Shape, Addresses, Services, MessageKinds, Queries
<1>6. QED
  BY <1>3, <1>4, <1>5

\* Sessions report and stop, and the terminal has output.
LEMMA SendersKeep ==
    ASSUME ChannelAssumption, Matched,
           TerminalOutput \/ SessionReports \/ \E s \in Sessions : SessionStops(s)
    PROVE  Matched'
<1>1. PendingGood
  BY DEF Matched
<1>2. CASE TerminalOutput
  <2> DEFINE m == Message("channel", "terminal", "output", 0, 0)
  <2>1. m \in Messages /\ Shape(m) /\ m.of <= Len(log) /\ m.rid = 0 /\ m.kind \notin Queries
    BY <1>1, SessionMessages DEF ChannelAssumption
  <2>2. UNCHANGED <<log, wsq, tmq, inbox, pw, pt, pc, pm>> /\ kq' = Append(kq, m)
    BY <1>2 DEF TerminalOutput
  <2> HIDE DEF m
  <2>3. QED
    BY <2>1, <2>2, QuietStep
<1>3. CASE SessionReports
  <2>1. PICK s \in Sessions \cup Subagents, kind \in {"event", "response", "error"} :
          kq' = Append(kq, Message("channel", s, kind, 0, 0))
    BY <1>3 DEF SessionReports
  <2> DEFINE m == Message("channel", s, kind, 0, 0)
  <2>2. m \in Messages /\ Shape(m) /\ m.of <= Len(log) /\ m.rid = 0 /\ m.kind \notin Queries
    BY <1>1, SessionMessages
  <2>3. UNCHANGED <<log, wsq, tmq, inbox, pw, pt, pc, pm>> /\ kq' = Append(kq, m)
    BY <1>3, <2>1 DEF SessionReports
  <2> HIDE DEF m
  <2>4. QED
    BY <2>2, <2>3, QuietStep
<1>4. ASSUME NEW s \in Sessions, SessionStops(s)
      PROVE  Matched'
  <2> DEFINE a == Message("channel", s, "response", 0, 0)
             b == Message("kernel", s, "stopped", 0, 0)
             n == Len(log)
             T == Values(pt)
             mid == Append(kq, a)
  <2>1. /\ a \in Messages /\ Shape(a) /\ a.of <= n /\ a.rid = 0 /\ a.kind \notin Queries /\ a.to \in Addresses
        /\ b \in Messages /\ Shape(b) /\ b.of <= n /\ b.rid = 0 /\ b.kind \notin Queries /\ b.to \in Addresses
    BY <1>1, SessionMessages
  <2>2. UNCHANGED <<log, wsq, tmq, inbox, pw, pt, pc, pm>> /\ kq' = kq \o <<a, b>>
    BY <1>4 DEF SessionStops
  <2> HIDE DEF a, b
  <2>3. GoodQueue(kq, Addresses, n, T) /\ kq \in Seq(Messages) /\ inbox \in Seq(Messages)
    BY DEF Matched, QueuesGood, GoodQueue
  <2>4. kq' = Append(mid, b)
    BY <2>1, <2>2, <2>3
  <2>5. /\ GoodQueue(mid, Addresses, n, T) /\ Rids(mid) = Rids(kq)
        /\ Ofs(kq, "failed") \subseteq Ofs(mid, "failed")
        /\ \A kind \in Queries : \A p : \A box \in Seq(Messages) :
             Order(kind, p, box, kq) => Order(kind, p, box, mid)
    BY <2>1, <2>3, QuietSend
  <2> HIDE DEF mid
  <2>6. /\ GoodQueue(kq', Addresses, n, T) /\ Rids(kq') = Rids(mid)
        /\ Ofs(mid, "failed") \subseteq Ofs(kq', "failed")
        /\ \A kind \in Queries : \A p : \A box \in Seq(Messages) :
             Order(kind, p, box, mid) => Order(kind, p, box, kq')
    BY <2>1, <2>4, <2>5, QuietSend
  <2>7. QueuesGood'
    BY <2>2, <2>5, <2>6 DEF Matched, QueuesGood
  <2>8. PendingGood'
    BY <2>2 DEF Matched, PendingGood
  <2>9. QueriesGood'
    BY <2>2, <2>3, <2>5, <2>6 DEF Matched, QueriesGood, Queries
  <2>10. Backed'
    BY <2>2, <2>5, <2>6 DEF Matched, Backed
  <2>11. QED
    BY <2>7, <2>8, <2>9, <2>10 DEF Matched
<1>5. QED
  BY <1>2, <1>3, <1>4

\* The first message of the inbox: when it carries an id, the id is pending.
LEMMA InboxHead ==
    ASSUME Matched, inbox # <<>>, NEW r, r = Head(inbox)
    PROVE  /\ r \in Messages /\ r.rid \in Nat /\ r.of \in Nat /\ r.of <= Len(log)
           /\ r.rid # 0 => r.of = r.rid /\ r.kind \notin Queries /\ r.kind # "output"
                           /\ r.rid \in Values(pt) \cup Ids(pw)
           /\ r.src = "terminal" => (r.rid = 0 /\ r.kind = "output") \/ r.rid \in Values(pt)
           /\ r.src = "workspace" => r.rid # 0
           /\ 0 \notin Values(pt) \cup Ids(pw)
           /\ ToSet(pt) = Values(pt) /\ {p.id : p \in ToSet(pw)} = Ids(pw)
<1> DEFINE n == Len(log)
           T == Values(pt)
<1>1. GoodQueue(inbox, {"channel"}, n, T)
  BY DEF Matched, QueuesGood
<1>2. /\ r \in Messages /\ Shape(r) /\ r.to \in {"channel"} /\ r.of <= n
      /\ r.rid # 0 => r.rid \in Rids(inbox)
      /\ OfTerminal(r) => r.rid \in T
  BY <1>1, GoodTail
<1>3. Rids(inbox) \subseteq T \cup Ids(pw)
  BY DEF Matched, QueuesGood, Split
<1>4. 0 \notin T \cup Ids(pw)
  BY PendingMade DEF Matched
<1>5. ToSet(pt) = T
  <2>1. pt \in Seq(1..n)
    BY DEF Matched, PendingGood
  <2>2. QED
    BY <2>1 DEF ToSet, Values
<1>6. {p.id : p \in ToSet(pw)} = Ids(pw)
  <2>1. pw \in Seq(Entries(n))
    BY DEF Matched, PendingGood
  <2>2. ToSet(pw) = {pw[i] : i \in 1..Len(pw)}
    BY <2>1 DEF ToSet
  <2>3. QED
    BY <2>2 DEF Ids
<1>7. /\ r.rid \in Nat /\ r.of \in Nat
  BY <1>2 DEF Messages
<1>8. /\ r.rid # 0 => r.of = r.rid /\ r.kind \notin Queries /\ r.kind # "output"
      /\ r.src = "terminal" => (r.rid = 0 /\ r.kind = "output") \/ r.rid \in T
      /\ r.src = "workspace" => r.rid # 0
  BY <1>2 DEF Shape, OfTerminal
<1>9. QED
  BY <1>2, <1>3, <1>4, <1>5, <1>6, <1>7, <1>8

\* The queues when the first message of the inbox is taken, and with it what
\* was pending under its id.
LEMMA TakenLeaves ==
    ASSUME Matched, inbox # <<>>, NEW x, x = Head(inbox).rid,
           NEW T, T = Values(pt) \ {x}, NEW I, I = Ids(pw) \ {x}
    PROVE  /\ GoodQueue(kq, Addresses, Len(log), T)
           /\ GoodQueue(wsq, {"workspace"}, Len(log), T)
           /\ GoodQueue(tmq, {"terminal"}, Len(log), T)
           /\ GoodQueue(Tail(inbox), {"channel"}, Len(log), T)
           /\ Split(Rids(kq), Rids(wsq), Rids(tmq), Rids(Tail(inbox)), T \cup I)
           /\ T \cup I \subseteq Rids(kq) \cup Rids(wsq) \cup Rids(tmq) \cup Rids(Tail(inbox)) \cup Ofs(kq, "failed")
<1> DEFINE n == Len(log)
           V == Values(pt)
<1>1. /\ GoodQueue(kq, Addresses, n, V) /\ GoodQueue(wsq, {"workspace"}, n, V)
      /\ GoodQueue(tmq, {"terminal"}, n, V) /\ GoodQueue(inbox, {"channel"}, n, V)
      /\ Split(Rids(kq), Rids(wsq), Rids(tmq), Rids(inbox), V \cup Ids(pw))
  BY DEF Matched, QueuesGood
<1>2. /\ GoodQueue(Tail(inbox), {"channel"}, n, V) /\ Rids(Tail(inbox)) = Rids(inbox) \ {x}
      /\ x # 0 => x \in Rids(inbox)
  BY <1>1, GoodTail
<1>3. n \in Nat /\ 0 \notin V \cup Ids(pw)
  BY PendingMade DEF Matched
<1>4. x \notin Rids(kq) /\ x \notin Rids(wsq) /\ x \notin Rids(tmq) /\ x \notin Rids(Tail(inbox))
  BY <1>1, <1>2, <1>3 DEF Split
<1>5. Split(Rids(kq), Rids(wsq), Rids(tmq), Rids(Tail(inbox)), T \cup I)
  BY <1>1, <1>2, <1>4 DEF Split
<1>6. T \cup I \subseteq Rids(kq) \cup Rids(wsq) \cup Rids(tmq) \cup Rids(Tail(inbox)) \cup Ofs(kq, "failed")
  BY <1>2 DEF Matched, Backed
<1> HIDE DEF n, V
<1>7. n <= n
  BY <1>3
<1>8. V = Values(pt)
  BY DEF V
<1>9. /\ \A y \in V : y \in T \/ y \notin Rids(kq)
      /\ \A y \in V : y \in T \/ y \notin Rids(wsq)
      /\ \A y \in V : y \in T \/ y \notin Rids(tmq)
      /\ \A y \in V : y \in T \/ y \notin Rids(Tail(inbox))
  BY <1>4, <1>8
<1>10. GoodQueue(kq, Addresses, n, T)
  BY <1>1, <1>3, <1>7, <1>9, GoodStays
<1>11. GoodQueue(wsq, {"workspace"}, n, T)
  BY <1>1, <1>3, <1>7, <1>9, GoodStays
<1>12. GoodQueue(tmq, {"terminal"}, n, T)
  BY <1>1, <1>3, <1>7, <1>9, GoodStays
<1>13. GoodQueue(Tail(inbox), {"channel"}, n, T)
  BY <1>2, <1>3, <1>7, <1>9, GoodStays
<1>14. QED
  BY <1>5, <1>6, <1>10, <1>11, <1>12, <1>13 DEF n

\* A terminal's response is taken for the request it answers, and a chunk of
\* output for none.
LEMMA TerminalTaken ==
    ASSUME Matched, AnswerIsOwn, Handle, NEW r, r = Head(inbox),
           ReadAs(r, "terminal", ToSet(pt)), TerminalResponse(r)
    PROVE  Matched' /\ AnswerIsOwn'
<1> DEFINE x == r.rid
           n == Len(log)
<1>1. inbox # <<>> /\ inbox' = Tail(inbox) /\ UNCHANGED <<log, wsq, tmq>>
  BY DEF Handle
<1>2. UNCHANGED <<pw, pc, pm, kq>>
  BY DEF TerminalResponse
<1>3. /\ x \in Nat /\ (x # 0 => r.of = x /\ r.kind \notin Queries /\ r.kind # "output")
      /\ r.src = "terminal" => (x = 0 /\ r.kind = "output") \/ x \in Values(pt)
      /\ 0 \notin Values(pt) \cup Ids(pw) /\ ToSet(pt) = Values(pt)
  BY <1>1, InboxHead
<1>4. (x = 0 /\ r.kind = "output") \/ (x # 0 /\ x \in Values(pt))
  BY <1>3 DEF ReadAs
<1>5. r.kind \notin Queries
  BY <1>3, <1>4 DEF Queries
<1>6. PendingGood /\ Values(pt) \cap Ids(pw) = {} /\ n \in Nat
  BY PendingMade DEF Matched, PendingGood
<1>7. /\ PendingGood' /\ Values(pt') = Values(pt) \ {x} /\ AnswerIsOwn'
  <2>1. CASE x = 0 /\ r.kind = "output"
    <3>1. PopTerminal(r) = 0
      BY <2>1 DEF PopTerminal
    <3>2. UNCHANGED <<pt, answers>>
      BY <3>1 DEF TerminalResponse
    <3>3. QED
      BY <1>1, <1>2, <1>3, <1>6, <2>1, <3>2 DEF PendingGood, AnswerIsOwn, Values
  <2>2. CASE x # 0 /\ x \in Values(pt)
    <3>1. PICK i \in 1..Len(pt) : PopTerminal(r) = i /\ pt[i] = x
      BY <1>3, <1>6, <2>2, TerminalFound
    <3>2. i # 0
      OBVIOUS
    <3>3. pt' = RemoveAt(pt, i) /\ answers' = answers \cup {[id |-> x, of |-> r.of]}
      BY <3>1, <3>2 DEF TerminalResponse
    <3>4. AnswerIsOwn'
      BY <1>3, <2>2, <3>3 DEF AnswerIsOwn
    <3>5. pt \in Seq(1..n) /\ Increasing(pt)
      BY <1>6 DEF PendingGood
    <3>6. pt' \in Seq(1..n) /\ Increasing(pt') /\ Values(pt') = Values(pt) \ {x}
      BY <1>6, <3>1, <3>3, <3>5, RemoveNumber
    <3>7. PendingGood'
      BY <1>1, <1>2, <1>6, <3>6 DEF PendingGood
    <3>8. QED
      BY <3>4, <3>6, <3>7
  <2>3. QED
    BY <1>4, <2>1, <2>2
<1>8. Ids(pw) = Ids(pw) \ {x}
  BY <1>3, <1>4, <1>6
<1> DEFINE T == Values(pt) \ {x}
           I == Ids(pw) \ {x}
<1>9. /\ GoodQueue(kq, Addresses, n, T) /\ GoodQueue(wsq, {"workspace"}, n, T)
      /\ GoodQueue(tmq, {"terminal"}, n, T) /\ GoodQueue(Tail(inbox), {"channel"}, n, T)
      /\ Split(Rids(kq), Rids(wsq), Rids(tmq), Rids(Tail(inbox)), T \cup I)
      /\ T \cup I \subseteq Rids(kq) \cup Rids(wsq) \cup Rids(tmq) \cup Rids(Tail(inbox)) \cup Ofs(kq, "failed")
  BY <1>1, TakenLeaves
<1>10. T = Values(pt') /\ I = Ids(pw') /\ n = Len(log')
  BY <1>1, <1>2, <1>7, <1>8
<1> HIDE DEF T, I, n, x
<1>11. QueuesGood'
  BY <1>1, <1>2, <1>9, <1>10 DEF QueuesGood
<1>12. Backed'
  BY <1>1, <1>2, <1>9, <1>10 DEF Backed
<1>13. Order("config", pc, inbox, kq) /\ Order("meta", pm, inbox, kq)
       /\ inbox \in Seq(Messages) /\ kq \in Seq(Messages)
  BY DEF Matched, QueriesGood, QueuesGood, GoodQueue
<1>14. Order("config", pc, Tail(inbox), kq) /\ Order("meta", pm, Tail(inbox), kq)
  BY <1>1, <1>5, <1>13, OrderOtherTaken DEF Queries
<1>15. QueriesGood'
  BY <1>1, <1>2, <1>14 DEF QueriesGood
<1>16. QED
  BY <1>7, <1>11, <1>12, <1>15 DEF Matched

\* A response of the workspace's, or the kernel's for it, is taken for the
\* request it answers: a file is shown, a message goes on to its session.
LEMMA WorkspaceTaken ==
    ASSUME Matched, AnswerIsOwn, Handle, NEW r, r = Head(inbox),
           ~ReadAs(r, "terminal", ToSet(pt)),
           ReadAs(r, "workspace", {p.id : p \in ToSet(pw)}), WorkspaceResponse(r)
    PROVE  Matched' /\ AnswerIsOwn'
<1> DEFINE x == r.rid
           n == Len(log)
           T == Values(pt) \ {x}
           I == Ids(pw) \ {x}
           on == Message("agent", "channel", "data", 0, x)
           off == Message("kernel", "channel", "failed", 0, 0)
<1>1. inbox # <<>> /\ inbox' = Tail(inbox) /\ UNCHANGED <<log, wsq, tmq>>
  BY DEF Handle
<1>2. UNCHANGED <<pt, pc, pm>>
  BY DEF WorkspaceResponse
<1>3. /\ x \in Nat /\ (x # 0 => r.of = x /\ r.kind \notin Queries /\ x \in Values(pt) \cup Ids(pw))
      /\ r.src = "workspace" => x # 0
      /\ 0 \notin Values(pt) \cup Ids(pw)
      /\ ToSet(pt) = Values(pt) /\ {p.id : p \in ToSet(pw)} = Ids(pw)
  BY <1>1, InboxHead
<1>4. x # 0 /\ x \in Ids(pw) /\ x \notin Values(pt)
  BY <1>3 DEF ReadAs
<1>5. PendingGood /\ n \in Nat /\ x <= n
  BY <1>4, PendingMade DEF Matched
<1>6. PICK i \in 1..Len(pw) : PopWorkspace(r) = i /\ pw[i].id = x /\ i # 0
  BY <1>4, <1>5, WorkspaceFound
<1>7. /\ pw' = RemoveAt(pw, i)
      /\ \/ kq' = kq /\ answers' = answers \cup {[id |-> x, of |-> r.of]}
         \/ (kq' = Append(kq, on) \/ kq' = Append(kq, off)) /\ answers' = answers
  BY <1>6 DEF WorkspaceResponse
<1>8. AnswerIsOwn'
  BY <1>3, <1>4, <1>7 DEF AnswerIsOwn
<1>9. PendingGood' /\ Ids(pw') = I
  <2>1. pw \in Seq(Entries(n)) /\ Growing(pw)
    BY <1>5 DEF PendingGood
  <2>2. pw' \in Seq(Entries(n)) /\ Growing(pw') /\ Ids(pw') = Ids(pw) \ {x}
    BY <1>5, <1>6, <1>7, <2>1, RemoveEntry
  <2>3. QED
    BY <1>1, <1>2, <1>5, <2>2 DEF PendingGood
<1>10. /\ GoodQueue(kq, Addresses, n, T) /\ GoodQueue(wsq, {"workspace"}, n, T)
       /\ GoodQueue(tmq, {"terminal"}, n, T) /\ GoodQueue(Tail(inbox), {"channel"}, n, T)
       /\ Split(Rids(kq), Rids(wsq), Rids(tmq), Rids(Tail(inbox)), T \cup I)
       /\ T \cup I \subseteq Rids(kq) \cup Rids(wsq) \cup Rids(tmq) \cup Rids(Tail(inbox)) \cup Ofs(kq, "failed")
  BY <1>1, TakenLeaves
<1>11. T = Values(pt') /\ I = Ids(pw') /\ n = Len(log')
  BY <1>1, <1>2, <1>4, <1>9
<1>12. Order("config", pc, inbox, kq) /\ Order("meta", pm, inbox, kq)
       /\ inbox \in Seq(Messages) /\ kq \in Seq(Messages)
  BY DEF Matched, QueriesGood, QueuesGood, GoodQueue
<1>13. Order("config", pc, Tail(inbox), kq) /\ Order("meta", pm, Tail(inbox), kq)
  BY <1>1, <1>3, <1>4, <1>12, OrderOtherTaken DEF Queries
<1>14. /\ on \in Messages /\ Shape(on) /\ on.to \in Addresses /\ on.of <= n /\ on.rid = 0
       /\ on.kind \notin Queries
  BY <1>3, <1>5 DEF Message, Messages, Shape, Addresses, Services, MessageKinds, Queries, Kinds
<1>15. /\ off \in Messages /\ Shape(off) /\ off.to \in Addresses /\ off.of <= n /\ off.rid = 0
       /\ off.kind \notin Queries
  BY <1>5 DEF Message, Messages, Shape, Addresses, Services, MessageKinds, Queries
<1>16. Tail(inbox) \in Seq(Messages)
  BY <1>10 DEF GoodQueue
<1> HIDE DEF T, I, n, x, on, off
<1>17. /\ GoodQueue(kq', Addresses, n, T) /\ Rids(kq') = Rids(kq)
       /\ Ofs(kq, "failed") \subseteq Ofs(kq', "failed")
       /\ Order("config", pc, Tail(inbox), kq') /\ Order("meta", pm, Tail(inbox), kq')
  <2>1. CASE kq' = kq
    BY <1>10, <1>13, <2>1
  <2>2. ASSUME NEW m \in {on, off}, kq' = Append(kq, m)
        PROVE  /\ GoodQueue(kq', Addresses, n, T) /\ Rids(kq') = Rids(kq)
               /\ Ofs(kq, "failed") \subseteq Ofs(kq', "failed")
               /\ \A kind \in Queries : \A p : \A box \in Seq(Messages) :
                    Order(kind, p, box, kq) => Order(kind, p, box, kq')
    <3>1. /\ m \in Messages /\ Shape(m) /\ m.to \in Addresses /\ m.of <= n /\ m.rid = 0
          /\ m.kind \notin Queries
      BY <1>14, <1>15
    <3>2. QED
      BY <1>10, <2>2, <3>1, QuietSend
  <2>3. CASE kq' # kq
    BY <1>7, <1>13, <1>16, <2>2, <2>3 DEF Queries
  <2>4. QED
    BY <2>1, <2>3
<1>18. QueuesGood'
  BY <1>1, <1>10, <1>11, <1>17 DEF QueuesGood
<1>19. Backed'
  BY <1>1, <1>10, <1>11, <1>17 DEF Backed
<1>20. QueriesGood'
  BY <1>1, <1>2, <1>17 DEF QueriesGood
<1>21. QED
  BY <1>8, <1>9, <1>18, <1>19, <1>20 DEF Matched

\* Anything else carries no id: an answer of the kernel's to a query belongs to
\* the oldest pending one, and the rest is only shown.
LEMMA OtherTaken ==
    ASSUME Matched, AnswerIsOwn, Handle, NEW r, r = Head(inbox),
           ~ReadAs(r, "terminal", ToSet(pt)),
           ~ReadAs(r, "workspace", {p.id : p \in ToSet(pw)}),
           \/ r.kind = "event" /\ SessionEvent(r)
           \/ r.kind = "config" /\ ConfigResponse(r)
           \/ r.kind = "meta" /\ MetadataResponse(r)
           \/ r.kind = "error" /\ ShowError
           \/ r.kind \in {"created", "updated", "response"} /\ ShowOnly
    PROVE  Matched' /\ AnswerIsOwn'
<1> DEFINE x == r.rid
           n == Len(log)
           T == Values(pt) \ {x}
           I == Ids(pw) \ {x}
<1>1. inbox # <<>> /\ inbox' = Tail(inbox) /\ UNCHANGED <<log, wsq, tmq>>
  BY DEF Handle
<1>2. UNCHANGED <<pw, pt, kq>>
  BY DEF SessionEvent, ConfigResponse, MetadataResponse, ShowError, ShowOnly
<1>3. /\ x # 0 => x \in Values(pt) \cup Ids(pw)
      /\ 0 \notin Values(pt) \cup Ids(pw)
      /\ ToSet(pt) = Values(pt) /\ {p.id : p \in ToSet(pw)} = Ids(pw)
  BY <1>1, InboxHead
<1>4. x \notin Values(pt) \cup Ids(pw)
  BY <1>3 DEF ReadAs
<1>5. PendingGood'
  BY <1>1, <1>2 DEF Matched, PendingGood
<1>6. /\ GoodQueue(kq, Addresses, n, T) /\ GoodQueue(wsq, {"workspace"}, n, T)
      /\ GoodQueue(tmq, {"terminal"}, n, T) /\ GoodQueue(Tail(inbox), {"channel"}, n, T)
      /\ Split(Rids(kq), Rids(wsq), Rids(tmq), Rids(Tail(inbox)), T \cup I)
      /\ T \cup I \subseteq Rids(kq) \cup Rids(wsq) \cup Rids(tmq) \cup Rids(Tail(inbox)) \cup Ofs(kq, "failed")
  BY <1>1, TakenLeaves
<1>7. T = Values(pt') /\ I = Ids(pw') /\ n = Len(log')
  BY <1>1, <1>2, <1>4
<1> HIDE DEF T, I, n, x
<1>8. QueuesGood'
  BY <1>1, <1>2, <1>6, <1>7 DEF QueuesGood
<1>9. Backed'
  BY <1>1, <1>2, <1>6, <1>7 DEF Backed
<1>10. Order("config", pc, inbox, kq) /\ Order("meta", pm, inbox, kq)
       /\ inbox \in Seq(Messages) /\ kq \in Seq(Messages)
  BY DEF Matched, QueriesGood, QueuesGood, GoodQueue
<1>11. QueriesGood' /\ AnswerIsOwn'
  <2>1. CASE r.kind = "config"
    <3>1. /\ pc # <<>> /\ Head(pc) = r.of
          /\ Order("config", Tail(pc), Tail(inbox), kq) /\ Order("meta", pm, Tail(inbox), kq)
      BY <1>1, <1>10, <2>1, OrderTake, OrderOtherTaken
    <3>2. pc' = Tail(pc) /\ pm' = pm /\ answers' = answers \cup {[id |-> Head(pc), of |-> r.of]}
      BY <2>1, <3>1 DEF ConfigResponse
    <3>3. QED
      BY <1>1, <1>2, <3>1, <3>2 DEF QueriesGood, AnswerIsOwn
  <2>2. CASE r.kind = "meta"
    <3>1. /\ pm # <<>> /\ Head(pm) = r.of
          /\ Order("meta", Tail(pm), Tail(inbox), kq) /\ Order("config", pc, Tail(inbox), kq)
      BY <1>1, <1>10, <2>2, OrderTake, OrderOtherTaken
    <3>2. pm' = Tail(pm) /\ pc' = pc /\ answers' = answers \cup {[id |-> Head(pm), of |-> r.of]}
      BY <2>2, <3>1 DEF MetadataResponse
    <3>3. QED
      BY <1>1, <1>2, <3>1, <3>2 DEF QueriesGood, AnswerIsOwn
  <2>3. CASE r.kind \notin Queries
    <3>1. Order("config", pc, Tail(inbox), kq) /\ Order("meta", pm, Tail(inbox), kq)
      BY <1>1, <1>10, <2>3, OrderOtherTaken DEF Queries
    <3>2. UNCHANGED <<pc, pm, answers>>
      BY <2>3 DEF SessionEvent, ShowError, ShowOnly, Queries
    <3>3. QED
      BY <1>1, <1>2, <3>1, <3>2 DEF QueriesGood, AnswerIsOwn
  <2>4. QED
    BY <2>1, <2>2, <2>3 DEF Queries
<1>12. QED
  BY <1>5, <1>8, <1>9, <1>11 DEF Matched

\* The channel takes one message.
LEMMA HandleKeeps ==
    ASSUME Matched, AnswerIsOwn, Handle
    PROVE  Matched' /\ AnswerIsOwn'
<1> DEFINE r == Head(inbox)
           forTerminal == ReadAs(r, "terminal", ToSet(pt))
           forWorkspace == ReadAs(r, "workspace", {p.id : p \in ToSet(pw)})
<1>1. \/ forTerminal /\ TerminalResponse(r)
      \/ ~forTerminal /\ forWorkspace /\ WorkspaceResponse(r)
      \/ /\ ~forTerminal /\ ~forWorkspace
         /\ \/ r.kind = "event" /\ SessionEvent(r)
            \/ r.kind = "config" /\ ConfigResponse(r)
            \/ r.kind = "meta" /\ MetadataResponse(r)
            \/ r.kind = "error" /\ ShowError
            \/ r.kind \in {"created", "updated", "response"} /\ ShowOnly
  BY DEF Handle
<1>2. QED
  BY <1>1, TerminalTaken, WorkspaceTaken, OtherTaken

\* At first nothing is pending and nothing on its way.
LEMMA MatchInit ==
    ASSUME Init
    PROVE  MatchInv
<1>1. /\ log = <<>> /\ kq = <<>> /\ wsq = <<>> /\ tmq = <<>> /\ inbox = <<>>
      /\ pw = <<>> /\ pt = <<>> /\ pc = <<>> /\ pm = <<>> /\ answers = {}
  BY DEF Init
<1>2. 1..Len(<<>>) = {}
  OBVIOUS
<1>3. Rids(<<>>) = {} /\ Ids(<<>>) = {} /\ Values(<<>>) = {}
  BY <1>2 DEF Rids, Ids, Values
<1>4. \A kind : Ofs(<<>>, kind) = {} /\ Grows(<<>>, kind)
  BY <1>2 DEF Ofs, Grows
<1>5. \A to : \A n : \A T : GoodQueue(<<>>, to, n, T)
  BY <1>2 DEF GoodQueue, Apart
<1>6. QueuesGood
  BY <1>1, <1>3, <1>5 DEF QueuesGood, Split
<1>7. PendingGood
  BY <1>1, <1>2, <1>3 DEF PendingGood, Increasing, Growing
<1>8. QueriesGood
  <2>1. {(<<>>)[i] : i \in 1..Len(<<>>)} = {}
    BY <1>2
  <2>2. Increasing(<<>>)
    BY <1>2 DEF Increasing
  <2>3. \A kind : Order(kind, <<>>, <<>>, <<>>)
    BY <1>4, <2>1, <2>2 DEF Order
  <2>4. QED
    BY <1>1, <2>3 DEF QueriesGood
<1>9. Backed
  BY <1>1, <1>3 DEF Backed
<1>10. QED
  BY <1>1, <1>6, <1>7, <1>8, <1>9 DEF MatchInv, Matched, AnswerIsOwn

\* Only what the channel handles shows an answer.
LEMMA AnswersStay ==
    ASSUME Next, ~Handle
    PROVE  answers' = answers
BY DEF Next, Service, Ingress, Dispatch, WorkspaceAnswers, TerminalAnswers, TerminalOutput, SessionReports,
       SessionStops, Stop

\* Every step keeps the matching.
LEMMA MatchStep ==
    ASSUME ChannelAssumption, MatchInv, [Next]_vars
    PROVE  MatchInv'
<1>1. CASE UNCHANGED vars
  <2>1. UNCHANGED <<log, kq, wsq, tmq, inbox, pw, pt, pc, pm, answers, failed>>
    BY <1>1 DEF vars
  <2>2. AnswerIsOwn'
    BY <2>1 DEF MatchInv, AnswerIsOwn
  <2>3. ~failed => Matched'
    BY <2>1 DEF MatchInv, Matched, QueuesGood, PendingGood, QueriesGood, Backed
  <2>4. QED
    BY <2>1, <2>2, <2>3 DEF MatchInv
<1>2. CASE Next
  <2>1. ~failed
    BY <1>2 DEF Next, Service, Ingress, Dispatch, WorkspaceAnswers, TerminalAnswers, TerminalOutput,
              SessionReports, SessionStops, Stop, Handle
  <2>2. Matched /\ AnswerIsOwn
    BY <2>1 DEF MatchInv
  <2>3. AnswerIsOwn'
    <3>1. CASE Handle
      BY <2>2, <3>1, HandleKeeps
    <3>2. CASE ~Handle
      BY <1>2, <2>2, <3>2, AnswersStay DEF AnswerIsOwn
    <3>3. QED
      BY <3>1, <3>2
  <2>4. ASSUME ~failed' PROVE Matched'
    <3>1. ~Stop
      BY <2>4 DEF Stop
    <3>2. CASE Ingress
      BY <2>2, <3>2, IngressKeeps
    <3>3. CASE Dispatch
      BY <2>2, <2>4, <3>3, DispatchKeeps
    <3>4. CASE WorkspaceAnswers
      BY <2>2, <3>4, WorkspaceKeeps
    <3>5. CASE TerminalAnswers
      BY <2>2, <3>5, TerminalKeeps
    <3>6. CASE Handle
      BY <2>2, <3>6, HandleKeeps
    <3>7. CASE TerminalOutput \/ SessionReports \/ \E s \in Sessions : SessionStops(s)
      BY <2>2, <3>7, SendersKeep
    <3>8. QED
      BY <1>2, <3>1, <3>2, <3>3, <3>4, <3>5, <3>6, <3>7 DEF Next, Service
  <2>5. QED
    BY <2>3, <2>4 DEF MatchInv
<1>3. QED
  BY <1>1, <1>2

\* A pending request is on its way: its call, its answer or the report of the
\* failure that ends the kernel.
LEMMA MatchedIsBacked ==
    ASSUME MatchInv
    PROVE  PendingIsBacked
<1> SUFFICES ASSUME ~failed
             PROVE  {p.id : p \in ToSet(pw)} \cup ToSet(pt) \cup ToSet(pc) \cup ToSet(pm) \subseteq InTransit
  BY DEF PendingIsBacked
<1>1. Matched
  BY DEF MatchInv
<1>2. /\ kq \in Seq(Messages) /\ wsq \in Seq(Messages) /\ tmq \in Seq(Messages) /\ inbox \in Seq(Messages)
  BY <1>1 DEF Matched, QueuesGood, GoodQueue
<1>3. ASSUME NEW q \in {kq, wsq, tmq, inbox}, NEW i \in 1..Len(q)
      PROVE  q[i].of \in InTransit /\ (q[i].rid # 0 => q[i].rid = q[i].of)
  <2>1. q[i] \in ToSet(q)
    BY <1>2 DEF ToSet
  <2>2. q[i].of \in InTransit
    BY <2>1 DEF InTransit
  <2>3. Shape(q[i])
    BY <1>1 DEF Matched, QueuesGood, GoodQueue
  <2>4. QED
    BY <2>2, <2>3 DEF Shape
<1>4. /\ Rids(kq) \subseteq InTransit /\ Rids(wsq) \subseteq InTransit
      /\ Rids(tmq) \subseteq InTransit /\ Rids(inbox) \subseteq InTransit
  BY <1>3 DEF Rids
<1>5. \A kind : Ofs(kq, kind) \subseteq InTransit /\ Ofs(inbox, kind) \subseteq InTransit
  BY <1>3 DEF Ofs
<1>6. /\ pt \in Seq(1..Len(log)) /\ pw \in Seq(Entries(Len(log))) /\ pc \in Seq(Nat) /\ pm \in Seq(Nat)
  BY <1>1 DEF Matched, PendingGood, QueriesGood, Order
<1>7. /\ ToSet(pt) = Values(pt) /\ ToSet(pc) = Values(pc) /\ ToSet(pm) = Values(pm)
      /\ ToSet(pw) = {pw[i] : i \in 1..Len(pw)}
  BY <1>6 DEF ToSet, Values
<1>8. {p.id : p \in ToSet(pw)} = Ids(pw)
  BY <1>7 DEF Ids
<1>9. Values(pt) \cup Ids(pw) \subseteq InTransit
  BY <1>1, <1>4, <1>5 DEF Matched, Backed
<1>10. /\ Values(pc) = Ofs(inbox, "config") \cup Ofs(kq, "config")
       /\ Values(pm) = Ofs(inbox, "meta") \cup Ofs(kq, "meta")
  BY <1>1 DEF Matched, QueriesGood, Order, Values
<1>11. QED
  BY <1>5, <1>7, <1>8, <1>9, <1>10

\* It holds in every state.
LEMMA MatchAlways ==
    ASSUME ChannelAssumption
    PROVE  Spec => []MatchInv
<1>1. Init => MatchInv
  BY MatchInit
<1>2. MatchInv /\ [Next]_vars => MatchInv'
  BY MatchStep
<1>3. QED
  BY <1>1, <1>2, PTL DEF Spec

\* Whatever the platform asks for, in whatever order the kernel, the services
\* and the sessions run, and whichever services are not running: the event with
\* a request's id carries the answer to this request (handle_channel_request,
\* pop_pending_workspace, pop_pending_terminal and the two queues of queries).
THEOREM AnswersAlwaysOwn ==
    ASSUME ChannelAssumption
    PROVE  Spec => []AnswerIsOwn
<1>1. MatchInv => AnswerIsOwn
  BY DEF MatchInv
<1>2. Spec => []MatchInv
  BY MatchAlways
<1>3. QED
  BY <1>1, <1>2, PTL

\* While the conversation runs, what the channel waits for is on its way: none
\* of its four queues keeps an entry that a later response could be taken for.
THEOREM PendingAlwaysBacked ==
    ASSUME ChannelAssumption
    PROVE  Spec => []PendingIsBacked
<1>1. MatchInv => PendingIsBacked
  BY MatchedIsBacked
<1>2. Spec => []MatchInv
  BY MatchAlways
<1>3. QED
  BY <1>1, <1>2, PTL

-----------------------------------------------------------------------------
(* Messages reach their sessions once and in order.  A message without     *)
(* data: files goes straight to its session.  One with such files is a     *)
(* call to the workspace, an answer and a call to the session; from the    *)
(* session back to the channel, its stations hold growing requests.        *)

\* The requests of a kind of messages to an address, and that they grow.
At(q, to, kind) == {q[i].of : i \in {j \in 1..Len(q) : q[j].to = to /\ q[j].kind = kind}}

Rises(q, to, kind) ==
    \A i, j \in 1..Len(q) :
        i < j /\ q[i].to = to /\ q[i].kind = kind /\ q[j].to = to /\ q[j].kind = kind => q[i].of < q[j].of

Posts == {"plain", "data"}

\* The same for what the sessions have taken.
Taken(kind) == {agent[i] : i \in {j \in 1..Len(agent) : log[agent[j]].kind = kind}}

TakenRises(kind) ==
    \A i, j \in 1..Len(agent) :
        i < j /\ log[agent[i]].kind = kind /\ log[agent[j]].kind = kind => agent[i] < agent[j]

Before(A, B) == \A a \in A, b \in B : a < b

Chain(A, B, C, D, E, F) ==
    /\ Before(A, B \cup C \cup D \cup E \cup F) /\ Before(B, C \cup D \cup E \cup F)
    /\ Before(C, D \cup E \cup F) /\ Before(D, E \cup F) /\ Before(E, F)

PlainLine == Before(Taken("plain"), At(kq, "agent", "plain"))

DataLine ==
    Chain(Taken("data"), At(kq, "agent", "data"), At(inbox, "channel", "data"), At(kq, "channel", "data"),
          At(wsq, "workspace", "data"), At(kq, "workspace", "data"))

Rising ==
    /\ TakenRises("plain") /\ TakenRises("data")
    /\ Rises(kq, "agent", "plain") /\ Rises(kq, "agent", "data")
    /\ Rises(inbox, "channel", "data") /\ Rises(kq, "channel", "data")
    /\ Rises(wsq, "workspace", "data") /\ Rises(kq, "workspace", "data")

\* Such a message is about a request of its kind.
IsPost(x, kind) == x \in 1..Len(log) /\ log[x].kind = kind

Logged ==
    /\ \A x \in At(kq, "agent", "plain") : IsPost(x, "plain")
    /\ \A x \in At(kq, "agent", "data") \cup At(inbox, "channel", "data") \cup At(kq, "channel", "data")
                  \cup At(wsq, "workspace", "data") \cup At(kq, "workspace", "data") : IsPost(x, "data")

AgentGood ==
    /\ agent \in Seq(1..Len(log))
    /\ \A i \in 1..Len(agent) : log[agent[i]].kind \in Posts

Lines == AgentGood /\ Rising /\ PlainLine /\ DataLine /\ Logged

\* The requests of messages to an address when a message is sent.
LEMMA AtAppend ==
    ASSUME NEW q \in Seq(Messages), NEW m \in Messages, NEW to, NEW kind
    PROVE  /\ m.to = to /\ m.kind = kind => At(Append(q, m), to, kind) = At(q, to, kind) \cup {m.of}
           /\ ~(m.to = to /\ m.kind = kind) => At(Append(q, m), to, kind) = At(q, to, kind)
           /\ Rises(q, to, kind) /\ (m.to = to /\ m.kind = kind => \A a \in At(q, to, kind) : a < m.of)
                => Rises(Append(q, m), to, kind)
<1> DEFINE longer == Append(q, m)
<1>1. /\ Len(q) \in Nat /\ Len(longer) = Len(q) + 1
      /\ 1..Len(longer) = (1..Len(q)) \cup {Len(q) + 1}
      /\ \A i \in 1..Len(q) : longer[i] = q[i]
      /\ longer[Len(q) + 1] = m
  BY AppendParts
<1> HIDE DEF longer
<1>2. /\ m.to = to /\ m.kind = kind => At(longer, to, kind) = At(q, to, kind) \cup {m.of}
      /\ ~(m.to = to /\ m.kind = kind) => At(longer, to, kind) = At(q, to, kind)
  BY <1>1 DEF At
<1>3. ASSUME Rises(q, to, kind), m.to = to /\ m.kind = kind => \A a \in At(q, to, kind) : a < m.of
      PROVE  Rises(longer, to, kind)
  <2>1. \A i \in 1..Len(q) : q[i].to = to /\ q[i].kind = kind => q[i].of \in At(q, to, kind)
    BY DEF At
  <2>2. \A i \in 1..Len(q) : ~(Len(q) + 1 < i)
    BY <1>1
  <2>3. ~(Len(q) + 1 < Len(q) + 1)
    BY <1>1
  <2>4. QED
    BY <1>1, <1>3, <2>1, <2>2, <2>3 DEF Rises
<1>4. QED
  BY <1>2, <1>3 DEF longer

\* A message joins those to its address.
LEMMA AtJoin ==
    ASSUME NEW q \in Seq(Messages), NEW m \in Messages, Rises(q, m.to, m.kind),
           \A a \in At(q, m.to, m.kind) : a < m.of
    PROVE  /\ At(Append(q, m), m.to, m.kind) = At(q, m.to, m.kind) \cup {m.of}
           /\ Rises(Append(q, m), m.to, m.kind)
BY AtAppend

\* The same when the first message is taken: it was about the smallest.
LEMMA AtTail ==
    ASSUME NEW q \in Seq(Messages), q # <<>>, NEW to, NEW kind
    PROVE  /\ At(Tail(q), to, kind) \subseteq At(q, to, kind)
           /\ Rises(q, to, kind) => Rises(Tail(q), to, kind)
           /\ Head(q).to = to /\ Head(q).kind = kind
                => /\ At(q, to, kind) = At(Tail(q), to, kind) \cup {Head(q).of}
                   /\ Rises(q, to, kind) => \A a \in At(Tail(q), to, kind) : Head(q).of < a
<1> DEFINE rest == Tail(q)
           first == Head(q)
<1>1. /\ Len(q) \in Nat /\ 1 \in 1..Len(q) /\ first = q[1]
      /\ \A i \in 1..Len(rest) : i + 1 \in 1..Len(q) /\ i \in Nat /\ rest[i] = q[i + 1]
      /\ \A i \in 1..Len(q) : i # 1 => \E j \in 1..Len(rest) : j + 1 = i /\ rest[j] = q[i]
  BY TailParts
<1> HIDE DEF rest, first
<1>2. \A i \in 1..Len(rest) : 1 < i + 1
  OBVIOUS
<1>3. ASSUME Rises(q, to, kind) PROVE Rises(rest, to, kind)
  <2>1. SUFFICES ASSUME NEW i \in 1..Len(rest), NEW j \in 1..Len(rest), i < j,
                        rest[i].to = to, rest[i].kind = kind, rest[j].to = to, rest[j].kind = kind
                 PROVE  rest[i].of < rest[j].of
    BY DEF Rises
  <2>2. i + 1 < j + 1
    BY <2>1
  <2>3. /\ i + 1 \in 1..Len(q) /\ rest[i] = q[i + 1]
        /\ j + 1 \in 1..Len(q) /\ rest[j] = q[j + 1]
    BY <1>1
  <2>4. q[i + 1].of < q[j + 1].of
    BY <1>3, <2>1, <2>2, <2>3 DEF Rises
  <2>5. QED
    BY <2>3, <2>4
<1>4. At(rest, to, kind) \subseteq At(q, to, kind)
  BY <1>1 DEF At
<1>5. ASSUME first.to = to, first.kind = kind
      PROVE  At(q, to, kind) = At(rest, to, kind) \cup {first.of}
  <2>1. At(q, to, kind) \subseteq At(rest, to, kind) \cup {first.of}
    BY <1>1 DEF At
  <2>2. first.of \in At(q, to, kind)
    BY <1>1, <1>5 DEF At
  <2>3. QED
    BY <1>4, <2>1, <2>2
<1>6. ASSUME first.to = to, first.kind = kind, Rises(q, to, kind)
      PROVE  \A a \in At(rest, to, kind) : first.of < a
  BY <1>1, <1>2, <1>6 DEF At, Rises
<1>7. QED
  BY <1>3, <1>4, <1>5, <1>6 DEF rest, first

\* A queue p holds no message of a user's that queue q does not hold, in its
\* order.
Smaller(q, p) ==
    \A to : \A kind \in Posts :
        At(p, to, kind) \subseteq At(q, to, kind) /\ (Rises(q, to, kind) => Rises(p, to, kind))

\* Taking a message, or sending one that is none of a user's, does so.
LEMMA SmallerQueues ==
    ASSUME NEW q \in Seq(Messages)
    PROVE  /\ Smaller(q, q)
           /\ q # <<>> => Smaller(q, Tail(q))
           /\ \A m \in Messages : m.kind \notin Posts => Smaller(q, Append(q, m))
<1>1. Smaller(q, q)
  BY DEF Smaller
<1>2. ASSUME q # <<>> PROVE Smaller(q, Tail(q))
  BY <1>2, AtTail DEF Smaller
<1>3. ASSUME NEW m \in Messages, m.kind \notin Posts PROVE Smaller(q, Append(q, m))
  <2>1. ASSUME NEW to, NEW kind \in Posts
        PROVE  /\ At(Append(q, m), to, kind) = At(q, to, kind)
               /\ Rises(q, to, kind) => Rises(Append(q, m), to, kind)
    <3>1. ~(m.to = to /\ m.kind = kind)
      BY <1>3
    <3>2. QED
      BY <3>1, AtAppend
  <2>2. QED
    BY <2>1 DEF Smaller
<1>4. QED
  BY <1>1, <1>2, <1>3

\* A step that sends no message of a user's on.
LEMMA LinesShrink ==
    ASSUME Lines, UNCHANGED <<log, agent>>,
           Smaller(kq, kq'), Smaller(wsq, wsq'), Smaller(inbox, inbox')
    PROVE  Lines'
<1>1. AgentGood' /\ TakenRises("plain")' /\ TakenRises("data")'
      /\ Taken("plain")' = Taken("plain") /\ Taken("data")' = Taken("data")
  BY DEF Lines, AgentGood, Rising, TakenRises, Taken
<1>2. \A to : /\ At(kq', to, "plain") \subseteq At(kq, to, "plain")
              /\ At(kq', to, "data") \subseteq At(kq, to, "data")
              /\ At(wsq', to, "data") \subseteq At(wsq, to, "data")
              /\ At(inbox', to, "data") \subseteq At(inbox, to, "data")
  BY DEF Smaller, Posts
<1>3. Rising'
  BY <1>1 DEF Lines, Rising, Smaller, Posts
<1>4. PlainLine'
  BY <1>1, <1>2 DEF Lines, PlainLine, Before
<1>5. DataLine'
  <2>1. Chain(Taken("data"), At(kq, "agent", "data"), At(inbox, "channel", "data"), At(kq, "channel", "data"),
              At(wsq, "workspace", "data"), At(kq, "workspace", "data"))
    BY DEF Lines, DataLine
  <2>2. Chain(Taken("data"), At(kq', "agent", "data"), At(inbox', "channel", "data"), At(kq', "channel", "data"),
              At(wsq', "workspace", "data"), At(kq', "workspace", "data"))
    BY <1>2, <2>1 DEF Chain, Before
  <2>3. QED
    BY <1>1, <2>2 DEF DataLine
<1>6. Logged'
  BY <1>2 DEF Lines, Logged, IsPost
<1>7. QED
  BY <1>1, <1>3, <1>4, <1>5, <1>6 DEF Lines

\* What the steps below use of the queues and the log.
LEMMA QueuesTyped ==
    ASSUME Matched
    PROVE  /\ kq \in Seq(Messages) /\ wsq \in Seq(Messages) /\ inbox \in Seq(Messages)
           /\ Len(log) \in Nat
           /\ \A i \in 1..Len(wsq) : wsq[i].to = "workspace"
           /\ \A i \in 1..Len(inbox) : inbox[i].to = "channel"
BY PendingMade DEF Matched, QueuesGood, GoodQueue

\* The channel passes on an input: a message joins the end of its line.
LEMMA IngressLines ==
    ASSUME Matched, Lines, Ingress
    PROVE  Lines'
<1>1. PICK kind \in Kinds, session \in Sessions \cup {"none"}, path \in Paths :
        /\ log' = Append(log, [kind |-> kind, session |-> ForegroundTarget(session), path |-> path])
        /\ kq' = Append(kq, Message(Target(kind), "channel", kind, CallId(kind, Len(log) + 1), Len(log) + 1))
  BY DEF Ingress
<1>2. UNCHANGED <<wsq, inbox, agent>>
  BY DEF Ingress
<1> DEFINE n == Len(log)
           id == n + 1
           m == Message(Target(kind), "channel", kind, CallId(kind, id), id)
           entry == [kind |-> kind, session |-> ForegroundTarget(session), path |-> path]
           S == [kind : Kinds, session : Sessions \cup {ChannelId}, path : Paths]
<1>3. kq \in Seq(Messages) /\ n \in Nat /\ id \in Nat /\ id # 0
  BY QueuesTyped
<1>4. m \in Messages /\ m.kind = kind /\ m.of = id
  BY <1>3, CallShape
<1>5. m.to = Target(kind)
  BY DEF Message
<1>6. kind = "plain" => m.to = "agent"
  BY <1>5 DEF Target
<1>7. kind = "data" => m.to = "workspace"
  BY <1>5 DEF Target
<1>8. Len(log') = id /\ log'[id].kind = kind /\ \A x \in 1..n : x \in 1..Len(log') /\ log'[x] = log[x]
  <2>1. log \in Seq(S)
    BY DEF Matched, PendingGood
  <2>2. log' = Append(log, entry)
    BY <1>1
  <2>3. entry.kind = kind
    OBVIOUS
  <2>4. entry \in S
    BY DEF ForegroundTarget
  <2> HIDE DEF entry, S
  <2>5. QED
    BY <2>1, <2>2, <2>3, <2>4, AppendParts
<1>9. kq' = Append(kq, m)
  BY <1>1
<1> HIDE DEF m, entry, n, id
<1>10. id \in 1..Len(log') /\ \A x \in 1..n : x < id
  BY <1>3, <1>8 DEF id, n
<1>11. AgentGood /\ Rising /\ PlainLine /\ DataLine /\ Logged
  BY DEF Lines
<1>12. /\ \A i \in 1..Len(agent) : agent[i] \in 1..n /\ log'[agent[i]] = log[agent[i]]
       /\ agent \in Seq(1..n)
  BY <1>8, <1>11 DEF AgentGood, n
<1>13. AgentGood'
  <2>1. 1..n \subseteq 1..Len(log')
    BY <1>8
  <2>2. agent \in Seq(1..Len(log'))
    BY <1>12, <2>1, SeqWider
  <2>3. QED
    BY <1>2, <1>11, <1>12, <2>2 DEF AgentGood
<1>14. /\ \A k : Taken(k)' = Taken(k) /\ Taken(k) \subseteq 1..n
       /\ TakenRises("plain")' /\ TakenRises("data")'
  <2>1. \A k : Taken(k)' = Taken(k)
    BY <1>2, <1>12 DEF Taken
  <2>2. \A k : Taken(k) \subseteq 1..n
    BY <1>12 DEF Taken
  <2>3. TakenRises("plain")' /\ TakenRises("data")'
    BY <1>2, <1>11, <1>12 DEF Rising, TakenRises
  <2>4. QED
    BY <2>1, <2>2, <2>3
<1> DEFINE P == At(kq, "agent", "plain")
           B == At(kq, "agent", "data")
           C == At(inbox, "channel", "data")
           D == At(kq, "channel", "data")
           E == At(wsq, "workspace", "data")
           F == At(kq, "workspace", "data")
<1>15. P \subseteq 1..n /\ B \subseteq 1..n /\ C \subseteq 1..n /\ D \subseteq 1..n /\ E \subseteq 1..n /\ F \subseteq 1..n
  BY <1>11 DEF Logged, IsPost, n
<1>16. /\ IF kind = "plain" THEN At(kq', "agent", "plain") = P \cup {id} ELSE At(kq', "agent", "plain") = P
       /\ Rises(kq', "agent", "plain")
  <2>1. Rises(kq, "agent", "plain") /\ \A a \in P : a < m.of
    BY <1>4, <1>10, <1>11, <1>15 DEF Rising
  <2>2. /\ m.to = "agent" /\ m.kind = "plain" => At(Append(kq, m), "agent", "plain") = P \cup {m.of}
        /\ ~(m.to = "agent" /\ m.kind = "plain") => At(Append(kq, m), "agent", "plain") = P
        /\ Rises(Append(kq, m), "agent", "plain")
    BY <1>3, <1>4, <2>1, AtAppend
  <2>3. QED
    BY <1>4, <1>6, <1>9, <2>2
<1>17. /\ IF kind = "data" THEN At(kq', "workspace", "data") = F \cup {id} ELSE At(kq', "workspace", "data") = F
       /\ Rises(kq', "workspace", "data")
  <2>1. Rises(kq, "workspace", "data") /\ \A a \in F : a < m.of
    BY <1>4, <1>10, <1>11, <1>15 DEF Rising
  <2>2. /\ m.to = "workspace" /\ m.kind = "data" => At(Append(kq, m), "workspace", "data") = F \cup {m.of}
        /\ ~(m.to = "workspace" /\ m.kind = "data") => At(Append(kq, m), "workspace", "data") = F
        /\ Rises(Append(kq, m), "workspace", "data")
    BY <1>3, <1>4, <2>1, AtAppend
  <2>3. QED
    BY <1>4, <1>7, <1>9, <2>2
<1>18. /\ At(kq', "agent", "data") = B /\ At(kq', "channel", "data") = D
       /\ Rises(kq', "agent", "data") /\ Rises(kq', "channel", "data")
  <2>1. ~(m.to = "agent" /\ m.kind = "data") /\ ~(m.to = "channel" /\ m.kind = "data")
    BY <1>4, <1>7
  <2>2. QED
    BY <1>3, <1>4, <1>9, <1>11, <2>1, AtAppend DEF Rising
<1>19. Rising'
  BY <1>2, <1>11, <1>14, <1>16, <1>17, <1>18 DEF Rising
<1>20. PlainLine'
  BY <1>10, <1>11, <1>14, <1>16 DEF PlainLine, Before
<1>21. Chain(Taken("data"), B, C, D, E, F)
  BY <1>11 DEF DataLine
<1>22. Logged'
  <2>1. \A x \in P : x \in 1..Len(log') /\ log'[x].kind = "plain"
    BY <1>8, <1>11 DEF Logged, IsPost, n
  <2>2. \A x \in B \cup C \cup D \cup E \cup F : x \in 1..Len(log') /\ log'[x].kind = "data"
    BY <1>8, <1>11 DEF Logged, IsPost, n
  <2>3. id \in 1..Len(log') /\ log'[id].kind = kind
    BY <1>8, <1>10
  <2>4. \A x \in At(kq', "agent", "plain") : IsPost(x, "plain")'
    BY <1>16, <2>1, <2>3 DEF IsPost
  <2>5. \A x \in B \cup C \cup D \cup E \cup At(kq', "workspace", "data") : x \in 1..Len(log') /\ log'[x].kind = "data"
    BY <1>17, <2>2, <2>3
  <2>6. QED
    BY <1>2, <1>18, <2>4, <2>5 DEF Logged, IsPost
<1>23. Chain(Taken("data"), B, C, D, E, F \cup {id})
  <2> DEFINE A == Taken("data")
  <2>1. A \subseteq 1..n
    BY <1>14
  <2> HIDE DEF A, B, C, D, E, F
  <2>2. Before(A, {id}) /\ Before(B, {id}) /\ Before(C, {id}) /\ Before(D, {id}) /\ Before(E, {id})
    BY <1>10, <1>15, <2>1 DEF Before
  <2>3. Chain(A, B, C, D, E, F)
    BY <1>21 DEF A
  <2>4. Chain(A, B, C, D, E, F \cup {id})
    BY <2>2, <2>3 DEF Chain, Before
  <2>5. QED
    BY <2>4 DEF A
<1>24. DataLine'
  <2>1. CASE kind = "data"
    BY <1>2, <1>14, <1>17, <1>18, <1>23, <2>1 DEF DataLine
  <2>2. CASE kind # "data"
    BY <1>2, <1>14, <1>17, <1>18, <1>21, <2>2 DEF DataLine
  <2>3. QED
    BY <2>1, <2>2
<1>25. QED
  BY <1>13, <1>19, <1>20, <1>22, <1>24 DEF Lines

\* The workspace answers: a message moves back to the channel.
LEMMA WorkspaceLines ==
    ASSUME Matched, Lines, WorkspaceAnswers
    PROVE  Lines'
<1> DEFINE c == Head(wsq)
           yes == Message("channel", "workspace", c.kind, c.rid, c.of)
           no == Message("kernel", "workspace", "failed", 0, c.of)
<1>1. /\ wsq # <<>> /\ wsq' = Tail(wsq) /\ UNCHANGED <<log, agent, inbox>>
      /\ kq' = Append(kq, yes) \/ kq' = Append(kq, no)
  BY DEF WorkspaceAnswers
<1>2. /\ kq \in Seq(Messages) /\ wsq \in Seq(Messages) /\ inbox \in Seq(Messages)
      /\ \A i \in 1..Len(wsq) : wsq[i].to = "workspace"
  BY QueuesTyped
<1>3. c \in Messages /\ c.to = "workspace"
  <2>1. c \in Messages /\ c = wsq[1] /\ 1 \in 1..Len(wsq)
    BY <1>1, <1>2, TailParts
  <2>2. QED
    BY <1>2, <2>1
<1>4. /\ yes \in Messages /\ yes.to = "channel" /\ yes.kind = c.kind /\ yes.of = c.of
      /\ no \in Messages /\ no.kind \notin Posts
  BY <1>3 DEF Message, Messages, Addresses, Services, MessageKinds, Posts
<1> HIDE DEF c, yes, no
<1>5. CASE c.kind \notin Posts \/ kq' = Append(kq, no)
  <2>1. Smaller(kq, kq')
    BY <1>1, <1>2, <1>4, <1>5, SmallerQueues
  <2>2. Smaller(wsq, wsq') /\ Smaller(inbox, inbox')
    BY <1>1, <1>2, SmallerQueues
  <2>3. QED
    BY <1>1, <2>1, <2>2, LinesShrink
<1>6. CASE c.kind \in Posts /\ kq' = Append(kq, yes)
  <2> DEFINE x == c.of
             A == Taken("data")
             B == At(kq, "agent", "data")
             C == At(inbox, "channel", "data")
             D == At(kq, "channel", "data")
             E == At(wsq, "workspace", "data")
             F == At(kq, "workspace", "data")
             D2 == At(kq', "channel", "data")
             E2 == At(wsq', "workspace", "data")
  <2>1. AgentGood /\ Rising /\ PlainLine /\ Chain(A, B, C, D, E, F) /\ Logged
    BY DEF Lines, DataLine
  <2>2. /\ At(kq', "agent", "plain") = At(kq, "agent", "plain") /\ Rises(kq', "agent", "plain")
        /\ At(kq', "agent", "data") = B /\ Rises(kq', "agent", "data")
        /\ At(kq', "workspace", "data") = F /\ Rises(kq', "workspace", "data")
    <3>1. yes.to # "agent" /\ yes.to # "workspace"
      BY <1>4
    <3>2. QED
      BY <1>2, <1>4, <1>6, <2>1, <3>1, AtAppend DEF Rising
  <2>3. E2 \subseteq E /\ Rises(wsq', "workspace", "data")
    BY <1>1, <1>2, <2>1, AtTail DEF Rising
  <2>4. Chain(A, B, C, D2, E2, F) /\ D2 \subseteq D \cup E /\ Rises(kq', "channel", "data")
    <3>1. CASE c.kind = "data"
      <4>1. /\ At(wsq, "workspace", "data") = At(Tail(wsq), "workspace", "data") \cup {x}
            /\ \A a \in At(Tail(wsq), "workspace", "data") : x < a
        BY <1>1, <1>2, <1>3, <2>1, <3>1, AtTail DEF c, Rising
      <4>2. E = E2 \cup {x} /\ Before({x}, E2)
        BY <1>1, <4>1 DEF Before
      <4>3. /\ \A a \in At(kq, "channel", "data") : a < yes.of
            /\ yes.to = "channel" /\ yes.kind = "data" /\ Rises(kq, "channel", "data")
        BY <1>4, <2>1, <3>1, <4>2 DEF Chain, Before, Rising
      <4>4. /\ At(Append(kq, yes), "channel", "data") = D \cup {yes.of}
            /\ Rises(Append(kq, yes), "channel", "data")
        BY <1>2, <1>4, <4>3, AtJoin
      <4>5. D2 = D \cup {x} /\ Rises(kq', "channel", "data")
        BY <1>4, <1>6, <4>4
      <4> HIDE DEF A, B, C, D, E, F, D2, E2, x
      <4>6. Chain(A, B, C, D2, E2, F)
        BY <2>1, <4>2, <4>5 DEF Chain, Before
      <4>7. QED
        BY <4>2, <4>5, <4>6
    <3>2. CASE c.kind # "data"
      <4>1. D2 = D /\ Rises(kq', "channel", "data")
        BY <1>2, <1>4, <1>6, <2>1, <3>2, AtAppend DEF Rising
      <4> HIDE DEF A, B, C, D, E, F, D2, E2, x
      <4>2. QED
        BY <2>1, <2>3, <4>1 DEF Chain, Before
    <3>3. QED
      BY <3>1, <3>2
  <2>5. AgentGood' /\ TakenRises("plain")' /\ TakenRises("data")'
        /\ Taken("plain")' = Taken("plain") /\ Taken("data")' = Taken("data")
    BY <1>1, <2>1 DEF AgentGood, Rising, TakenRises, Taken
  <2>6. DataLine'
    BY <1>1, <2>2, <2>4, <2>5 DEF DataLine
  <2>7. Rising'
    BY <1>1, <2>1, <2>2, <2>3, <2>4, <2>5 DEF Rising
  <2>8. PlainLine'
    BY <2>1, <2>2, <2>5 DEF PlainLine
  <2>9. Logged'
    BY <1>1, <2>1, <2>2, <2>3, <2>4 DEF Logged, IsPost
  <2>10. QED
    BY <2>5, <2>6, <2>7, <2>8, <2>9 DEF Lines
<1>7. QED
  BY <1>1, <1>5, <1>6

\* The kernel does one thing with a message of a user's: it passes a call on to
\* the workspace, an answer to the channel, a message to its session, or answers
\* with an error, or ends.
LEMMA DispatchPosts ==
    ASSUME Matched, Dispatch, NEW c, c = Head(kq)
    PROVE  /\ kq # <<>> /\ kq' = Tail(kq) /\ UNCHANGED log /\ c \in Messages
           /\ \/ c.to = "workspace" /\ wsq' = Append(wsq, c) /\ UNCHANGED <<inbox, agent>>
              \/ c.to = "channel" /\ inbox' = Append(inbox, c) /\ UNCHANGED <<wsq, agent>>
              \/ c.to = "agent" /\ c.kind \in Posts /\ agent' = Append(agent, c.of) /\ UNCHANGED <<wsq, inbox>>
              \/ /\ UNCHANGED <<wsq, agent>>
                 /\ inbox' = inbox \/ \E m \in Messages : m.kind \notin Posts /\ inbox' = Append(inbox, m)
<1>1. kq # <<>> /\ kq' = Tail(kq) /\ UNCHANGED log
  BY DEF Dispatch
<1>2. kq \in Seq(Messages)
  BY QueuesTyped
<1>3. c \in Messages
  BY <1>1, <1>2, TailParts
<1>4. \A kind \in Queries \cup {"created", "updated", "error"} :
        LET m == Message("channel", "kernel", kind, c.rid, c.of)
        IN m \in Messages /\ m.kind \notin Posts
  BY <1>3 DEF Message, Messages, Addresses, Services, MessageKinds, Kinds, Queries, Posts
<1>5. (c.to = "kernel" /\ (KernelCall(c) \/ KernelNotice(c))) \/ ToService(c) \/ ToSession(c) \/ ToChannel(c)
  BY DEF Dispatch
<1>6. CASE KernelFails
  BY <1>1, <1>3, <1>6 DEF KernelFails
<1>7. CASE KernelCall(c) /\ ~KernelFails
  <2>1. CASE c.kind = "create" /\ CreateSession(c)
    BY <1>1, <1>3, <1>4, <2>1 DEF CreateSession
  <2>2. CASE ~(c.kind = "create" /\ CreateSession(c))
    BY <1>1, <1>3, <1>4, <1>7, <2>2 DEF KernelCall, Queries
  <2>3. QED
    BY <2>1, <2>2
<1>8. CASE KernelNotice(c) /\ ~KernelFails
  BY <1>1, <1>3, <1>8 DEF KernelNotice
<1>9. CASE ToService(c)
  BY <1>1, <1>3, <1>4, <1>9 DEF ToService, Services
<1>10. CASE ToSession(c) /\ ~KernelFails
  BY <1>1, <1>3, <1>10 DEF ToSession, Posts, sessions
<1>11. CASE ToChannel(c)
  BY <1>1, <1>3, <1>11 DEF ToChannel
<1>12. QED
  BY <1>5, <1>6, <1>7, <1>8, <1>9, <1>10, <1>11

\* A session takes the next message.
LEMMA TakenAppend ==
    ASSUME AgentGood, Len(log) \in Nat, UNCHANGED log, NEW x \in 1..Len(log), NEW kind \in Posts, log[x].kind = kind,
           agent' = Append(agent, x), NEW k
    PROVE  /\ AgentGood'
           /\ IF k = kind THEN Taken(k)' = Taken(k) \cup {x} ELSE Taken(k)' = Taken(k)
           /\ TakenRises(k) /\ (k = kind => Before(Taken(k), {x})) => TakenRises(k)'
<1> DEFINE S == 1..Len(log)
           longer == Append(agent, x)
<1>1. agent \in Seq(S)
  BY DEF AgentGood
<1>2. /\ longer \in Seq(S) /\ Len(agent) \in Nat /\ Len(longer) = Len(agent) + 1
      /\ 1..Len(longer) = (1..Len(agent)) \cup {Len(agent) + 1}
      /\ \A i \in 1..Len(agent) : longer[i] = agent[i]
      /\ longer[Len(agent) + 1] = x
  BY <1>1, AppendParts
<1>3. agent' = longer /\ log' = log
  OBVIOUS
<1> HIDE DEF longer
<1>4. AgentGood'
  <2>1. \A i \in 1..Len(longer) : log[longer[i]].kind \in Posts
    BY <1>2 DEF AgentGood
  <2>2. longer \in Seq(1..Len(log))
    BY <1>2
  <2>3. QED
    BY <1>3, <2>1, <2>2 DEF AgentGood
<1>5. IF k = kind THEN Taken(k)' = Taken(k) \cup {x} ELSE Taken(k)' = Taken(k)
  <2>1. Taken(k)' = {longer[i] : i \in {j \in 1..Len(longer) : log[longer[j]].kind = k}}
    BY <1>3 DEF Taken
  <2>2. CASE k = kind
    BY <1>2, <2>1, <2>2 DEF Taken
  <2>3. CASE k # kind
    BY <1>2, <2>1, <2>3 DEF Taken
  <2>4. QED
    BY <2>2, <2>3
<1>6. ASSUME TakenRises(k), k = kind => Before(Taken(k), {x}) PROVE TakenRises(k)'
  <2>1. \A i \in 1..Len(agent) : log[agent[i]].kind = k => agent[i] \in Taken(k)
    BY DEF Taken
  <2>2. \A i \in 1..Len(agent) : ~(Len(agent) + 1 < i)
    BY <1>2
  <2>3. ~(Len(agent) + 1 < Len(agent) + 1)
    BY <1>2
  <2>4. \A i, j \in 1..Len(longer) :
          i < j /\ log[longer[i]].kind = k /\ log[longer[j]].kind = k => longer[i] < longer[j]
    BY <1>2, <1>6, <2>1, <2>2, <2>3 DEF TakenRises, Before
  <2>5. QED
    BY <1>3, <2>4 DEF TakenRises
<1>7. QED
  BY <1>4, <1>5, <1>6

\* The kernel routes one output.
LEMMA DispatchLines ==
    ASSUME Matched, Lines, Dispatch
    PROVE  Lines'
<1> DEFINE c == Head(kq)
           x == c.of
           A == Taken("data")
           B == At(kq, "agent", "data")
           C == At(inbox, "channel", "data")
           D == At(kq, "channel", "data")
           E == At(wsq, "workspace", "data")
           F == At(kq, "workspace", "data")
           P == At(kq, "agent", "plain")
           B2 == At(kq', "agent", "data")
           C2 == At(inbox', "channel", "data")
           D2 == At(kq', "channel", "data")
           E2 == At(wsq', "workspace", "data")
           F2 == At(kq', "workspace", "data")
           P2 == At(kq', "agent", "plain")
<1>1. /\ kq \in Seq(Messages) /\ wsq \in Seq(Messages) /\ inbox \in Seq(Messages) /\ Len(log) \in Nat
  BY QueuesTyped
<1>2. /\ kq # <<>> /\ kq' = Tail(kq) /\ UNCHANGED log /\ c \in Messages
      /\ \/ c.to = "workspace" /\ wsq' = Append(wsq, c) /\ UNCHANGED <<inbox, agent>>
         \/ c.to = "channel" /\ inbox' = Append(inbox, c) /\ UNCHANGED <<wsq, agent>>
         \/ c.to = "agent" /\ c.kind \in Posts /\ agent' = Append(agent, c.of) /\ UNCHANGED <<wsq, inbox>>
         \/ /\ UNCHANGED <<wsq, agent>>
            /\ inbox' = inbox \/ \E m \in Messages : m.kind \notin Posts /\ inbox' = Append(inbox, m)
  BY DispatchPosts
<1>3. AgentGood /\ Rising /\ PlainLine /\ Chain(A, B, C, D, E, F) /\ Logged
  BY DEF Lines, DataLine
<1>4. Smaller(kq, kq') /\ Smaller(wsq, wsq) /\ Smaller(inbox, inbox)
  BY <1>1, <1>2, SmallerQueues
<1>5. /\ P2 \subseteq P /\ B2 \subseteq B /\ D2 \subseteq D /\ F2 \subseteq F
      /\ Rises(kq', "agent", "plain") /\ Rises(kq', "agent", "data")
      /\ Rises(kq', "channel", "data") /\ Rises(kq', "workspace", "data")
  BY <1>3, <1>4 DEF Smaller, Posts, Rising
<1>6. ASSUME NEW to, NEW kind, c.to = to, c.kind = kind, Rises(kq, to, kind)
      PROVE  /\ At(kq, to, kind) = At(kq', to, kind) \cup {x}
             /\ \A a \in At(kq', to, kind) : x < a
  BY <1>1, <1>2, <1>6, AtTail
<1>7. UNCHANGED agent => AgentGood' /\ TakenRises("plain")' /\ TakenRises("data")'
      /\ Taken("plain")' = Taken("plain") /\ Taken("data")' = A
  BY <1>2, <1>3 DEF AgentGood, Rising, TakenRises, Taken
<1> HIDE DEF c
<1>8. CASE UNCHANGED agent /\ Smaller(wsq, wsq') /\ Smaller(inbox, inbox')
  BY <1>2, <1>4, <1>8, LinesShrink
<1>9. CASE c.to = "workspace" /\ c.kind \in Posts /\ wsq' = Append(wsq, c) /\ UNCHANGED <<inbox, agent>>
  <2>1. Chain(A, B2, C, D2, E2, F2) /\ E2 \subseteq E \cup F /\ Rises(wsq', "workspace", "data")
    <3>1. CASE c.kind = "data"
      <4>1. F = F2 \cup {x} /\ Before({x}, F2)
        BY <1>3, <1>6, <1>9, <3>1 DEF Rising, Before
      <4>2. Rises(wsq, "workspace", "data") /\ \A a \in At(wsq, "workspace", "data") : a < c.of
        BY <1>3, <4>1 DEF Rising, Chain, Before
      <4>3. At(Append(wsq, c), "workspace", "data") = E \cup {c.of} /\ Rises(Append(wsq, c), "workspace", "data")
        BY <1>1, <1>2, <1>9, <3>1, <4>2, AtJoin
      <4>4. E2 = E \cup {x} /\ Rises(wsq', "workspace", "data")
        BY <1>9, <4>3
      <4> HIDE DEF A, B, C, D, E, F, B2, D2, E2, F2, x
      <4>5. Chain(A, B2, C, D2, E2, F2)
        BY <1>3, <1>5, <4>1, <4>4 DEF Chain, Before
      <4>6. QED
        BY <4>1, <4>4, <4>5
    <3>2. CASE c.kind # "data"
      <4>1. E2 = E /\ Rises(wsq', "workspace", "data")
        BY <1>1, <1>2, <1>3, <1>9, <3>2, AtAppend DEF Rising
      <4> HIDE DEF A, B, C, D, E, F, B2, D2, E2, F2, x
      <4>2. QED
        BY <1>3, <1>5, <4>1 DEF Chain, Before
    <3>3. QED
      BY <3>1, <3>2
  <2>2. DataLine'
    BY <1>7, <1>9, <2>1 DEF DataLine
  <2>3. Rising'
    BY <1>3, <1>5, <1>7, <1>9, <2>1 DEF Rising
  <2>4. PlainLine'
    BY <1>3, <1>5, <1>7, <1>9 DEF PlainLine, Before
  <2>5. Logged'
    BY <1>2, <1>3, <1>5, <1>9, <2>1 DEF Logged, IsPost
  <2>6. QED
    BY <1>7, <1>9, <2>2, <2>3, <2>4, <2>5 DEF Lines
<1>10. CASE c.to = "channel" /\ c.kind \in Posts /\ inbox' = Append(inbox, c) /\ UNCHANGED <<wsq, agent>>
  <2>1. Chain(A, B2, C2, D2, E, F2) /\ C2 \subseteq C \cup D /\ Rises(inbox', "channel", "data")
    <3>1. CASE c.kind = "data"
      <4>1. D = D2 \cup {x} /\ Before({x}, D2)
        BY <1>3, <1>6, <1>10, <3>1 DEF Rising, Before
      <4>2. Rises(inbox, "channel", "data") /\ \A a \in At(inbox, "channel", "data") : a < c.of
        BY <1>3, <4>1 DEF Rising, Chain, Before
      <4>3. At(Append(inbox, c), "channel", "data") = C \cup {c.of} /\ Rises(Append(inbox, c), "channel", "data")
        BY <1>1, <1>2, <1>10, <3>1, <4>2, AtJoin
      <4>4. C2 = C \cup {x} /\ Rises(inbox', "channel", "data")
        BY <1>10, <4>3
      <4> HIDE DEF A, B, C, D, E, F, B2, C2, D2, F2, x
      <4>5. Chain(A, B2, C2, D2, E, F2)
        BY <1>3, <1>5, <4>1, <4>4 DEF Chain, Before
      <4>6. QED
        BY <4>1, <4>4, <4>5
    <3>2. CASE c.kind # "data"
      <4>1. C2 = C /\ Rises(inbox', "channel", "data")
        BY <1>1, <1>2, <1>3, <1>10, <3>2, AtAppend DEF Rising
      <4> HIDE DEF A, B, C, D, E, F, B2, C2, D2, F2, x
      <4>2. QED
        BY <1>3, <1>5, <4>1 DEF Chain, Before
    <3>3. QED
      BY <3>1, <3>2
  <2>2. DataLine'
    BY <1>7, <1>10, <2>1 DEF DataLine
  <2>3. Rising'
    BY <1>3, <1>5, <1>7, <1>10, <2>1 DEF Rising
  <2>4. PlainLine'
    BY <1>3, <1>5, <1>7, <1>10 DEF PlainLine, Before
  <2>5. Logged'
    BY <1>2, <1>3, <1>5, <1>10, <2>1 DEF Logged, IsPost
  <2>6. QED
    BY <1>7, <1>10, <2>2, <2>3, <2>4, <2>5 DEF Lines
<1>11. CASE c.to = "agent" /\ c.kind \in Posts /\ agent' = Append(agent, c.of) /\ UNCHANGED <<wsq, inbox>>
  <2>1. /\ At(kq, "agent", c.kind) = At(kq', "agent", c.kind) \cup {x}
        /\ \A a \in At(kq', "agent", c.kind) : x < a
    BY <1>3, <1>6, <1>11 DEF Rising, Posts
  <2>2. x \in 1..Len(log) /\ log[x].kind = c.kind
    BY <1>3, <1>11, <2>1 DEF Logged, IsPost, Posts
  <2>3. c.kind = "data" => B = B2 \cup {x} /\ Before({x}, B2) /\ Before(A, {x})
    BY <1>3, <2>1 DEF Chain, Before
  <2>4. c.kind = "plain" => P = P2 \cup {x} /\ Before({x}, P2) /\ Before(Taken("plain"), {x})
    BY <1>3, <2>1 DEF PlainLine, Before
  <2>5. /\ AgentGood'
        /\ IF c.kind = "data" THEN Taken("data")' = A \cup {x} ELSE Taken("data")' = A
        /\ TakenRises("data")'
    BY <1>1, <1>2, <1>3, <1>11, <2>2, <2>3, TakenAppend DEF Rising
  <2>6. /\ IF c.kind = "plain" THEN Taken("plain")' = Taken("plain") \cup {x} ELSE Taken("plain")' = Taken("plain")
        /\ TakenRises("plain")'
    BY <1>1, <1>2, <1>3, <1>11, <2>2, <2>4, TakenAppend DEF Rising
  <2>7. Rising'
    BY <1>3, <1>5, <1>11, <2>5, <2>6 DEF Rising
  <2>8. PlainLine'
    <3>1. CASE c.kind = "plain"
      BY <1>3, <2>4, <2>6, <3>1 DEF PlainLine, Before
    <3>2. CASE c.kind # "plain"
      BY <1>3, <1>5, <2>6, <3>2 DEF PlainLine, Before
    <3>3. QED
      BY <3>1, <3>2
  <2>9. Chain(Taken("data")', B2, C, D2, E, F2)
    <3> DEFINE A2 == Taken("data")'
    <3>1. IF c.kind = "data" THEN A2 = A \cup {x} ELSE A2 = A
      BY <2>5
    <3> HIDE DEF A, B, C, D, E, F, B2, D2, F2, A2, x
    <3>2. Chain(A2, B2, C, D2, E, F2)
      <4>1. CASE c.kind = "data"
        BY <1>3, <1>5, <2>3, <3>1, <4>1 DEF Chain, Before
      <4>2. CASE c.kind # "data"
        BY <1>3, <1>5, <3>1, <4>2 DEF Chain, Before
      <4>3. QED
        BY <4>1, <4>2
    <3>3. QED
      BY <3>2 DEF A2
  <2>10. DataLine'
    BY <1>11, <2>9 DEF DataLine
  <2>11. Logged'
    BY <1>2, <1>3, <1>5, <1>11 DEF Logged, IsPost
  <2>12. QED
    BY <2>5, <2>7, <2>8, <2>10, <2>11 DEF Lines
<1>12. QED
  BY <1>1, <1>2, <1>4, <1>8, <1>9, <1>10, <1>11, SmallerQueues

\* Of what the channel reads, only a materialized message is sent on.
LEMMA HandlePosts ==
    ASSUME Matched, Handle, NEW r, r = Head(inbox)
    PROVE  /\ inbox # <<>> /\ inbox' = Tail(inbox) /\ UNCHANGED <<log, wsq, agent>>
           /\ \/ kq' = kq
              \/ kq' = Append(kq, Message("kernel", "channel", "failed", 0, 0))
              \/ r.kind = "data" /\ kq' = Append(kq, Message("agent", "channel", "data", 0, r.of))
<1>1. inbox # <<>> /\ inbox' = Tail(inbox) /\ UNCHANGED <<log, wsq, agent>>
  BY DEF Handle
<1>2. CASE UNCHANGED kq
  BY <1>1, <1>2
<1>3. CASE ~ReadAs(r, "terminal", ToSet(pt)) /\ ReadAs(r, "workspace", {p.id : p \in ToSet(pw)}) /\ WorkspaceResponse(r)
  <2>1. /\ r.rid # 0 => r.of = r.rid /\ r.rid \in Values(pt) \cup Ids(pw)
        /\ r.src = "workspace" => r.rid # 0
        /\ 0 \notin Values(pt) \cup Ids(pw)
        /\ ToSet(pt) = Values(pt) /\ {p.id : p \in ToSet(pw)} = Ids(pw)
    BY <1>1, InboxHead
  <2>2. r.rid # 0 /\ r.rid \in Ids(pw) /\ r.of = r.rid
    BY <1>3, <2>1 DEF ReadAs
  <2>3. PICK i \in 1..Len(pw) : PopWorkspace(r) = i /\ pw[i].id = r.rid /\ i # 0
    BY <2>2, WorkspaceFound DEF Matched
  <2>4. \/ kq' = kq
        \/ kq' = Append(kq, Message("kernel", "channel", "failed", 0, 0))
        \/ r.kind = "data" /\ kq' = Append(kq, Message("agent", "channel", "data", 0, r.rid))
    BY <1>3, <2>3 DEF WorkspaceResponse
  <2>5. QED
    BY <1>1, <2>2, <2>4
<1>4. QED
  BY <1>2, <1>3 DEF Handle, TerminalResponse, SessionEvent, ConfigResponse, MetadataResponse, ShowError, ShowOnly

\* The channel reads a response: a materialized message moves on to its session.
LEMMA HandleLines ==
    ASSUME Matched, Lines, Handle
    PROVE  Lines'
<1> DEFINE r == Head(inbox)
           x == r.of
           on == Message("agent", "channel", "data", 0, x)
           off == Message("kernel", "channel", "failed", 0, 0)
<1>1. /\ inbox # <<>> /\ inbox' = Tail(inbox) /\ UNCHANGED <<log, wsq, agent>>
      /\ kq' = kq \/ kq' = Append(kq, off) \/ (r.kind = "data" /\ kq' = Append(kq, on))
  BY HandlePosts
<1>2. /\ kq \in Seq(Messages) /\ wsq \in Seq(Messages) /\ inbox \in Seq(Messages)
      /\ \A i \in 1..Len(inbox) : inbox[i].to = "channel"
  BY QueuesTyped
<1>3. r \in Messages /\ r.to = "channel" /\ x \in Nat
  <2>1. r \in Messages /\ r = inbox[1] /\ 1 \in 1..Len(inbox)
    BY <1>1, <1>2, TailParts
  <2>2. QED
    BY <1>2, <2>1 DEF Messages
<1>4. off \in Messages /\ off.kind \notin Posts
  BY DEF Message, Messages, Addresses, Services, MessageKinds, Posts
<1>5. on \in Messages /\ on.to = "agent" /\ on.kind = "data" /\ on.of = x
  BY <1>3 DEF Message, Messages, Addresses, Services, MessageKinds, Kinds
<1> HIDE DEF r, on, off
<1>6. CASE kq' = kq \/ kq' = Append(kq, off)
  <2>1. Smaller(kq, kq')
    BY <1>2, <1>4, <1>6, SmallerQueues
  <2>2. Smaller(wsq, wsq') /\ Smaller(inbox, inbox')
    BY <1>1, <1>2, SmallerQueues
  <2>3. QED
    BY <1>1, <2>1, <2>2, LinesShrink
<1>7. CASE r.kind = "data" /\ kq' = Append(kq, on)
  <2> DEFINE A == Taken("data")
             B == At(kq, "agent", "data")
             C == At(inbox, "channel", "data")
             D == At(kq, "channel", "data")
             E == At(wsq, "workspace", "data")
             F == At(kq, "workspace", "data")
             B2 == At(kq', "agent", "data")
             C2 == At(inbox', "channel", "data")
  <2>1. AgentGood /\ Rising /\ PlainLine /\ Chain(A, B, C, D, E, F) /\ Logged
    BY DEF Lines, DataLine
  <2>2. /\ At(kq', "agent", "plain") = At(kq, "agent", "plain") /\ Rises(kq', "agent", "plain")
        /\ At(kq', "channel", "data") = D /\ Rises(kq', "channel", "data")
        /\ At(kq', "workspace", "data") = F /\ Rises(kq', "workspace", "data")
    <3>1. on.kind # "plain" /\ on.to # "channel" /\ on.to # "workspace"
      BY <1>5
    <3>2. QED
      BY <1>2, <1>5, <1>7, <2>1, <3>1, AtAppend DEF Rising
  <2>3. C = C2 \cup {x} /\ Before({x}, C2) /\ Rises(inbox', "channel", "data")
    <3>1. Rises(inbox, "channel", "data") /\ r.to = "channel" /\ r.kind = "data"
      BY <1>3, <1>7, <2>1 DEF Rising
    <3>2. /\ At(inbox, "channel", "data") = At(Tail(inbox), "channel", "data") \cup {x}
          /\ \A a \in At(Tail(inbox), "channel", "data") : x < a
          /\ Rises(Tail(inbox), "channel", "data")
      BY <1>1, <1>2, <3>1, AtTail DEF r
    <3>3. QED
      BY <1>1, <3>2 DEF Before
  <2>4. B2 = B \cup {x} /\ Rises(kq', "agent", "data")
    <3>1. Rises(kq, "agent", "data") /\ \A a \in At(kq, "agent", "data") : a < on.of
      BY <1>5, <2>1, <2>3 DEF Rising, Chain, Before
    <3>2. At(Append(kq, on), "agent", "data") = B \cup {on.of} /\ Rises(Append(kq, on), "agent", "data")
      BY <1>2, <1>5, <3>1, AtJoin
    <3>3. QED
      BY <1>5, <1>7, <3>2
  <2>5. Chain(A, B2, C2, D, E, F)
    <3> HIDE DEF A, B, C, D, E, F, B2, C2, x
    <3>1. QED
      BY <2>1, <2>3, <2>4 DEF Chain, Before
  <2>6. AgentGood' /\ TakenRises("plain")' /\ TakenRises("data")'
        /\ Taken("plain")' = Taken("plain") /\ Taken("data")' = Taken("data")
    BY <1>1, <2>1 DEF AgentGood, Rising, TakenRises, Taken
  <2>7. DataLine'
    BY <1>1, <2>2, <2>5, <2>6 DEF DataLine
  <2>8. Rising'
    BY <1>1, <2>1, <2>2, <2>3, <2>4, <2>6 DEF Rising
  <2>9. PlainLine'
    BY <2>1, <2>2, <2>6 DEF PlainLine
  <2>10. Logged'
    BY <1>1, <2>1, <2>2, <2>3, <2>4 DEF Logged, IsPost
  <2>11. QED
    BY <2>6, <2>7, <2>8, <2>9, <2>10 DEF Lines
<1>8. QED
  BY <1>1, <1>6, <1>7

\* A step that sends the kernel one message that is none of a user's.
LEMMA OtherSent ==
    ASSUME Matched, Lines, UNCHANGED <<log, agent, wsq, inbox>>,
           NEW m \in Messages, m.kind \notin Posts, kq' = Append(kq, m)
    PROVE  Lines'
<1>1. kq \in Seq(Messages) /\ wsq \in Seq(Messages) /\ inbox \in Seq(Messages)
  BY QueuesTyped
<1>2. Smaller(kq, kq') /\ Smaller(wsq, wsq') /\ Smaller(inbox, inbox')
  BY <1>1, SmallerQueues
<1>3. QED
  BY <1>2, LinesShrink

\* What the terminal and the sessions send on their own.
LEMMA SendersLines ==
    ASSUME ChannelAssumption, Matched, Lines,
           TerminalAnswers \/ TerminalOutput \/ SessionReports \/ \E s \in Sessions : SessionStops(s)
    PROVE  Lines'
<1>1. CASE TerminalAnswers
  <2> DEFINE c == Head(tmq)
             echo == Message("kernel", "terminal", "echo", 0, 0)
             answer == Message("channel", "terminal", "term", c.rid, c.of)
  <2>1. tmq \in Seq(Messages) /\ tmq # <<>>
    BY <1>1 DEF Matched, QueuesGood, GoodQueue, TerminalAnswers
  <2>2. c \in Messages
    BY <2>1, TailParts
  <2>3. echo \in Messages /\ echo.kind \notin Posts /\ answer \in Messages /\ answer.kind \notin Posts
    BY <2>2 DEF Message, Messages, Addresses, Services, MessageKinds, Kinds, Posts
  <2>4. UNCHANGED <<log, agent, wsq, inbox>> /\ (kq' = Append(kq, echo) \/ kq' = Append(kq, answer))
    BY <1>1 DEF TerminalAnswers
  <2> HIDE DEF c, echo, answer
  <2>5. QED
    BY <2>3, <2>4, OtherSent
<1>2. CASE TerminalOutput
  <2> DEFINE m == Message("channel", "terminal", "output", 0, 0)
  <2>1. m \in Messages /\ m.kind \notin Posts
    BY DEF Message, Messages, Addresses, Services, MessageKinds, Posts
  <2>2. UNCHANGED <<log, agent, wsq, inbox>> /\ kq' = Append(kq, m)
    BY <1>2 DEF TerminalOutput
  <2> HIDE DEF m
  <2>3. QED
    BY <2>1, <2>2, OtherSent
<1>3. CASE SessionReports
  <2>1. PICK s \in Sessions \cup Subagents, kind \in {"event", "response", "error"} :
          kq' = Append(kq, Message("channel", s, kind, 0, 0))
    BY <1>3 DEF SessionReports
  <2>2. UNCHANGED <<log, agent, wsq, inbox>>
    BY <1>3 DEF SessionReports
  <2> DEFINE m == Message("channel", s, kind, 0, 0)
  <2>3. m \in Messages /\ m.kind \notin Posts
    BY DEF Message, Messages, Addresses, Services, MessageKinds, Posts
  <2>4. kq' = Append(kq, m)
    BY <2>1
  <2> HIDE DEF m
  <2>5. QED
    BY <2>2, <2>3, <2>4, OtherSent
<1>4. CASE \E s \in Sessions : SessionStops(s)
  <2>1. PICK s \in Sessions : SessionStops(s)
    BY <1>4
  <2> DEFINE m == Message("channel", s, "response", 0, 0)
             last == Message("kernel", s, "stopped", 0, 0)
             mid == Append(kq, m)
  <2>2. m \in Messages /\ m.kind \notin Posts /\ last \in Messages /\ last.kind \notin Posts
    BY DEF Message, Messages, Addresses, Services, MessageKinds, Posts
  <2>3. UNCHANGED <<log, agent, wsq, inbox>> /\ kq' = kq \o <<m, last>>
    BY <2>1 DEF SessionStops
  <2> HIDE DEF m, last
  <2>4. kq \in Seq(Messages) /\ wsq \in Seq(Messages) /\ inbox \in Seq(Messages)
    BY QueuesTyped
  <2>5. kq' = Append(mid, last) /\ mid \in Seq(Messages)
    BY <2>2, <2>3, <2>4
  <2>6. Smaller(kq, mid)
    BY <2>2, <2>4, SmallerQueues
  <2> HIDE DEF mid
  <2>7. Smaller(mid, kq')
    BY <2>2, <2>5, SmallerQueues
  <2>8. Smaller(kq, kq')
    BY <2>6, <2>7 DEF Smaller
  <2>9. Smaller(wsq, wsq') /\ Smaller(inbox, inbox')
    BY <2>3, <2>4, SmallerQueues
  <2>10. QED
    BY <2>3, <2>8, <2>9, LinesShrink
<1>5. QED
  BY <1>1, <1>2, <1>3, <1>4

\* At first nothing is on its way.
LEMMA LinesInit == Init => Lines
<1> SUFFICES ASSUME Init PROVE Lines
  OBVIOUS
<1>1. log = <<>> /\ kq = <<>> /\ wsq = <<>> /\ inbox = <<>> /\ agent = <<>>
  BY DEF Init
<1>2. 1..Len(<<>>) = {}
  OBVIOUS
<1>3. \A to, kind : At(<<>>, to, kind) = {} /\ Rises(<<>>, to, kind)
  BY <1>2 DEF At, Rises
<1>4. \A kind : Taken(kind) = {} /\ TakenRises(kind)
  BY <1>1, <1>2 DEF Taken, TakenRises
<1>5. AgentGood
  BY <1>1, <1>2 DEF AgentGood
<1>6. Rising
  BY <1>1, <1>3, <1>4 DEF Rising
<1>7. PlainLine /\ DataLine
  BY <1>1, <1>3, <1>4 DEF PlainLine, DataLine, Chain, Before
<1>8. Logged
  BY <1>1, <1>3 DEF Logged
<1>9. QED
  BY <1>5, <1>6, <1>7, <1>8 DEF Lines

\* Every step keeps the lines: one that follows a failure is none.
LEMMA LinesStep ==
    ASSUME ChannelAssumption, MatchInv, Lines, [Next]_vars
    PROVE  Lines'
<1>1. CASE UNCHANGED vars
  BY <1>1, LinesShrink DEF vars, Smaller
<1>2. CASE Next
  <2>1. ~failed
    BY <1>2 DEF Next, Service, Ingress, Dispatch, WorkspaceAnswers, TerminalAnswers, TerminalOutput,
              SessionReports, SessionStops, Stop, Handle
  <2>2. Matched
    BY <2>1 DEF MatchInv
  <2>3. CASE Stop
    BY <2>3, LinesShrink DEF Stop, Smaller
  <2>4. CASE Ingress
    BY <2>2, <2>4, IngressLines
  <2>5. CASE Dispatch
    BY <2>2, <2>5, DispatchLines
  <2>6. CASE WorkspaceAnswers
    BY <2>2, <2>6, WorkspaceLines
  <2>7. CASE Handle
    BY <2>2, <2>7, HandleLines
  <2>8. CASE TerminalAnswers \/ TerminalOutput \/ SessionReports \/ \E s \in Sessions : SessionStops(s)
    BY <2>2, <2>8, SendersLines
  <2>9. QED
    BY <1>2, <2>3, <2>4, <2>5, <2>6, <2>7, <2>8 DEF Next, Service
<1>3. QED
  BY <1>1, <1>2

\* What was taken grew, kind by kind, and is of one kind.
LEMMA LinesInOrder ==
    ASSUME Lines
    PROVE  SameWayInOrder
<1>1. agent \in Seq(1..Len(log)) /\ \A i \in 1..Len(agent) : log[agent[i]].kind \in Posts
  BY DEF Lines, AgentGood
<1>2. DOMAIN agent = 1..Len(agent) /\ \A i \in 1..Len(agent) : agent[i] \in Int
  BY <1>1
<1>3. ASSUME NEW i \in 1..Len(agent), NEW j \in 1..Len(agent), i < j
      PROVE  /\ agent[i] # agent[j]
             /\ log[agent[i]].kind = log[agent[j]].kind => agent[i] < agent[j]
  <2>1. CASE log[agent[i]].kind = log[agent[j]].kind
    <3>1. agent[i] < agent[j]
      BY <1>1, <1>3, <2>1 DEF Lines, Rising, TakenRises, Posts
    <3>2. QED
      BY <1>2, <3>1
  <2>2. CASE log[agent[i]].kind # log[agent[j]].kind
    BY <2>2
  <2>3. QED
    BY <2>1, <2>2
<1>4. QED
  BY <1>2, <1>3 DEF SameWayInOrder

\* In every behaviour, for any sessions, requests and bounds, a message reaches
\* its session at most once, and messages without data: files, as well as those
\* with them, reach the sessions in the order the platform sent them
\* (handle_channel_ingress, handle_workspace_response, dispatch_call).
THEOREM MessagesAlwaysInOrder ==
    ASSUME ChannelAssumption
    PROVE  Spec => []SameWayInOrder
<1>1. Init => Lines
  BY LinesInit
<1>2. MatchInv /\ Lines /\ [Next]_vars => Lines'
  BY LinesStep
<1>3. Lines => SameWayInOrder
  BY LinesInOrder
<1>4. Spec => []MatchInv
  BY MatchAlways
<1>5. QED
  BY <1>1, <1>2, <1>3, <1>4, PTL DEF Spec

=============================================================================
