----------------------------- MODULE HostProofs -----------------------------
(***************************************************************************)
(* Theorems about Host, for any number of callers, kernels and failures:   *)
(* no kernel is left running with nobody to stop it, a request listens to  *)
(* the kernel that has its message and has it in one place only, and       *)
(* callers that take turns never have two kernels at work.                 *)
(***************************************************************************)
EXTENDS Host, FiniteSetTheorems, TLAPS

\* A message is in at most one place, at the kernel its caller holds, and only
\* after the caller's last send.
MessageInv ==
    /\ \A c \in Callers, k \in Kernels :
        (c \in queue[k] \/ k \in answered[c]) => pc[c] = "ok" /\ held[c] = k
    /\ \A c \in Callers, k \in Kernels : ~(c \in queue[k] /\ k \in answered[c])

\* A caller that is about to send has a kernel and, if it wants the answer,
\* listens to that one; an answer given was heard.
ListenInv ==
    /\ \A c \in Callers : pc[c] = "send" =>
        /\ held[c] # None
        /\ op[c] = "subscribed" => rx[c] = held[c]
    /\ AnswerHasListener

Busy(c) == pc[c] \notin {"ready", "ok", "error"}

\* With callers that take turns: one is at work, and from the moment it found
\* or made the registry empty until it fills it the only kernel is its own.
TurnInv ==
    /\ \A c, d \in Callers : Busy(c) /\ Busy(d) => c = d
    /\ \A c \in Callers : pc[c] \in {"open", "insert", "join"} => registry = None
    /\ \A k \in Kernels : Alive(k) =>
        \/ k = registry
        \/ \E c \in Callers : held[c] = k /\ pc[c] \in {"insert", "join"}

-----------------------------------------------------------------------------
(* Types.                                                                  *)

LEMMA InitTyped ==
    ASSUME HostAssumption, Init
    PROVE  TypeOK
BY DEF HostAssumption, Init, TypeOK, Places, Kernels, None

LEMMA CallerTyped ==
    ASSUME HostAssumption, TypeOK, NEW c \in Callers, CallerStep(c)
    PROVE  TypeOK'
<1>1. CASE Begin(c)
  BY <1>1 DEF TypeOK, Begin, Goto, Places
<1>2. CASE Check(c)
  BY <1>2 DEF TypeOK, Check, Goto, Places
<1>3. CASE OpenKernel(c)
  BY <1>3 DEF TypeOK, OpenKernel, Goto, Places
<1>4. CASE Insert(c)
  BY <1>4 DEF TypeOK, Insert, Goto, Places, Dropped
<1>5. CASE Look(c)
  BY <1>5 DEF TypeOK, Look, Goto, Places
<1>6. CASE SendMessage(c)
  <2>1. queue' \in [Kernels -> SUBSET Callers]
    BY <1>6 DEF TypeOK, SendMessage, Enqueued
  <2>2. pc' \in [Callers -> Places] /\ retried' \in [Callers -> BOOLEAN]
    BY <1>6 DEF TypeOK, SendMessage, Goto, Places, AfterClosed
  <2>3. QED
    BY <1>6, <2>1, <2>2 DEF TypeOK, SendMessage
<1>7. CASE Remove(c)
  BY <1>7 DEF TypeOK, Remove, Goto, Places
<1>8. CASE TellStop(c)
  BY <1>8 DEF TypeOK, TellStop
<1>9. CASE Join(c)
  BY <1>9 DEF TypeOK, Join, Goto, Places
<1>10. QED
  BY <1>1, <1>2, <1>3, <1>4, <1>5, <1>6, <1>7, <1>8, <1>9 DEF CallerStep

LEMMA KernelTyped ==
    ASSUME TypeOK, (\E k \in Kernels : KernelStep(k) \/ KernelFails(k)) \/ BridgeSubscribes
    PROVE  TypeOK'
<1>1. ASSUME NEW k \in Kernels, HandleMessage(k)
      PROVE  TypeOK'
  <2>1. PICK c \in queue[k] :
         /\ queue' = [queue EXCEPT ![k] = @ \ {c}]
         /\ answered' = [answered EXCEPT ![c] = @ \cup {k}]
         /\ heard' = IF rx[c] = k THEN heard \cup {c} ELSE heard
         /\ shown' = IF bridge = k THEN shown \cup {c} ELSE shown
    BY <1>1 DEF HandleMessage
  <2>2. c \in Callers
    BY <2>1 DEF TypeOK
  <2>3. UNCHANGED <<registry, kernel, pc, op, held, rx, retried, bridge, failed>>
    BY <1>1 DEF HandleMessage
  <2>4. queue' \in [Kernels -> SUBSET Callers]
    BY <2>1 DEF TypeOK
  <2>5. answered' \in [Callers -> SUBSET Kernels]
    BY <2>1, <2>2 DEF TypeOK
  <2>6. heard' \in SUBSET Callers /\ shown' \in SUBSET Callers
    BY <2>1, <2>2 DEF TypeOK
  <2>7. QED
    BY <2>3, <2>4, <2>5, <2>6 DEF TypeOK
<1>2. ASSUME NEW k \in Kernels, KernelStops(k)
      PROVE  TypeOK'
  BY <1>2 DEF TypeOK, KernelStops
<1>3. ASSUME NEW k \in Kernels, KernelFails(k)
      PROVE  TypeOK'
  BY <1>3 DEF TypeOK, KernelFails
<1>4. CASE BridgeSubscribes
  BY <1>4 DEF TypeOK, BridgeSubscribes
<1>5. QED
  BY <1>1, <1>2, <1>3, <1>4 DEF KernelStep

\* The variables keep their types.
THEOREM TypesAlways ==
    ASSUME HostAssumption
    PROVE  Spec => []TypeOK
<1>1. Init => TypeOK
  BY InitTyped
<1>2. TypeOK /\ [Next]_vars => TypeOK'
  <2>1. SUFFICES ASSUME TypeOK, [Next]_vars PROVE TypeOK'
    OBVIOUS
  <2>2. CASE Next
    BY <2>1, <2>2, CallerTyped, KernelTyped DEF Next
  <2>3. CASE UNCHANGED vars
    BY <2>1, <2>3 DEF vars, TypeOK
  <2>4. QED
    BY <2>1, <2>2, <2>3
<1>3. QED
  BY <1>1, <1>2, PTL DEF Spec

-----------------------------------------------------------------------------
(* Kernels.                                                                *)

\* Every step keeps running kernels owned.
LEMMA OwnersStay ==
    ASSUME TypeOK, NoOrphanKernel, Next
    PROVE  NoOrphanKernel'
<1>1. SUFFICES ASSUME NEW k \in Kernels, kernel'[k] = "running"
               PROVE  \/ k = registry'
                      \/ \E c \in Callers : held'[c] = k /\ pc'[c] \in {"insert", "join"}
  BY DEF NoOrphanKernel
<1>2. kernel[k] = "running" =>
        \/ k = registry
        \/ \E c \in Callers : held[c] = k /\ pc[c] \in {"insert", "join"}
  BY DEF NoOrphanKernel
<1>3. ASSUME NEW c \in Callers, Begin(c) \/ Check(c) \/ Look(c) \/ SendMessage(c)
      PROVE  \/ k = registry'
             \/ \E d \in Callers : held'[d] = k /\ pc'[d] \in {"insert", "join"}
  <2>1. /\ UNCHANGED <<registry, kernel>> /\ pc[c] \notin {"insert", "join"}
        /\ \A d \in Callers : d # c => held'[d] = held[d] /\ pc'[d] = pc[d]
    <3>1. CASE Begin(c)
      BY <3>1 DEF Begin, Goto, TypeOK
    <3>2. CASE Check(c)
      BY <3>2 DEF Check, Goto, TypeOK
    <3>3. CASE Look(c)
      BY <3>3 DEF Look, Goto, TypeOK
    <3>4. CASE SendMessage(c)
      BY <3>4 DEF SendMessage, Goto, TypeOK
    <3>5. QED
      BY <1>3, <3>1, <3>2, <3>3, <3>4
  <2>2. QED
    BY <1>1, <1>2, <2>1
<1>4. ASSUME NEW c \in Callers, OpenKernel(c)
      PROVE  \/ k = registry'
             \/ \E d \in Callers : held'[d] = k /\ pc'[d] \in {"insert", "join"}
  BY <1>1, <1>2, <1>4 DEF OpenKernel, Goto, TypeOK
<1>5. ASSUME NEW c \in Callers, Insert(c)
      PROVE  \/ k = registry'
             \/ \E d \in Callers : held'[d] = k /\ pc'[d] \in {"insert", "join"}
  <2>1. kernel[k] = "running" /\ k # registry
    BY <1>1, <1>5 DEF Insert, Dropped
  <2>2. PICK d \in Callers : held[d] = k /\ pc[d] \in {"insert", "join"}
    BY <1>2, <2>1
  <2>3. CASE d = c
    BY <1>5, <2>2, <2>3 DEF Insert
  <2>4. CASE d # c
    BY <1>5, <2>2, <2>4 DEF Insert, Goto, TypeOK
  <2>5. QED
    BY <2>3, <2>4
<1>6. ASSUME NEW c \in Callers, Remove(c)
      PROVE  \/ k = registry'
             \/ \E d \in Callers : held'[d] = k /\ pc'[d] \in {"insert", "join"}
  <2>1. /\ held'[c] = registry /\ pc'[c] = "join" /\ pc[c] = "remove" /\ kernel' = kernel
        /\ \A d \in Callers : d # c => held'[d] = held[d] /\ pc'[d] = pc[d]
    BY <1>6 DEF Remove, Goto, TypeOK
  <2>2. QED
    BY <1>1, <1>2, <2>1
<1>7. ASSUME NEW c \in Callers, TellStop(c)
      PROVE  \/ k = registry'
             \/ \E d \in Callers : held'[d] = k /\ pc'[d] \in {"insert", "join"}
  <2>1. UNCHANGED <<registry, held, pc>> /\ kernel[k] = "running"
    BY <1>1, <1>7 DEF TellStop, TypeOK
  <2>2. QED
    BY <1>2, <2>1
<1>8. ASSUME NEW c \in Callers, Join(c)
      PROVE  \/ k = registry'
             \/ \E d \in Callers : held'[d] = k /\ pc'[d] \in {"insert", "join"}
  <2>1. /\ UNCHANGED <<registry, kernel>> /\ held[c] # k
        /\ \A d \in Callers : d # c => held'[d] = held[d] /\ pc'[d] = pc[d]
    BY <1>1, <1>8 DEF Join, JoinReturns, Goto, TypeOK, None, Kernels
  <2>2. QED
    BY <1>1, <1>2, <2>1
<1>9. ASSUME NEW j \in Kernels, KernelStep(j) \/ KernelFails(j)
      PROVE  \/ k = registry'
             \/ \E d \in Callers : held'[d] = k /\ pc'[d] \in {"insert", "join"}
  <2>1. UNCHANGED <<registry, held, pc>> /\ kernel[k] = "running"
    BY <1>1, <1>9 DEF KernelStep, HandleMessage, KernelStops, KernelFails, TypeOK
  <2>2. QED
    BY <1>2, <2>1
<1>10. CASE BridgeSubscribes
  BY <1>1, <1>2, <1>10 DEF BridgeSubscribes
<1>11. QED
  BY <1>3, <1>4, <1>5, <1>6, <1>7, <1>8, <1>9, <1>10 DEF Next, CallerStep

\* A kernel that runs is registered, or held by a caller that will register it
\* or shut it down, however ensure_conversation_started, restart_conversation
\* and stop_conversation of any number of threads interleave between the
\* regions of the registry's lock.
THEOREM NoOrphanAlways ==
    ASSUME HostAssumption
    PROVE  Spec => []NoOrphanKernel
<1>1. Init => NoOrphanKernel
  BY DEF Init, NoOrphanKernel
<1>2. TypeOK /\ NoOrphanKernel /\ [Next]_vars => NoOrphanKernel'
  <2>1. SUFFICES ASSUME TypeOK, NoOrphanKernel, [Next]_vars PROVE NoOrphanKernel'
    OBVIOUS
  <2>2. CASE UNCHANGED vars
    BY <2>1, <2>2 DEF vars, NoOrphanKernel
  <2>3. QED
    BY <2>1, <2>2, OwnersStay
<1>3. QED
  BY <1>1, <1>2, TypesAlways, PTL DEF Spec

-----------------------------------------------------------------------------
(* Messages.                                                               *)

\* A step that leaves the messages and the callers that have sent alone.
LEMMA MessagesStay ==
    ASSUME MessageInv, UNCHANGED <<queue, answered>>,
           \A c \in Callers : pc[c] = "ok" => pc'[c] = "ok" /\ held'[c] = held[c]
    PROVE  MessageInv'
BY DEF MessageInv

LEMMA MessagesInOnePlace ==
    ASSUME TypeOK, MessageInv, ListenInv, Next
    PROVE  MessageInv'
<1>1. ASSUME NEW c \in Callers,
             Begin(c) \/ Check(c) \/ OpenKernel(c) \/ Insert(c) \/ Look(c) \/ Remove(c)
               \/ TellStop(c) \/ Join(c)
      PROVE  MessageInv'
  <2>1. /\ UNCHANGED <<queue, answered>>
        /\ \A d \in Callers : pc[d] = "ok" => pc'[d] = "ok" /\ held'[d] = held[d]
    <3>1. CASE Begin(c) \/ Check(c)
      BY <3>1 DEF Begin, Check, Goto, TypeOK
    <3>2. CASE OpenKernel(c)
      BY <3>2 DEF OpenKernel, Goto, TypeOK
    <3>3. CASE Insert(c) \/ Remove(c) \/ Join(c)
      BY <3>3 DEF Insert, Remove, Join, Goto, TypeOK
    <3>4. CASE Look(c)
      BY <3>4 DEF Look, Goto, TypeOK
    <3>5. CASE TellStop(c)
      BY <3>5 DEF TellStop
    <3>6. QED
      BY <1>1, <3>1, <3>2, <3>3, <3>4, <3>5
  <2>2. QED
    BY <2>1, MessagesStay
<1>2. ASSUME NEW c \in Callers, SendMessage(c)
      PROVE  MessageInv'
  <2>1. /\ pc[c] = "send" /\ held[c] \in Kernels
        /\ UNCHANGED <<answered, held>>
        /\ \A d \in Callers : d # c => pc'[d] = pc[d]
    BY <1>2 DEF SendMessage, Goto, TypeOK, ListenInv
  <2>2. \A k \in Kernels : c \notin queue[k] /\ k \notin answered[c]
    BY <2>1 DEF MessageInv
  <2>3. CASE Alive(held[c])
    <3>1. /\ pc'[c] = "ok"
          /\ \A k \in Kernels : queue'[k] = IF k = held[c] THEN queue[k] \cup {c} ELSE queue[k]
      BY <1>2, <2>1, <2>3 DEF SendMessage, Goto, Enqueued, TypeOK
    <3>2. ASSUME NEW d \in Callers, NEW k \in Kernels, d \in queue'[k] \/ k \in answered'[d]
          PROVE  /\ pc'[d] = "ok" /\ held'[d] = k
                 /\ ~(d \in queue'[k] /\ k \in answered'[d])
      <4>1. CASE d = c
        BY <2>1, <2>2, <3>1, <3>2, <4>1
      <4>2. CASE d # c
        <5>1. d \in queue'[k] <=> d \in queue[k]
          <6>1. queue'[k] = queue[k] \cup {c} \/ queue'[k] = queue[k]
            BY <3>1
          <6>2. QED
            BY <4>2, <6>1
        <5>2. pc'[d] = pc[d] /\ held'[d] = held[d] /\ answered'[d] = answered[d]
          BY <2>1, <4>2
        <5>3. QED
          BY <3>2, <5>1, <5>2 DEF MessageInv
      <4>3. QED
        BY <4>1, <4>2
    <3>3. QED
      BY <3>2 DEF MessageInv
  <2>4. CASE ~Alive(held[c])
    <3>1. queue' = queue
      BY <1>2, <2>4 DEF SendMessage, Enqueued
    <3>2. QED
      BY <2>1, <3>1, MessagesStay
  <2>5. QED
    BY <2>3, <2>4
<1>3. ASSUME NEW k \in Kernels, HandleMessage(k)
      PROVE  MessageInv'
  <2>1. PICK c \in queue[k] :
         /\ queue' = [queue EXCEPT ![k] = @ \ {c}]
         /\ answered' = [answered EXCEPT ![c] = @ \cup {k}]
    BY <1>3 DEF HandleMessage
  <2>2. c \in Callers /\ UNCHANGED <<pc, held>>
    BY <1>3, <2>1 DEF TypeOK, HandleMessage
  <2>3. /\ \A j \in Kernels : queue'[j] = IF j = k THEN queue[j] \ {c} ELSE queue[j]
        /\ \A d \in Callers : answered'[d] = IF d = c THEN answered[d] \cup {k} ELSE answered[d]
    BY <2>1, <2>2 DEF TypeOK
  <2>4. ASSUME NEW d \in Callers, NEW j \in Kernels, d \in queue'[j] \/ j \in answered'[d]
        PROVE  /\ pc'[d] = "ok" /\ held'[d] = j
               /\ ~(d \in queue'[j] /\ j \in answered'[d])
    <3>1. CASE d = c /\ j = k
      BY <2>1, <2>2, <2>3, <3>1 DEF MessageInv
    <3>2. CASE ~(d = c /\ j = k)
      <4>1. (d \in queue'[j] <=> d \in queue[j]) /\ (j \in answered'[d] <=> j \in answered[d])
        BY <2>3, <3>2
      <4>2. QED
        BY <2>2, <2>4, <4>1 DEF MessageInv
    <3>3. QED
      BY <3>1, <3>2
  <2>5. QED
    BY <2>4 DEF MessageInv
<1>4. CASE (\E k \in Kernels : KernelStops(k) \/ KernelFails(k)) \/ BridgeSubscribes
  BY <1>4, MessagesStay DEF KernelStops, KernelFails, BridgeSubscribes
<1>5. QED
  BY <1>1, <1>2, <1>3, <1>4 DEF Next, CallerStep, KernelStep

\* A step that leaves the messages, the answers heard and every caller that
\* sends or has sent alone.
LEMMA ListenersStay ==
    ASSUME MessageInv, ListenInv, UNCHANGED <<queue, answered, heard>>,
           \A c \in Callers : pc[c] = "ok" => op'[c] = op[c] /\ rx'[c] = rx[c],
           \A c \in Callers : pc'[c] = "send" =>
               /\ held'[c] # None
               /\ op'[c] = "subscribed" => rx'[c] = held'[c]
    PROVE  ListenInv'
<1>1. SUFFICES ASSUME NEW c \in Callers, NEW k \in Kernels,
                      op'[c] = "subscribed", c \in queue[k] \/ k \in answered[c]
               PROVE  rx'[c] = k /\ (k \in answered[c] => c \in heard)
  BY DEF ListenInv, AnswerHasListener
<1>2. pc[c] = "ok"
  BY <1>1 DEF MessageInv
<1>3. QED
  BY <1>1, <1>2 DEF ListenInv, AnswerHasListener

LEMMA SendersListen ==
    ASSUME TypeOK, MessageInv, ListenInv, Next
    PROVE  ListenInv'
<1>1. ASSUME NEW c \in Callers,
             Begin(c) \/ Check(c) \/ OpenKernel(c) \/ Insert(c) \/ Remove(c)
               \/ TellStop(c) \/ Join(c)
      PROVE  ListenInv'
  <2>1. /\ UNCHANGED <<queue, answered, heard, rx>>
        /\ \A d \in Callers : d # c => pc'[d] = pc[d] /\ held'[d] = held[d] /\ op'[d] = op[d]
    <3>1. CASE Begin(c) \/ Check(c) \/ TellStop(c)
      BY <3>1 DEF Begin, Check, TellStop, Goto, TypeOK
    <3>2. CASE OpenKernel(c)
      BY <3>2 DEF OpenKernel, Goto, TypeOK
    <3>3. CASE Insert(c) \/ Remove(c) \/ Join(c)
      BY <3>3 DEF Insert, Remove, Join, Goto, TypeOK
    <3>4. QED
      BY <1>1, <3>1, <3>2, <3>3
  <2>2. pc'[c] # "send" /\ pc[c] # "ok"
    <3>1. CASE Begin(c) \/ Check(c) \/ TellStop(c)
      BY <3>1 DEF Begin, Check, TellStop, Goto, TypeOK
    <3>2. CASE OpenKernel(c)
      BY <3>2 DEF OpenKernel, Goto, TypeOK
    <3>3. CASE Insert(c) \/ Remove(c) \/ Join(c)
      BY <3>3 DEF Insert, Remove, Join, Goto, TypeOK
    <3>4. QED
      BY <1>1, <3>1, <3>2, <3>3
  <2>3. \A d \in Callers : pc'[d] = "send" =>
          held'[d] # None /\ (op'[d] = "subscribed" => rx'[d] = held'[d])
    BY <2>1, <2>2 DEF ListenInv
  <2>4. QED
    BY <2>1, <2>2, <2>3, ListenersStay
<1>2. ASSUME NEW c \in Callers, Look(c)
      PROVE  ListenInv'
  <2>1. /\ UNCHANGED <<queue, answered, heard, op>> /\ pc[c] = "look"
        /\ \A d \in Callers : d # c => pc'[d] = pc[d] /\ held'[d] = held[d] /\ rx'[d] = rx[d]
        /\ pc'[c] = "send" =>
             held'[c] # None /\ (op[c] = "subscribed" => rx'[c] = held'[c])
    BY <1>2 DEF Look, Goto, TypeOK, Subscribes
  <2>2. \A d \in Callers : pc'[d] = "send" =>
          held'[d] # None /\ (op'[d] = "subscribed" => rx'[d] = held'[d])
    BY <2>1 DEF ListenInv
  <2>3. \A d \in Callers : pc[d] = "ok" => op'[d] = op[d] /\ rx'[d] = rx[d]
    BY <2>1
  <2>4. QED
    BY <2>1, <2>2, <2>3, ListenersStay
<1>3. ASSUME NEW c \in Callers, SendMessage(c)
      PROVE  ListenInv'
  <2>1. /\ pc[c] = "send" /\ held[c] \in Kernels
        /\ UNCHANGED <<answered, held, op, rx, heard>>
        /\ \A d \in Callers : d # c => pc'[d] = pc[d]
        /\ pc'[c] # "send"
    BY <1>3 DEF SendMessage, Goto, TypeOK, ListenInv, AfterClosed
  <2>2. \A d \in Callers : pc'[d] = "send" =>
          held'[d] # None /\ (op'[d] = "subscribed" => rx'[d] = held'[d])
    BY <2>1 DEF ListenInv
  <2>3. \A d \in Callers, k \in Kernels :
          d \in queue'[k] => d \in queue[k] \/ (d = c /\ k = held[c])
    BY <1>3, <2>1 DEF SendMessage, Enqueued, TypeOK
  <2>4. \A k \in Kernels : c \notin queue[k] /\ k \notin answered[c]
    BY <2>1 DEF MessageInv
  <2>5. op[c] = "subscribed" => rx[c] = held[c]
    BY <2>1 DEF ListenInv
  <2>6. AnswerHasListener'
    BY <2>1, <2>3, <2>4, <2>5 DEF ListenInv, AnswerHasListener
  <2>7. QED
    BY <2>2, <2>6 DEF ListenInv
<1>4. ASSUME NEW k \in Kernels, HandleMessage(k)
      PROVE  ListenInv'
  <2>1. PICK c \in queue[k] :
         /\ queue' = [queue EXCEPT ![k] = @ \ {c}]
         /\ answered' = [answered EXCEPT ![c] = @ \cup {k}]
         /\ heard' = IF rx[c] = k THEN heard \cup {c} ELSE heard
    BY <1>4 DEF HandleMessage
  <2>2. c \in Callers /\ UNCHANGED <<pc, held, op, rx>>
    BY <1>4, <2>1 DEF TypeOK, HandleMessage
  <2>3. /\ \A j \in Kernels : queue'[j] = IF j = k THEN queue[j] \ {c} ELSE queue[j]
        /\ \A d \in Callers : answered'[d] = IF d = c THEN answered[d] \cup {k} ELSE answered[d]
    BY <2>1, <2>2 DEF TypeOK
  <2>4. op[c] = "subscribed" => rx[c] = k
    BY <2>1, <2>2 DEF ListenInv, AnswerHasListener
  <2>5. heard \subseteq heard'
    BY <2>1
  <2>6. AnswerHasListener'
    BY <2>1, <2>2, <2>3, <2>4, <2>5 DEF ListenInv, AnswerHasListener
  <2>7. QED
    BY <2>2, <2>6 DEF ListenInv
<1>5. CASE (\E k \in Kernels : KernelStops(k) \/ KernelFails(k)) \/ BridgeSubscribes
  <2>1. UNCHANGED <<queue, answered, heard, pc, held, op, rx>>
    BY <1>5 DEF KernelStops, KernelFails, BridgeSubscribes
  <2>2. QED
    BY <2>1, ListenersStay DEF ListenInv
<1>6. QED
  BY <1>1, <1>2, <1>3, <1>4, <1>5 DEF Next, CallerStep, KernelStep

\* No message exists before the first call.
LEMMA InitListens ==
    ASSUME Init
    PROVE  MessageInv /\ ListenInv
<1>1. \A c \in Callers : pc[c] = "ready" /\ answered[c] = {}
  BY DEF Init
<1>2. \A k \in Kernels : queue[k] = {}
  BY DEF Init
<1>3. QED
  BY <1>1, <1>2 DEF MessageInv, ListenInv, AnswerHasListener

\* Where messages are and who listens, in every reachable state.
LEMMA MessagesAlways ==
    ASSUME HostAssumption
    PROVE  Spec => [](TypeOK /\ MessageInv /\ ListenInv)
<1>1. Init => MessageInv /\ ListenInv
  BY InitListens
<1>2. TypeOK /\ MessageInv /\ ListenInv /\ [Next]_vars => MessageInv' /\ ListenInv'
  <2>1. SUFFICES ASSUME TypeOK, MessageInv, ListenInv, [Next]_vars
                 PROVE  MessageInv' /\ ListenInv'
    OBVIOUS
  <2>2. CASE Next
    BY <2>1, <2>2, MessagesInOnePlace, SendersListen
  <2>3. CASE UNCHANGED vars
    BY <2>1, <2>3 DEF vars, MessageInv, ListenInv, AnswerHasListener
  <2>4. QED
    BY <2>1, <2>2, <2>3
<1>3. QED
  BY <1>1, <1>2, TypesAlways, PTL DEF Spec

\* send_main_channel_ingress_subscribed subscribes again when it restarts the
\* conversation: whoever waits for an answer listens to the kernel that has its
\* message, whatever other threads did to the registry in between.
THEOREM AnswerAlwaysHasListener ==
    ASSUME HostAssumption
    PROVE  Spec => []AnswerHasListener
<1>1. ListenInv => AnswerHasListener
  BY DEF ListenInv
<1>2. QED
  BY <1>1, MessagesAlways, PTL

\* The retry of send_main_channel_ingress after a restart delivers no message
\* twice.
THEOREM HandledOnceAlways ==
    ASSUME HostAssumption
    PROVE  Spec => []HandledOnce
<1>1. TypeOK /\ MessageInv => HandledOnce
  <2>1. SUFFICES ASSUME TypeOK, MessageInv, NEW c \in Callers
                 PROVE  Cardinality(answered[c]) + Cardinality({k \in Kernels : c \in queue[k]}) <= 1
    BY DEF HandledOnce
  <2> DEFINE waiting == {k \in Kernels : c \in queue[k]}
  <2>2. answered[c] \subseteq Kernels
    BY <2>1 DEF TypeOK
  <2>3. answered[c] \subseteq {held[c]} /\ waiting \subseteq {held[c]} /\ answered[c] \cap waiting = {}
    BY <2>1, <2>2 DEF MessageInv
  <2> HIDE DEF waiting
  <2>4. Cardinality({}) = 0 /\ Cardinality({held[c]}) = 1
    BY FS_EmptySet, FS_Singleton
  <2>5. \/ answered[c] = {} /\ waiting = {}
        \/ answered[c] = {} /\ waiting = {held[c]}
        \/ answered[c] = {held[c]} /\ waiting = {}
    BY <2>3
  <2>6. \/ Cardinality(answered[c]) = 0 /\ Cardinality(waiting) = 0
        \/ Cardinality(answered[c]) = 0 /\ Cardinality(waiting) = 1
        \/ Cardinality(answered[c]) = 1 /\ Cardinality(waiting) = 0
    BY <2>4, <2>5, Zenon
  <2>7. Cardinality(answered[c]) + Cardinality(waiting) <= 1
    BY <2>6
  <2>8. QED
    BY <2>7 DEF waiting
<1>2. QED
  BY <1>1, MessagesAlways, PTL

-----------------------------------------------------------------------------
(* Callers that take turns.                                                *)

\* A step of one caller leaves the others where they are.
LEMMA OneCallerMoves ==
    ASSUME TypeOK, NEW c \in Callers, CallerStep(c)
    PROVE  \A d \in Callers : d # c => pc'[d] = pc[d] /\ held'[d] = held[d]
<1>1. CASE Begin(c) \/ Check(c) \/ TellStop(c) \/ SendMessage(c)
  BY <1>1 DEF Begin, Check, TellStop, SendMessage, Goto, TypeOK
<1>2. CASE OpenKernel(c)
  BY <1>2 DEF OpenKernel, Goto, TypeOK
<1>3. CASE Insert(c) \/ Remove(c) \/ Join(c)
  BY <1>3 DEF Insert, Remove, Join, Goto, TypeOK
<1>4. CASE Look(c)
  BY <1>4 DEF Look, Goto, TypeOK
<1>5. QED
  BY <1>1, <1>2, <1>3, <1>4 DEF CallerStep

\* The one at work owns what it opened or removed.
LEMMA TurnsStay ==
    ASSUME Serial, TypeOK, TurnInv, NEW c \in Callers, CallerStep(c)
    PROVE  TurnInv'
<1>1. \A d \in Callers : d # c => pc'[d] = pc[d] /\ held'[d] = held[d]
  BY OneCallerMoves
<1>2. \A d \in Callers : d # c => ~Busy(d)
  <2>1. CASE Busy(c)
    BY <2>1 DEF TurnInv
  <2>2. CASE ~Busy(c)
    <3>1. pc[c] = "ready" /\ Begin(c)
      BY <2>2 DEF Busy, CallerStep, Begin, Check, OpenKernel, Insert, Look, SendMessage,
                  Remove, TellStop, Join
    <3>2. QED
      BY <3>1 DEF Begin, Busy
  <2>3. QED
    BY <2>1, <2>2
<1>3. \A d \in Callers : d # c => pc[d] \in {"ready", "ok", "error"}
  BY <1>2 DEF Busy
<1>4. \A d, e \in Callers : Busy(d)' /\ Busy(e)' => d = e
  BY <1>1, <1>3 DEF Busy
<1>5. \A k \in Kernels : Alive(k) => k = registry \/ (held[c] = k /\ pc[c] \in {"insert", "join"})
  BY <1>3 DEF TurnInv
<1>6. pc[c] \in {"open", "insert", "join"} => registry = None
  BY DEF TurnInv
<1>7. SUFFICES /\ pc'[c] \in {"open", "insert", "join"} => registry' = None
               /\ \A k \in Kernels : kernel'[k] \in {"running", "closing"} =>
                    k = registry' \/ (held'[c] = k /\ pc'[c] \in {"insert", "join"})
  <2>1. \A d \in Callers : pc'[d] \in {"open", "insert", "join"} => d = c
    BY <1>1, <1>3
  <2>2. \A k \in Kernels : Alive(k)' <=> kernel'[k] \in {"running", "closing"}
    BY DEF Alive
  <2>3. QED
    BY <1>4, <1>7, <2>1, <2>2 DEF TurnInv
<1>8. \A k \in Kernels : Alive(k) <=> kernel[k] \in {"running", "closing"}
  BY DEF Alive
<1>9. CASE Begin(c)
  BY <1>5, <1>8, <1>9 DEF Begin, Goto, TypeOK
<1>10. CASE Check(c)
  BY <1>5, <1>8, <1>10 DEF Check, Goto, TypeOK
<1>11. CASE OpenKernel(c)
  <2>1. \A k \in Kernels : ~Alive(k)
    BY <1>5, <1>6, <1>11 DEF OpenKernel, None, Kernels
  <2>2. registry' = None
    BY <1>6, <1>11 DEF OpenKernel
  <2>3. CASE kernel' = kernel
    BY <1>8, <2>1, <2>2, <2>3
  <2>4. CASE \E k \in Kernels : /\ kernel' = [kernel EXCEPT ![k] = "running"]
                                /\ held' = [held EXCEPT ![c] = k]
                                /\ Goto(c, "insert")
    BY <1>8, <2>1, <2>2, <2>4 DEF Goto, TypeOK
  <2>5. QED
    BY <1>11, <2>3, <2>4 DEF OpenKernel
<1>12. CASE Insert(c)
  <2>1. /\ registry = None /\ registry' = held[c] /\ pc'[c] = "look"
        /\ kernel' = [k \in Kernels |-> IF k = registry THEN Dropped(kernel[k]) ELSE kernel[k]]
    BY <1>6, <1>12 DEF Insert, Goto, TypeOK
  <2>2. \A k \in Kernels : kernel'[k] = kernel[k]
    BY <2>1 DEF None, Kernels
  <2>3. \A k \in Kernels : Alive(k) => held[c] = k
    BY <1>5, <2>1 DEF None, Kernels
  <2>4. QED
    BY <1>8, <2>1, <2>2, <2>3
<1>13. CASE Look(c)
  <2>1. pc[c] = "look" /\ UNCHANGED <<registry, kernel>> /\ pc'[c] \in {"error", "send"}
    BY <1>13 DEF Look, Goto, TypeOK
  <2>2. QED
    BY <1>5, <1>8, <2>1
<1>14. CASE SendMessage(c)
  <2>1. pc[c] = "send" /\ UNCHANGED <<registry, kernel>> /\ pc'[c] \in {"ok", "error", "remove"}
    BY <1>14 DEF SendMessage, Goto, TypeOK, AfterClosed
  <2>2. QED
    BY <1>5, <1>8, <2>1
<1>15. CASE Remove(c)
  BY <1>5, <1>8, <1>15 DEF Remove, Goto, TypeOK
<1>16. CASE TellStop(c)
  <2>1. /\ pc[c] = "join" /\ UNCHANGED <<registry, pc, held>>
        /\ held[c] \in Kernels
        /\ kernel' = [kernel EXCEPT ![held[c]] = "closing"]
    BY <1>16 DEF TellStop, TypeOK
  <2>2. \A k \in Kernels : k # held[c] => kernel'[k] = kernel[k]
    BY <2>1 DEF TypeOK
  <2>3. QED
    BY <1>5, <1>6, <1>8, <2>1, <2>2
<1>17. CASE Join(c)
  <2>1. /\ pc[c] = "join" /\ UNCHANGED <<registry, kernel>> /\ pc'[c] \in {"ok", "error", "check"}
        /\ held[c] # None => kernel[held[c]] = "ended"
    BY <1>17 DEF Join, JoinReturns, Goto, TypeOK
  <2>2. \A k \in Kernels : ~Alive(k)
    BY <1>5, <1>6, <1>8, <2>1 DEF None, Kernels
  <2>3. QED
    BY <1>8, <2>1, <2>2
<1>18. QED
  BY <1>9, <1>10, <1>11, <1>12, <1>13, <1>14, <1>15, <1>16, <1>17 DEF CallerStep

\* Kernels and the bridge only end kernels.
LEMMA KernelsEnd ==
    ASSUME TypeOK, TurnInv, (\E k \in Kernels : KernelStep(k) \/ KernelFails(k)) \/ BridgeSubscribes
    PROVE  TurnInv'
<1>1. /\ UNCHANGED <<registry, pc, held>>
      /\ \A j \in Kernels : kernel'[j] \in {"running", "closing"} => kernel[j] \in {"running", "closing"}
  BY DEF KernelStep, HandleMessage, KernelStops, KernelFails, BridgeSubscribes, TypeOK
<1>2. QED
  BY <1>1 DEF TurnInv, Busy, Alive

\* Calls of the host that take turns never have two kernels of a conversation
\* at work over the same files and agent servers: restart_conversation and
\* stop_conversation join the old kernel's thread before anything is opened.
THEOREM OneKernelAlways ==
    ASSUME HostAssumption, Serial
    PROVE  Spec => []OneKernel
<1>1. Init => TurnInv
  BY DEF Init, TurnInv, Busy, Alive
<1>2. TypeOK /\ TurnInv /\ [Next]_vars => TurnInv'
  <2>1. SUFFICES ASSUME TypeOK, TurnInv, [Next]_vars PROVE TurnInv'
    OBVIOUS
  <2>2. CASE Next
    BY <2>1, <2>2, TurnsStay, KernelsEnd DEF Next
  <2>3. CASE UNCHANGED vars
    BY <2>1, <2>3 DEF vars, TurnInv, Busy, Alive
  <2>4. QED
    BY <2>1, <2>2, <2>3
<1>3. TurnInv => OneKernel
  <2>1. SUFFICES ASSUME TurnInv PROVE OneKernel
    OBVIOUS
  <2> DEFINE alive == {k \in Kernels : Alive(k)}
  <2>2. ASSUME NEW k \in alive, NEW j \in alive
        PROVE  k = j
    <3>1. CASE k = registry
      BY <2>1, <2>2, <3>1 DEF TurnInv, None, Kernels
    <3>2. CASE k # registry
      <4>1. PICK c \in Callers : held[c] = k /\ pc[c] \in {"insert", "join"}
        BY <2>1, <2>2, <3>2 DEF TurnInv
      <4>2. registry = None
        BY <2>1, <4>1 DEF TurnInv
      <4>3. PICK d \in Callers : held[d] = j /\ pc[d] \in {"insert", "join"}
        BY <2>1, <2>2, <4>2 DEF TurnInv, None, Kernels
      <4>4. c = d
        BY <2>1, <4>1, <4>3 DEF TurnInv, Busy
      <4>5. QED
        BY <4>1, <4>3, <4>4
    <3>3. QED
      BY <3>1, <3>2
  <2> HIDE DEF alive
  <2>3. CASE alive = {}
    BY <2>3, FS_EmptySet DEF OneKernel, alive
  <2>4. CASE alive # {}
    <3>1. PICK k : alive = {k}
      BY <2>2, <2>4
    <3>2. Cardinality(alive) = 1
      BY <3>1, FS_Singleton
    <3>3. QED
      BY <3>2 DEF OneKernel, alive
  <2>5. QED
    BY <2>3, <2>4
<1>4. QED
  BY <1>1, <1>2, <1>3, TypesAlways, PTL DEF Spec

\* Everything the conversation host promises of its kernels: each has someone
\* who will stop it, calls that take turns have one, and an accepted request
\* listens to the one kernel that got its message (ensure_conversation_started,
\* send_main_channel_ingress, restart_conversation and stop_conversation).
THEOREM OneOwnerAlways ==
    ASSUME HostAssumption
    PROVE  Spec => []OneOwner
<1>1. Spec => [](Serial => OneKernel)
  <2>1. CASE Serial
    <3>1. OneKernel => (Serial => OneKernel)
      OBVIOUS
    <3>2. QED
      BY <2>1, <3>1, OneKernelAlways, PTL
  <2>2. CASE ~Serial
    <3>1. Serial => OneKernel
      BY <2>2
    <3>2. QED
      BY <3>1, PTL
  <2>3. QED
    BY <2>1, <2>2
<1>2. TypeOK /\ NoOrphanKernel /\ (Serial => OneKernel) /\ AnswerHasListener /\ HandledOnce
        => OneOwner
  BY DEF OneOwner
<1>3. QED
  BY <1>1, <1>2, TypesAlways, NoOrphanAlways, AnswerAlwaysHasListener, HandledOnceAlways, PTL

=============================================================================
