-------------------------- MODULE SessionTurnProofs --------------------------
(***************************************************************************)
(* The types of SessionActor and the safety of its turns, for every value  *)
(* of its constants: one activity at a time, completions that match the    *)
(* batch they belong to, no message left behind, a host that sees the turn *)
(* that runs, message ids that are transcript positions, and requests that *)
(* are settled once.                                                       *)
(*                                                                         *)
(* None of the properties of turns is inductive on its own, and neither is *)
(* their conjunction: TurnInv adds what the handlers rely on.              *)
(*                                                                         *)
(* RequestsAreSettled is about results that arrive late, after their       *)
(* request was given up: the ids of requests are ordered.                  *)
(***************************************************************************)
EXTENDS SessionActor, SequenceTheorems, FiniteSetTheorems, TLAPS

-----------------------------------------------------------------------------
(***************************************************************************)
(* The operators on histories                                              *)
(***************************************************************************)
\* Dropping messages leaves a history.
LEMMA DropFirstType ==
    ASSUME NEW h \in Seq(Message), NEW n \in 0..Len(h)
    PROVE  /\ DropFirst(h, n) \in Seq(Message)
           /\ Len(DropFirst(h, n)) = Len(h) - n
           /\ \A i \in 1..(Len(h) - n) : DropFirst(h, n)[i] = h[n + i]
<1>1. \A i \in (n + 1)..Len(h) : h[i] \in Message
  OBVIOUS
<1> QED
  BY <1>1, SubSeqProperties DEF DropFirst

\* Pruning leaves a history.
LEMMA PrunesType ==
    ASSUME NEW h \in Seq(Message)
    PROVE  Prunes(h) \subseteq Seq(Message)
<1>1. PruneStarts(h) \subseteq 0..Len(h)
  BY DEF PruneStarts
<1> QED
  BY <1>1, DropFirstType DEF Prunes

\* So does a compaction.
LEMMA CompactionsType ==
    ASSUME NEW h \in Seq(Message)
    PROVE  Compactions(h) \subseteq Seq(Message)
<1> SUFFICES ASSUME NEW n \in CompactStarts(h)
             PROVE  /\ <<Summary>> \o DropFirst(h, n) \in Seq(Message)
                    /\ DropFirst(h, n) \in Seq(Message)
  BY DEF Compactions
<1>1. n \in 0..Len(h)
  BY DEF CompactStarts
<1>2. DropFirst(h, n) \in Seq(Message)
  BY <1>1, DropFirstType
<1>3. <<Summary>> \in Seq(Message)
  BY DEF Summary, Message, Kinds
<1> QED
  BY <1>2, <1>3

\* What append_history_message starts from is a history.
LEMMA AppendBasesType ==
    ASSUME NEW h \in Seq(Message)
    PROVE  AppendBases(h) \subseteq Seq(Message)
  BY CompactionsType DEF AppendBases

\* So does either of the two.
LEMMA ShrunkType ==
    ASSUME NEW h \in Seq(Message), NEW attempts
    PROVE  Shrunk(h, attempts) \subseteq Seq(Message)
  BY PrunesType, CompactionsType DEF Shrunk

\* The repair appends one message, or none.
LEMMA RepairAppends ==
    ASSUME NEW h \in Seq(Message), NEW g \in Seq(Message), NEW turn \in Nat
    PROVE  \/ Unclosed(g) = {} /\ Repair(h, Unclosed(g), turn) = h
           \/ /\ Unclosed(g) # {}
              /\ \E m \in Message : Repair(h, Unclosed(g), turn) = Append(h, m)
<1>1. Unclosed(g) \subseteq Nat
  <2>1. \A j \in 1..Len(g) : g[j] \in Message
    OBVIOUS
  <2>2. \A m \in Message : m.ref \in Nat
    BY DEF Message
  <2>3. \A j \in 1..Len(g) : g[j].ref \in Nat
    BY <2>1, <2>2
  <2> QED
    BY <2>3 DEF Unclosed
<1>2. CASE Unclosed(g) = {}
  BY <1>2 DEF Repair
<1>3. CASE Unclosed(g) # {}
  <2> DEFINE r == CHOOSE x \in Unclosed(g) : TRUE
  <2>1. r \in Nat
    BY <1>1, <1>3
  <2>2. ResultsFor(r, turn) \in Message
    BY <2>1 DEF ResultsFor, Message, Kinds
  <2>3. Repair(h, Unclosed(g), turn) = Append(h, ResultsFor(r, turn))
    BY <1>3 DEF Repair
  <2> HIDE DEF r
  <2> QED
    BY <1>3, <2>2, <2>3
<1> QED
  BY <1>2, <1>3

\* What it repairs stays a sequence of messages.
LEMMA RepairType ==
    ASSUME NEW h \in Seq(Message), NEW g \in Seq(Message), NEW turn \in Nat
    PROVE  Repair(h, Unclosed(g), turn) \in Seq(Message)
<1>1. \A m \in Message : Append(h, m) \in Seq(Message)
  OBVIOUS
<1> QED
  BY <1>1, RepairAppends

-----------------------------------------------------------------------------
(***************************************************************************)
(* Type correctness.  The loop that appends a turn's messages reads        *)
(* frame.requests[frame.at], so TypeOK is inductive only together with     *)
(* TurnHasInput: a turn is never begun from an empty list of messages.     *)
(***************************************************************************)
TurnHasInput ==
    /\ pc = "drain" => pending_data # <<>>
    /\ pc = "input" => frame.at \in 1..Len(frame.requests)
    /\ pending_continuation.kind = "DataRequests"
         => pending_continuation.requests # <<>>

TypeInv == TypeOK /\ TurnHasInput

\* The values that stand for "none" and the first states have their types.
LEMMA NoneTypes ==
    /\ NoId \in RequestId
    /\ NoRequest \in ProviderRequest
    /\ NoBatch \in ToolBatch
    /\ NoContinuation \in Continuation
    /\ CurrentHistory \in Continuation
    /\ NoFrame \in Frame
    /\ NoContext \in Context
    /\ NoState \in PersistedState
    /\ IdleClient \in Client
    /\ LegacyState \in PersistedState
    /\ FreshRequests \in Seq(HostRequest)
<1>1. NoId \in RequestId
  BY DEF NoId, RequestId
<1>2. NoRequest \in ProviderRequest
  BY <1>1 DEF NoRequest, ProviderRequest
<1>3. NoBatch \in ToolBatch
  BY DEF NoBatch, ToolBatch, Interrupts
<1>4. NoContinuation \in Continuation /\ CurrentHistory \in Continuation
  BY DEF NoContinuation, CurrentHistory, Continuation
<1>5. NoFrame \in Frame /\ NoContext \in Context
  BY DEF NoFrame, Frame, NoContext, Context
<1>6. NoState \in PersistedState /\ IdleClient \in Client
  BY DEF NoState, PersistedState, IdleClient, Client
<1>7. LegacyState \in PersistedState
  BY DEF LegacyState, PersistedState, Message, Kinds
<1>8. FreshRequests \in Seq(HostRequest)
  BY DEF FreshRequests, HostRequest, DataKinds, ControlKinds
<1> QED
  BY <1>1, <1>2, <1>3, <1>4, <1>5, <1>6, <1>7, <1>8

\* The events keep the host's view well typed.
LEMMA ClientTypes ==
    ASSUME NEW c \in Client
    PROVE  /\ \A S \in SUBSET Nat : Shown(c, S) \in Client
           /\ \A t \in Nat : TurnStarted(c, t) \in Client
           /\ TurnCompleted(c) \in Client
           /\ \A b \in BOOLEAN : TurnFailed(c, b) \in Client
<1>1. \A S \in SUBSET Nat : Shown(c, S) \in Client
  BY DEF Shown, Client
<1>2. \A t \in Nat : TurnStarted(c, t) \in Client
  BY DEF TurnStarted, Client
<1>3. TurnCompleted(c) \in Client
  BY DEF TurnCompleted, Client
<1>4. \A b \in BOOLEAN : TurnFailed(c, b) \in Client
  BY DEF TurnFailed, Client
<1> QED
  BY <1>1, <1>2, <1>3, <1>4

\* A save writes a well-typed state, or nothing.
LEMMA PersistType ==
    ASSUME TypeOK, NEW h \in Seq(Message), NEW all \in Seq(Message),
           NEW t \in Nat, NEW b \in Nat, PersistIfClosed(h, all, t, b)
    PROVE  disk' \in PersistedState
  BY DEF TypeOK, PersistIfClosed, PersistedState

\* The first state, from a fresh or an older session.json.
LEMMA TypeInit == Init => TypeInv
<1> SUFFICES ASSUME Init PROVE TypeInv
  OBVIOUS
<1>1. disk \in PersistedState
  BY NoneTypes, FlagsAssumption DEF Init
<1>2. /\ initial \in BOOLEAN
      /\ abort_queued \in BOOLEAN
      /\ worker_done \in BOOLEAN
      /\ grace_elapsed \in BOOLEAN
      /\ renewed \in BOOLEAN
  BY Zenon DEF Init
<1>3. TypeOK
  BY <1>1, <1>2, NoneTypes DEF Init, TypeOK
<1>4. TurnHasInput
  BY DEF Init, TurnHasInput, NoContinuation
<1> QED
  BY <1>3, <1>4 DEF TypeInv

\* Taking the head of the request channel.
LEMMA ReceiveType ==
    ASSUME TypeOK, NEW kind, Receive(kind)
    PROVE  /\ pc = "recv"
           /\ request_rx' \in Seq(HostRequest)
           /\ Head(request_rx) \in HostRequest
           /\ Head(request_rx).kind = kind
  BY DEF TypeOK, Receive

\* Where a handler ends: in the select, or with messages to start a turn from.
LEMMA SettleType ==
    ASSUME NEW request, NEW batch, NEW data, Settle(request, batch, data)
    PROVE  /\ pc' \in {"drain", "recv"}
           /\ pc' = "drain" => data # <<>>
  BY DEF Settle

\* What keeps TurnHasInput in every step that does not begin a turn.
LEMMA KeepsTurnHasInput ==
    ASSUME TurnHasInput,
           pending_continuation'
             \in {pending_continuation, CurrentHistory, NoContinuation},
           pc' # "input",
           pc' = "drain" => pending_data' # <<>>
    PROVE  TurnHasInput'
<1>1. pending_continuation'.kind = "DataRequests"
        => pending_continuation'.requests # <<>>
  BY DEF TurnHasInput, CurrentHistory, NoContinuation
<1> QED
  BY <1>1 DEF TurnHasInput

\* Arming the grace timer, or not.
LEMMA ScheduleGraceType ==
    ASSUME TypeOK, NEW timer \in Nat, NEW data, NEW request, NEW elapsed,
           ScheduleGrace(timer, data, request, elapsed)
    PROVE  /\ grace_timer' \in Nat
           /\ next_timer_id' \in Nat
           /\ timers' \in SUBSET Nat
           /\ renewed' \in BOOLEAN
<1>1. renewed' \in BOOLEAN
  BY Zenon DEF TypeOK, ScheduleGrace
<1>2. next_timer_id \in Nat /\ timers \in SUBSET Nat
  BY DEF TypeOK
<1>3. \/ /\ grace_timer' = next_timer_id
         /\ next_timer_id' = next_timer_id + 1
         /\ timers' = timers \cup {next_timer_id}
      \/ /\ grace_timer' = timer
         /\ next_timer_id' = next_timer_id
         /\ timers' = timers
  BY Zenon DEF ScheduleGrace
<1>4. grace_timer' \in Nat /\ next_timer_id' \in Nat
  BY <1>2, <1>3
<1>5. timers' \subseteq Nat
  BY <1>2, <1>3
<1> QED
  BY <1>1, <1>4, <1>5

\* The end of the actor.
LEMMA DieType ==
    ASSUME NEW c \in Client, Die(c)
    PROVE  pc' = "dead" /\ client' \in Client
  BY ClientTypes DEF Die

\* A recoverable failure of the turn.
LEMMA FinishTurnErrorType ==
    ASSUME TypeOK, NEW c \in Client, NEW continuation \in Continuation,
           FinishTurnError(c, continuation)
    PROVE  /\ client' \in Client
           /\ pending_continuation' = continuation
           /\ pc' \in {"drain", "recv"}
           /\ pc' = "drain" => pending_data # <<>>
  BY ClientTypes, SettleType DEF FinishTurnError

\* An interrupt of the running tool batch.
LEMMA InterruptType ==
    ASSUME TypeOK, NEW interrupt \in Interrupts, InterruptActiveTools(interrupt)
    PROVE  /\ active_tool_batch' \in ToolBatch
           /\ client' \in Client
           /\ pc' \in {"drain", "recv", "dead"}
           /\ pc' = "drain" => pending_data' # <<>>
<1>1. active_tool_batch' \in ToolBatch
  BY DEF TypeOK, InterruptActiveTools, ToolBatch
<1>2. client' \in Client
  BY DieType DEF TypeOK, InterruptActiveTools
<1>3. /\ pc' \in {"drain", "recv", "dead"}
      /\ pc' = "drain" => pending_data' # <<>>
  BY SettleType DEF InterruptActiveTools, Die
<1> QED
  BY <1>1, <1>2, <1>3

\* The active provider request is given up.
LEMMA CancelProviderType ==
    ASSUME TypeOK, NEW emit_failure \in BOOLEAN,
           CancelActiveProviderRequest(emit_failure)
    PROVE  /\ active_provider_request' \in ProviderRequest
           /\ grace_timer' \in Nat
           /\ next_timer_id' \in Nat
           /\ timers' \in SUBSET Nat
           /\ renewed' \in BOOLEAN
           /\ abort_queued' \in BOOLEAN
           /\ client' \in Client
           /\ pc' \in {"drain", "recv"}
           /\ pc' = "drain" => pending_data # <<>>
<1>1. renewed' \in BOOLEAN /\ abort_queued' \in BOOLEAN
  BY Zenon DEF TypeOK, CancelActiveProviderRequest
<1>2. client' \in Client
  BY ClientTypes DEF TypeOK, CancelActiveProviderRequest
<1> QED
  BY <1>1, <1>2, NoneTypes, SettleType DEF TypeOK, CancelActiveProviderRequest

\* It is given up, or the timer is armed.
LEMMA WakeOrScheduleType ==
    ASSUME TypeOK, NEW timer \in Nat, NEW elapsed,
           WakeOrSchedule(timer, elapsed)
    PROVE  /\ active_provider_request' \in ProviderRequest
           /\ grace_timer' \in Nat
           /\ next_timer_id' \in Nat
           /\ timers' \in SUBSET Nat
           /\ renewed' \in BOOLEAN
           /\ abort_queued' \in BOOLEAN
           /\ client' \in Client
           /\ pc' \in {"drain", "recv"}
           /\ pc' = "drain" => pending_data # <<>>
<1>1. CASE CancelActiveProviderRequest(FALSE)
  BY <1>1, CancelProviderType
<1>2. CASE ~CancelActiveProviderRequest(FALSE)
  BY <1>2, ScheduleGraceType, SettleType DEF TypeOK, WakeOrSchedule
<1> QED
  BY <1>1, <1>2

\* The Initial request restores what was saved.
LEMMA TypeHandleInitial == TypeInv /\ HandleInitial => TypeInv'
<1> SUFFICES ASSUME TypeInv, HandleInitial PROVE TypeInv'
  OBVIOUS
<1> USE DEF TypeInv
<1>1. Receive("initial")
  BY DEF HandleInitial
<1>2. /\ disk' \in PersistedState
      /\ history' \in Seq(Message)
      /\ all_messages' \in Seq(Message)
      /\ next_turn_id' \in Nat
      /\ next_batch_id' \in Nat
  BY DEF TypeOK, HandleInitial, PersistedState
<1>3. pending_continuation' \in Continuation /\ client' \in Client
  BY NoneTypes, ClientTypes DEF TypeOK, HandleInitial
<1>4. initial' \in BOOLEAN
  BY Zenon DEF TypeOK, HandleInitial
<1>5. TypeOK'
  BY <1>1, <1>2, <1>3, <1>4, ReceiveType
     DEF TypeOK, HandleInitial, Settle, providerVars, toolVars, timeVars
<1>6. /\ pc' \in {"drain", "recv"}
      /\ pc' = "drain" => pending_data' # <<>>
  BY SettleType DEF HandleInitial
<1>7. pending_continuation' \in {pending_continuation, CurrentHistory}
  BY DEF HandleInitial
<1>8. TurnHasInput'
  BY <1>6, <1>7, KeepsTurnHasInput
<1> QED
  BY <1>5, <1>8

\* A shutdown.
LEMMA TypeHandleShutdown == TypeInv /\ HandleShutdown => TypeInv'
<1> SUFFICES ASSUME TypeInv, HandleShutdown PROVE TypeInv'
  OBVIOUS
<1> USE DEF TypeInv
<1>1. TypeOK'
  BY ReceiveType DEF TypeOK, HandleShutdown, providerVars, toolVars, timeVars
<1>2. TurnHasInput'
  BY KeepsTurnHasInput DEF HandleShutdown
<1> QED
  BY <1>1, <1>2

\* A user or actor message is queued.
LEMMA TypeHandleData ==
    ASSUME TypeInv, NEW kind \in DataKinds, HandleData(kind)
    PROVE  TypeInv'
<1> USE DEF TypeInv
<1>1. Receive(kind)
  BY DEF HandleData
<1>2. pending_data' \in Seq(DataRequest) /\ pending_data' # <<>>
  <2>1. Head(request_rx) \in DataRequest
    BY <1>1, ReceiveType DEF HostRequest, DataRequest
  <2>2. pending_data' = Append(pending_data, Head(request_rx))
    BY DEF HandleData
  <2>3. pending_data \in Seq(DataRequest)
    BY DEF TypeOK
  <2> QED
    BY <2>1, <2>2, <2>3, AppendProperties
<1>3. /\ active_tool_batch' \in ToolBatch
      /\ client' \in Client
      /\ pc' \in {"drain", "recv", "dead"}
      /\ grace_timer' \in Nat
      /\ next_timer_id' \in Nat
      /\ timers' \in SUBSET Nat
      /\ renewed' \in BOOLEAN
  <2>1. CASE kind = "user"
    <3>1. "SupersededByUserMessage" \in Interrupts
      BY DEF Interrupts
    <3>2. InterruptActiveTools("SupersededByUserMessage")
      BY <2>1 DEF HandleData
    <3>3. ScheduleGrace(grace_timer, pending_data', active_provider_request,
                        grace_elapsed)
      BY <2>1 DEF HandleData
    <3>4. grace_timer \in Nat
      BY DEF TypeOK
    <3> QED
      BY <3>1, <3>2, <3>3, <3>4, InterruptType, ScheduleGraceType
  <2>2. CASE kind # "user"
    BY <2>2, SettleType DEF TypeOK, HandleData
  <2> QED
    BY <2>1, <2>2
<1>4. TypeOK'
  BY <1>1, <1>2, <1>3, ReceiveType
     DEF TypeOK, HandleData, providerVars, toolVars
<1>5. pending_continuation' = pending_continuation
  BY DEF HandleData
<1>6. TurnHasInput'
  BY <1>2, <1>3, <1>5, KeepsTurnHasInput
<1> QED
  BY <1>4, <1>6

\* A cancellation.
LEMMA TypeHandleCancelTurn == TypeInv /\ HandleCancelTurn => TypeInv'
<1> SUFFICES ASSUME TypeInv, HandleCancelTurn PROVE TypeInv'
  OBVIOUS
<1> USE DEF TypeInv
<1>1. /\ active_provider_request' \in ProviderRequest
      /\ active_tool_batch' \in ToolBatch
      /\ client' \in Client
      /\ pc' \in {"drain", "recv", "dead"}
      /\ pc' = "drain" => pending_data' # <<>>
      /\ pending_data' = pending_data
      /\ grace_timer' \in Nat
      /\ next_timer_id' \in Nat
      /\ timers' \in SUBSET Nat
      /\ renewed' \in BOOLEAN
      /\ abort_queued' \in BOOLEAN
  <2>1. CASE active_provider_request # NoRequest
    <3>1. /\ CancelActiveProviderRequest(TRUE)
          /\ UNCHANGED <<active_tool_batch, pending_data>>
      BY <2>1 DEF HandleCancelTurn
    <3> QED
      BY <3>1, CancelProviderType DEF TypeOK
  <2>2. CASE active_provider_request = NoRequest
    <3>1. /\ InterruptActiveTools("Cancel")
          /\ UNCHANGED <<active_provider_request, grace_timer, abort_queued,
                         pending_data, next_timer_id, timers, renewed>>
      BY <2>2 DEF HandleCancelTurn
    <3>2. "Cancel" \in Interrupts
      BY DEF Interrupts
    <3> QED
      BY <3>1, <3>2, InterruptType DEF TypeOK
  <2> QED
    BY <2>1, <2>2
<1>2. request_rx' \in Seq(HostRequest)
  BY ReceiveType DEF HandleCancelTurn
<1>3. TypeOK'
  BY <1>1, <1>2 DEF TypeOK, HandleCancelTurn, toolVars
<1>4. pending_continuation' = pending_continuation
  BY DEF HandleCancelTurn
<1>5. TurnHasInput'
  BY <1>1, <1>4, KeepsTurnHasInput
<1> QED
  BY <1>3, <1>5

\* The frames of start_provider_request.
LEMMA FrameTypes ==
    ASSUME NEW f \in Frame, NEW turn \in Nat, NEW step \in Nat,
           NEW attempts \in Nat, NEW at \in Nat, NEW b \in BOOLEAN
    PROVE  /\ [f EXCEPT !.turn = turn] \in Frame
           /\ [f EXCEPT !.turn = turn, !.guarded = b] \in Frame
           /\ [f EXCEPT !.turn = turn, !.step = step] \in Frame
           /\ [f EXCEPT !.turn = turn, !.step = step, !.guarded = b] \in Frame
           /\ [f EXCEPT !.turn = turn, !.step = step, !.attempts = attempts]
                \in Frame
           /\ [f EXCEPT !.attempts = attempts] \in Frame
           /\ [f EXCEPT !.attempts = attempts, !.pushed = b] \in Frame
           /\ [f EXCEPT !.at = at, !.attempts = attempts, !.pushed = b] \in Frame
  BY DEF Frame

\* A turn is begun with the messages that are there.
LEMMA BeginTurnType ==
    ASSUME TypeOK, NEW rs \in Seq(DataRequest), rs # <<>>, BeginTurn(rs)
    PROVE  /\ pc' = "input"
           /\ frame' \in Frame
           /\ frame'.at \in 1..Len(frame'.requests)
           /\ next_turn_id' \in Nat
           /\ pending_continuation' = NoContinuation
<1>1. Len(rs) \in Nat /\ Len(rs) >= 1
  OBVIOUS
<1>2. Len(all_messages) \in Nat /\ next_turn_id \in Nat
  BY DEF TypeOK
<1>3. frame' = [requests |-> rs, at |-> 1, from |-> Len(all_messages),
                turn |-> next_turn_id, step |-> 0, attempts |-> 0,
                pushed |-> FALSE, guarded |-> TRUE]
  BY DEF BeginTurn
<1>4. frame' \in Frame
  BY <1>2, <1>3 DEF Frame
<1>5. frame'.at \in 1..Len(frame'.requests)
  BY <1>1, <1>3
<1> QED
  BY <1>2, <1>4, <1>5 DEF BeginTurn

\* The queued messages become a turn.
LEMMA TypeDrainPendingData == TypeInv /\ DrainPendingData => TypeInv'
<1> SUFFICES ASSUME TypeInv, DrainPendingData PROVE TypeInv'
  OBVIOUS
<1> USE DEF TypeInv
<1>1. pending_data \in Seq(DataRequest) /\ pending_data # <<>>
  BY DEF TypeOK, TurnHasInput, DrainPendingData
<1>2. pending_data' = <<>>
  BY DEF DrainPendingData
<1>3. CASE BeginTurn(pending_data) /\ UNCHANGED client
  <2>1. TypeOK'
    BY <1>1, <1>2, <1>3, BeginTurnType, NoneTypes
       DEF TypeOK, DrainPendingData, providerVars, toolVars, timeVars
  <2>2. TurnHasInput'
    BY <1>1, <1>3, BeginTurnType DEF TurnHasInput, NoContinuation
  <2> QED
    BY <2>1, <2>2
<1>4. CASE Die(client) /\ UNCHANGED <<pending_continuation, next_turn_id, frame>>
  <2>1. pc' = "dead" /\ client' \in Client
    BY <1>4, DieType DEF TypeOK
  <2>2. TypeOK'
    BY <1>2, <1>4, <2>1
       DEF TypeOK, DrainPendingData, providerVars, toolVars, timeVars
  <2>3. TurnHasInput'
    BY <1>4, <2>1, KeepsTurnHasInput
  <2> QED
    BY <2>2, <2>3
<1> QED
  BY <1>3, <1>4 DEF DrainPendingData

\* A failed turn is continued.
LEMMA TypeHandleContinueTurn == TypeInv /\ HandleContinueTurn => TypeInv'
<1> SUFFICES ASSUME TypeInv, HandleContinueTurn PROVE TypeInv'
  OBVIOUS
<1> USE DEF TypeInv
<1>1. /\ request_rx' \in Seq(HostRequest)
      /\ pending_data' = pending_data
  BY ReceiveType DEF HandleContinueTurn
<1>2. CASE /\ Die(client)
           /\ UNCHANGED <<pending_continuation, next_turn_id, frame>>
  <2>1. pc' = "dead" /\ client' \in Client
    BY <1>2, DieType DEF TypeOK
  <2>2. TypeOK'
    BY <1>1, <1>2, <2>1
       DEF TypeOK, HandleContinueTurn, providerVars, toolVars, timeVars
  <2> QED
    BY <1>2, <2>1, <2>2, KeepsTurnHasInput
<1>3. CASE /\ Settle(active_provider_request, active_tool_batch, pending_data)
           /\ pending_continuation' \in {pending_continuation, NoContinuation}
           /\ UNCHANGED <<next_turn_id, frame, client>>
  <2>1. TypeOK'
    BY <1>1, <1>3, SettleType, NoneTypes
       DEF TypeOK, HandleContinueTurn, providerVars, toolVars, timeVars
  <2> QED
    BY <1>1, <1>3, <2>1, SettleType, KeepsTurnHasInput
<1>4. CASE /\ pending_continuation.kind = "DataRequests"
           /\ BeginTurn(pending_continuation.requests)
           /\ UNCHANGED client
  <2>1. /\ pending_continuation.requests \in Seq(DataRequest)
        /\ pending_continuation.requests # <<>>
    BY <1>4 DEF TypeOK, TurnHasInput, Continuation
  <2>2. TypeOK'
    BY <1>1, <1>4, <2>1, BeginTurnType, NoneTypes
       DEF TypeOK, HandleContinueTurn, providerVars, toolVars, timeVars
  <2>3. TurnHasInput'
    BY <1>4, <2>1, BeginTurnType DEF TurnHasInput, NoContinuation
  <2> QED
    BY <2>2, <2>3
<1>5. CASE /\ pending_continuation' = NoContinuation
           /\ next_turn_id' = next_turn_id + 1
           /\ frame' = [NoFrame EXCEPT !.turn = next_turn_id, !.guarded = TRUE]
           /\ client' = TurnStarted(client, next_turn_id)
           /\ pc' = "start"
  <2>1. next_turn_id \in Nat /\ client \in Client
    BY DEF TypeOK
  <2>2. frame' \in Frame
    BY <1>5, <2>1, NoneTypes, FrameTypes
  <2>3. client' \in Client
    BY <1>5, <2>1, ClientTypes
  <2>4. next_turn_id' \in Nat
    BY <1>5, <2>1
  <2>5. TypeOK'
    BY <1>1, <1>5, <2>2, <2>3, <2>4, NoneTypes
       DEF TypeOK, HandleContinueTurn, providerVars, toolVars, timeVars
  <2> QED
    BY <1>5, <2>5, KeepsTurnHasInput
<1> QED
  BY <1>2, <1>3, <1>4, <1>5, Zenon DEF HandleContinueTurn

\* The message an append is about, and the transcript with it.
LEMMA CurrentMessageType ==
    ASSUME TypeInv, pc \in {"input", "final"}
    PROVE  /\ CurrentMessage \in Message
           /\ Transcribed \in Seq(Message)
<1> USE DEF TypeInv
<1>1. frame.turn \in Nat /\ frame.requests \in Seq(DataRequest)
  BY DEF TypeOK, Frame
<1>2. ASSUME pc = "input" PROVE frame.requests[frame.at].id \in Nat
  <2>1. frame.requests[frame.at] \in DataRequest
    BY <1>1, <1>2 DEF TurnHasInput
  <2> QED
    BY <2>1 DEF DataRequest
<1>3. "input" \in Kinds /\ "final" \in Kinds
  BY DEF Kinds
<1>4. CurrentMessage \in Message
  BY <1>1, <1>2, <1>3 DEF CurrentMessage, Message
<1>5. all_messages \in Seq(Message)
  BY DEF TypeOK
<1>6. Transcribed \in Seq(Message)
  BY <1>4, <1>5, AppendProperties DEF Transcribed
<1> QED
  BY <1>4, <1>6

\* One message of the turn is appended.
LEMMA TypeAppendInput == TypeInv /\ AppendInput => TypeInv'
<1> SUFFICES ASSUME TypeInv, AppendInput PROVE TypeInv'
  OBVIOUS
<1> USE DEF TypeInv
<1>1. CurrentMessage \in Message /\ Transcribed \in Seq(Message)
  BY CurrentMessageType DEF AppendInput
<1>2. PICK h \in AppendBases(history) :
        /\ history' = Append(h, CurrentMessage)
        /\ all_messages' = Transcribed
        /\ PersistIfClosed(history', all_messages', next_turn_id, next_batch_id)
  BY DEF AppendInput
<1>3. h \in Seq(Message)
  BY AppendBasesType DEF TypeOK
<1>4. history' \in Seq(Message) /\ all_messages' \in Seq(Message)
  BY <1>1, <1>2, <1>3, AppendProperties
<1>5. disk' \in PersistedState
  BY <1>2, <1>4, PersistType DEF TypeOK
<1>6. frame \in Frame /\ frame.at \in 1..Len(frame.requests)
  BY DEF TypeOK, TurnHasInput, AppendInput
<1>7. frame.requests \in Seq(DataRequest) /\ frame.at + 1 \in Nat
  BY <1>6 DEF Frame
<1>8. frame' = [frame EXCEPT !.at = frame.at + 1, !.attempts = 0,
                             !.pushed = FALSE]
  BY DEF AppendInput
<1>9. frame' \in Frame
  BY <1>6, <1>7, <1>8, FrameTypes
<1>10. TypeOK'
  BY <1>4, <1>5, <1>9 DEF TypeOK, AppendInput, providerVars, toolVars, timeVars
<1>11. frame'.at = frame.at + 1 /\ frame'.requests = frame.requests
  BY <1>6, <1>8 DEF Frame
<1>12. Len(frame.requests) \in Nat
  BY <1>7
<1>13. pc' = "input" => frame'.at \in 1..Len(frame'.requests)
  BY <1>6, <1>11, <1>12 DEF AppendInput
<1>14. TurnHasInput'
  BY <1>13 DEF TurnHasInput, AppendInput
<1> QED
  BY <1>10, <1>14

\* The append fails and keeps the messages of the turn, of which there is one.
LEMMA TypeAppendInputFails == TypeInv /\ AppendInputFails => TypeInv'
<1> SUFFICES ASSUME TypeInv, AppendInputFails PROVE TypeInv'
  OBVIOUS
<1> USE DEF TypeInv
<1>1. Transcribed \in Seq(Message)
  BY CurrentMessageType DEF AppendInputFails
<1>2. all_messages' \in Seq(Message)
  BY <1>1 DEF AppendInputFails, TypeOK
<1>3. frame.requests \in Seq(DataRequest) /\ frame.requests # <<>>
  BY DEF TypeOK, TurnHasInput, AppendInputFails, Frame
<1>4. DataRequests(frame.requests) \in Continuation
  BY <1>3 DEF DataRequests, Continuation
<1>5. FinishTurnError(client, DataRequests(frame.requests)) /\ client \in Client
  BY DEF AppendInputFails, TypeOK
<1>6. /\ client' \in Client
      /\ pending_continuation' = DataRequests(frame.requests)
      /\ pc' \in {"drain", "recv"}
      /\ pc' = "drain" => pending_data # <<>>
  BY <1>4, <1>5, FinishTurnErrorType
<1>7. TypeOK'
  BY <1>2, <1>4, <1>6
     DEF TypeOK, AppendInputFails, providerVars, toolVars, timeVars
<1>8. TurnHasInput'
  BY <1>3, <1>6 DEF TurnHasInput, AppendInputFails, DataRequests
<1> QED
  BY <1>7, <1>8

\* A prune inside an append stays in the same iteration.
LEMMA TypePruneWhileAppending == TypeInv /\ PruneWhileAppending => TypeInv'
<1> SUFFICES ASSUME TypeInv, PruneWhileAppending PROVE TypeInv'
  OBVIOUS
<1> USE DEF TypeInv
<1>1. Transcribed \in Seq(Message)
  BY CurrentMessageType DEF PruneWhileAppending
<1>2. history' \in Seq(Message) /\ all_messages' \in Seq(Message)
  BY <1>1, PrunesType DEF TypeOK, PruneWhileAppending
<1>3. disk' \in PersistedState
  BY <1>2, PersistType DEF TypeOK, PruneWhileAppending
<1>4. frame \in Frame
  BY DEF TypeOK
<1>5. frame' = [frame EXCEPT !.attempts = frame.attempts + 1, !.pushed = TRUE]
  BY DEF PruneWhileAppending
<1>6. frame.attempts + 1 \in Nat
  BY <1>4 DEF Frame
<1>7. frame' \in Frame
  BY <1>4, <1>5, <1>6, FrameTypes
<1>8. TypeOK'
  BY <1>2, <1>3, <1>7
     DEF TypeOK, PruneWhileAppending, providerVars, toolVars, timeVars
<1>9. frame'.at = frame.at /\ frame'.requests = frame.requests
  BY <1>4, <1>5 DEF Frame
<1>10. TurnHasInput'
  BY <1>9 DEF TurnHasInput, PruneWhileAppending
<1> QED
  BY <1>8, <1>10

\* The response that ends the turn is appended.
LEMMA TypeAppendFinal == TypeInv /\ AppendFinal => TypeInv'
<1> SUFFICES ASSUME TypeInv, AppendFinal PROVE TypeInv'
  OBVIOUS
<1> USE DEF TypeInv
<1>1. CurrentMessage \in Message /\ Transcribed \in Seq(Message)
  BY CurrentMessageType DEF AppendFinal
<1>2. PICK h \in AppendBases(history) :
        /\ history' = Append(h, CurrentMessage)
        /\ all_messages' = Transcribed
        /\ PersistIfClosed(history', all_messages', next_turn_id, next_batch_id)
  BY DEF AppendFinal
<1>3. h \in Seq(Message)
  BY AppendBasesType DEF TypeOK
<1>4. history' \in Seq(Message) /\ all_messages' \in Seq(Message)
  BY <1>1, <1>2, <1>3, AppendProperties
<1>5. disk' \in PersistedState
  BY <1>2, <1>4, PersistType DEF TypeOK
<1>6. {Len(all_messages')} \in SUBSET Nat
  BY <1>4
<1>7. client' \in Client
  BY <1>6, ClientTypes DEF TypeOK, AppendFinal
<1>8. pc' \in {"drain", "recv"} /\ (pc' = "drain" => pending_data # <<>>)
  BY SettleType DEF AppendFinal
<1>9. TypeOK'
  BY <1>4, <1>5, <1>7, <1>8
     DEF TypeOK, AppendFinal, providerVars, toolVars, timeVars
<1>10. TurnHasInput'
  BY <1>8, KeepsTurnHasInput DEF AppendFinal
<1> QED
  BY <1>9, <1>10

\* Appending it fails, which ends the actor.
LEMMA TypeAppendFinalFails == TypeInv /\ AppendFinalFails => TypeInv'
<1> SUFFICES ASSUME TypeInv, AppendFinalFails PROVE TypeInv'
  OBVIOUS
<1> USE DEF TypeInv
<1>1. all_messages' \in Seq(Message)
  BY CurrentMessageType DEF AppendFinalFails
<1>2. pc' = "dead" /\ client' \in Client
  BY DieType DEF TypeOK, AppendFinalFails
<1>3. TypeOK'
  BY <1>1, <1>2 DEF TypeOK, AppendFinalFails, providerVars, toolVars, timeVars
<1>4. TurnHasInput'
  BY <1>2, KeepsTurnHasInput DEF AppendFinalFails
<1> QED
  BY <1>3, <1>4

\* The turn and its messages are announced.
LEMMA TypeAnnounceTurn == TypeInv /\ AnnounceTurn => TypeInv'
<1> SUFFICES ASSUME TypeInv, AnnounceTurn PROVE TypeInv'
  OBVIOUS
<1> USE DEF TypeInv
<1>1. frame.turn \in Nat /\ frame.from \in Nat /\ client \in Client
  BY DEF TypeOK, Frame
<1>2. (frame.from + 1)..Len(all_messages) \in SUBSET Nat
  BY <1>1
<1>3. Shown(client, (frame.from + 1)..Len(all_messages)) \in Client
  BY <1>1, <1>2, ClientTypes
<1>4. client' \in Client
  BY <1>1, <1>3, ClientTypes DEF AnnounceTurn
<1>5. TypeOK'
  BY <1>4 DEF TypeOK, AnnounceTurn, providerVars, toolVars, timeVars
<1>6. TurnHasInput'
  BY KeepsTurnHasInput DEF AnnounceTurn
<1> QED
  BY <1>5, <1>6

\* What the branches of start_provider_request change.
StartTypes ==
    /\ pc' \in {"recv", "drain", "start", "dead"}
    /\ pc' = "drain" => pending_data # <<>>
    /\ frame' \in Frame
    /\ pending_continuation'
         \in {pending_continuation, CurrentHistory, NoContinuation}
    /\ client' \in Client
    /\ active_provider_request' \in ProviderRequest
    /\ provider_context' \in Context
    /\ grace_timer' \in Nat
    /\ next_timer_id' \in Nat
    /\ timers' \in SUBSET Nat
    /\ renewed' \in BOOLEAN
    /\ grace_elapsed' \in BOOLEAN
    /\ session_context' \in Seq(Message)
    /\ session_active' \in RequestId
    /\ provider_threads' \in SUBSET RequestId

\* A failing start, whether its caller handles it or not.
LEMMA StartFailsType ==
    ASSUME TypeOK, NEW c \in Client, StartFails(c)
    PROVE  StartTypes
<1>1. CASE FinishTurnError(c, CurrentHistory)
  <2>1. /\ client' \in Client
        /\ pending_continuation' = CurrentHistory
        /\ pc' \in {"drain", "recv"}
        /\ pc' = "drain" => pending_data # <<>>
    BY <1>1, NoneTypes, FinishTurnErrorType
  <2> QED
    BY <2>1 DEF TypeOK, StartFails, StartTypes
<1>2. CASE Die(c) /\ UNCHANGED pending_continuation
  <2>1. pc' = "dead" /\ client' \in Client
    BY <1>2, DieType
  <2> QED
    BY <1>2, <2>1 DEF TypeOK, StartFails, StartTypes
<1> QED
  BY <1>1, <1>2 DEF StartFails

\* A prefix of a history can be dropped from it.
LEMMA PrefixDrop ==
    ASSUME NEW s \in Seq(Message), NEW h \in Seq(Message), IsPrefixOf(s, h)
    PROVE  DropFirst(h, Len(s)) \in Seq(Message)
<1>1. Len(s) \in 0..Len(h)
  BY DEF IsPrefixOf
<1> QED
  BY <1>1, DropFirstType

\* A request handed to the provider session.
LEMMA LaunchType ==
    ASSUME TypeOK, NEW h \in Seq(Message), NEW all \in Seq(Message),
           NEW c \in Client, Launch(h, all, c)
    PROVE  StartTypes
<1>1. CASE session_active # NoId
  BY <1>1, StartFailsType DEF Launch
<1>2. CASE session_active = NoId
  <2>1. frame \in Frame
    BY DEF TypeOK
  <2>2. CurrentId \in RequestId /\ frame.turn \in Nat
    BY <2>1 DEF CurrentId, RequestId, Frame
  <2>3. session_context' \in Seq(Message)
    <3>1. provider_context.messages \in Seq(Message)
      BY DEF TypeOK, Context
    <3>2. session_context \in Seq(Message)
      BY DEF TypeOK
    <3>3. CASE /\ IsPrefixOf(provider_context.messages, h)
               /\ session_context' = session_context
                      \o DropFirst(h, Len(provider_context.messages))
      BY <3>1, <3>2, <3>3, PrefixDrop, ConcatProperties
    <3>4. CASE session_context' = h
      BY <3>4
    <3> QED
      BY <1>2, <3>3, <3>4 DEF Launch
  <2>4. provider_context' \in Context
    BY <1>2, <2>2 DEF Launch, Context
  <2>5. active_provider_request' \in ProviderRequest
    <3>1. Len(all) + 1 \in Nat
      OBVIOUS
    <3> QED
      BY <1>2, <2>2, <3>1 DEF Launch, ProviderRequest
  <2>6. session_active' \in RequestId /\ provider_threads' \in SUBSET RequestId
    BY <1>2, <2>2 DEF Launch, TypeOK
  <2>7. ScheduleGrace(grace_timer, pending_data, active_provider_request', FALSE)
    BY <1>2 DEF Launch
  <2>8. /\ grace_timer' \in Nat
        /\ next_timer_id' \in Nat
        /\ timers' \in SUBSET Nat
        /\ renewed' \in BOOLEAN
    BY <2>7, ScheduleGraceType DEF TypeOK
  <2>9. grace_elapsed' \in BOOLEAN
    BY <1>2, Zenon DEF Launch
  <2>10. /\ pc' = "recv" /\ client' = c
         /\ frame' = frame /\ pending_continuation' = pending_continuation
    BY <1>2 DEF Launch
  <2> QED
    BY <2>1, <2>3, <2>4, <2>5, <2>6, <2>8, <2>9, <2>10 DEF StartTypes
<1> QED
  BY <1>1, <1>2

\* A history made smaller, for another round of the loop.
LEMMA ShrinkType ==
    ASSUME TypeOK, pc = "start", NEW h \in Seq(Message), NEW c \in Client,
           Shrink(h, c)
    PROVE  StartTypes /\ history' \in Seq(Message)
<1>1. history' \in Seq(Message)
  BY ShrunkType DEF Shrink
<1>2. frame \in Frame
  BY DEF TypeOK
<1>3. frame.attempts + 1 \in Nat
  BY <1>2 DEF Frame
<1>4. frame' = [frame EXCEPT !.attempts = frame.attempts + 1]
  BY DEF Shrink
<1>5. frame' \in Frame
  BY <1>2, <1>3, <1>4, FrameTypes
<1> QED
  BY <1>1, <1>5 DEF TypeOK, Shrink, StartTypes

\* One round of the loop of start_provider_request.
LEMMA TypeStartProviderRequest == TypeInv /\ StartProviderRequest => TypeInv'
<1> SUFFICES ASSUME TypeInv, StartProviderRequest PROVE TypeInv'
  OBVIOUS
<1> USE DEF TypeInv
<1> DEFINE unclosed == Unclosed(history)
           h == Repair(history, unclosed, frame.turn)
           all == Repair(all_messages, unclosed, frame.turn)
           c == IF unclosed = {} THEN client ELSE Shown(client, {Len(all)})
<1>1. frame.turn \in Nat
  BY DEF TypeOK, Frame
<1>2. h \in Seq(Message) /\ all \in Seq(Message)
  BY <1>1, RepairType DEF TypeOK
<1> HIDE DEF h, all
<1>3. c \in Client
  <2>1. {Len(all)} \in SUBSET Nat
    BY <1>2
  <2>2. Shown(client, {Len(all)}) \in Client
    BY <2>1, ClientTypes DEF TypeOK
  <2> QED
    BY <2>2 DEF TypeOK
<1> HIDE DEF c
<1>4. /\ all_messages' = all
      /\ \/ Launch(h, all, c) /\ history' = h
         \/ Shrink(h, c)
         \/ StartFails(c) /\ history' = h
      /\ \/ UNCHANGED disk
         \/ PersistIfClosed(history', all, next_turn_id, next_batch_id)
  BY Zenon DEF StartProviderRequest, h, all, c
<1>5. pc = "start"
  BY DEF StartProviderRequest
<1>6. StartTypes /\ history' \in Seq(Message)
  BY <1>2, <1>3, <1>4, <1>5, LaunchType, ShrinkType, StartFailsType
<1>7. disk' \in PersistedState
  BY <1>2, <1>4, <1>6, PersistType DEF TypeOK
<1>8. pending_continuation' \in Continuation
  BY <1>6, NoneTypes DEF StartTypes, TypeOK
<1>9. TypeOK'
  BY <1>2, <1>4, <1>6, <1>7, <1>8
     DEF TypeOK, StartProviderRequest, StartTypes, toolVars
<1>10. TurnHasInput'
  BY <1>6, KeepsTurnHasInput DEF StartTypes, StartProviderRequest
<1> QED
  BY <1>9, <1>10

\* What handle_provider_event changes, in each of its cases.
EventTypes ==
    /\ pc' \in {"recv", "drain", "start", "final"}
    /\ pc' = "drain" => pending_data # <<>>
    /\ frame' \in Frame
    /\ history' \in Seq(Message)
    /\ all_messages' \in Seq(Message)
    /\ active_provider_request' \in ProviderRequest
    /\ active_tool_batch' \in ToolBatch
    /\ pending_continuation'
         \in {pending_continuation, CurrentHistory, NoContinuation}
    /\ next_batch_id' \in Nat
    /\ grace_timer' \in Nat
    /\ next_timer_id' \in Nat
    /\ disk' \in PersistedState
    /\ client' \in Client
    /\ abort_queued' \in BOOLEAN
    /\ timers' \in SUBSET Nat
    /\ renewed' \in BOOLEAN
    /\ grace_elapsed' \in BOOLEAN
    /\ running_batch' \in Nat
    /\ worker_done' \in BOOLEAN

\* An event that changes nothing.
LEMMA IgnoreProviderEventType ==
    ASSUME TypeInv, NEW e \in ProviderEvent, NEW timer \in Nat,
           IgnoreProviderEvent(e, timer)
    PROVE  EventTypes
  BY SettleType DEF TypeInv, TypeOK, IgnoreProviderEvent, EventTypes

\* A delta of the active request.
LEMMA HandleStreamType ==
    ASSUME TypeInv, NEW e \in ProviderEvent, NEW timer \in Nat,
           HandleStream(e, timer)
    PROVE  EventTypes
<1> USE DEF TypeInv
<1>1. grace_elapsed' \in BOOLEAN
  BY Zenon DEF HandleStream
<1>2. CASE timer # 0
  <2>1. renewed' \in BOOLEAN /\ abort_queued' \in BOOLEAN
    BY <1>2, Zenon DEF HandleStream, TypeOK
  <2> QED
    BY <1>1, <1>2, <2>1 DEF TypeOK, HandleStream, EventTypes
<1>3. CASE WakeOrSchedule(timer, FALSE)
  BY <1>1, <1>3, WakeOrScheduleType DEF TypeOK, HandleStream, EventTypes
<1> QED
  BY <1>2, <1>3 DEF HandleStream

\* A retry notice.
LEMMA HandleRetryType ==
    ASSUME TypeInv, NEW e \in ProviderEvent, NEW timer \in Nat,
           HandleRetry(e, timer)
    PROVE  EventTypes
  BY WakeOrScheduleType DEF TypeInv, TypeOK, HandleRetry, EventTypes

\* What every result changes.
LEMMA TakeResultType ==
    ASSUME TypeOK, NEW e \in ProviderEvent, NEW result, TakeResult(e, result)
    PROVE  /\ active_provider_request' \in ProviderRequest
           /\ grace_timer' \in Nat
           /\ next_timer_id' \in Nat
           /\ abort_queued' \in BOOLEAN
           /\ timers' \in SUBSET Nat
           /\ renewed' \in BOOLEAN
           /\ grace_elapsed' \in BOOLEAN
  BY NoneTypes DEF TypeOK, TakeResult

\* The ids of a provider event are numbers.
LEMMA EventIdType ==
    ASSUME NEW e \in ProviderEvent
    PROVE  e.id.turn \in Nat /\ e.id.step \in Nat /\ e.id.attempts \in Nat
<1>1. e.id \in RequestId
  BY DEF ProviderEvent
<1> QED
  BY <1>1 DEF RequestId

\* A response without tool calls.
LEMMA HandleFinalResponseType ==
    ASSUME TypeInv, NEW e \in ProviderEvent, HandleFinalResponse(e)
    PROVE  EventTypes
<1> USE DEF TypeInv
<1>1. frame' \in Frame
  BY EventIdType, NoneTypes, FrameTypes DEF HandleFinalResponse
<1> QED
  BY <1>1, TakeResultType DEF TypeOK, HandleFinalResponse, EventTypes

\* A response with tool calls.
LEMMA HandleToolCallsType ==
    ASSUME TypeInv, NEW e \in ProviderEvent, HandleToolCalls(e)
    PROVE  EventTypes
<1> USE DEF TypeInv
<1> DEFINE m == [kind |-> "calls", turn |-> e.id.turn, ref |-> Position]
           r == ResultsFor(Position, e.id.turn)
<1>1. /\ e.id.turn \in Nat /\ e.id.step \in Nat /\ e.id.step + 1 \in Nat
      /\ Position \in Nat /\ Position + 1 \in Nat
      /\ next_batch_id \in Nat /\ next_batch_id + 1 \in Nat
  BY EventIdType DEF TypeOK, Position
<1>2. m \in Message /\ r \in Message
  BY <1>1 DEF Message, Kinds, ResultsFor
<1>3. <<m, r>> \in Seq(Message)
  BY <1>2
<1>4. history \in Seq(Message) /\ all_messages \in Seq(Message) /\ client \in Client
  BY DEF TypeOK
<1>5. TakeResult(e, "Calls") /\ next_batch_id' = next_batch_id + 1
  BY DEF HandleToolCalls
<1>6. /\ PersistIfClosed(history', all_messages', next_turn_id, next_batch_id')
      /\ UNCHANGED pending_continuation
  BY DEF HandleToolCalls
<1>7. CASE running_batch = 0
  <2>1. /\ history' = Append(history, m)
        /\ all_messages' = Append(all_messages, m)
        /\ client' = Shown(client, {Position})
        /\ active_tool_batch' =
             [turn |-> e.id.turn, step |-> e.id.step, batch |-> next_batch_id,
              call |-> Position, interrupt |-> "None"]
        /\ running_batch' = next_batch_id
        /\ pc' = "recv"
        /\ UNCHANGED frame
    BY <1>7 DEF HandleToolCalls
  <2> HIDE DEF m, r
  <2>2. history' \in Seq(Message) /\ all_messages' \in Seq(Message)
    BY <1>2, <1>4, <2>1, AppendProperties
  <2>3. disk' \in PersistedState
    BY <1>1, <1>5, <1>6, <2>2, PersistType DEF TypeOK
  <2>4. client' \in Client
    BY <1>1, <1>4, <2>1, ClientTypes
  <2>5. active_tool_batch' \in ToolBatch
    BY <1>1, <2>1 DEF ToolBatch, Interrupts
  <2>6. worker_done' \in BOOLEAN
    BY <1>7, Zenon DEF HandleToolCalls
  <2>7. frame' \in Frame
    BY <2>1 DEF TypeOK
  <2> QED
    BY <1>1, <1>5, <1>6, <2>1, <2>2, <2>3, <2>4, <2>5, <2>6, <2>7, TakeResultType
       DEF EventTypes
<1>8. CASE running_batch # 0
  <2>1. /\ history' = history \o <<m, r>>
        /\ all_messages' = all_messages \o <<m, r>>
        /\ client' = Shown(client, {Position, Position + 1})
        /\ frame' = [NoFrame EXCEPT !.turn = e.id.turn, !.step = e.id.step + 1]
        /\ pc' = "start"
        /\ UNCHANGED <<active_tool_batch, running_batch, worker_done>>
    BY <1>8 DEF HandleToolCalls
  <2> HIDE DEF m, r
  <2>2. history' \in Seq(Message) /\ all_messages' \in Seq(Message)
    BY <1>3, <1>4, <2>1, ConcatProperties
  <2>3. disk' \in PersistedState
    BY <1>1, <1>5, <1>6, <2>2, PersistType DEF TypeOK
  <2>4. client' \in Client
    BY <1>1, <1>4, <2>1, ClientTypes
  <2>5. frame' \in Frame
    BY <1>1, <2>1, NoneTypes, FrameTypes
  <2> QED
    BY <1>1, <1>5, <1>6, <2>1, <2>2, <2>3, <2>4, <2>5, TakeResultType
       DEF TypeOK, EventTypes
<1> QED
  BY <1>7, <1>8

\* A request the provider found too large.
LEMMA HandleTooLargeType ==
    ASSUME TypeInv, NEW e \in ProviderEvent, HandleTooLarge(e)
    PROVE  EventTypes
<1> USE DEF TypeInv
<1>1. e.id.turn \in Nat /\ e.id.step \in Nat /\ e.id.attempts + 1 \in Nat
  BY EventIdType
<1>2. /\ TakeResult(e, "TooLarge")
      /\ UNCHANGED <<all_messages, active_tool_batch, next_batch_id,
                     running_batch, worker_done>>
  BY DEF HandleTooLarge
<1>3. CASE /\ history' \in Shrunk(history, e.id.attempts)
           /\ PersistIfClosed(history', all_messages, next_turn_id, next_batch_id)
           /\ frame' = [NoFrame EXCEPT !.turn = e.id.turn, !.step = e.id.step,
                                       !.attempts = e.id.attempts + 1]
           /\ pc' = "start"
           /\ UNCHANGED <<pending_continuation, client>>
  <2>1. history' \in Seq(Message)
    BY <1>3, ShrunkType DEF TypeOK
  <2>2. disk' \in PersistedState
    BY <1>3, <2>1, PersistType DEF TypeOK
  <2>3. frame' \in Frame
    BY <1>1, <1>3, NoneTypes, FrameTypes
  <2> QED
    BY <1>2, <1>3, <2>1, <2>2, <2>3, TakeResultType DEF TypeOK, EventTypes
<1>4. CASE /\ FinishTurnError(client, CurrentHistory)
           /\ UNCHANGED <<history, frame, disk>>
  <2>1. /\ client' \in Client
        /\ pending_continuation' = CurrentHistory
        /\ pc' \in {"drain", "recv"}
        /\ pc' = "drain" => pending_data # <<>>
    BY <1>4, NoneTypes, FinishTurnErrorType DEF TypeOK
  <2> QED
    BY <1>2, <1>4, <2>1, TakeResultType DEF TypeOK, EventTypes
<1> QED
  BY <1>3, <1>4 DEF HandleTooLarge

\* An error that fails the turn.
LEMMA HandleProviderErrorType ==
    ASSUME TypeInv, NEW e \in ProviderEvent, HandleProviderError(e)
    PROVE  EventTypes
<1> USE DEF TypeInv
<1>1. PICK result : TakeResult(e, result)
  BY DEF HandleProviderError
<1>2. /\ client' \in Client
      /\ pending_continuation' = CurrentHistory
      /\ pc' \in {"drain", "recv"}
      /\ pc' = "drain" => pending_data # <<>>
  BY NoneTypes, FinishTurnErrorType DEF TypeOK, HandleProviderError
<1> QED
  BY <1>1, <1>2, TakeResultType DEF TypeOK, HandleProviderError, EventTypes

\* Whatever the event, taking it from the channel and handling it.
LEMMA TypeHandleProviderEvent ==
    ASSUME TypeInv, provider_event_rx # <<>>, NEW timer \in Nat,
           HandleProviderEvent(Head(provider_event_rx), timer),
           internal_event_rx' \in Seq(Nat)
    PROVE  TypeInv'
<1> USE DEF TypeInv
<1> DEFINE e == Head(provider_event_rx)
<1>1. provider_event_rx \in Seq(ProviderEvent)
  BY DEF TypeOK
<1>2. e \in ProviderEvent
  BY <1>1
<1>3. provider_event_rx' = Tail(provider_event_rx)
  BY DEF HandleProviderEvent
<1>4. provider_event_rx' \in Seq(ProviderEvent)
  BY <1>1, <1>3
<1> HIDE DEF e
<1>5. EventTypes
  <2>1. \/ IgnoreProviderEvent(e, timer)
        \/ HandleStream(e, timer)
        \/ HandleRetry(e, timer)
        \/ HandleFinalResponse(e)
        \/ HandleToolCalls(e)
        \/ HandleTooLarge(e)
        \/ HandleProviderError(e)
    BY DEF HandleProviderEvent, e
  <2> QED
    BY <1>2, <2>1, IgnoreProviderEventType, HandleStreamType, HandleRetryType,
       HandleFinalResponseType, HandleToolCallsType, HandleTooLargeType,
       HandleProviderErrorType
<1>6. pending_continuation' \in Continuation
  BY <1>5, NoneTypes DEF EventTypes, TypeOK
<1>7. TypeOK'
  BY <1>4, <1>5, <1>6 DEF TypeOK, EventTypes, HandleProviderEvent
<1>8. pending_data' = pending_data
  BY DEF HandleProviderEvent
<1>9. TurnHasInput'
  BY <1>5, <1>8, KeepsTurnHasInput DEF EventTypes
<1> QED
  BY <1>7, <1>9

\* A provider event taken by the select.
LEMMA TypeReceiveProviderEvent == TypeInv /\ ReceiveProviderEvent => TypeInv'
<1> SUFFICES ASSUME TypeInv, ReceiveProviderEvent PROVE TypeInv'
  OBVIOUS
<1>1. grace_timer \in Nat /\ internal_event_rx' \in Seq(Nat)
  BY DEF TypeInv, TypeOK, ReceiveProviderEvent
<1> QED
  BY <1>1, TypeHandleProviderEvent DEF ReceiveProviderEvent

\* A fired grace timer, and the provider event that may go before it.
LEMMA TypeHandleGraceElapsed == TypeInv /\ HandleGraceElapsed => TypeInv'
<1> SUFFICES ASSUME TypeInv, HandleGraceElapsed PROVE TypeInv'
  OBVIOUS
<1> USE DEF TypeInv
<1>1. internal_event_rx' \in Seq(Nat)
  BY DEF TypeOK, HandleGraceElapsed
<1>2. CASE /\ provider_event_rx # <<>>
           /\ HandleProviderEvent(Head(provider_event_rx), 0)
  BY <1>1, <1>2, TypeHandleProviderEvent
<1> DEFINE Kept == UNCHANGED <<frame, initial, pending_data, history,
                     all_messages, active_tool_batch, pending_continuation,
                     next_turn_id, next_batch_id, provider_context, disk,
                     request_rx, sent, restarts, session_context,
                     session_active, provider_threads, provider_event_rx,
                     streamed, grace_elapsed, toolVars>>
<1>3. CASE Kept /\ WakeOrSchedule(0, grace_elapsed)
  <2>1. /\ active_provider_request' \in ProviderRequest
        /\ grace_timer' \in Nat
        /\ next_timer_id' \in Nat
        /\ timers' \in SUBSET Nat
        /\ renewed' \in BOOLEAN
        /\ abort_queued' \in BOOLEAN
        /\ client' \in Client
        /\ pc' \in {"drain", "recv"}
        /\ pc' = "drain" => pending_data # <<>>
    BY <1>3, WakeOrScheduleType
  <2>2. TypeOK'
    BY <1>1, <1>3, <2>1 DEF TypeOK, toolVars
  <2>3. TurnHasInput'
    BY <1>3, <2>1, KeepsTurnHasInput
  <2> QED
    BY <2>2, <2>3
<1>4. CASE /\ Kept
           /\ Settle(active_provider_request, active_tool_batch, pending_data)
           /\ UNCHANGED <<active_provider_request, grace_timer, next_timer_id,
                          timers, renewed, abort_queued, client>>
  <2>1. pc' \in {"drain", "recv"} /\ (pc' = "drain" => pending_data # <<>>)
    BY <1>4, SettleType
  <2>2. TypeOK'
    BY <1>1, <1>4, <2>1 DEF TypeOK, toolVars
  <2>3. TurnHasInput'
    BY <1>4, <2>1, KeepsTurnHasInput
  <2> QED
    BY <2>2, <2>3
<1> QED
  BY <1>2, <1>3, <1>4, Zenon DEF HandleGraceElapsed

\* A compaction on request.
LEMMA TypeHandleCompactNow == TypeInv /\ HandleCompactNow => TypeInv'
<1> SUFFICES ASSUME TypeInv, HandleCompactNow PROVE TypeInv'
  OBVIOUS
<1> USE DEF TypeInv
<1>1. history' \in Seq(Message)
  BY CompactionsType DEF TypeOK, HandleCompactNow
<1>2. disk' \in PersistedState
  BY <1>1, PersistType DEF TypeOK, HandleCompactNow
<1>3. /\ request_rx' \in Seq(HostRequest)
      /\ pc' \in {"drain", "recv"}
      /\ pc' = "drain" => pending_data # <<>>
  BY ReceiveType, SettleType DEF HandleCompactNow
<1>4. TypeOK'
  BY <1>1, <1>2, <1>3
     DEF TypeOK, HandleCompactNow, providerVars, toolVars, timeVars
<1>5. TurnHasInput'
  BY <1>3, KeepsTurnHasInput DEF HandleCompactNow
<1> QED
  BY <1>4, <1>5

\* The completion of a tool batch.
LEMMA TypeHandleToolCompletion == TypeInv /\ HandleToolCompletion => TypeInv'
<1> SUFFICES ASSUME TypeInv, HandleToolCompletion PROVE TypeInv'
  OBVIOUS
<1> USE DEF TypeInv
<1> DEFINE m == ResultsFor(active_tool_batch.call, active_tool_batch.turn)
<1>1. /\ active_tool_batch.call \in Nat
      /\ active_tool_batch.turn \in Nat
      /\ active_tool_batch.step + 1 \in Nat
  BY DEF TypeOK, ToolBatch
<1>2. m \in Message
  BY <1>1 DEF ResultsFor, Message, Kinds
<1>3. /\ pc = "recv"
      /\ tool_completion_rx' \in Seq(Nat)
      /\ pending_data' = pending_data
      /\ pending_continuation' = pending_continuation
  BY DEF HandleToolCompletion, TypeOK
<1>4. CASE /\ Settle(active_provider_request, active_tool_batch, pending_data)
           /\ UNCHANGED <<active_tool_batch, running_batch, worker_done,
                          history, all_messages, disk, client, frame>>
  <2>1. pc' \in {"drain", "recv"} /\ (pc' = "drain" => pending_data # <<>>)
    BY <1>4, SettleType
  <2>2. TypeOK'
    BY <1>3, <1>4, <2>1 DEF TypeOK, HandleToolCompletion, providerVars, timeVars
  <2>3. TurnHasInput'
    BY <1>3, <1>4, <2>1, KeepsTurnHasInput
  <2> QED
    BY <2>2, <2>3
<1>5. CASE /\ Die(client)
           /\ UNCHANGED <<active_tool_batch, running_batch, worker_done,
                          history, all_messages, disk, frame>>
  <2>1. pc' = "dead" /\ client' \in Client
    BY <1>5, DieType DEF TypeOK
  <2>2. TypeOK'
    BY <1>3, <1>5, <2>1 DEF TypeOK, HandleToolCompletion, providerVars, timeVars
  <2>3. TurnHasInput'
    BY <1>3, <2>1, KeepsTurnHasInput
  <2> QED
    BY <2>2, <2>3
<1> HIDE DEF m
<1>6. CASE /\ active_tool_batch' = NoBatch
           /\ running_batch' = 0
           /\ worker_done' = FALSE
           /\ history' = Append(history, m)
           /\ all_messages' = Append(all_messages, m)
           /\ PersistIfClosed(history', all_messages', next_turn_id,
                              next_batch_id)
           /\ client' = Shown(client, {Position})
           /\ \/ /\ Settle(active_provider_request, NoBatch, pending_data)
                 /\ UNCHANGED frame
              \/ /\ pc' = "start"
                 /\ frame' = [NoFrame EXCEPT !.turn = active_tool_batch.turn,
                                             !.step = active_tool_batch.step + 1,
                                             !.guarded = TRUE]
  <2>1. history' \in Seq(Message) /\ all_messages' \in Seq(Message)
    BY <1>2, <1>6, AppendProperties DEF TypeOK
  <2>2. disk' \in PersistedState
    BY <1>6, <2>1, PersistType DEF TypeOK
  <2>3. {Position} \in SUBSET Nat
    BY DEF TypeOK, Position
  <2>4. client' \in Client
    BY <1>6, <2>3, ClientTypes DEF TypeOK
  <2>5. frame' \in Frame
    <3>1. frame \in Frame
      BY DEF TypeOK
    <3>2. [NoFrame EXCEPT !.turn = active_tool_batch.turn,
                          !.step = active_tool_batch.step + 1,
                          !.guarded = TRUE] \in Frame
      BY <1>1, NoneTypes, FrameTypes
    <3> QED
      BY <1>6, <3>1, <3>2
  <2>6. pc' \in {"drain", "recv", "start"} /\ (pc' = "drain" => pending_data # <<>>)
    BY <1>6, SettleType
  <2>7. worker_done' \in BOOLEAN
    BY <1>6, Zenon
  <2>8. active_tool_batch' \in ToolBatch /\ running_batch' \in Nat
    BY <1>6, NoneTypes
  <2>9. TypeOK'
    BY <1>3, <2>1, <2>2, <2>4, <2>5, <2>6, <2>7, <2>8
       DEF TypeOK, HandleToolCompletion, providerVars, timeVars
  <2>10. TurnHasInput'
    BY <1>3, <2>6, KeepsTurnHasInput
  <2> QED
    BY <2>9, <2>10
<1> QED
  BY <1>4, <1>5, <1>6, Zenon DEF HandleToolCompletion, m

\* The host sends a request.
LEMMA TypeSendRequest ==
    ASSUME TypeInv, NEW kind \in Requests, SendRequest(kind)
    PROVE  TypeInv'
<1> USE DEF TypeInv
<1>1. sent' \in Nat
  BY DEF TypeOK, SendRequest
<1>2. [kind |-> kind, id |-> sent'] \in HostRequest
  BY <1>1, RequestsAssumption DEF HostRequest
<1>3. request_rx' \in Seq(HostRequest)
  BY <1>2, AppendProperties DEF TypeOK, SendRequest
<1>4. TypeOK'
  BY <1>1, <1>3
     DEF TypeOK, SendRequest, actorVars, providerVars, toolVars, timeVars
<1>5. TurnHasInput'
  BY DEF TurnHasInput, SendRequest, actorVars
<1> QED
  BY <1>4, <1>5

\* The provider's threads and its session.
LEMMA TypeProviderSteps ==
    ASSUME TypeInv,
           \/ \E id \in provider_threads, type \in {"Stream", "Retry"} :
                ProviderStreams(id, type)
           \/ \E result \in Results : ProviderCompletes(result)
           \/ ProviderAborts
    PROVE  TypeInv'
<1> USE DEF TypeInv
<1>1. /\ provider_threads \subseteq RequestId
      /\ session_active \in RequestId
      /\ provider_event_rx \in Seq(ProviderEvent)
  BY DEF TypeOK
<1>2. \A id \in RequestId, type \in {"Stream", "Retry", "Result"},
         result \in Results :
        Append(provider_event_rx, [type |-> type, id |-> id, result |-> result])
          \in Seq(ProviderEvent)
  <2> SUFFICES ASSUME NEW id \in RequestId,
                      NEW type \in {"Stream", "Retry", "Result"},
                      NEW result \in Results
               PROVE  Append(provider_event_rx,
                        [type |-> type, id |-> id, result |-> result])
                        \in Seq(ProviderEvent)
    OBVIOUS
  <2>1. [type |-> type, id |-> id, result |-> result] \in ProviderEvent
    BY DEF ProviderEvent
  <2> QED
    BY <1>1, <2>1, AppendProperties
<1>3. "Error" \in Results
  BY DEF Results
<1>4. UNCHANGED <<pc, frame, pending_data, pending_continuation>>
  BY DEF ProviderStreams, ProviderCompletes, ProviderAborts, actorVars
<1>5. TurnHasInput'
  BY <1>4 DEF TurnHasInput
<1>6. ASSUME NEW id \in provider_threads, NEW type \in {"Stream", "Retry"},
             ProviderStreams(id, type)
      PROVE  TypeOK'
  <2>1. provider_event_rx' \in Seq(ProviderEvent)
    BY <1>1, <1>2, <1>3, <1>6 DEF ProviderStreams
  <2> QED
    BY <1>6, <2>1
       DEF TypeOK, ProviderStreams, actorVars, hostVars, toolVars, timeVars
<1>7. ASSUME NEW result \in Results, ProviderCompletes(result)
      PROVE  TypeOK'
  <2>1. provider_event_rx' \in Seq(ProviderEvent)
    BY <1>1, <1>2, <1>7 DEF ProviderCompletes
  <2>2. provider_threads' \in SUBSET RequestId
    BY <1>1, <1>7 DEF ProviderCompletes
  <2> QED
    BY <1>7, <2>1, <2>2, NoneTypes
       DEF TypeOK, ProviderCompletes, actorVars, hostVars, toolVars, timeVars
<1>8. ASSUME ProviderAborts
      PROVE  TypeOK'
  <2>1. provider_event_rx' \in Seq(ProviderEvent)
    BY <1>1, <1>2, <1>3, <1>8 DEF ProviderAborts
  <2>2. abort_queued' \in BOOLEAN
    BY <1>8, Zenon DEF ProviderAborts
  <2> QED
    BY <1>8, <2>1, <2>2, NoneTypes
       DEF TypeOK, ProviderAborts, actorVars, hostVars, toolVars, timeVars
<1> QED
  BY <1>5, <1>6, <1>7, <1>8

\* The tool worker, the clock and the timers.
LEMMA TypeTimeSteps ==
    ASSUME TypeInv,
           \/ WorkerCompletes
           \/ GraceWindowElapses
           \/ \E t \in timers : TimerFires(t)
    PROVE  TypeInv'
<1> USE DEF TypeInv
<1>1. UNCHANGED <<pc, frame, pending_data, pending_continuation>>
  BY DEF WorkerCompletes, GraceWindowElapses, TimerFires, actorVars
<1>2. TurnHasInput'
  BY <1>1 DEF TurnHasInput
<1>3. ASSUME WorkerCompletes PROVE TypeOK'
  <2>1. tool_completion_rx' \in Seq(Nat)
    BY <1>3, AppendProperties DEF TypeOK, WorkerCompletes
  <2>2. worker_done' \in BOOLEAN
    BY <1>3, Zenon DEF WorkerCompletes
  <2> QED
    BY <1>3, <2>1, <2>2
       DEF TypeOK, WorkerCompletes, actorVars, hostVars, providerVars, timeVars
<1>4. ASSUME GraceWindowElapses PROVE TypeOK'
  <2>1. grace_elapsed' \in BOOLEAN
    BY <1>4, Zenon DEF GraceWindowElapses
  <2> QED
    BY <1>4, <2>1
       DEF TypeOK, GraceWindowElapses, actorVars, hostVars, providerVars, toolVars
<1>5. ASSUME NEW t \in timers, TimerFires(t) PROVE TypeOK'
  <2>1. t \in Nat
    BY DEF TypeOK
  <2>2. internal_event_rx' \in Seq(Nat)
    BY <1>5, <2>1, AppendProperties DEF TypeOK, TimerFires
  <2>3. timers' \in SUBSET Nat
    BY <1>5 DEF TypeOK, TimerFires
  <2> QED
    BY <1>5, <2>2, <2>3
       DEF TypeOK, TimerFires, actorVars, hostVars, providerVars, toolVars
<1> QED
  BY <1>2, <1>3, <1>4, <1>5

\* A crash, and the new process after it.
LEMMA TypeCrashRestart == TypeInv /\ (Crash \/ Restart) => TypeInv'
<1> SUFFICES ASSUME TypeInv, Crash \/ Restart PROVE TypeInv'
  OBVIOUS
<1> USE DEF TypeInv
<1>1. CASE Crash
  <2>1. pc' = "dead" /\ client' \in Client
    BY <1>1, DieType DEF TypeOK, Crash
  <2>2. TypeOK'
    BY <1>1, <2>1 DEF TypeOK, Crash, providerVars, toolVars, timeVars
  <2>3. TurnHasInput'
    BY <1>1, <2>1, KeepsTurnHasInput DEF Crash
  <2> QED
    BY <2>2, <2>3
<1>2. CASE Restart
  <2>1. /\ initial' \in BOOLEAN
        /\ abort_queued' \in BOOLEAN
        /\ worker_done' \in BOOLEAN
        /\ grace_elapsed' \in BOOLEAN
        /\ renewed' \in BOOLEAN
    BY <1>2, Zenon DEF Restart
  <2>2. restarts' \in Nat
    BY <1>2 DEF TypeOK, Restart
  <2>3. TypeOK'
    BY <1>2, <2>1, <2>2, NoneTypes DEF TypeOK, Restart
  <2>4. TurnHasInput'
    BY <1>2 DEF TurnHasInput, Restart, NoContinuation
  <2> QED
    BY <2>3, <2>4
<1> QED
  BY <1>1, <1>2

\* Every step keeps the types.
LEMMA TypeStep == TypeInv /\ [Next]_vars => TypeInv'
<1> SUFFICES ASSUME TypeInv, [Next]_vars PROVE TypeInv'
  OBVIOUS
<1>1. CASE Actor
  BY <1>1, TypeHandleInitial, TypeHandleShutdown, TypeHandleData,
     TypeHandleCancelTurn, TypeHandleContinueTurn, TypeHandleCompactNow,
     TypeDrainPendingData, TypeAppendInput, TypeAppendInputFails,
     TypePruneWhileAppending, TypeAppendFinal, TypeAppendFinalFails,
     TypeAnnounceTurn, TypeStartProviderRequest, TypeReceiveProviderEvent,
     TypeHandleGraceElapsed, TypeHandleToolCompletion DEF Actor
<1>2. CASE \E kind \in Requests : SendRequest(kind)
  BY <1>2, TypeSendRequest
<1>3. CASE \/ \E id \in provider_threads, type \in {"Stream", "Retry"} :
                ProviderStreams(id, type)
           \/ \E result \in Results : ProviderCompletes(result)
           \/ ProviderAborts
  BY <1>3, TypeProviderSteps
<1>4. CASE \/ WorkerCompletes
           \/ GraceWindowElapses
           \/ \E t \in timers : TimerFires(t)
  BY <1>4, TypeTimeSteps
<1>5. CASE Crash \/ Restart
  BY <1>5, TypeCrashRestart
<1>6. CASE UNCHANGED vars
  BY <1>6 DEF TypeInv, TypeOK, TurnHasInput, vars, actorVars, hostVars,
              providerVars, toolVars, timeVars
<1> QED
  BY <1>1, <1>2, <1>3, <1>4, <1>5, <1>6 DEF Next

\* The inductive invariant: types, and a turn always has a message to append.
THEOREM TypeInvariant == Spec => []TypeInv
<1>1. Init => TypeInv
  BY TypeInit
<1>2. TypeInv /\ [Next]_vars => TypeInv'
  BY TypeStep
<1> QED
  BY <1>1, <1>2, PTL DEF Spec

\* Every variable of the actor and of the threads around it keeps its type, for
\* every bound and every set of requests; in particular the loop of
\* run_turn_from_data_requests never reads past the messages of its turn.
THEOREM TypeCorrect == Spec => []TypeOK
<1>1. TypeInv => TypeOK
  BY DEF TypeInv
<1> QED
  BY <1>1, TypeInvariant, PTL

-----------------------------------------------------------------------------
(***************************************************************************)
(* What a turn relies on                                                   *)
(***************************************************************************)
\* Batch 0 stands for none, so no batch may be numbered 0, also after a restart.
BatchNumbers ==
    /\ next_batch_id # 0
    /\ disk.next_batch_id # 0
    /\ active_tool_batch # NoBatch => active_tool_batch.batch # 0

\* A request is started for the turn the host was told of.
StartsShownTurn == pc = "start" => client.turn = frame.turn

\* A batch is superseded by a message that is still queued, so its completion
\* starts the next turn and need not end this one.
SupersededHasMessage ==
    Alive /\ active_tool_batch.interrupt = "SupersededByUserMessage"
      => pending_data # <<>>

\* Before the Initial nothing runs: restoring the transcript then cannot make
\* the message id of an active request wrong.
NothingBeforeInitial ==
    Alive /\ ~initial => /\ ProviderIdle
                         /\ ToolsIdle
                         /\ pc \in {"recv", "drain"}

TurnInv ==
    /\ BatchNumbers
    /\ StartsShownTurn
    /\ SupersededHasMessage
    /\ NothingBeforeInitial
    /\ OneActivity
    /\ CompletionMatchesBatch
    /\ NoMessageStranded
    /\ HostSeesTurn
    /\ MessageIdMatchesPosition

-----------------------------------------------------------------------------
(***************************************************************************)
(* What the handlers share                                                 *)
(***************************************************************************)
\* Where run_pending_data_if_idle leaves the actor.
LEMMA SettleTurn ==
    ASSUME NEW request, NEW batch, NEW data, Settle(request, batch, data)
    PROVE  \/ /\ pc' = "recv"
              /\ request # NoRequest \/ batch # NoBatch \/ data = <<>>
           \/ /\ pc' = "drain"
              /\ request = NoRequest /\ batch = NoBatch /\ data # <<>>
  BY DEF Settle

\* The events that keep the turn the host sees, and the ones that end it.
LEMMA ClientTurns ==
    ASSUME NEW c \in Client
    PROVE  /\ \A S : Shown(c, S).turn = c.turn
           /\ \A t : TurnStarted(c, t).turn = t
           /\ TurnCompleted(c).turn = 0
           /\ \A b : TurnFailed(c, b).turn = 0
  BY DEF Client, Shown, TurnStarted, TurnCompleted, TurnFailed

\* No turn, no batch.
LEMMA NoneTurns ==
    /\ NoRequest.id.turn = 0
    /\ NoBatch.batch = 0
    /\ NoBatch.interrupt = "None"
  BY DEF NoRequest, NoId, NoBatch

\* A saved batch number is the one the actor had.
LEMMA PersistTurn ==
    ASSUME BatchNumbers, NEW h, NEW all, NEW t, NEW b, b # 0,
           PersistIfClosed(h, all, t, b)
    PROVE  disk'.next_batch_id # 0
  BY DEF BatchNumbers, PersistIfClosed

\* The first state.
LEMMA TurnInit == Init => TurnInv
<1> SUFFICES ASSUME Init PROVE TurnInv
  OBVIOUS
<1>1. disk.next_batch_id # 0
  BY FlagsAssumption DEF Init, NoState, LegacyState
<1> QED
  BY <1>1, NoneTurns
     DEF Init, TurnInv, BatchNumbers, StartsShownTurn, SupersededHasMessage,
         NothingBeforeInitial, OneActivity, CompletionMatchesBatch,
         NoMessageStranded, HostSeesTurn, MessageIdMatchesPosition, Alive,
         ProviderIdle, ToolsIdle, IdleClient

\* An actor that has ended is bound by nothing but the numbers of its batches.
LEMMA DeadTurn ==
    ASSUME BatchNumbers', pc' \in {"dead", "down"}
    PROVE  TurnInv'
  BY DEF TurnInv, StartsShownTurn, SupersededHasMessage, NothingBeforeInitial,
         OneActivity, CompletionMatchesBatch, NoMessageStranded, HostSeesTurn,
         MessageIdMatchesPosition, Alive

\* The actor leaves its activities and the queue alone and ends the handler.
Kept == UNCHANGED <<initial, pending_data, all_messages,
                    active_provider_request, active_tool_batch, next_batch_id,
                    client, running_batch, worker_done, tool_completion_rx>>

\* A handler that found nothing to do.
LEMMA KeptTurn ==
    ASSUME TurnInv, pc = "recv", Kept, disk'.next_batch_id # 0,
           \/ pc' = "recv"
           \/ Settle(active_provider_request, active_tool_batch, pending_data)
    PROVE  TurnInv'
<1>1. BatchNumbers'
  BY DEF TurnInv, BatchNumbers, Kept
<1>2. pc' = "recv"
  BY SettleTurn DEF TurnInv, NoMessageStranded, ProviderIdle, ToolsIdle
<1> QED
  BY <1>1, <1>2
     DEF Kept, TurnInv, StartsShownTurn, SupersededHasMessage,
         NothingBeforeInitial, OneActivity, CompletionMatchesBatch,
         NoMessageStranded, HostSeesTurn, MessageIdMatchesPosition, Alive,
         ProviderIdle, ToolsIdle

\* The tools run nothing, and their variables say so.
NoTools == /\ active_tool_batch = NoBatch
           /\ running_batch = 0
           /\ tool_completion_rx = <<>>

\* Without an active tool batch the executor is idle and owes no completion.
LEMMA IdleTools ==
    ASSUME TurnInv, Alive, ToolsIdle
    PROVE  NoTools
  BY NoneTurns DEF TurnInv, CompletionMatchesBatch, ToolsIdle, NoTools

\* The last step of a turn, in a state in which the actor is idle.
LEMMA IdleTurn ==
    ASSUME BatchNumbers', NoTools', initial',
           active_provider_request' = NoRequest,
           \/ pc' \in {"input", "announce", "final"}
           \/ pc' = "start" /\ client'.turn = frame'.turn
           \/ /\ client'.turn = 0 \/ pending_data' # <<>>
              /\ Settle(NoRequest, NoBatch, pending_data')
    PROVE  TurnInv'
<1>1. \/ pc' \in {"input", "announce", "final", "drain"}
      \/ pc' = "start" /\ client'.turn = frame'.turn
      \/ pc' = "recv" /\ pending_data' = <<>> /\ client'.turn = 0
  BY SettleTurn
<1> QED
  BY <1>1, NoneTurns
     DEF NoTools, TurnInv, StartsShownTurn, SupersededHasMessage,
         NothingBeforeInitial, OneActivity, CompletionMatchesBatch,
         NoMessageStranded, HostSeesTurn, MessageIdMatchesPosition, Alive,
         ProviderIdle, ToolsIdle

\* What holds while the actor is in the middle of a handler.
LEMMA BusyTurn ==
    ASSUME TurnInv, pc \in {"drain", "input", "announce", "start", "final"}
    PROVE  /\ active_provider_request = NoRequest
           /\ NoTools
           /\ pc # "drain" => initial
<1>1. ProviderIdle /\ ToolsIdle /\ (pc # "drain" => initial)
  BY DEF TurnInv, OneActivity, NothingBeforeInitial, Alive
<1> QED
  BY <1>1, IdleTools DEF Alive, ProviderIdle

\* What holds while a provider request is active.
LEMMA RequestTurn ==
    ASSUME TurnInv, pc = "recv", active_provider_request # NoRequest
    PROVE  /\ NoTools
           /\ initial
           /\ client.turn = active_provider_request.id.turn
<1>1. ToolsIdle /\ initial
  BY DEF TurnInv, OneActivity, NothingBeforeInitial, Alive, ProviderIdle
<1> QED
  BY <1>1, IdleTools DEF TurnInv, HostSeesTurn, Alive

-----------------------------------------------------------------------------
(***************************************************************************)
(* Requests of the host                                                    *)
(***************************************************************************)
\* A shutdown.
LEMMA TurnHandleShutdown == TurnInv /\ HandleShutdown => TurnInv'
<1> SUFFICES ASSUME TurnInv, HandleShutdown PROVE TurnInv'
  OBVIOUS
<1>1. BatchNumbers' /\ pc' = "down"
  BY DEF HandleShutdown, TurnInv, BatchNumbers
<1> QED
  BY <1>1, DeadTurn

\* The Initial: what it restores belongs to no running turn.
LEMMA TurnHandleInitial ==
    ASSUME TypeInv, TurnInv, HandleInitial
    PROVE  TurnInv'
<1>1. pc = "recv"
  BY DEF HandleInitial, Receive
<1>2. UNCHANGED <<pending_data, active_provider_request, active_tool_batch,
                  running_batch, worker_done, tool_completion_rx>>
  BY DEF HandleInitial, toolVars
<1>3. disk'.next_batch_id # 0 /\ next_batch_id' # 0
  BY DEF HandleInitial, TurnInv, BatchNumbers, TypeInv, TypeOK, PersistedState
<1>4. BatchNumbers'
  BY <1>2, <1>3 DEF TurnInv, BatchNumbers
<1>5. Settle(active_provider_request, active_tool_batch, pending_data)
  BY DEF HandleInitial
<1>6. CASE initial
  <2>1. Kept
    BY <1>2, <1>6 DEF HandleInitial, Kept
  <2> QED
    BY <1>1, <1>3, <1>5, <2>1, KeptTurn
<1>7. CASE ~initial
  <2>1. ProviderIdle /\ ToolsIdle
    BY <1>1, <1>7 DEF TurnInv, NothingBeforeInitial, Alive
  <2>2. NoTools'
    BY <1>1, <1>2, <2>1, IdleTools DEF NoTools, Alive
  <2>3. client.turn = 0 /\ client \in Client
    BY <1>1, <2>1, NoneTurns
       DEF TurnInv, HostSeesTurn, TypeInv, TypeOK, ProviderIdle
  <2>4. client'.turn = 0
    <3>1. client' = client \/ client' = TurnFailed(client, TRUE)
      BY <1>7 DEF HandleInitial
    <3>2. TurnFailed(client, TRUE).turn = 0
      BY <2>3, ClientTurns
    <3> QED
      BY <2>3, <3>1, <3>2
  <2>5. initial'
    BY <1>7 DEF HandleInitial
  <2> QED
    BY <1>2, <1>4, <1>5, <2>1, <2>2, <2>4, <2>5, IdleTurn
       DEF ProviderIdle, ToolsIdle
<1> QED
  BY <1>6, <1>7

\* An interrupt of the running batch.
LEMMA InterruptTurn ==
    ASSUME TypeInv, TurnInv, pc = "recv", NEW interrupt \in Interrupts,
           InterruptActiveTools(interrupt),
           interrupt = "SupersededByUserMessage" => pending_data' # <<>>,
           pending_data' = pending_data \/ pending_data' # <<>>,
           UNCHANGED <<initial, all_messages, active_provider_request,
                       next_batch_id, disk, running_batch, worker_done,
                       tool_completion_rx>>
    PROVE  TurnInv'
<1>1. CASE /\ UNCHANGED <<active_tool_batch, client>>
           /\ Settle(active_provider_request, active_tool_batch, pending_data')
  <2>1. BatchNumbers'
    BY <1>1 DEF TurnInv, BatchNumbers
  <2> QED
    BY <1>1, <2>1, SettleTurn
       DEF TurnInv, StartsShownTurn, SupersededHasMessage,
           NothingBeforeInitial, OneActivity, CompletionMatchesBatch,
           NoMessageStranded, HostSeesTurn, MessageIdMatchesPosition, Alive,
           ProviderIdle, ToolsIdle
<1>2. CASE Die(client) /\ UNCHANGED active_tool_batch
  <2>1. BatchNumbers' /\ pc' = "dead"
    BY <1>2 DEF TurnInv, BatchNumbers, Die
  <2> QED
    BY <2>1, DeadTurn
<1>3. CASE /\ active_tool_batch # NoBatch
           /\ active_tool_batch' =
                [active_tool_batch EXCEPT !.interrupt = interrupt]
           /\ pc' = "recv"
           /\ UNCHANGED client
  <2>1. /\ active_tool_batch'.batch = active_tool_batch.batch
        /\ active_tool_batch'.turn = active_tool_batch.turn
        /\ active_tool_batch'.interrupt = interrupt
    BY <1>3 DEF TypeInv, TypeOK, ToolBatch
  <2>2. active_tool_batch' # NoBatch
    BY <1>3, <2>1, NoneTurns DEF TurnInv, BatchNumbers
  <2>3. BatchNumbers'
    BY <1>3, <2>1 DEF TurnInv, BatchNumbers
  <2> QED
    BY <1>3, <2>1, <2>2, <2>3
       DEF TurnInv, StartsShownTurn, SupersededHasMessage,
           NothingBeforeInitial, OneActivity, CompletionMatchesBatch,
           NoMessageStranded, HostSeesTurn, MessageIdMatchesPosition, Alive,
           ProviderIdle, ToolsIdle
<1> QED
  BY <1>1, <1>2, <1>3, Zenon DEF InterruptActiveTools

\* A message of the host.
LEMMA TurnHandleData ==
    ASSUME TypeInv, TurnInv, NEW kind \in DataKinds, HandleData(kind)
    PROVE  TurnInv'
<1>1. pc = "recv" /\ Receive(kind)
  BY DEF HandleData, Receive
<1>2. pending_data' # <<>>
  <2>1. pending_data' = Append(pending_data, Head(request_rx))
    BY DEF HandleData
  <2>2. Head(request_rx) \in DataRequest
    BY <1>1, ReceiveType DEF TypeInv, HostRequest, DataRequest
  <2>3. pending_data \in Seq(DataRequest)
    BY DEF TypeInv, TypeOK
  <2> QED
    BY <2>1, <2>2, <2>3, AppendProperties
<1>3. UNCHANGED <<initial, all_messages, active_provider_request,
                  next_batch_id, disk, running_batch, worker_done,
                  tool_completion_rx>>
  BY DEF HandleData, toolVars
<1>4. CASE kind = "user"
  <2>1. InterruptActiveTools("SupersededByUserMessage")
    BY <1>4 DEF HandleData
  <2>2. "SupersededByUserMessage" \in Interrupts
    BY DEF Interrupts
  <2> QED
    BY <1>1, <1>2, <1>3, <2>1, <2>2, InterruptTurn
<1>5. CASE kind # "user"
  <2>1. /\ Settle(active_provider_request, active_tool_batch, pending_data')
        /\ UNCHANGED <<active_tool_batch, client>>
    BY <1>5 DEF HandleData
  <2>2. BatchNumbers'
    BY <1>3, <2>1 DEF TurnInv, BatchNumbers
  <2> QED
    BY <1>1, <1>2, <1>3, <2>1, <2>2, SettleTurn
       DEF TurnInv, StartsShownTurn, SupersededHasMessage,
           NothingBeforeInitial, OneActivity, CompletionMatchesBatch,
           NoMessageStranded, HostSeesTurn, MessageIdMatchesPosition, Alive,
           ProviderIdle, ToolsIdle
<1> QED
  BY <1>4, <1>5

\* The active request is dropped; the next turn starts, or the host has been
\* told that there is none.
LEMMA CancelTurn ==
    ASSUME TypeInv, TurnInv, pc = "recv", active_provider_request # NoRequest,
           NEW emit_failure \in BOOLEAN,
           emit_failure \/ pending_data # <<>>,
           CancelActiveProviderRequest(emit_failure),
           UNCHANGED <<initial, pending_data, active_tool_batch, next_batch_id,
                       disk, running_batch, tool_completion_rx>>
    PROVE  TurnInv'
<1>1. NoTools /\ initial
  BY RequestTurn
<1>2. NoTools' /\ initial'
  BY <1>1 DEF NoTools
<1>3. BatchNumbers'
  BY DEF TurnInv, BatchNumbers
<1>4. active_provider_request' = NoRequest
  BY DEF CancelActiveProviderRequest
<1>5. Settle(NoRequest, NoBatch, pending_data')
  BY <1>1 DEF CancelActiveProviderRequest, NoTools
<1>6. client'.turn = 0 \/ pending_data' # <<>>
  BY ClientTurns DEF CancelActiveProviderRequest, TypeInv, TypeOK
<1> QED
  BY <1>2, <1>3, <1>4, <1>5, <1>6, IdleTurn

\* A cancellation.
LEMMA TurnHandleCancelTurn ==
    ASSUME TypeInv, TurnInv, HandleCancelTurn
    PROVE  TurnInv'
<1>1. /\ pc = "recv"
      /\ UNCHANGED <<initial, pending_data, all_messages, next_batch_id, disk,
                     running_batch, worker_done, tool_completion_rx>>
  BY DEF HandleCancelTurn, Receive, toolVars
<1>2. CASE active_provider_request # NoRequest
  <2>1. /\ CancelActiveProviderRequest(TRUE)
        /\ UNCHANGED active_tool_batch
    BY <1>2 DEF HandleCancelTurn
  <2> QED
    BY <1>1, <1>2, <2>1, CancelTurn
<1>3. CASE active_provider_request = NoRequest
  <2>1. /\ InterruptActiveTools("Cancel")
        /\ UNCHANGED active_provider_request
    BY <1>3 DEF HandleCancelTurn
  <2>2. "Cancel" \in Interrupts
    BY DEF Interrupts
  <2> QED
    BY <1>1, <2>1, <2>2, InterruptTurn
<1> QED
  BY <1>2, <1>3

\* A new turn from queued messages.
LEMMA TurnDrainPendingData ==
    ASSUME TypeInv, TurnInv, DrainPendingData
    PROVE  TurnInv'
<1>1. /\ pc = "drain"
      /\ UNCHANGED <<initial, active_provider_request, active_tool_batch,
                     next_batch_id, disk, running_batch, tool_completion_rx>>
  BY DEF DrainPendingData, toolVars
<1>2. active_provider_request = NoRequest /\ NoTools
  BY <1>1, BusyTurn
<1>3. active_provider_request' = NoRequest /\ NoTools'
  BY <1>1, <1>2 DEF NoTools
<1>4. BatchNumbers'
  BY <1>1 DEF TurnInv, BatchNumbers
<1>5. CASE initial
  <2>1. pc' = "input" /\ initial'
    BY <1>1, <1>5 DEF DrainPendingData, BeginTurn
  <2> QED
    BY <1>3, <1>4, <2>1, IdleTurn
<1>6. CASE ~initial
  <2>1. pc' = "dead"
    BY <1>6 DEF DrainPendingData, Die
  <2> QED
    BY <1>4, <2>1, DeadTurn
<1> QED
  BY <1>5, <1>6

\* A failed turn is continued.
LEMMA TurnHandleContinueTurn ==
    ASSUME TypeInv, TurnInv, HandleContinueTurn
    PROVE  TurnInv'
<1>1. /\ pc = "recv"
      /\ UNCHANGED <<initial, pending_data, all_messages,
                     active_provider_request, active_tool_batch, next_batch_id,
                     disk, running_batch, worker_done, tool_completion_rx>>
  BY DEF HandleContinueTurn, Receive, toolVars
<1>2. BatchNumbers'
  BY <1>1 DEF TurnInv, BatchNumbers
<1>3. CASE Die(client)
  BY <1>2, <1>3, DeadTurn DEF Die
<1>4. CASE /\ Settle(active_provider_request, active_tool_batch, pending_data)
           /\ UNCHANGED client
  <2>1. Kept /\ disk'.next_batch_id # 0
    BY <1>1, <1>4 DEF Kept, TurnInv, BatchNumbers
  <2> QED
    BY <1>1, <1>4, <2>1, KeptTurn
<1>5. CASE /\ initial
           /\ active_provider_request = NoRequest
           /\ active_tool_batch = NoBatch
           /\ \/ pc' = "input"
              \/ pc' = "start" /\ client'.turn = frame'.turn
  <2>1. NoTools
    BY <1>1, <1>5, IdleTools DEF ToolsIdle, Alive
  <2>2. active_provider_request' = NoRequest /\ NoTools' /\ initial'
    BY <1>1, <1>5, <2>1 DEF NoTools
  <2> QED
    BY <1>2, <1>5, <2>2, IdleTurn
<1>6. CASE /\ initial
           /\ active_provider_request = NoRequest
           /\ active_tool_batch = NoBatch
           /\ frame' = [NoFrame EXCEPT !.turn = next_turn_id, !.guarded = TRUE]
           /\ client' = TurnStarted(client, next_turn_id)
           /\ pc' = "start"
  <2>1. frame'.turn = next_turn_id
    BY <1>6 DEF NoFrame
  <2>2. client'.turn = next_turn_id
    BY <1>6, ClientTurns DEF TypeInv, TypeOK
  <2> QED
    BY <1>5, <1>6, <2>1, <2>2
<1> QED
  BY <1>3, <1>4, <1>5, <1>6, Zenon DEF HandleContinueTurn, BeginTurn

\* A compaction on request.
LEMMA TurnHandleCompactNow ==
    ASSUME TypeInv, TurnInv, HandleCompactNow
    PROVE  TurnInv'
<1>1. /\ pc = "recv"
      /\ Kept
      /\ Settle(active_provider_request, active_tool_batch, pending_data)
  BY DEF HandleCompactNow, Receive, Kept, toolVars
<1>2. disk'.next_batch_id # 0
  BY PersistTurn DEF HandleCompactNow, TurnInv, BatchNumbers
<1> QED
  BY <1>1, <1>2, KeptTurn

-----------------------------------------------------------------------------
(***************************************************************************)
(* Turns                                                                   *)
(***************************************************************************)
\* A message of the turn is appended.
LEMMA TurnAppendInput ==
    ASSUME TypeInv, TurnInv, AppendInput \/ PruneWhileAppending
    PROVE  TurnInv'
<1>1. /\ pc \in {"input", "final"}
      /\ pc' \in {"input", "announce", "final"}
      /\ UNCHANGED <<initial, active_provider_request, active_tool_batch,
                     next_batch_id, running_batch, tool_completion_rx>>
  BY DEF AppendInput, PruneWhileAppending, toolVars
<1>2. disk'.next_batch_id # 0
  BY PersistTurn DEF AppendInput, PruneWhileAppending, TurnInv, BatchNumbers
<1>3. BatchNumbers'
  BY <1>1, <1>2 DEF TurnInv, BatchNumbers
<1>4. active_provider_request' = NoRequest /\ NoTools' /\ initial'
  BY <1>1, BusyTurn DEF NoTools
<1> QED
  BY <1>1, <1>3, <1>4, IdleTurn

\* It fails.
LEMMA TurnAppendInputFails ==
    ASSUME TypeInv, TurnInv, AppendInputFails
    PROVE  TurnInv'
<1>1. /\ pc = "input"
      /\ UNCHANGED <<initial, pending_data, active_provider_request,
                     active_tool_batch, next_batch_id, disk, running_batch,
                     tool_completion_rx>>
      /\ client' = TurnFailed(client, TRUE)
      /\ Settle(NoRequest, NoBatch, pending_data)
  BY DEF AppendInputFails, FinishTurnError, toolVars
<1>2. BatchNumbers'
  BY <1>1 DEF TurnInv, BatchNumbers
<1>3. active_provider_request' = NoRequest /\ NoTools' /\ initial'
  BY <1>1, BusyTurn DEF NoTools
<1>4. client'.turn = 0
  BY <1>1, ClientTurns DEF TypeInv, TypeOK
<1> QED
  BY <1>1, <1>2, <1>3, <1>4, IdleTurn

\* The turn is announced.
LEMMA TurnAnnounceTurn ==
    ASSUME TypeInv, TurnInv, AnnounceTurn
    PROVE  TurnInv'
<1>1. /\ pc = "announce"
      /\ pc' = "start"
      /\ UNCHANGED <<frame, initial, active_provider_request,
                     active_tool_batch, next_batch_id, disk, running_batch,
                     tool_completion_rx>>
  BY DEF AnnounceTurn, toolVars
<1>2. BatchNumbers'
  BY <1>1 DEF TurnInv, BatchNumbers
<1>3. active_provider_request' = NoRequest /\ NoTools' /\ initial'
  BY <1>1, BusyTurn DEF NoTools
<1>4. client'.turn = frame'.turn
  <2> DEFINE S == (frame.from + 1)..Len(all_messages)
  <2>1. client \in Client /\ frame.from \in Nat /\ Len(all_messages) \in Nat
    BY DEF TypeInv, TypeOK, Frame
  <2>2. S \in SUBSET Nat
    BY <2>1
  <2>3. client' = TurnStarted(Shown(client, S), frame.turn)
    BY DEF AnnounceTurn
  <2> HIDE DEF S
  <2>4. Shown(client, S) \in Client
    BY <2>1, <2>2, ClientTypes
  <2> QED
    BY <1>1, <2>3, <2>4, ClientTurns
<1> QED
  BY <1>1, <1>2, <1>3, <1>4, IdleTurn

\* The response that ends the turn is appended.
LEMMA TurnAppendFinal ==
    ASSUME TypeInv, TurnInv, AppendFinal
    PROVE  TurnInv'
<1>1. /\ pc = "final"
      /\ UNCHANGED <<initial, pending_data, active_provider_request,
                     active_tool_batch, next_batch_id, running_batch,
                     tool_completion_rx>>
      /\ Settle(active_provider_request, active_tool_batch, pending_data)
  BY DEF AppendFinal, toolVars
<1>2. disk'.next_batch_id # 0
  BY PersistTurn DEF AppendFinal, TurnInv, BatchNumbers
<1>3. BatchNumbers'
  BY <1>1, <1>2 DEF TurnInv, BatchNumbers
<1>4. /\ active_provider_request' = NoRequest /\ NoTools' /\ initial'
      /\ Settle(NoRequest, NoBatch, pending_data')
  BY <1>1, BusyTurn DEF NoTools
<1>5. client'.turn = 0
  <2>1. client \in Client /\ all_messages' \in Seq(Message)
    BY TypeAppendFinal DEF TypeInv, TypeOK
  <2>2. {Len(all_messages')} \in SUBSET Nat
    BY <2>1
  <2>3. client' = TurnCompleted(Shown(client, {Len(all_messages')}))
    BY DEF AppendFinal
  <2> QED
    BY <2>1, <2>2, <2>3, ClientTypes, ClientTurns
<1> QED
  BY <1>3, <1>4, <1>5, IdleTurn

\* It fails.
LEMMA TurnAppendFinalFails ==
    ASSUME TurnInv, AppendFinalFails
    PROVE  TurnInv'
<1>1. BatchNumbers' /\ pc' = "dead"
  BY DEF AppendFinalFails, TurnInv, BatchNumbers, Die
<1> QED
  BY <1>1, DeadTurn

-----------------------------------------------------------------------------
(***************************************************************************)
(* Provider requests                                                       *)
(***************************************************************************)
\* A turn that fails in an idle actor, or ends it.
LEMMA FailedTurn ==
    ASSUME BatchNumbers', NoTools', initial',
           active_provider_request' = NoRequest,
           pending_data' = pending_data,
           NEW c \in Client,
           \/ Die(c)
           \/ \E continuation : FinishTurnError(c, continuation)
    PROVE  TurnInv'
<1>1. CASE Die(c)
  BY <1>1, DeadTurn DEF Die
<1>2. CASE \E continuation : FinishTurnError(c, continuation)
  <2>1. client' = TurnFailed(c, TRUE) /\ Settle(NoRequest, NoBatch, pending_data)
    BY <1>2 DEF FinishTurnError
  <2>2. client'.turn = 0
    BY <2>1, ClientTurns
  <2> QED
    BY <2>1, <2>2, IdleTurn
<1> QED
  BY <1>1, <1>2

\* A request is started: it is the one activity, and carries the position of
\* the next message.
LEMMA TurnStartProviderRequest ==
    ASSUME TypeInv, TurnInv, StartProviderRequest
    PROVE  TurnInv'
<1> DEFINE unclosed == Unclosed(history)
           h == Repair(history, unclosed, frame.turn)
           all == Repair(all_messages, unclosed, frame.turn)
           c == IF unclosed = {} THEN client ELSE Shown(client, {Len(all)})
<1>1. /\ pc = "start"
      /\ UNCHANGED <<initial, pending_data, active_tool_batch, next_batch_id,
                     running_batch, tool_completion_rx>>
      /\ all_messages' = all
  BY DEF StartProviderRequest, toolVars
<1>2. active_provider_request = NoRequest /\ NoTools' /\ initial'
  BY <1>1, BusyTurn DEF NoTools
<1>3. disk'.next_batch_id # 0
  BY PersistTurn DEF StartProviderRequest, TurnInv, BatchNumbers
<1>4. BatchNumbers'
  BY <1>1, <1>3 DEF TurnInv, BatchNumbers
<1>5. /\ frame \in Frame
      /\ client \in Client
      /\ client.turn = frame.turn
  BY <1>1 DEF TypeInv, TypeOK, TurnInv, StartsShownTurn
<1>6. Len(all) \in Nat
  <2>1. /\ history \in Seq(Message)
        /\ all_messages \in Seq(Message)
        /\ frame.turn \in Nat
    BY DEF TypeInv, TypeOK, Frame
  <2>2. all \in Seq(Message)
    BY <2>1, RepairType
  <2> HIDE DEF all
  <2> QED
    BY <2>2
<1>7. c \in Client /\ c.turn = frame.turn
  <2> HIDE DEF all, unclosed
  <2>1. {Len(all)} \in SUBSET Nat
    BY <1>6
  <2> QED
    BY <1>5, <2>1, ClientTypes, ClientTurns
<1>8. \/ Launch(h, all, c)
      \/ Shrink(h, c)
      \/ StartFails(c)
  BY DEF StartProviderRequest
<1> HIDE DEF unclosed, h, all, c
<1>9. CASE StartFails(c)
  <2>1. active_provider_request' = NoRequest
    BY <1>2, <1>9 DEF StartFails
  <2>2. Die(c) \/ \E continuation : FinishTurnError(c, continuation)
    BY <1>9, Zenon DEF StartFails
  <2> QED
    BY <1>1, <1>2, <1>4, <1>7, <2>1, <2>2, FailedTurn
<1>10. CASE Shrink(h, c)
  <2>1. /\ active_provider_request' = NoRequest
        /\ pc' = "start"
        /\ client' = c
        /\ frame' = [frame EXCEPT !.attempts = @ + 1]
    BY <1>1, <1>2, <1>10 DEF Shrink
  <2>2. frame'.turn = frame.turn
    BY <1>5, <2>1 DEF Frame
  <2> QED
    BY <1>2, <1>4, <1>7, <2>1, <2>2, IdleTurn
<1>11. CASE Launch(h, all, c) /\ ~StartFails(c)
  <2>1. /\ active_provider_request' = [id |-> CurrentId,
                                       message_index |-> Len(all) + 1]
        /\ pc' = "recv"
        /\ client' = c
    BY <1>11 DEF Launch
  <2>2. /\ active_provider_request'.id.turn = frame.turn
        /\ active_provider_request'.message_index = Len(all) + 1
    BY <2>1 DEF CurrentId
  <2>3. active_provider_request' # NoRequest
    BY <1>6, <2>2 DEF NoRequest
  <2> QED
    BY <1>1, <1>2, <1>4, <1>7, <2>1, <2>2, <2>3, NoneTurns
       DEF NoTools, TurnInv, StartsShownTurn, SupersededHasMessage,
           NothingBeforeInitial, OneActivity, CompletionMatchesBatch,
           NoMessageStranded, HostSeesTurn, MessageIdMatchesPosition, Alive,
           ProviderIdle, ToolsIdle
<1> QED
  BY <1>8, <1>9, <1>10, <1>11

\* A user message that has waited long enough takes over.
LEMMA WakeTurn ==
    ASSUME TypeInv, TurnInv, pc = "recv", NEW timer, NEW elapsed,
           WakeOrSchedule(timer, elapsed),
           UNCHANGED <<initial, pending_data, all_messages, active_tool_batch,
                       next_batch_id, disk, running_batch, worker_done,
                       tool_completion_rx>>
    PROVE  TurnInv'
<1>1. CASE /\ active_provider_request # NoRequest
           /\ HasPendingUserMessage(pending_data)
           /\ CancelActiveProviderRequest(FALSE)
  <2>1. pending_data # <<>>
    BY <1>1 DEF HasPendingUserMessage
  <2> QED
    BY <1>1, <2>1, CancelTurn
<1>2. CASE /\ Settle(active_provider_request, active_tool_batch, pending_data)
           /\ UNCHANGED <<active_provider_request, client>>
  <2>1. Kept /\ disk'.next_batch_id # 0
    BY <1>2 DEF Kept, TurnInv, BatchNumbers
  <2> QED
    BY <1>2, <2>1, KeptTurn
<1> QED
  BY <1>1, <1>2, Zenon DEF WakeOrSchedule

\* A provider event, in all its outcomes.
LEMMA TurnHandleProviderEvent ==
    ASSUME TypeInv, TurnInv, pc = "recv", NEW timer,
           provider_event_rx # <<>>,
           HandleProviderEvent(Head(provider_event_rx), timer)
    PROVE  TurnInv'
<1> DEFINE e == Head(provider_event_rx)
<1>1. UNCHANGED <<initial, pending_data, tool_completion_rx>>
  BY DEF HandleProviderEvent
<1>2. \/ IgnoreProviderEvent(e, timer)
      \/ HandleStream(e, timer)
      \/ HandleRetry(e, timer)
      \/ HandleFinalResponse(e)
      \/ HandleToolCalls(e)
      \/ HandleTooLarge(e)
      \/ HandleProviderError(e)
  BY DEF HandleProviderEvent
<1> HIDE DEF e
<1>3. client \in Client
  BY DEF TypeInv, TypeOK
<1>4. CASE IgnoreProviderEvent(e, timer)
  <2>1. Kept /\ disk'.next_batch_id # 0
    BY <1>1, <1>4 DEF IgnoreProviderEvent, Kept, TurnInv, BatchNumbers
  <2> QED
    BY <1>4, <2>1, KeptTurn DEF IgnoreProviderEvent
<1>5. CASE HandleStream(e, timer) /\ timer # 0
  <2>1. Kept /\ disk'.next_batch_id # 0 /\ pc' = "recv"
    BY <1>1, <1>5 DEF HandleStream, Kept, TurnInv, BatchNumbers
  <2> QED
    BY <2>1, KeptTurn
<1>6. CASE HandleStream(e, timer) /\ timer = 0
  BY <1>1, <1>6, WakeTurn DEF HandleStream
<1>7. CASE HandleRetry(e, timer)
  BY <1>1, <1>7, WakeTurn DEF HandleRetry
<1>8. ASSUME NEW result, TakeResult(e, result)
      PROVE  /\ NoTools
             /\ initial'
             /\ client.turn = e.id.turn
             /\ active_provider_request' = NoRequest
  BY <1>1, <1>8, RequestTurn DEF TakeResult
<1>9. CASE HandleFinalResponse(e)
  <2>1. /\ TakeResult(e, "Final")
        /\ pc' = "final"
        /\ UNCHANGED <<active_tool_batch, next_batch_id, disk, running_batch>>
    BY <1>9 DEF HandleFinalResponse
  <2>2. NoTools' /\ BatchNumbers'
    BY <1>1, <1>8, <2>1 DEF NoTools, TurnInv, BatchNumbers
  <2> QED
    BY <1>8, <2>1, <2>2, IdleTurn
<1>10. CASE HandleToolCalls(e)
  <2>1. TakeResult(e, "Calls")
    BY <1>10 DEF HandleToolCalls
  <2>2. NoTools /\ initial' /\ client.turn = e.id.turn
        /\ active_provider_request' = NoRequest
    BY <1>8, <2>1
  <2>3. /\ next_batch_id' = next_batch_id + 1
        /\ client' = Shown(client, {Position})
        /\ active_tool_batch' = [turn |-> e.id.turn, step |-> e.id.step,
                                 batch |-> next_batch_id, call |-> Position,
                                 interrupt |-> "None"]
        /\ running_batch' = next_batch_id
        /\ worker_done' = FALSE
        /\ pc' = "recv"
        /\ PersistIfClosed(history', all_messages', next_turn_id,
                           next_batch_id')
    BY <1>10, <2>2 DEF HandleToolCalls, NoTools
  <2>4. next_batch_id # 0 /\ next_batch_id' # 0
    BY <2>3 DEF TurnInv, BatchNumbers, TypeInv, TypeOK
  <2>5. disk'.next_batch_id # 0
    BY <2>3, <2>4, PersistTurn DEF TurnInv
  <2>6. /\ active_tool_batch'.turn = e.id.turn
        /\ active_tool_batch'.batch = next_batch_id
        /\ active_tool_batch'.interrupt = "None"
    BY <2>3
  <2>7. active_tool_batch' # NoBatch
    BY <2>4, <2>6, NoneTurns
  <2>8. BatchNumbers'
    BY <2>4, <2>5, <2>6 DEF BatchNumbers
  <2>9. client'.turn = e.id.turn
    BY <1>3, <2>2, <2>3, ClientTurns
  <2>10. tool_completion_rx' = <<>>
    BY <1>1, <2>2 DEF NoTools
  <2> QED
    BY <2>2, <2>3, <2>6, <2>7, <2>8, <2>9, <2>10
       DEF TurnInv, StartsShownTurn, SupersededHasMessage,
           NothingBeforeInitial, OneActivity, CompletionMatchesBatch,
           NoMessageStranded, HostSeesTurn, MessageIdMatchesPosition, Alive,
           ProviderIdle, ToolsIdle
<1>11. CASE HandleTooLarge(e)
  <2>1. /\ TakeResult(e, "TooLarge")
        /\ UNCHANGED <<active_tool_batch, next_batch_id, running_batch>>
    BY <1>11 DEF HandleTooLarge
  <2>2. disk'.next_batch_id # 0
    BY <1>11, PersistTurn DEF HandleTooLarge, TurnInv, BatchNumbers
  <2>3. NoTools' /\ BatchNumbers'
    BY <1>1, <1>8, <2>1, <2>2 DEF NoTools, TurnInv, BatchNumbers
  <2>4. CASE FinishTurnError(client, CurrentHistory)
    BY <1>1, <1>3, <1>8, <2>1, <2>3, <2>4, FailedTurn
  <2>5. CASE /\ frame' = [NoFrame EXCEPT !.turn = e.id.turn,
                                         !.step = e.id.step,
                                         !.attempts = e.id.attempts + 1]
             /\ pc' = "start"
             /\ UNCHANGED client
    <3>1. frame'.turn = e.id.turn
      BY <2>5 DEF NoFrame
    <3> QED
      BY <1>8, <2>1, <2>3, <2>5, <3>1, IdleTurn
  <2> QED
    BY <1>11, <2>4, <2>5 DEF HandleTooLarge
<1>12. CASE HandleProviderError(e)
  <2>1. /\ \E result : TakeResult(e, result)
        /\ UNCHANGED <<active_tool_batch, next_batch_id, disk, running_batch>>
        /\ FinishTurnError(client, CurrentHistory)
    BY <1>12, Zenon DEF HandleProviderError
  <2>2. NoTools' /\ BatchNumbers'
    BY <1>1, <1>8, <2>1 DEF NoTools, TurnInv, BatchNumbers
  <2> QED
    BY <1>1, <1>3, <1>8, <2>1, <2>2, FailedTurn
<1> QED
  BY <1>2, <1>4, <1>5, <1>6, <1>7, <1>9, <1>10, <1>11, <1>12

\* A provider event taken by the select.
LEMMA TurnReceiveProviderEvent ==
    ASSUME TypeInv, TurnInv, ReceiveProviderEvent
    PROVE  TurnInv'
  BY TurnHandleProviderEvent DEF ReceiveProviderEvent

\* A fired grace timer.
LEMMA TurnHandleGraceElapsed ==
    ASSUME TypeInv, TurnInv, HandleGraceElapsed
    PROVE  TurnInv'
<1>1. pc = "recv"
  BY DEF HandleGraceElapsed
<1>2. CASE /\ provider_event_rx # <<>>
           /\ HandleProviderEvent(Head(provider_event_rx), 0)
  BY <1>1, <1>2, TurnHandleProviderEvent
<1> DEFINE Rest == UNCHANGED <<initial, pending_data, all_messages,
                     active_tool_batch, next_batch_id, disk, running_batch,
                     worker_done, tool_completion_rx>>
<1>3. CASE Rest /\ WakeOrSchedule(0, grace_elapsed)
  BY <1>1, <1>3, WakeTurn
<1>4. CASE /\ Rest
           /\ Settle(active_provider_request, active_tool_batch, pending_data)
           /\ UNCHANGED <<active_provider_request, client>>
  <2>1. Kept /\ disk'.next_batch_id # 0
    BY <1>4 DEF Kept, TurnInv, BatchNumbers
  <2> QED
    BY <1>1, <1>4, <2>1, KeptTurn
<1> QED
  BY <1>2, <1>3, <1>4, Zenon DEF HandleGraceElapsed, toolVars

-----------------------------------------------------------------------------
(***************************************************************************)
(* Tools, and the other threads                                            *)
(***************************************************************************)
\* The completion of a batch: the turn goes on, or the message that superseded
\* it starts the next.
LEMMA TurnHandleToolCompletion ==
    ASSUME TypeInv, TurnInv, HandleToolCompletion
    PROVE  TurnInv'
<1>1. /\ pc = "recv"
      /\ tool_completion_rx # <<>>
      /\ tool_completion_rx' = Tail(tool_completion_rx)
      /\ UNCHANGED <<initial, pending_data, active_provider_request,
                     next_batch_id>>
  BY DEF HandleToolCompletion
<1>2. /\ running_batch = active_tool_batch.batch
      /\ tool_completion_rx = <<running_batch>>
  BY <1>1 DEF TurnInv, CompletionMatchesBatch, Alive
<1>3. active_tool_batch # NoBatch
  BY <1>1, IdleTools DEF NoTools, ToolsIdle, Alive
<1>4. /\ active_provider_request = NoRequest
      /\ initial
      /\ client.turn = active_tool_batch.turn
  BY <1>1, <1>3 DEF TurnInv, OneActivity, NothingBeforeInitial, HostSeesTurn,
                    Alive, ProviderIdle, ToolsIdle
<1>5. /\ active_tool_batch' = NoBatch
      /\ running_batch' = 0
      /\ PersistIfClosed(history', all_messages', next_turn_id, next_batch_id)
      /\ client' = Shown(client, {Position})
      /\ \/ /\ active_tool_batch.interrupt = "SupersededByUserMessage"
            /\ Settle(active_provider_request, NoBatch, pending_data)
         \/ /\ pc' = "start"
            /\ frame' = [NoFrame EXCEPT !.turn = active_tool_batch.turn,
                                        !.step = active_tool_batch.step + 1,
                                        !.guarded = TRUE]
  <2>1. Head(tool_completion_rx) = running_batch
    BY <1>2
  <2> QED
    BY <1>2, <1>3, <2>1, Zenon DEF HandleToolCompletion
<1>6. NoTools' /\ initial' /\ active_provider_request' = NoRequest
  BY <1>1, <1>2, <1>4, <1>5 DEF NoTools
<1>7. next_batch_id # 0 /\ disk'.next_batch_id # 0
  BY <1>5, PersistTurn DEF TurnInv, BatchNumbers
<1>8. BatchNumbers'
  BY <1>1, <1>5, <1>7 DEF BatchNumbers
<1>9. client'.turn = active_tool_batch.turn
  BY <1>4, <1>5, ClientTurns DEF TypeInv, TypeOK
<1>10. CASE active_tool_batch.interrupt = "SupersededByUserMessage"
            /\ Settle(active_provider_request, NoBatch, pending_data)
  <2>1. pending_data # <<>>
    BY <1>1, <1>10 DEF TurnInv, SupersededHasMessage, Alive
  <2> QED
    BY <1>1, <1>4, <1>6, <1>8, <1>10, <2>1, IdleTurn
<1>11. CASE /\ pc' = "start"
            /\ frame' = [NoFrame EXCEPT !.turn = active_tool_batch.turn,
                                        !.step = active_tool_batch.step + 1,
                                        !.guarded = TRUE]
  <2>1. frame'.turn = active_tool_batch.turn
    BY <1>11 DEF NoFrame
  <2> QED
    BY <1>6, <1>8, <1>9, <1>11, <2>1, IdleTurn
<1> QED
  BY <1>5, <1>10, <1>11

\* The worker of the running batch sends its one completion.
LEMMA TurnWorkerCompletes ==
    ASSUME TypeInv, TurnInv, WorkerCompletes
    PROVE  TurnInv'
<1>1. /\ UNCHANGED <<actorVars, hostVars, running_batch>>
      /\ worker_done'
      /\ running_batch # 0
      /\ tool_completion_rx' = Append(tool_completion_rx, running_batch)
      /\ tool_completion_rx = <<>>
      /\ running_batch = active_tool_batch.batch
  BY DEF WorkerCompletes, TurnInv, CompletionMatchesBatch
<1>2. tool_completion_rx' = <<running_batch>>
  BY <1>1
<1>3. CompletionMatchesBatch'
  BY <1>1, <1>2 DEF CompletionMatchesBatch, actorVars
<1> QED
  BY <1>1, <1>3
     DEF actorVars, hostVars, TurnInv, BatchNumbers, StartsShownTurn,
         SupersededHasMessage, NothingBeforeInitial, OneActivity,
         NoMessageStranded, HostSeesTurn, MessageIdMatchesPosition, Alive,
         ProviderIdle, ToolsIdle

\* The steps that touch neither the actor nor the tools.
LEMMA TurnOtherThreads ==
    ASSUME TurnInv, UNCHANGED <<actorVars, disk, client, toolVars>>
    PROVE  TurnInv'
  BY DEF actorVars, toolVars, TurnInv, BatchNumbers, StartsShownTurn,
         SupersededHasMessage, NothingBeforeInitial, OneActivity,
         CompletionMatchesBatch, NoMessageStranded, HostSeesTurn,
         MessageIdMatchesPosition, Alive, ProviderIdle, ToolsIdle

\* A crash, and the new process.
LEMMA TurnCrashRestart ==
    ASSUME TurnInv, Crash \/ Restart
    PROVE  TurnInv'
<1>1. CASE Crash
  <2>1. BatchNumbers' /\ pc' = "dead"
    BY <1>1 DEF Crash, TurnInv, BatchNumbers, Die
  <2> QED
    BY <2>1, DeadTurn
<1>2. CASE Restart
  BY <1>2, NoneTurns
     DEF Restart, TurnInv, BatchNumbers, StartsShownTurn, SupersededHasMessage,
         NothingBeforeInitial, OneActivity, CompletionMatchesBatch,
         NoMessageStranded, HostSeesTurn, MessageIdMatchesPosition, Alive,
         ProviderIdle, ToolsIdle, IdleClient
<1> QED
  BY <1>1, <1>2

\* Every step keeps TurnInv.
LEMMA TurnStep == TypeInv /\ TurnInv /\ [Next]_vars => TurnInv'
<1> SUFFICES ASSUME TypeInv, TurnInv, [Next]_vars PROVE TurnInv'
  OBVIOUS
<1>1. CASE Actor
  BY <1>1, TurnHandleInitial, TurnHandleShutdown, TurnHandleData,
     TurnHandleCancelTurn, TurnHandleContinueTurn, TurnHandleCompactNow,
     TurnDrainPendingData, TurnAppendInput, TurnAppendInputFails,
     TurnAppendFinal, TurnAppendFinalFails, TurnAnnounceTurn,
     TurnStartProviderRequest, TurnReceiveProviderEvent,
     TurnHandleGraceElapsed, TurnHandleToolCompletion DEF Actor
<1>2. CASE \/ \E kind \in Requests : SendRequest(kind)
           \/ \E id \in provider_threads, type \in {"Stream", "Retry"} :
                ProviderStreams(id, type)
           \/ \E result \in Results : ProviderCompletes(result)
           \/ ProviderAborts
           \/ GraceWindowElapses
           \/ \E t \in timers : TimerFires(t)
           \/ UNCHANGED vars
  <2>1. UNCHANGED <<actorVars, disk, client, toolVars>>
    BY <1>2 DEF SendRequest, ProviderStreams, ProviderCompletes,
                ProviderAborts, GraceWindowElapses, TimerFires, vars, hostVars
  <2> QED
    BY <2>1, TurnOtherThreads
<1>3. CASE WorkerCompletes
  BY <1>3, TurnWorkerCompletes
<1>4. CASE Crash \/ Restart
  BY <1>4, TurnCrashRestart
<1> QED
  BY <1>1, <1>2, <1>3, <1>4 DEF Next

\* The inductive invariant of the turns.
THEOREM TurnInvariant == Spec => []TurnInv
<1>1. Init => TurnInv
  BY TurnInit
<1>2. TypeInv /\ TurnInv /\ [Next]_vars => TurnInv'
  BY TurnStep
<1> QED
  BY <1>1, <1>2, TypeInvariant, PTL DEF Spec

\* The actor never has a provider request and a tool batch at the same time,
\* and has neither while a handler is about to start one.
THEOREM OneActivityAlways == Spec => []OneActivity
<1>1. TurnInv => OneActivity
  BY DEF TurnInv
<1> QED
  BY <1>1, TurnInvariant, PTL

\* The completion of a tool batch always is the one of the running batch: the
\* two errors of handle_tool_completion_event and finish are unreachable.
THEOREM CompletionAlwaysMatches == Spec => []CompletionMatchesBatch
<1>1. TurnInv => CompletionMatchesBatch
  BY DEF TurnInv
<1> QED
  BY <1>1, TurnInvariant, PTL

\* An idle actor never waits in its select with a message queued.
THEOREM MessagesNeverStranded == Spec => []NoMessageStranded
<1>1. TurnInv => NoMessageStranded
  BY DEF TurnInv
<1> QED
  BY <1>1, TurnInvariant, PTL

\* The turn the host believes to run is the one that runs, also when a turn is
\* superseded without an event of its own.
THEOREM HostAlwaysSeesTurn == Spec => []HostSeesTurn
<1>1. TurnInv => HostSeesTurn
  BY DEF TurnInv
<1> QED
  BY <1>1, TurnInvariant, PTL

\* The message id handed out when a request starts is the position its response
\* gets in the transcript.
THEOREM MessageIdsArePositions == Spec => []MessageIdMatchesPosition
<1>1. TurnInv => MessageIdMatchesPosition
  BY DEF TurnInv
<1> QED
  BY <1>1, TurnInvariant, PTL

-----------------------------------------------------------------------------
(***************************************************************************)
(* The provider requests: the active one gets its own result exactly once, *)
(* the session is not asked while it is busy, and an armed grace timer     *)
(* fires and finds what it was armed for.  RequestInv orders the ids:      *)
(* whatever the session runs or the channel still holds was asked before   *)
(* the id the actor would use next.                                        *)
(***************************************************************************)
\* The order in which ids are used: by turn, step and attempt.
Before(a, b) ==
    \/ a.turn < b.turn
    \/ a.turn = b.turn /\ a.step < b.step
    \/ a.turn = b.turn /\ a.step = b.step /\ a.attempts < b.attempts

\* The ids of the request the session runs and of the results in the channel.
Asked == {id \in RequestId : \/ id = session_active /\ id # NoId
                             \/ ResultsOf(id) # {}}

IsFresh(id) == \A a \in Asked : Before(a, id)

\* A turn that has been begun.
IsTurn(turn) == 0 < turn /\ turn < next_turn_id

\* Only turns that have been begun have asked.
AskedTurns == \A id \in Asked : IsTurn(id.turn)

\* A handler that goes to start a request has an id nobody has used.
FrameIsFresh ==
    /\ pc \in {"input", "announce", "start", "final"} => IsTurn(frame.turn)
    /\ pc \in {"input", "announce"} => \A id \in Asked : id.turn < frame.turn
    /\ pc = "start" => IsFresh(CurrentId)

\* The step after a tool batch has an id nobody has used.
BatchIsFresh ==
    ~ToolsIdle =>
        /\ IsTurn(active_tool_batch.turn)
        /\ IsFresh([turn |-> active_tool_batch.turn,
                    step |-> active_tool_batch.step + 1, attempts |-> 0])

\* Every id but the active one was used before it.
ActiveIsNewest ==
    ~ProviderIdle =>
        /\ IsTurn(active_provider_request.id.turn)
        /\ \A id \in Asked : \/ id = active_provider_request.id
                             \/ Before(id, active_provider_request.id)

\* The ids are in order.
IdsInOrder == AskedTurns /\ FrameIsFresh /\ BatchIsFresh /\ ActiveIsNewest

\* Turns are numbered from 1, also by a restarted actor, and nothing has been
\* asked before the Initial sets the number of the next turn.
TurnNumbers ==
    /\ 0 < next_turn_id
    /\ 0 < disk.next_turn_id
    /\ Alive /\ ~initial => Asked = {}

\* The session works on the request and there is no result of it yet, or the
\* session is free and there is one.
HasOneResult(id) ==
    \/ session_active = id /\ ResultsOf(id) = {}
    \/ session_active = NoId /\ \E i \in 1..Len(provider_event_rx) : ResultsOf(id) = {i}

\* The active request waits for its one result.
HasOwnResult ==
    \A id \in RequestId :
        ~ProviderIdle /\ id = active_provider_request.id => HasOneResult(id)

\* An abort is of a request that was given up, and what the session runs is the
\* active request or about to be aborted.
SessionIsOurs ==
    /\ abort_queued => ProviderIdle
    /\ session_active # NoId =>
         abort_queued \/ session_active = active_provider_request.id
    /\ HasOwnResult

\* A timer is armed for the active request and a waiting user message, and it
\* sleeps or has fired.
TimerIsLive ==
    grace_timer # 0 =>
        /\ ~ProviderIdle
        /\ HasPendingUserMessage(pending_data)
        /\ \/ grace_timer \in timers
           \/ \E i \in 1..Len(internal_event_rx) :
                internal_event_rx[i] = grace_timer

RequestInv == TurnNumbers /\ (Alive => IdsInOrder /\ SessionIsOurs)

-----------------------------------------------------------------------------
(***************************************************************************)
(* The channel of provider events                                          *)
(***************************************************************************)
\* Types of the channel and of what carries ids.
LEMMA RequestTypes ==
    ASSUME TypeInv
    PROVE  /\ provider_event_rx \in Seq(ProviderEvent)
           /\ session_active \in RequestId
           /\ active_provider_request.id \in RequestId
           /\ next_turn_id \in Nat
           /\ frame.turn \in Nat /\ frame.step \in Nat /\ frame.attempts \in Nat
           /\ CurrentId \in RequestId
           /\ active_tool_batch.turn \in Nat /\ active_tool_batch.step \in Nat
           /\ disk.next_turn_id \in Nat
  BY DEF TypeInv, TypeOK, ProviderRequest, Frame, ToolBatch, CurrentId,
         RequestId, PersistedState

\* Taking the first event moves the results one position down.
LEMMA ResultsTail ==
    ASSUME TypeInv, provider_event_rx # <<>>,
           provider_event_rx' = Tail(provider_event_rx), NEW id
    PROVE  /\ \A i : i \in ResultsOf(id)' <=> i \in 1..Len(provider_event_rx) /\ i + 1 \in ResultsOf(id)
           /\ 1 \in ResultsOf(id) <=> /\ Head(provider_event_rx).type = "Result"
                                      /\ Head(provider_event_rx).id = id
<1>1. provider_event_rx \in Seq(ProviderEvent)
  BY RequestTypes
<1>2. /\ Len(provider_event_rx') = Len(provider_event_rx) - 1
      /\ \A i \in 1..(Len(provider_event_rx) - 1) :
            provider_event_rx'[i] = provider_event_rx[i + 1]
      /\ Head(provider_event_rx) = provider_event_rx[1]
      /\ Len(provider_event_rx) \in Nat \ {0}
  BY <1>1
<1> QED
  BY <1>2 DEF ResultsOf

\* Sending a result adds one, sending another event none.
LEMMA ResultsAppend ==
    ASSUME TypeInv, NEW e \in ProviderEvent,
           provider_event_rx' = Append(provider_event_rx, e), NEW id
    PROVE  ResultsOf(id)' = IF e.type = "Result" /\ e.id = id
                            THEN ResultsOf(id) \cup {Len(provider_event_rx) + 1}
                            ELSE ResultsOf(id)
<1>1. provider_event_rx \in Seq(ProviderEvent)
  BY RequestTypes
<1>2. /\ Len(provider_event_rx') = Len(provider_event_rx) + 1
      /\ \A i \in 1..Len(provider_event_rx) :
            provider_event_rx'[i] = provider_event_rx[i]
      /\ provider_event_rx'[Len(provider_event_rx) + 1] = e
      /\ Len(provider_event_rx) \in Nat
  BY <1>1
<1> QED
  BY <1>2 DEF ResultsOf

\* The session as it is and the channel as it is or without its first event.
Received ==
    /\ session_active' = session_active
    /\ \/ provider_event_rx' = provider_event_rx
       \/ /\ provider_event_rx # <<>>
          /\ provider_event_rx' = Tail(provider_event_rx)

\* No id is added when an event is taken.
LEMMA AskedShrinks ==
    ASSUME TypeInv, Received
    PROVE  Asked' \subseteq Asked
<1> SUFFICES ASSUME NEW id \in Asked' PROVE id \in Asked
  OBVIOUS
<1>1. id \in RequestId
  BY DEF Asked
<1>2. CASE id = session_active' /\ id # NoId
  BY <1>1, <1>2 DEF Received, Asked
<1>3. CASE ResultsOf(id)' # {}
  <2>1. ResultsOf(id) # {}
    <3>1. CASE provider_event_rx' = provider_event_rx
      BY <1>3, <3>1 DEF ResultsOf
    <3>2. CASE /\ provider_event_rx # <<>>
               /\ provider_event_rx' = Tail(provider_event_rx)
      BY <1>3, <3>2, ResultsTail
    <3> QED
      BY <3>1, <3>2 DEF Received
  <2> QED
    BY <1>1, <2>1 DEF Asked
<1> QED
  BY <1>2, <1>3 DEF Asked

\* Ids are ordered.
LEMMA BeforeOrder ==
    ASSUME NEW a \in RequestId, NEW b \in RequestId, NEW c \in RequestId
    PROVE  /\ Before(a, b) /\ Before(b, c) => Before(a, c)
           /\ ~Before(a, a)
           /\ NoId \in RequestId
  BY DEF Before, RequestId, NoId

-----------------------------------------------------------------------------
(***************************************************************************)
(* What the handlers share                                                 *)
(***************************************************************************)
\* The batch is over or is the one it was, maybe interrupted.
BatchKept ==
    \/ active_tool_batch' = NoBatch
    \/ /\ active_tool_batch # NoBatch
       /\ active_tool_batch'.turn = active_tool_batch.turn
       /\ active_tool_batch'.step = active_tool_batch.step

\* Ids stay in order when none is added, the active request and the batch are
\* the old ones or over, and the frame is in order.
LEMMA IdsKept ==
    ASSUME TypeInv, TypeInv', IdsInOrder, Asked' \subseteq Asked, BatchKept,
           next_turn_id <= next_turn_id',
           active_provider_request' \in {NoRequest, active_provider_request},
           FrameIsFresh'
    PROVE  IdsInOrder'
<1>1. next_turn_id \in Nat /\ next_turn_id' \in Nat
  BY RequestTypes DEF TypeInv, TypeOK
<1>2. \A id \in Asked : id.turn \in Nat
  BY DEF Asked, RequestId
<1>3. ASSUME NEW t \in Nat, IsTurn(t) PROVE IsTurn(t)'
  BY <1>1, <1>3 DEF IsTurn
<1>4. AskedTurns'
  BY <1>2, <1>3 DEF IdsInOrder, AskedTurns
<1>5. BatchIsFresh'
  <2> SUFFICES ASSUME ~ToolsIdle'
               PROVE  /\ IsTurn(active_tool_batch.turn)'
                      /\ IsFresh([turn |-> active_tool_batch.turn,
                                  step |-> active_tool_batch.step + 1,
                                  attempts |-> 0])'
    BY DEF BatchIsFresh
  <2>1. /\ ~ToolsIdle
        /\ active_tool_batch'.turn = active_tool_batch.turn
        /\ active_tool_batch'.step = active_tool_batch.step
    BY DEF BatchKept, ToolsIdle
  <2>2. IsTurn(active_tool_batch.turn) /\ active_tool_batch.turn \in Nat
    BY <2>1, RequestTypes DEF IdsInOrder, BatchIsFresh
  <2>3. IsFresh([turn |-> active_tool_batch.turn,
                 step |-> active_tool_batch.step + 1, attempts |-> 0])
    BY <2>1 DEF IdsInOrder, BatchIsFresh
  <2>4. IsTurn(active_tool_batch.turn)'
    BY <1>1, <2>1, <2>2 DEF IsTurn
  <2> QED
    BY <2>1, <2>3, <2>4 DEF IsFresh
<1>6. ActiveIsNewest'
  <2> SUFFICES ASSUME ~ProviderIdle'
               PROVE  /\ IsTurn(active_provider_request.id.turn)'
                      /\ \A id \in Asked' :
                            \/ id = active_provider_request'.id
                            \/ Before(id, active_provider_request'.id)
    BY DEF ActiveIsNewest, Before
  <2>1. ~ProviderIdle /\ active_provider_request' = active_provider_request
    BY DEF ProviderIdle
  <2>2. /\ IsTurn(active_provider_request.id.turn)
        /\ active_provider_request.id.turn \in Nat
        /\ \A id \in Asked : \/ id = active_provider_request.id
                             \/ Before(id, active_provider_request.id)
    BY <2>1, RequestTypes DEF IdsInOrder, ActiveIsNewest, RequestId
  <2>3. IsTurn(active_provider_request.id.turn)'
    BY <1>1, <2>1, <2>2 DEF IsTurn
  <2> QED
    BY <2>1, <2>2, <2>3
<1> QED
  BY <1>4, <1>5, <1>6 DEF IdsInOrder

\* The numbers of turns.
LEMMA NumbersKept ==
    ASSUME TypeInv, TypeInv', TurnNumbers, Alive, Asked' \subseteq Asked,
           initial' = initial, next_turn_id <= next_turn_id',
           0 < disk'.next_turn_id
    PROVE  TurnNumbers'
<1>1. next_turn_id \in Nat /\ next_turn_id' \in Nat
  BY DEF TypeInv, TypeOK
<1>2. 0 < next_turn_id'
  BY <1>1 DEF TurnNumbers
<1>3. ~initial' => Asked' = {}
  BY DEF TurnNumbers
<1> QED
  BY <1>2, <1>3 DEF TurnNumbers

\* A save writes the number the actor has.
LEMMA PersistNumber ==
    ASSUME TurnNumbers, NEW h, NEW all, NEW b,
           PersistIfClosed(h, all, next_turn_id, b) \/ disk' = disk
    PROVE  0 < disk'.next_turn_id
  BY DEF TurnNumbers, PersistIfClosed

\* The active request keeps waiting when another event is taken.
LEMMA SessionKept ==
    ASSUME TypeInv, SessionIsOurs, Received,
           UNCHANGED <<active_provider_request, abort_queued>>,
           \/ active_provider_request = NoRequest
           \/ provider_event_rx' = provider_event_rx
           \/ Head(provider_event_rx).type # "Result"
           \/ Head(provider_event_rx).id # active_provider_request.id
    PROVE  SessionIsOurs'
<1>1. HasOwnResult'
  <2> SUFFICES ASSUME NEW id \in RequestId, ~ProviderIdle',
                      id = active_provider_request'.id
               PROVE  HasOneResult(id)'
    BY DEF HasOwnResult
  <2>1. /\ id = active_provider_request.id
        /\ session_active' = session_active
        /\ active_provider_request # NoRequest
    BY DEF Received, ProviderIdle
  <2>2. HasOneResult(id)
    BY <2>1 DEF SessionIsOurs, HasOwnResult, ProviderIdle
  <2>3. CASE provider_event_rx' = provider_event_rx
    BY <2>1, <2>2, <2>3 DEF HasOneResult, ResultsOf
  <2>4. CASE /\ provider_event_rx # <<>>
             /\ provider_event_rx' = Tail(provider_event_rx)
             /\ provider_event_rx' # provider_event_rx
    <3>1. /\ \A i : i \in ResultsOf(id)' <=> /\ i \in 1..Len(provider_event_rx)
                                             /\ i + 1 \in ResultsOf(id)
          /\ 1 \notin ResultsOf(id)
      BY <2>1, <2>4, ResultsTail
    <3>2. CASE session_active = id /\ ResultsOf(id) = {}
      <4>1. ResultsOf(id)' = {}
        BY <3>1, <3>2
      <4> QED
        BY <2>1, <3>2, <4>1 DEF HasOneResult
    <3>3. CASE /\ session_active = NoId
               /\ \E i \in 1..Len(provider_event_rx) : ResultsOf(id) = {i}
      <4>1. PICK i \in 1..Len(provider_event_rx) : ResultsOf(id) = {i}
        BY <3>3
      <4>2. /\ provider_event_rx \in Seq(ProviderEvent)
            /\ Len(provider_event_rx') = Len(provider_event_rx) - 1
            /\ Len(provider_event_rx) \in Nat
        BY <2>4, RequestTypes
      <4>3. i # 1
        BY <3>1, <4>1
      <4>4. i - 1 \in 1..Len(provider_event_rx') /\ (i - 1) + 1 = i
        BY <4>1, <4>2, <4>3
      <4>5. i - 1 \in ResultsOf(id)'
        BY <3>1, <4>1, <4>2, <4>4
      <4>6. ASSUME NEW j \in ResultsOf(id)' PROVE j = i - 1
        BY <3>1, <4>1, <4>2, <4>6
      <4>7. ResultsOf(id)' = {i - 1}
        BY <4>5, <4>6
      <4> QED
        BY <2>1, <3>3, <4>4, <4>7 DEF HasOneResult
    <3> QED
      BY <2>2, <3>2, <3>3 DEF HasOneResult
  <2> QED
    BY <2>3, <2>4 DEF Received
<1> QED
  BY <1>1 DEF SessionIsOurs, ProviderIdle, Received

\* The active request is over: by its result, or an abort is queued for it.
LEMMA SessionDropped ==
    ASSUME session_active' = NoId \/ abort_queued',
           active_provider_request' = NoRequest
    PROVE  SessionIsOurs'
  BY DEF SessionIsOurs, HasOwnResult, ProviderIdle

\* A frame that starts no request is in order.
LEMMA NoFrameIsFresh ==
    ASSUME pc' \notin {"input", "announce", "start", "final"}
    PROVE  FrameIsFresh'
  BY DEF FrameIsFresh

\* A step that leaves the session and its channel alone.
LEMMA RequestsKept ==
    ASSUME TypeInv, TypeInv', RequestInv, Alive,
           UNCHANGED <<session_active, provider_event_rx, abort_queued,
                       active_provider_request, initial>>,
           BatchKept, next_turn_id <= next_turn_id', 0 < disk'.next_turn_id,
           FrameIsFresh'
    PROVE  RequestInv'
<1>1. Received
  BY DEF Received
<1>2. Asked' \subseteq Asked
  BY <1>1, AskedShrinks
<1>3. TurnNumbers'
  BY <1>2, NumbersKept DEF RequestInv
<1>4. IdsInOrder'
  BY <1>2, IdsKept DEF RequestInv
<1>5. SessionIsOurs'
  BY <1>1, SessionKept DEF RequestInv
<1> QED
  BY <1>3, <1>4, <1>5 DEF RequestInv

\* An actor that has ended keeps the numbers.
LEMMA DeadRequests ==
    ASSUME RequestInv, ~Alive', next_turn_id' = next_turn_id, 
           0 < disk'.next_turn_id
    PROVE  RequestInv'
  BY DEF RequestInv, TurnNumbers

-----------------------------------------------------------------------------
(***************************************************************************)
(* Requests of the host and turns                                          *)
(***************************************************************************)
\* Turn numbers as they are compared.
LEMMA TurnNumberTypes ==
    ASSUME TypeInv, TypeInv'
    PROVE  /\ next_turn_id \in Nat /\ next_turn_id' \in Nat
           /\ next_turn_id' = next_turn_id => next_turn_id <= next_turn_id'
  BY DEF TypeInv, TypeOK

\* Where a handler may leave the actor without a frame.
LEMMA SettleNoFrame ==
    ASSUME NEW request, NEW batch, NEW data,
           \/ Settle(request, batch, data)
           \/ pc' \in {"recv", "drain", "dead", "down"}
    PROVE  FrameIsFresh'
  BY NoFrameIsFresh DEF Settle

\* An interrupt keeps turn and step of the batch.
LEMMA InterruptKeepsBatch ==
    ASSUME TypeInv, NEW interrupt, InterruptActiveTools(interrupt)
    PROVE  BatchKept /\ pc' \in {"recv", "drain", "dead"}
<1>1. active_tool_batch \in ToolBatch
  BY DEF TypeInv, TypeOK
<1>2. \/ active_tool_batch' = active_tool_batch
      \/ /\ active_tool_batch # NoBatch
         /\ active_tool_batch' = [active_tool_batch EXCEPT !.interrupt = interrupt]
  BY DEF InterruptActiveTools
<1>3. pc' \in {"recv", "drain", "dead"}
  BY DEF InterruptActiveTools, Settle, Die
<1> QED
  BY <1>1, <1>2, <1>3 DEF BatchKept, ToolBatch

\* The Initial sets the number of the next turn while nothing has been asked.
LEMMA RequestHandleInitial ==
    ASSUME TypeInv, TypeInv', TurnInv, RequestInv, HandleInitial
    PROVE  RequestInv'
<1>1. /\ pc = "recv"
      /\ UNCHANGED <<session_active, provider_event_rx, abort_queued,
                     active_provider_request, active_tool_batch>>
      /\ Settle(active_provider_request, active_tool_batch, pending_data)
  BY DEF HandleInitial, Receive, providerVars
<1>2. Alive /\ BatchKept /\ FrameIsFresh'
  BY <1>1, SettleNoFrame DEF Alive, BatchKept
<1>3. CASE initial
  <2>1. UNCHANGED <<initial, next_turn_id, disk>>
    BY <1>3 DEF HandleInitial
  <2>2. 0 < disk'.next_turn_id
    BY <2>1 DEF RequestInv, TurnNumbers
  <2> QED
    BY <1>1, <1>2, <2>1, <2>2, RequestsKept, TurnNumberTypes
<1>4. CASE ~initial
  <2>1. /\ initial'
        /\ next_turn_id' = disk.next_turn_id
        /\ disk' = [disk EXCEPT !.saved = TRUE]
    BY <1>4 DEF HandleInitial
  <2>2. disk'.next_turn_id = disk.next_turn_id
    BY <2>1 DEF TypeInv, TypeOK, PersistedState
  <2>3. Asked' = {}
    <3>1. Received
      BY <1>1 DEF Received
    <3>2. Asked = {}
      BY <1>2, <1>4 DEF RequestInv, TurnNumbers
    <3> QED
      BY <3>1, <3>2, AskedShrinks
  <2>4. ProviderIdle' /\ ToolsIdle'
    BY <1>1, <1>2, <1>4 DEF TurnInv, NothingBeforeInitial, ProviderIdle, ToolsIdle
  <2>5. TurnNumbers'
    BY <2>1, <2>2, <2>3 DEF RequestInv, TurnNumbers
  <2>6. IdsInOrder'
    BY <1>2, <2>3, <2>4
       DEF IdsInOrder, AskedTurns, BatchIsFresh, ActiveIsNewest
  <2>7. SessionIsOurs'
    <3>1. Received
      BY <1>1 DEF Received
    <3> QED
      BY <1>1, <1>2, <3>1, SessionKept DEF RequestInv
  <2> QED
    BY <2>5, <2>6, <2>7 DEF RequestInv
<1> QED
  BY <1>3, <1>4

\* The active request is given up: the session is told to abort it.
LEMMA CancelRequest ==
    ASSUME TypeInv, TypeInv', RequestInv, Alive,
           NEW emit_failure, CancelActiveProviderRequest(emit_failure),
           Received, UNCHANGED <<initial, active_tool_batch, next_turn_id, disk>>
    PROVE  RequestInv'
<1>1. /\ active_provider_request' = NoRequest
      /\ abort_queued'
      /\ Settle(NoRequest, active_tool_batch, pending_data)
  BY DEF CancelActiveProviderRequest
<1>2. Asked' \subseteq Asked
  BY AskedShrinks
<1>3. FrameIsFresh' /\ BatchKept /\ 0 < disk'.next_turn_id
  BY <1>1, SettleNoFrame DEF BatchKept, RequestInv, TurnNumbers
<1>4. TurnNumbers'
  BY <1>2, <1>3, NumbersKept, TurnNumberTypes DEF RequestInv
<1>5. IdsInOrder'
  BY <1>1, <1>2, <1>3, IdsKept, TurnNumberTypes DEF RequestInv
<1>6. SessionIsOurs'
  BY <1>1, SessionDropped
<1> QED
  BY <1>4, <1>5, <1>6 DEF RequestInv

\* The requests of the host that start no turn.
LEMMA RequestHostSteps ==
    ASSUME TypeInv, TypeInv', RequestInv,
           \/ HandleShutdown
           \/ \E kind \in DataKinds : HandleData(kind)
           \/ HandleCancelTurn
           \/ HandleCompactNow
    PROVE  RequestInv'
<1>1. Alive
  BY DEF HandleShutdown, HandleData, HandleCancelTurn, HandleCompactNow,
         Receive, Alive
<1>2. 0 < disk.next_turn_id
  BY DEF RequestInv, TurnNumbers
<1>3. CASE HandleShutdown
  <2>1. ~Alive' /\ next_turn_id' = next_turn_id /\ disk' = disk
    BY <1>3 DEF HandleShutdown, Alive
  <2> QED
    BY <1>2, <2>1, DeadRequests
<1>4. ASSUME NEW kind \in DataKinds, HandleData(kind) PROVE RequestInv'
  <2>1. UNCHANGED <<session_active, provider_event_rx, abort_queued,
                    active_provider_request, initial, next_turn_id, disk>>
    BY <1>4 DEF HandleData, providerVars
  <2>2. BatchKept /\ FrameIsFresh'
    <3>1. \/ \E i : InterruptActiveTools(i)
          \/ /\ Settle(active_provider_request, active_tool_batch, pending_data')
             /\ UNCHANGED active_tool_batch
      BY <1>4, Zenon DEF HandleData
    <3>2. CASE \E i : InterruptActiveTools(i)
      BY <3>2, InterruptKeepsBatch, NoFrameIsFresh
    <3>3. CASE /\ Settle(active_provider_request, active_tool_batch, pending_data')
               /\ UNCHANGED active_tool_batch
      BY <3>3, SettleNoFrame DEF BatchKept
    <3> QED
      BY <3>1, <3>2, <3>3
  <2> QED
    BY <1>1, <1>2, <2>1, <2>2, RequestsKept, TurnNumberTypes
<1>5. CASE HandleCancelTurn
  <2>1. /\ UNCHANGED <<session_active, provider_event_rx, initial, next_turn_id,
                       disk>>
        /\ \/ /\ CancelActiveProviderRequest(TRUE)
              /\ UNCHANGED active_tool_batch
           \/ /\ UNCHANGED <<active_provider_request, abort_queued>>
              /\ InterruptActiveTools("Cancel")
    BY <1>5, Zenon DEF HandleCancelTurn
  <2>2. CASE /\ CancelActiveProviderRequest(TRUE)
             /\ UNCHANGED active_tool_batch
    <3>1. Received
      BY <2>1 DEF Received
    <3> QED
      BY <1>1, <2>1, <2>2, <3>1, CancelRequest
  <2>3. CASE /\ UNCHANGED <<active_provider_request, abort_queued>>
             /\ InterruptActiveTools("Cancel")
    <3>1. BatchKept /\ FrameIsFresh'
      BY <2>3, InterruptKeepsBatch, NoFrameIsFresh
    <3> QED
      BY <1>1, <1>2, <2>1, <2>3, <3>1, RequestsKept, TurnNumberTypes
  <2> QED
    BY <2>1, <2>2, <2>3
<1>6. CASE HandleCompactNow
  <2>1. /\ UNCHANGED <<session_active, provider_event_rx, abort_queued,
                       active_provider_request, active_tool_batch, initial,
                       next_turn_id>>
        /\ Settle(active_provider_request, active_tool_batch, pending_data)
        /\ \/ disk' = disk
           \/ PersistIfClosed(history', all_messages, next_turn_id, next_batch_id)
    BY <1>6 DEF HandleCompactNow, providerVars
  <2>2. 0 < disk'.next_turn_id
    BY <2>1, PersistNumber DEF RequestInv
  <2>3. BatchKept /\ FrameIsFresh'
    BY <2>1, SettleNoFrame DEF BatchKept
  <2> QED
    BY <1>1, <2>1, <2>2, <2>3, RequestsKept, TurnNumberTypes
<1> QED
  BY <1>3, <1>4, <1>5, <1>6


\* A new turn has an id nobody has used.
LEMMA NewTurnIsFresh ==
    ASSUME TypeInv, TypeInv', IdsInOrder, 0 < next_turn_id,
           Asked' \subseteq Asked,
           next_turn_id' = next_turn_id + 1,
           frame'.turn = next_turn_id
    PROVE  FrameIsFresh' /\ next_turn_id <= next_turn_id'
<1>1. next_turn_id \in Nat /\ frame'.step \in Nat /\ frame'.attempts \in Nat
  BY DEF TypeInv, TypeOK, Frame
<1>2. IsTurn(frame.turn)'
  BY <1>1 DEF IsTurn
<1>3. \A id \in Asked' : id.turn < frame'.turn
  BY DEF IdsInOrder, AskedTurns, IsTurn
<1>4. IsFresh(CurrentId)'
  BY <1>3 DEF IsFresh, CurrentId, Before
<1> QED
  BY <1>1, <1>2, <1>3, <1>4 DEF FrameIsFresh

\* Turns are begun.
LEMMA RequestBeginTurn ==
    ASSUME TypeInv, TypeInv', RequestInv,
           DrainPendingData \/ HandleContinueTurn
    PROVE  RequestInv'
<1>1. /\ Alive
      /\ UNCHANGED <<session_active, provider_event_rx, abort_queued,
                     active_provider_request, active_tool_batch, initial, disk>>
  BY DEF DrainPendingData, HandleContinueTurn, Receive, Alive, providerVars
<1>2. BatchKept /\ 0 < disk'.next_turn_id /\ 0 < next_turn_id
  BY <1>1 DEF BatchKept, RequestInv, TurnNumbers
<1>3. Asked' \subseteq Asked
  BY <1>1, AskedShrinks DEF Received
<1>4. \/ next_turn_id' = next_turn_id + 1 /\ frame'.turn = next_turn_id
      \/ next_turn_id' = next_turn_id /\ pc' \notin {"input", "announce", "start", "final"}
  <2>1. ASSUME NEW rs, BeginTurn(rs)
        PROVE  next_turn_id' = next_turn_id + 1 /\ frame'.turn = next_turn_id
    BY <2>1 DEF BeginTurn
  <2>2. [NoFrame EXCEPT !.turn = next_turn_id, !.guarded = TRUE].turn = next_turn_id
    BY DEF NoFrame
  <2>3. CASE DrainPendingData
    BY <2>1, <2>3 DEF DrainPendingData, Die
  <2>4. CASE HandleContinueTurn
    BY <2>1, <2>2, <2>4 DEF HandleContinueTurn, Die, Settle
  <2> QED
    BY <2>3, <2>4
<1>5. FrameIsFresh' /\ next_turn_id <= next_turn_id'
  <2>1. CASE next_turn_id' = next_turn_id + 1 /\ frame'.turn = next_turn_id
    BY <1>1, <1>2, <1>3, <2>1, NewTurnIsFresh DEF RequestInv
  <2>2. CASE next_turn_id' = next_turn_id /\ pc' \notin {"input", "announce", "start", "final"}
    BY <2>2, NoFrameIsFresh, TurnNumberTypes
  <2> QED
    BY <1>4, <2>1, <2>2
<1> QED
  BY <1>1, <1>2, <1>5, RequestsKept

\* The messages of a turn and its final response are appended.
LEMMA RequestAppends ==
    ASSUME TypeInv, TypeInv', RequestInv,
           \/ PruneWhileAppending
           \/ AppendInput
           \/ AppendInputFails
           \/ AnnounceTurn
           \/ AppendFinal
           \/ AppendFinalFails
    PROVE  RequestInv'
<1>1. /\ Alive
      /\ UNCHANGED <<session_active, provider_event_rx, abort_queued,
                     active_provider_request, active_tool_batch, initial,
                     next_turn_id>>
  BY DEF PruneWhileAppending, AppendInput, AppendInputFails, AnnounceTurn,
         AppendFinal, AppendFinalFails, Alive, providerVars
<1>2. BatchKept /\ next_turn_id <= next_turn_id'
  BY <1>1, TurnNumberTypes DEF BatchKept
<1>3. 0 < disk'.next_turn_id
  <2>1. \/ disk' = disk
        \/ \E h, all, b : PersistIfClosed(h, all, next_turn_id, b)
    BY Zenon DEF PruneWhileAppending, AppendInput, AppendInputFails,
                 AnnounceTurn, AppendFinal, AppendFinalFails
  <2> QED
    BY <2>1, PersistNumber DEF RequestInv
<1>4. FrameIsFresh'
  <2>1. frame \in Frame /\ next_turn_id \in Nat
    BY DEF TypeInv, TypeOK
  <2>2. CASE PruneWhileAppending \/ AppendInput \/ AnnounceTurn
    <3>1. \/ pc' \notin {"input", "announce", "start", "final"}
          \/ pc \in {"input", "announce"} /\ frame'.turn = frame.turn
          \/ pc = "final" /\ pc' = "final" /\ frame'.turn = frame.turn
      BY <2>1, <2>2 DEF PruneWhileAppending, AppendInput, AnnounceTurn, Frame
    <3>2. CASE pc \in {"input", "announce"} /\ frame'.turn = frame.turn
      <4>1. Asked' \subseteq Asked
        BY <1>1, AskedShrinks DEF Received
      <4>2. /\ IsTurn(frame.turn)
            /\ \A id \in Asked : id.turn < frame.turn
        BY <1>1, <3>2 DEF RequestInv, IdsInOrder, FrameIsFresh
      <4>3. IsTurn(frame.turn)'
        BY <1>1, <3>2, <4>2 DEF IsTurn
      <4>4. \A id \in Asked' : id.turn < frame'.turn
        BY <3>2, <4>1, <4>2
      <4>5. IsFresh(CurrentId)'
        BY <4>4 DEF IsFresh, CurrentId, Before
      <4> QED
        BY <4>3, <4>4, <4>5 DEF FrameIsFresh
    <3>3. CASE pc = "final" /\ pc' = "final" /\ frame'.turn = frame.turn
      BY <1>1, <3>3 DEF RequestInv, IdsInOrder, FrameIsFresh, IsTurn
    <3> QED
      BY <3>1, <3>2, <3>3, NoFrameIsFresh
  <2>3. CASE AppendInputFails \/ AppendFinal \/ AppendFinalFails
    <3>1. pc' \notin {"input", "announce", "start", "final"}
      BY <2>3 DEF AppendInputFails, AppendFinal, AppendFinalFails,
                  FinishTurnError, Settle, Die
    <3> QED
      BY <3>1, NoFrameIsFresh
  <2> QED
    BY <2>2, <2>3
<1> QED
  BY <1>1, <1>2, <1>3, <1>4, RequestsKept

-----------------------------------------------------------------------------
(***************************************************************************)
(* Provider requests                                                       *)
(***************************************************************************)
\* A request is started: its id is new, so that no result of it can be there.
LEMMA RequestStart ==
    ASSUME TypeInv, TypeInv', TurnInv, RequestInv, StartProviderRequest
    PROVE  RequestInv'
<1>1. /\ pc = "start" /\ Alive /\ ~abort_queued
      /\ UNCHANGED <<initial, active_tool_batch, next_turn_id, abort_queued,
                     provider_event_rx>>
  BY DEF StartProviderRequest, Alive
<1>2. active_provider_request = NoRequest /\ NoTools /\ initial
  BY <1>1, BusyTurn
<1>3. 0 < disk'.next_turn_id
  <2>1. \/ disk' = disk
        \/ \E h, all, b : PersistIfClosed(h, all, next_turn_id, b)
    BY Zenon DEF StartProviderRequest
  <2> QED
    BY <2>1, PersistNumber DEF RequestInv
<1>4. BatchKept /\ next_turn_id <= next_turn_id'
  BY <1>1, TurnNumberTypes DEF BatchKept
<1>5. IsTurn(frame.turn) /\ IsFresh(CurrentId)
  BY <1>1 DEF RequestInv, IdsInOrder, FrameIsFresh
<1>6. \/ \E c : StartFails(c)
      \/ \E h, c : Shrink(h, c)
      \/ \E h, all, c : Launch(h, all, c) /\ ~StartFails(c)
  BY Zenon DEF StartProviderRequest
<1>7. ASSUME NEW c, StartFails(c) PROVE RequestInv'
  <2>1. UNCHANGED <<active_provider_request, session_active>>
    BY <1>7 DEF StartFails
  <2>2. pc' \notin {"input", "announce", "start", "final"}
    BY <1>7 DEF StartFails, FinishTurnError, Settle, Die
  <2> QED
    BY <1>1, <1>3, <1>4, <2>1, <2>2, NoFrameIsFresh, RequestsKept
<1>8. ASSUME NEW h, NEW c, Shrink(h, c) PROVE RequestInv'
  <2>1. /\ UNCHANGED <<pc, active_provider_request, session_active>>
        /\ frame' = [frame EXCEPT !.attempts = @ + 1]
    BY <1>8 DEF Shrink
  <2>2. frame \in Frame
    BY DEF TypeInv, TypeOK
  <2>3. /\ frame'.turn = frame.turn
        /\ frame'.step = frame.step
        /\ frame'.attempts = frame.attempts + 1
        /\ frame.attempts \in Nat
    BY <2>1, <2>2 DEF Frame
  <2>4. Asked' \subseteq Asked
    BY <1>1, <2>1, AskedShrinks DEF Received
  <2>5. IsTurn(frame.turn)'
    BY <1>1, <1>5, <2>3 DEF IsTurn
  <2>6. IsFresh(CurrentId)'
    <3>1. \A id \in Asked : id.attempts \in Nat
      BY DEF Asked, RequestId
    <3> QED
      BY <1>5, <2>3, <2>4, <3>1 DEF IsFresh, CurrentId, Before
  <2>7. FrameIsFresh'
    BY <1>1, <2>1, <2>5, <2>6 DEF FrameIsFresh
  <2> QED
    BY <1>1, <1>3, <1>4, <2>1, <2>7, RequestsKept
<1>9. ASSUME NEW h, NEW all, NEW c, Launch(h, all, c), ~StartFails(c)
      PROVE  RequestInv'
  <2>1. /\ session_active = NoId
        /\ session_active' = CurrentId
        /\ active_provider_request' = [id |-> CurrentId,
                                       message_index |-> Len(all) + 1]
        /\ pc' = "recv"
    BY <1>9 DEF Launch
  <2>2. PICK id \in RequestId : id = CurrentId
    BY RequestTypes
  <2>3. active_provider_request'.id = id /\ session_active' = id
    BY <2>1, <2>2
  <2>4. ResultsOf(id) = {}
    <3>1. id \notin Asked
      BY <1>5, <2>2, BeforeOrder DEF IsFresh
    <3> QED
      BY <3>1 DEF Asked
  <2>5. ResultsOf(id)' = {}
    BY <1>1, <2>4 DEF ResultsOf
  <2>6. ASSUME NEW a \in Asked' PROVE a = id \/ (a \in Asked /\ Before(a, id))
    <3>1. a \in RequestId /\ (a = id \/ ResultsOf(a)' # {})
      BY <2>3, <2>6 DEF Asked
    <3>2. ResultsOf(a)' = ResultsOf(a)
      BY <1>1 DEF ResultsOf
    <3> QED
      BY <1>5, <2>2, <3>1, <3>2 DEF Asked, IsFresh
  <2>7. id.turn = frame.turn
    BY <2>2 DEF CurrentId
  <2>8. AskedTurns'
    BY <1>1, <1>5, <2>6, <2>7
       DEF AskedTurns, IsTurn, RequestInv, IdsInOrder
  <2>9. ActiveIsNewest'
    BY <1>1, <1>5, <2>3, <2>6, <2>7 DEF ActiveIsNewest, IsTurn
  <2>10. BatchIsFresh' /\ FrameIsFresh'
    BY <1>1, <1>2, <2>1, NoFrameIsFresh DEF BatchIsFresh, ToolsIdle, NoTools
  <2>11. TurnNumbers'
    BY <1>1, <1>2, <1>3 DEF TurnNumbers, RequestInv
  <2>12. SessionIsOurs'
    <3>1. HasOwnResult'
      <4> SUFFICES ASSUME NEW a \in RequestId, a = active_provider_request'.id
                   PROVE  HasOneResult(a)'
        BY DEF HasOwnResult
      <4>1. a = id
        BY <2>3
      <4> QED
        BY <2>3, <2>5, <4>1 DEF HasOneResult
    <3> QED
      BY <1>1, <2>3, <3>1 DEF SessionIsOurs
  <2> QED
    BY <2>8, <2>9, <2>10, <2>11, <2>12 DEF RequestInv, IdsInOrder
<1> QED
  BY <1>6, <1>7, <1>8, <1>9


\* The result of the active request is taken: the session is free, and every
\* other id in the channel is an older one.
LEMMA RequestTaken ==
    ASSUME TypeInv, RequestInv, Alive, provider_event_rx # <<>>,
           NEW e, e = Head(provider_event_rx), NEW result,
           TakeResult(e, result),
           session_active' = session_active,
           provider_event_rx' = Tail(provider_event_rx)
    PROVE  /\ session_active' = NoId
           /\ e.id \in RequestId /\ IsTurn(e.id.turn)
           /\ \A id \in Asked' : Before(id, e.id)
<1>1. PICK id \in RequestId : id = e.id
  BY RequestTypes DEF TakeResult
<1>2. /\ active_provider_request # NoRequest
      /\ e.type = "Result" /\ active_provider_request.id = id
  BY <1>1 DEF TakeResult
<1>3. 1 \in ResultsOf(id)
  BY <1>1, <1>2, ResultsTail
<1>4. HasOneResult(id)
  BY <1>2 DEF RequestInv, SessionIsOurs, HasOwnResult, ProviderIdle
<1>5. session_active = NoId /\ ResultsOf(id) = {1}
  BY <1>3, <1>4 DEF HasOneResult
<1>6. ResultsOf(id)' = {}
  <2>1. \A i : i \in ResultsOf(id)' => i \in 1..Len(provider_event_rx) /\ i + 1 = 1
    BY <1>5, ResultsTail
  <2>2. Len(provider_event_rx) \in Nat
    BY RequestTypes
  <2> QED
    BY <2>1, <2>2
<1>7. id \notin Asked'
  BY <1>5, <1>6 DEF Asked
<1>8. Asked' \subseteq Asked
  BY AskedShrinks DEF Received
<1>9. /\ IsTurn(id.turn)
      /\ \A a \in Asked : a = id \/ Before(a, id)
  BY <1>2 DEF RequestInv, IdsInOrder, ActiveIsNewest, ProviderIdle
<1> QED
  BY <1>1, <1>5, <1>7, <1>8, <1>9

\* A provider event, in all its outcomes.
LEMMA RequestProviderEvent ==
    ASSUME TypeInv, TypeInv', TurnInv, RequestInv, pc = "recv", NEW timer,
           provider_event_rx # <<>>,
           HandleProviderEvent(Head(provider_event_rx), timer)
    PROVE  RequestInv'
<1>1. PICK e : e = Head(provider_event_rx)
  OBVIOUS
<1>2. /\ provider_event_rx' = Tail(provider_event_rx)
      /\ UNCHANGED <<initial, next_turn_id, session_active>>
      /\ Alive
  BY DEF HandleProviderEvent, Alive
<1>3. Received /\ Asked' \subseteq Asked
  BY <1>2, AskedShrinks DEF Received
<1>4. next_turn_id <= next_turn_id' /\ next_turn_id \in Nat
  BY <1>2, TurnNumberTypes
<1>5. 0 < disk'.next_turn_id
  <2>1. \/ disk' = disk
        \/ \E h, all, b : PersistIfClosed(h, all, next_turn_id, b)
    BY Zenon DEF HandleProviderEvent, IgnoreProviderEvent, HandleStream,
                 HandleRetry, HandleFinalResponse, HandleToolCalls,
                 HandleTooLarge, HandleProviderError
  <2> QED
    BY <2>1, PersistNumber DEF RequestInv
<1>6. TurnNumbers'
  BY <1>2, <1>3, <1>4, <1>5, NumbersKept DEF RequestInv
<1>7. ASSUME UNCHANGED <<active_provider_request, active_tool_batch, abort_queued>>,
             \/ active_provider_request = NoRequest
             \/ e.type # "Result" \/ e.id # active_provider_request.id,
             FrameIsFresh'
      PROVE  RequestInv'
  <2>1. BatchKept
    BY <1>7 DEF BatchKept
  <2>2. IdsInOrder'
    BY <1>2, <1>3, <1>4, <1>7, <2>1, IdsKept DEF RequestInv
  <2>3. SessionIsOurs'
    BY <1>1, <1>2, <1>3, <1>7, SessionKept DEF RequestInv
  <2> QED
    BY <1>6, <2>2, <2>3 DEF RequestInv
<1>8. ASSUME NEW t, NEW elapsed, WakeOrSchedule(t, elapsed), e.type # "Result",
             UNCHANGED <<active_tool_batch, disk>>
      PROVE  RequestInv'
  <2>1. CASE CancelActiveProviderRequest(FALSE)
    BY <1>2, <1>3, <1>8, <2>1, CancelRequest
  <2>2. CASE /\ Settle(active_provider_request, active_tool_batch, pending_data)
             /\ UNCHANGED <<active_provider_request, abort_queued>>
    BY <1>7, <1>8, <2>2, SettleNoFrame
  <2> QED
    BY <1>8, <2>1, <2>2, Zenon DEF WakeOrSchedule
<1>9. ASSUME NEW result, TakeResult(e, result)
      PROVE  /\ active_provider_request' = NoRequest
             /\ session_active' = NoId
             /\ e.id \in RequestId /\ IsTurn(e.id.turn) /\ IsTurn(e.id.turn)'
             /\ \A id \in Asked' : Before(id, e.id)
             /\ NoTools
             /\ SessionIsOurs'
  <2>1. /\ session_active' = NoId
        /\ e.id \in RequestId /\ IsTurn(e.id.turn)
        /\ \A id \in Asked' : Before(id, e.id)
    BY <1>1, <1>2, <1>9, RequestTaken
  <2>2. active_provider_request' = NoRequest /\ active_provider_request # NoRequest
    BY <1>9 DEF TakeResult
  <2>3. IsTurn(e.id.turn)'
    BY <1>2, <2>1 DEF IsTurn
  <2> QED
    BY <2>1, <2>2, <2>3, RequestTurn, SessionDropped
<1>10. ASSUME NEW result, TakeResult(e, result), FrameIsFresh', BatchKept
       PROVE  RequestInv'
  <2>1. IdsInOrder'
    BY <1>2, <1>3, <1>4, <1>9, <1>10, IdsKept DEF RequestInv
  <2> QED
    BY <1>6, <1>9, <1>10, <2>1 DEF RequestInv
<1>11. CASE IgnoreProviderEvent(e, timer)
  <2>1. /\ UNCHANGED <<active_provider_request, active_tool_batch, abort_queued>>
        /\ Settle(active_provider_request, active_tool_batch, pending_data)
        /\ \/ active_provider_request = NoRequest
           \/ e.id # active_provider_request.id
    BY <1>11 DEF IgnoreProviderEvent
  <2> QED
    BY <1>7, <2>1, SettleNoFrame
<1>12. CASE HandleStream(e, timer)
  <2>1. /\ e.type # "Result"
        /\ UNCHANGED <<active_tool_batch, disk>>
        /\ \/ \E t, el : WakeOrSchedule(t, el)
           \/ /\ pc' = "recv"
              /\ UNCHANGED <<active_provider_request, abort_queued>>
    BY <1>12, Zenon DEF HandleStream
  <2>2. CASE \E t, el : WakeOrSchedule(t, el)
    BY <1>8, <2>1, <2>2
  <2>3. CASE pc' = "recv" /\ UNCHANGED <<active_provider_request, abort_queued>>
    BY <1>7, <2>1, <2>3, NoFrameIsFresh
  <2> QED
    BY <2>1, <2>2, <2>3
<1>13. CASE HandleRetry(e, timer)
  <2>1. e.type # "Result" /\ UNCHANGED <<active_tool_batch, disk>>
        /\ \E t, el : WakeOrSchedule(t, el)
    BY <1>13, Zenon DEF HandleRetry
  <2> QED
    BY <1>8, <2>1
<1>14. CASE HandleFinalResponse(e)
  <2>1. /\ TakeResult(e, "Final") /\ pc' = "final"
        /\ UNCHANGED active_tool_batch /\ frame'.turn = e.id.turn
    BY <1>14 DEF HandleFinalResponse, NoFrame
  <2>2. FrameIsFresh'
    BY <1>9, <2>1 DEF FrameIsFresh, IsTurn
  <2> QED
    BY <1>10, <2>1, <2>2 DEF BatchKept
<1>15. CASE HandleToolCalls(e)
  <2>1. TakeResult(e, "Calls")
    BY <1>15 DEF HandleToolCalls
  <2>2. NoTools
    BY <1>9, <2>1
  <2>3. /\ active_tool_batch' = [turn |-> e.id.turn, step |-> e.id.step,
                                 batch |-> next_batch_id, call |-> Position,
                                 interrupt |-> "None"]
        /\ pc' = "recv"
    BY <1>15, <2>2 DEF HandleToolCalls, NoTools
  <2>4. active_tool_batch'.turn = e.id.turn /\ active_tool_batch'.step = e.id.step
    BY <2>3
  <2>5. BatchIsFresh'
    <3>1. IsTurn(active_tool_batch.turn)'
      BY <1>9, <2>1, <2>4 DEF IsTurn
    <3>2. \A id \in Asked' : id \in RequestId /\ Before(id, e.id)
      BY <1>9, <2>1 DEF Asked
    <3>3. IsFresh([turn |-> active_tool_batch.turn,
                   step |-> active_tool_batch.step + 1, attempts |-> 0])'
      BY <1>9, <2>1, <2>4, <3>2 DEF IsFresh, Before, RequestId
    <3> QED
      BY <3>1, <3>3 DEF BatchIsFresh
  <2>6. AskedTurns'
    BY <1>2, <1>3 DEF AskedTurns, IsTurn, RequestInv, IdsInOrder
  <2>7. ActiveIsNewest' /\ FrameIsFresh'
    BY <1>9, <2>1, <2>3, NoFrameIsFresh DEF ActiveIsNewest, ProviderIdle
  <2> QED
    BY <1>6, <1>9, <2>1, <2>5, <2>6, <2>7 DEF RequestInv, IdsInOrder
<1>16. CASE HandleTooLarge(e)
  <2>1. TakeResult(e, "TooLarge") /\ UNCHANGED active_tool_batch
    BY <1>16 DEF HandleTooLarge
  <2>2. FrameIsFresh'
    <3>1. CASE /\ frame' = [NoFrame EXCEPT !.turn = e.id.turn,
                                           !.step = e.id.step,
                                           !.attempts = e.id.attempts + 1]
               /\ pc' = "start"
      <4>1. /\ frame'.turn = e.id.turn
            /\ frame'.step = e.id.step
            /\ frame'.attempts = e.id.attempts + 1
        BY <3>1 DEF NoFrame
      <4>2. \A id \in Asked' : id \in RequestId /\ Before(id, e.id)
        BY <1>9, <2>1 DEF Asked
      <4>3. IsFresh(CurrentId)'
        BY <1>9, <2>1, <4>1, <4>2 DEF IsFresh, CurrentId, Before, RequestId
      <4>4. IsTurn(frame.turn)'
        BY <1>9, <2>1, <4>1 DEF IsTurn
      <4> QED
        BY <3>1, <4>3, <4>4 DEF FrameIsFresh
    <3>2. CASE FinishTurnError(client, CurrentHistory)
      BY <3>2, SettleNoFrame DEF FinishTurnError
    <3> QED
      BY <1>16, <3>1, <3>2 DEF HandleTooLarge
  <2> QED
    BY <1>10, <2>1, <2>2 DEF BatchKept
<1>17. CASE HandleProviderError(e)
  <2>1. /\ \E result : TakeResult(e, result)
        /\ UNCHANGED active_tool_batch
        /\ FinishTurnError(client, CurrentHistory)
    BY <1>17, Zenon DEF HandleProviderError
  <2>2. FrameIsFresh'
    BY <2>1, SettleNoFrame DEF FinishTurnError
  <2> QED
    BY <1>10, <2>1, <2>2 DEF BatchKept
<1> QED
  BY <1>1, <1>11, <1>12, <1>13, <1>14, <1>15, <1>16, <1>17
     DEF HandleProviderEvent

\* A fired grace timer.
LEMMA RequestGraceElapsed ==
    ASSUME TypeInv, TypeInv', TurnInv, RequestInv, HandleGraceElapsed
    PROVE  RequestInv'
<1>1. pc = "recv" /\ Alive
  BY DEF HandleGraceElapsed, Alive
<1>2. CASE /\ provider_event_rx # <<>>
           /\ HandleProviderEvent(Head(provider_event_rx), 0)
  BY <1>1, <1>2, RequestProviderEvent
<1> DEFINE Rest == UNCHANGED <<initial, active_tool_batch, next_turn_id, disk,
                               session_active, provider_event_rx>>
<1>3. ASSUME Rest PROVE /\ Received /\ BatchKept
                        /\ 0 < disk'.next_turn_id
                        /\ next_turn_id <= next_turn_id'
  BY <1>3, TurnNumberTypes DEF Received, BatchKept, RequestInv, TurnNumbers
<1>4. CASE Rest /\ CancelActiveProviderRequest(FALSE)
  BY <1>1, <1>3, <1>4, CancelRequest
<1>5. CASE /\ Rest
           /\ Settle(active_provider_request, active_tool_batch, pending_data)
           /\ UNCHANGED <<active_provider_request, abort_queued>>
  BY <1>1, <1>3, <1>5, RequestsKept, SettleNoFrame
<1> QED
  BY <1>2, <1>4, <1>5, Zenon DEF HandleGraceElapsed, WakeOrSchedule

-----------------------------------------------------------------------------
(***************************************************************************)
(* Tools, and the other threads                                            *)
(***************************************************************************)
\* The turn goes on with the next step, or the actor settles.
LEMMA RequestToolCompletion ==
    ASSUME TypeInv, TypeInv', RequestInv, HandleToolCompletion
    PROVE  RequestInv'
<1>1. /\ Alive
      /\ UNCHANGED <<session_active, provider_event_rx, abort_queued,
                     active_provider_request, initial, next_turn_id>>
  BY DEF HandleToolCompletion, Alive, providerVars
<1>2. next_turn_id <= next_turn_id' /\ next_turn_id \in Nat
  BY <1>1, TurnNumberTypes
<1>3. BatchKept
  BY DEF HandleToolCompletion, BatchKept
<1>4. 0 < disk'.next_turn_id
  <2>1. \/ disk' = disk
        \/ \E h, all, b : PersistIfClosed(h, all, next_turn_id, b)
    BY Zenon DEF HandleToolCompletion
  <2> QED
    BY <2>1, PersistNumber DEF RequestInv
<1>5. FrameIsFresh'
  <2>1. \/ pc' \notin {"input", "announce", "start", "final"}
        \/ /\ active_tool_batch # NoBatch
           /\ pc' = "start"
           /\ frame' = [NoFrame EXCEPT !.turn = active_tool_batch.turn,
                                       !.step = active_tool_batch.step + 1,
                                       !.guarded = TRUE]
    BY DEF HandleToolCompletion, Settle, Die
  <2>2. CASE /\ active_tool_batch # NoBatch
             /\ pc' = "start"
             /\ frame' = [NoFrame EXCEPT !.turn = active_tool_batch.turn,
                                         !.step = active_tool_batch.step + 1,
                                         !.guarded = TRUE]
    <3>1. /\ frame'.turn = active_tool_batch.turn
          /\ frame'.step = active_tool_batch.step + 1
          /\ frame'.attempts = 0
      BY <2>2 DEF NoFrame
    <3>2. /\ IsTurn(active_tool_batch.turn)
          /\ IsFresh([turn |-> active_tool_batch.turn,
                      step |-> active_tool_batch.step + 1, attempts |-> 0])
      BY <1>1, <2>2 DEF RequestInv, IdsInOrder, BatchIsFresh, ToolsIdle
    <3>3. IsTurn(frame.turn)'
      BY <1>1, <3>1, <3>2 DEF IsTurn
    <3>4. Asked' \subseteq Asked
      BY <1>1, AskedShrinks DEF Received
    <3>5. IsFresh(CurrentId)'
      BY <3>1, <3>2, <3>4 DEF IsFresh, CurrentId
    <3> QED
      BY <2>2, <3>3, <3>5 DEF FrameIsFresh
  <2> QED
    BY <2>1, <2>2, NoFrameIsFresh
<1> QED
  BY <1>1, <1>2, <1>3, <1>4, <1>5, RequestsKept


\* Threads that change nothing a request depends on, and the end of a process.
LEMMA RequestOtherThreads ==
    ASSUME TypeInv, TypeInv', RequestInv,
           \/ \E kind \in Requests : SendRequest(kind)
           \/ WorkerCompletes
           \/ GraceWindowElapses
           \/ \E t \in timers : TimerFires(t)
           \/ Crash
    PROVE  RequestInv'
<1>1. /\ Alive
      /\ UNCHANGED <<session_active, provider_event_rx, abort_queued,
                     active_provider_request, active_tool_batch, initial,
                     next_turn_id, disk, frame>>
      /\ pc' = pc \/ pc' = "dead"
  BY DEF SendRequest, WorkerCompletes, GraceWindowElapses, TimerFires, Crash,
         Die, actorVars, hostVars, providerVars
<1>2. BatchKept /\ next_turn_id <= next_turn_id' /\ 0 < disk'.next_turn_id
  BY <1>1, TurnNumberTypes DEF BatchKept, RequestInv, TurnNumbers
<1>3. FrameIsFresh'
  <2>1. CASE pc' = "dead"
    BY <2>1, NoFrameIsFresh
  <2>2. CASE pc' = pc
    <3>1. Asked' \subseteq Asked
      BY <1>1, AskedShrinks DEF Received
    <3>2. FrameIsFresh
      BY <1>1 DEF RequestInv, IdsInOrder
    <3> QED
      BY <1>1, <2>2, <3>1, <3>2 DEF FrameIsFresh, IsTurn, IsFresh, CurrentId
  <2> QED
    BY <1>1, <2>1, <2>2
<1> QED
  BY <1>1, <1>2, <1>3, RequestsKept

\* The provider session sends an event: a result only of the request it runs.
LEMMA RequestSessionSteps ==
    ASSUME TypeInv, TypeInv', RequestInv,
           \/ \E id \in provider_threads, type \in {"Stream", "Retry"} :
                ProviderStreams(id, type)
           \/ \E result \in Results : ProviderCompletes(result)
           \/ ProviderAborts
    PROVE  RequestInv'
<1>1. /\ Alive
      /\ UNCHANGED <<active_provider_request, active_tool_batch, initial,
                     next_turn_id, disk, frame, pc>>
  BY DEF ProviderStreams, ProviderCompletes, ProviderAborts, actorVars, hostVars
<1>2. TurnNumbers /\ IdsInOrder /\ SessionIsOurs
  BY <1>1 DEF RequestInv
<1>3. \/ /\ UNCHANGED <<session_active, abort_queued>>
         /\ \E e \in ProviderEvent :
              /\ e.type # "Result"
              /\ provider_event_rx' = Append(provider_event_rx, e)
      \/ /\ session_active' = NoId
         /\ \/ session_active # NoId /\ abort_queued' = abort_queued
            \/ abort_queued /\ abort_queued' = FALSE
         /\ \/ session_active = NoId /\ provider_event_rx' = provider_event_rx
            \/ session_active # NoId /\ \E e \in ProviderEvent :
                 /\ e.type = "Result" /\ e.id = session_active
                 /\ provider_event_rx' = Append(provider_event_rx, e)
  <2>1. session_active \in RequestId /\ provider_threads \in SUBSET RequestId
    BY DEF TypeInv, TypeOK
  <2>2. ASSUME NEW id \in provider_threads, NEW type \in {"Stream", "Retry"},
               ProviderStreams(id, type)
        PROVE  /\ UNCHANGED <<session_active, abort_queued>>
               /\ \E e \in ProviderEvent :
                    /\ e.type # "Result"
                    /\ provider_event_rx' = Append(provider_event_rx, e)
    <3>1. [type |-> type, id |-> id, result |-> "Error"] \in ProviderEvent
      BY <2>1 DEF ProviderEvent, Results
    <3> QED
      BY <2>2, <3>1 DEF ProviderStreams
  <2>3. ASSUME NEW result \in Results
        PROVE  [type |-> "Result", id |-> session_active, result |-> result]
                  \in ProviderEvent
    BY <2>1 DEF ProviderEvent
  <2>4. ASSUME NEW result \in Results, ProviderCompletes(result)
        PROVE  /\ session_active' = NoId
               /\ session_active # NoId /\ abort_queued' = abort_queued
               /\ \E e \in ProviderEvent :
                    /\ e.type = "Result" /\ e.id = session_active
                    /\ provider_event_rx' = Append(provider_event_rx, e)
    BY <2>3, <2>4 DEF ProviderCompletes
  <2>5. ASSUME ProviderAborts
        PROVE  /\ session_active' = NoId
               /\ abort_queued /\ abort_queued' = FALSE
               /\ \/ session_active = NoId /\ provider_event_rx' = provider_event_rx
                  \/ session_active # NoId /\ \E e \in ProviderEvent :
                       /\ e.type = "Result" /\ e.id = session_active
                       /\ provider_event_rx' = Append(provider_event_rx, e)
    <3>1. "Error" \in Results
      BY DEF Results
    <3> QED
      BY <2>3, <2>5, <3>1 DEF ProviderAborts
  <2> QED
    BY <2>2, <2>4, <2>5
<1>4. Asked' \subseteq Asked
  <2> SUFFICES ASSUME NEW id \in RequestId,
                      \/ id = session_active' /\ id # NoId
                      \/ ResultsOf(id)' # {}
               PROVE  id \in Asked
    BY DEF Asked
  <2>1. CASE provider_event_rx' = provider_event_rx /\ session_active' = NoId
    BY <2>1 DEF Asked, ResultsOf
  <2>2. ASSUME NEW e \in ProviderEvent, e.type # "Result",
               session_active' = session_active,
               provider_event_rx' = Append(provider_event_rx, e)
        PROVE  id \in Asked
    BY <2>2, ResultsAppend DEF Asked
  <2>3. ASSUME NEW e \in ProviderEvent, e.id = session_active,
               session_active' = NoId,
               provider_event_rx' = Append(provider_event_rx, e),
               session_active # NoId
        PROVE  id \in Asked
    BY <2>3, ResultsAppend DEF Asked
  <2> QED
    BY <1>3, <2>1, <2>2, <2>3
<1>5. IdsInOrder' /\ TurnNumbers'
  <2>1. BatchKept /\ next_turn_id <= next_turn_id' /\ 0 < disk'.next_turn_id
    BY <1>1, <1>2, TurnNumberTypes DEF BatchKept, TurnNumbers
  <2>2. FrameIsFresh
    BY <1>2 DEF IdsInOrder
  <2>3. FrameIsFresh'
    BY <1>1, <1>4, <2>2 DEF FrameIsFresh, IsTurn, IsFresh, CurrentId
  <2> QED
    BY <1>1, <1>2, <1>4, <2>1, <2>3, IdsKept, NumbersKept
<1>6. HasOwnResult'
  <2> SUFFICES ASSUME NEW id \in RequestId, ~ProviderIdle',
                      id = active_provider_request'.id
               PROVE  HasOneResult(id)'
    BY DEF HasOwnResult
  <2>1. ~ProviderIdle /\ id = active_provider_request.id /\ ~abort_queued
    BY <1>1, <1>2 DEF ProviderIdle, SessionIsOurs
  <2>2. HasOneResult(id)
    BY <1>2, <2>1 DEF SessionIsOurs, HasOwnResult
  <2>3. ASSUME NEW e \in ProviderEvent, e.type # "Result",
               session_active' = session_active,
               provider_event_rx' = Append(provider_event_rx, e)
        PROVE  HasOneResult(id)'
    <3>1. ResultsOf(id)' = ResultsOf(id)
      BY <2>3, ResultsAppend
    <3>2. 1..Len(provider_event_rx) \subseteq 1..Len(provider_event_rx')
      BY <2>3, RequestTypes
    <3> QED
      BY <2>2, <2>3, <3>1, <3>2 DEF HasOneResult
  <2>4. ASSUME NEW e \in ProviderEvent, e.type = "Result",
               e.id = session_active, session_active' = NoId,
               session_active # NoId,
               provider_event_rx' = Append(provider_event_rx, e)
        PROVE  HasOneResult(id)'
    <3>1. session_active = id /\ ResultsOf(id) = {}
      BY <2>2, <2>4 DEF HasOneResult
    <3>2. ResultsOf(id)' = {Len(provider_event_rx) + 1}
      BY <2>4, <3>1, ResultsAppend
    <3>3. Len(provider_event_rx) + 1 \in 1..Len(provider_event_rx')
      BY <2>4, RequestTypes
    <3> QED
      BY <2>4, <3>2, <3>3 DEF HasOneResult
  <2> QED
    BY <1>3, <2>1, <2>3, <2>4
<1>7. SessionIsOurs'
  BY <1>1, <1>2, <1>3, <1>6 DEF SessionIsOurs, ProviderIdle
<1> QED
  BY <1>5, <1>7 DEF RequestInv

\* The first state and the one after a restart: nothing has been asked.
LEMMA NothingAsked ==
    ASSUME session_active = NoId, provider_event_rx = <<>>,
           active_provider_request = NoRequest, active_tool_batch = NoBatch,
           pc = "recv", 0 < next_turn_id, 0 < disk.next_turn_id
    PROVE  RequestInv
<1>1. Asked = {}
  BY DEF Asked, ResultsOf
<1> QED
  BY <1>1
     DEF RequestInv, TurnNumbers, IdsInOrder, AskedTurns, FrameIsFresh,
         BatchIsFresh, ActiveIsNewest, SessionIsOurs, HasOwnResult,
         ProviderIdle, ToolsIdle

LEMMA RequestInit == Init => RequestInv
<1> SUFFICES ASSUME Init PROVE RequestInv
  OBVIOUS
<1>1. 0 < disk.next_turn_id
  BY FlagsAssumption DEF Init, NoState, LegacyState
<1> QED
  BY <1>1, NothingAsked DEF Init

LEMMA RequestRestart ==
    ASSUME RequestInv, Restart
    PROVE  RequestInv'
<1>1. Asked' = {}
  BY DEF Restart, Asked, ResultsOf
<1>2. 0 < next_turn_id' /\ 0 < disk'.next_turn_id /\ pc' = "recv"
  BY DEF Restart, RequestInv, TurnNumbers
<1> QED
  BY <1>1, <1>2
     DEF Restart, RequestInv, TurnNumbers, IdsInOrder, AskedTurns, FrameIsFresh,
         BatchIsFresh, ActiveIsNewest, SessionIsOurs, HasOwnResult,
         ProviderIdle, ToolsIdle

\* Every step.
LEMMA RequestStep ==
    ASSUME TypeInv, TypeInv', TurnInv, RequestInv, [Next]_vars
    PROVE  RequestInv'
<1>1. CASE UNCHANGED vars
  BY <1>1
     DEF vars, actorVars, hostVars, providerVars, RequestInv, TurnNumbers,
         IdsInOrder, AskedTurns, FrameIsFresh, BatchIsFresh, ActiveIsNewest,
         SessionIsOurs, HasOwnResult, HasOneResult, ProviderIdle, ToolsIdle,
         Asked, ResultsOf, IsTurn, IsFresh, CurrentId, Alive
<1>2. CASE Actor
  <2>1. CASE ReceiveProviderEvent
    BY <2>1, RequestProviderEvent DEF ReceiveProviderEvent
  <2> QED
    BY <1>2, <2>1, RequestHandleInitial, RequestHostSteps, RequestBeginTurn,
       RequestAppends, RequestStart, RequestGraceElapsed, RequestToolCompletion
       DEF Actor
<1>3. CASE Next /\ ~Actor
  BY <1>3, RequestOtherThreads, RequestSessionSteps, RequestRestart, Zenon DEF Next
<1> QED
  BY <1>1, <1>2, <1>3


-----------------------------------------------------------------------------
(***************************************************************************)
(* The grace timer                                                         *)
(***************************************************************************)
TimerInv == Alive => TimerIsLive

\* The timer sleeps or has fired.
WillFire(timer) ==
    \/ timer \in timers
    \/ \E i \in 1..Len(internal_event_rx) : internal_event_rx[i] = timer

\* The timer stays as it is, with what it was armed for.
LEMMA TimerKept ==
    ASSUME TimerInv, Alive,
           UNCHANGED <<grace_timer, active_provider_request, timers,
                       internal_event_rx>>,
           HasPendingUserMessage(pending_data)
             => HasPendingUserMessage(pending_data')
    PROVE  TimerIsLive'
  BY DEF TimerInv, TimerIsLive, ProviderIdle, HasPendingUserMessage

\* No timer is armed.
LEMMA TimerOff ==
    ASSUME grace_timer' = 0
    PROVE  TimerIsLive'
  BY DEF TimerIsLive

\* Without an active request no timer is armed.
LEMMA IdleTimer ==
    ASSUME TimerInv, Alive, active_provider_request = NoRequest
    PROVE  grace_timer = 0
  BY DEF TimerInv, TimerIsLive, ProviderIdle

\* A timer is armed for the request that is active and a message that waits.
LEMMA ScheduleGraceLive ==
    ASSUME NEW timer, NEW elapsed, 
           ScheduleGrace(timer, pending_data', active_provider_request', elapsed),
           timer # 0 => /\ active_provider_request' # NoRequest
                        /\ HasPendingUserMessage(pending_data')
                        /\ \/ timer \in timers
                           \/ \E i \in 1..Len(internal_event_rx') :
                                internal_event_rx'[i] = timer
    PROVE  TimerIsLive'
<1>1. CASE /\ grace_timer' = timer
           /\ timers' = timers
  BY <1>1 DEF TimerIsLive, ProviderIdle, HasPendingUserMessage
<1>2. CASE /\ HasPendingUserMessage(pending_data')
           /\ active_provider_request' # NoRequest
           /\ grace_timer' = next_timer_id
           /\ timers' = timers \cup {next_timer_id}
  BY <1>2 DEF TimerIsLive, ProviderIdle, HasPendingUserMessage
<1> QED
  BY <1>1, <1>2, Zenon DEF ScheduleGrace

\* A wake-up gives the request up or leaves a timer that will fire.
LEMMA WakeLive ==
    ASSUME NEW elapsed, WakeOrSchedule(0, elapsed), pending_data' = pending_data
    PROVE  TimerIsLive'
<1>1. CASE CancelActiveProviderRequest(FALSE)
  BY <1>1, TimerOff DEF CancelActiveProviderRequest
<1>2. CASE /\ ScheduleGrace(0, pending_data, active_provider_request, elapsed)
           /\ UNCHANGED active_provider_request
  BY <1>2, ScheduleGraceLive
<1> QED
  BY <1>1, <1>2, Zenon DEF WakeOrSchedule

\* The timer of an event handler is the armed one, or none when it has fired.
LEMMA TimerProviderEvent ==
    ASSUME TimerInv, Alive, NEW e, NEW timer,
           HandleProviderEvent(e, timer),
           \/ timer = 0
           \/ timer = grace_timer /\ internal_event_rx' = internal_event_rx
    PROVE  TimerIsLive'
<1>1. pending_data' = pending_data
  BY DEF HandleProviderEvent
<1>2. \/ \E result : TakeResult(e, result)
      \/ IgnoreProviderEvent(e, timer)
      \/ HandleStream(e, timer)
      \/ HandleRetry(e, timer)
  BY Zenon DEF HandleProviderEvent, HandleFinalResponse, HandleToolCalls, HandleTooLarge,
         HandleProviderError
<1>3. CASE \E result : TakeResult(e, result)
  BY <1>3, TimerOff DEF TakeResult
<1>4. ASSUME UNCHANGED <<timers, active_provider_request>>, grace_timer' = timer
      PROVE  TimerIsLive'
  <2>1. CASE timer = 0
    BY <1>4, <2>1, TimerOff
  <2>2. CASE timer = grace_timer /\ internal_event_rx' = internal_event_rx
    BY <1>1, <1>4, <2>2, TimerKept
  <2> QED
    BY <2>1, <2>2
<1>5. CASE IgnoreProviderEvent(e, timer)
  BY <1>4, <1>5 DEF IgnoreProviderEvent
<1>6. ASSUME NEW elapsed, WakeOrSchedule(timer, elapsed)
      PROVE  TimerIsLive'
  <2>1. CASE timer = 0
    BY <1>1, <1>6, <2>1, WakeLive
  <2>2. CASE CancelActiveProviderRequest(FALSE)
    BY <2>2, TimerOff DEF CancelActiveProviderRequest
  <2>3. CASE /\ timer # 0
             /\ ScheduleGrace(timer, pending_data, active_provider_request, elapsed)
             /\ UNCHANGED active_provider_request
    <3>1. timer = grace_timer /\ internal_event_rx' = internal_event_rx
      BY <2>3
    <3>2. UNCHANGED timers /\ grace_timer' = timer
      BY <2>3 DEF ScheduleGrace
    <3> QED
      BY <1>4, <2>3, <3>2
  <2> QED
    BY <1>6, <2>1, <2>2, <2>3, Zenon DEF WakeOrSchedule
<1>7. CASE HandleStream(e, timer)
  <2>1. \/ \E elapsed : WakeOrSchedule(timer, elapsed)
        \/ UNCHANGED <<timers, active_provider_request>> /\ grace_timer' = timer
    BY <1>7, Zenon DEF HandleStream
  <2> QED
    BY <1>4, <1>6, <2>1
<1>8. CASE HandleRetry(e, timer)
  BY <1>6, <1>8 DEF HandleRetry
<1> QED
  BY <1>2, <1>3, <1>5, <1>7, <1>8

\* A message that waits keeps waiting when another one comes.
LEMMA TimerHandleData ==
    ASSUME TypeInv, TimerInv, NEW kind \in DataKinds, HandleData(kind)
    PROVE  TimerIsLive'
<1>1. /\ Alive
      /\ pending_data' = Append(pending_data, Head(request_rx))
      /\ UNCHANGED <<active_provider_request, internal_event_rx>>
      /\ \/ ScheduleGrace(grace_timer, pending_data', active_provider_request,
                          grace_elapsed)
         \/ UNCHANGED <<grace_timer, timers>>
  BY DEF HandleData, Receive, Alive
<1>2. HasPendingUserMessage(pending_data) => HasPendingUserMessage(pending_data')
  <2>1. pending_data \in Seq(DataRequest)
    BY DEF TypeInv, TypeOK
  <2>2. Head(request_rx) \in DataRequest
    BY ReceiveType DEF HandleData, TypeInv, HostRequest, DataRequest, Receive
  <2>3. /\ Len(pending_data') = Len(pending_data) + 1
        /\ Len(pending_data) \in Nat
        /\ \A i \in 1..Len(pending_data) : pending_data'[i] = pending_data[i]
    BY <1>1, <2>1, <2>2
  <2> QED
    BY <2>3 DEF HasPendingUserMessage
<1>3. CASE UNCHANGED <<grace_timer, timers>>
  BY <1>1, <1>2, <1>3, TimerKept
<1>4. CASE ScheduleGrace(grace_timer, pending_data', active_provider_request,
                         grace_elapsed)
  <2>1. grace_timer # 0 => /\ active_provider_request' # NoRequest
                           /\ HasPendingUserMessage(pending_data')
                           /\ \/ grace_timer \in timers
                              \/ \E i \in 1..Len(internal_event_rx') :
                                   internal_event_rx'[i] = grace_timer
    BY <1>1, <1>2 DEF TimerInv, TimerIsLive, ProviderIdle
  <2> QED
    BY <1>1, <1>4, <2>1, ScheduleGraceLive
<1> QED
  BY <1>1, <1>3, <1>4

\* The steps of the actor.
LEMMA TimerActor ==
    ASSUME TypeInv, TurnInv, TimerInv, Actor
    PROVE  TimerInv'
<1>1. Alive
  BY DEF Actor, HandleInitial, HandleShutdown, HandleData, HandleCancelTurn,
         HandleContinueTurn, HandleCompactNow, DrainPendingData, AppendInput,
         AppendInputFails, PruneWhileAppending, AppendFinal, AppendFinalFails,
         AnnounceTurn, StartProviderRequest, ReceiveProviderEvent,
         HandleGraceElapsed, HandleToolCompletion, Receive, Alive
<1>2. CASE \/ HandleInitial \/ HandleShutdown \/ HandleContinueTurn
           \/ HandleCompactNow \/ AppendInput \/ AppendInputFails
           \/ PruneWhileAppending \/ AppendFinal \/ AppendFinalFails
           \/ AnnounceTurn \/ HandleToolCompletion
  <2>1. UNCHANGED <<grace_timer, active_provider_request, timers,
                    internal_event_rx, pending_data>>
    BY <1>2 DEF HandleInitial, HandleShutdown, HandleContinueTurn,
           HandleCompactNow, AppendInput, AppendInputFails,
           PruneWhileAppending, AppendFinal, AppendFinalFails, AnnounceTurn,
           HandleToolCompletion, timeVars
  <2> QED
    BY <1>1, <2>1, TimerKept DEF TimerInv
<1>3. CASE DrainPendingData
  <2>1. pc = "drain" /\ grace_timer' = grace_timer
    BY <1>3 DEF DrainPendingData
  <2> QED
    BY <1>1, <2>1, BusyTurn, IdleTimer, TimerOff DEF TimerInv
<1>4. CASE \E kind \in DataKinds : HandleData(kind)
  BY <1>4, TimerHandleData DEF TimerInv
<1>5. CASE HandleCancelTurn
  <2>1. CASE CancelActiveProviderRequest(TRUE)
    BY <2>1, TimerOff DEF CancelActiveProviderRequest, TimerInv
  <2>2. CASE UNCHANGED <<active_provider_request, grace_timer, pending_data, timers>>
    BY <1>1, <1>5, <2>2, TimerKept DEF HandleCancelTurn, TimerInv
  <2> QED
    BY <1>5, <2>1, <2>2 DEF HandleCancelTurn
<1>6. CASE StartProviderRequest
  <2>1. pc = "start" /\ UNCHANGED <<pending_data, internal_event_rx>>
    BY <1>6 DEF StartProviderRequest
  <2>2. grace_timer = 0
    BY <1>1, <2>1, BusyTurn, IdleTimer
  <2>3. \/ grace_timer' = grace_timer
        \/ ScheduleGrace(grace_timer, pending_data, active_provider_request', FALSE)
    BY <1>6, Zenon DEF StartProviderRequest, Launch, Shrink, StartFails
  <2>4. CASE grace_timer' = grace_timer
    BY <2>2, <2>4, TimerOff DEF TimerInv
  <2>5. CASE ScheduleGrace(grace_timer, pending_data, active_provider_request', FALSE)
    BY <2>1, <2>2, <2>5, ScheduleGraceLive DEF TimerInv
  <2> QED
    BY <2>3, <2>4, <2>5
<1>7. CASE ReceiveProviderEvent
  BY <1>1, <1>7, TimerProviderEvent DEF ReceiveProviderEvent, TimerInv
<1>8. CASE HandleGraceElapsed
  <2>1. CASE HandleProviderEvent(Head(provider_event_rx), 0)
    BY <1>1, <2>1, TimerProviderEvent DEF TimerInv
  <2>2. CASE WakeOrSchedule(0, grace_elapsed) /\ UNCHANGED pending_data
    BY <2>2, WakeLive DEF TimerInv
  <2>3. CASE /\ Head(internal_event_rx) # grace_timer
             /\ internal_event_rx # <<>>
             /\ internal_event_rx' = Tail(internal_event_rx)
             /\ UNCHANGED <<active_provider_request, grace_timer, timers,
                            pending_data>>
    <3> SUFFICES ASSUME grace_timer # 0 PROVE TimerIsLive'
      BY <2>3, TimerOff DEF TimerInv
    <3>1. ~ProviderIdle /\ HasPendingUserMessage(pending_data)
      BY <1>1 DEF TimerInv, TimerIsLive
    <3>2. CASE grace_timer \in timers
      BY <2>3, <3>1, <3>2 DEF TimerIsLive, ProviderIdle, HasPendingUserMessage
    <3>3. CASE \E i \in 1..Len(internal_event_rx) :
                 internal_event_rx[i] = grace_timer
      <4>1. PICK i \in 1..Len(internal_event_rx) :
                 internal_event_rx[i] = grace_timer
        BY <3>3
      <4>2. internal_event_rx \in Seq(Nat)
        BY DEF TypeInv, TypeOK
      <4>3. i # 1
        BY <2>3, <4>1, <4>2
      <4>4. /\ i - 1 \in 1..Len(internal_event_rx')
            /\ internal_event_rx'[i - 1] = internal_event_rx[i]
        BY <2>3, <4>1, <4>2, <4>3
      <4> QED
        BY <2>3, <3>1, <4>1, <4>4
           DEF TimerIsLive, ProviderIdle, HasPendingUserMessage
    <3> QED
      BY <1>1, <3>2, <3>3 DEF TimerInv, TimerIsLive
  <2> QED
    BY <1>8, <2>1, <2>2, <2>3, Zenon DEF HandleGraceElapsed
<1> QED
  BY <1>2, <1>3, <1>4, <1>5, <1>6, <1>7, <1>8, Zenon DEF Actor

\* Every step.
LEMMA TimerStep ==
    ASSUME TypeInv, TurnInv, TimerInv, [Next]_vars
    PROVE  TimerInv'
<1>1. CASE Actor
  BY <1>1, TimerActor
<1>2. CASE \E t \in timers : TimerFires(t)
  <2>1. PICK t \in timers : TimerFires(t)
    BY <1>2
  <2>2. /\ Alive
        /\ UNCHANGED <<grace_timer, active_provider_request, pending_data>>
        /\ timers' = timers \ {t}
        /\ internal_event_rx' = Append(internal_event_rx, t)
    BY <2>1 DEF TimerFires, actorVars
  <2>3. /\ internal_event_rx \in Seq(Nat) /\ t \in Nat
    BY DEF TypeInv, TypeOK
  <2>4. /\ Len(internal_event_rx') = Len(internal_event_rx) + 1
        /\ \A i \in 1..Len(internal_event_rx) :
              internal_event_rx'[i] = internal_event_rx[i]
        /\ internal_event_rx'[Len(internal_event_rx) + 1] = t
        /\ Len(internal_event_rx) \in Nat
    BY <2>2, <2>3
  <2>5. 1..Len(internal_event_rx) \subseteq 1..Len(internal_event_rx')
        /\ Len(internal_event_rx) + 1 \in 1..Len(internal_event_rx')
    BY <2>4
  <2>6. WillFire(grace_timer) => WillFire(grace_timer)'
    BY <2>2, <2>4, <2>5 DEF WillFire
  <2> QED
    BY <2>2, <2>6
       DEF WillFire, TimerInv, TimerIsLive, ProviderIdle, HasPendingUserMessage
<1>3. CASE Restart
  BY <1>3, TimerOff DEF Restart, TimerInv
<1>4. CASE \/ UNCHANGED vars
           \/ \E kind \in Requests : SendRequest(kind)
           \/ \E id \in provider_threads, type \in {"Stream", "Retry"} :
                ProviderStreams(id, type)
           \/ \E result \in Results : ProviderCompletes(result)
           \/ ProviderAborts
           \/ WorkerCompletes
           \/ GraceWindowElapses
           \/ Crash
  <2>1. UNCHANGED <<grace_timer, active_provider_request, timers,
                    internal_event_rx, pending_data>>
    BY <1>4 DEF vars, SendRequest, ProviderStreams, ProviderCompletes,
           ProviderAborts, WorkerCompletes, GraceWindowElapses, Crash,
           actorVars, timeVars
  <2>2. Alive \/ pc' = pc
    BY <1>4 DEF vars, SendRequest, ProviderStreams, ProviderCompletes,
           ProviderAborts, WorkerCompletes, GraceWindowElapses, Crash, actorVars
  <2> QED
    BY <2>1, <2>2, TimerKept DEF TimerInv, Alive
<1> QED
  BY <1>1, <1>2, <1>3, <1>4, Zenon DEF Next


-----------------------------------------------------------------------------
(***************************************************************************)
(* The theorems                                                            *)
(***************************************************************************)
\* The inductive invariant holds of every behaviour.
THEOREM RequestInvariant == Spec => [](RequestInv /\ TimerInv)
<1>1. Init => RequestInv /\ TimerInv
  BY RequestInit, Zenon DEF Init, TimerInv, TimerIsLive
<1>2. /\ TypeInv /\ TypeInv' /\ TurnInv /\ RequestInv /\ TimerInv /\ [Next]_vars
      => RequestInv' /\ TimerInv'
  BY RequestStep, TimerStep
<1> QED
  BY <1>1, <1>2, TypeInvariant, TurnInvariant, PTL DEF Spec

\* RequestsAreSettled: the active request is answered by its own result and
\* once, start_provider_request does not meet a busy session, and the armed
\* supersede timer belongs to the active request and fires.
THEOREM RequestsAlwaysSettled == Spec => []RequestsAreSettled
<1>1. TypeInv /\ TurnInv /\ RequestInv /\ TimerInv => RequestsAreSettled
  <2> SUFFICES ASSUME TypeInv, TurnInv, RequestInv, TimerInv
               PROVE  RequestsAreSettled
    OBVIOUS
  <2>1. OneResultPerRequest
    <3> SUFFICES ASSUME Alive, ~ProviderIdle
                 PROVE  LET id == active_provider_request.id
                        IN  \/ session_active = id /\ ResultsOf(id) = {}
                            \/ session_active = NoId /\ Cardinality(ResultsOf(id)) = 1
      BY DEF OneResultPerRequest
    <3>1. PICK id \in RequestId : id = active_provider_request.id
      BY RequestTypes
    <3>2. HasOneResult(id)
      BY <3>1 DEF RequestInv, SessionIsOurs, HasOwnResult
    <3>3. \A i \in 1..Len(provider_event_rx) : Cardinality({i}) = 1
      BY FS_Singleton
    <3>4. \/ session_active = id /\ ResultsOf(id) = {}
          \/ session_active = NoId /\ Cardinality(ResultsOf(id)) = 1
      BY <3>2, <3>3 DEF HasOneResult
    <3> QED
      BY <3>1, <3>4
  <2>2. SessionNeverBusy
    <3> SUFFICES ASSUME Alive, pc # "recv", session_active # NoId
                 PROVE  abort_queued
      BY DEF SessionNeverBusy
    <3>1. active_provider_request.id = NoId
      BY DEF TurnInv, OneActivity, ProviderIdle, NoRequest
    <3> QED
      BY <3>1 DEF RequestInv, SessionIsOurs
  <2>3. GraceTimerWillFire
    BY DEF TimerInv, TimerIsLive, GraceTimerWillFire
  <2> QED
    BY <2>1, <2>2, <2>3 DEF RequestsAreSettled
<1> QED
  BY <1>1, TypeInvariant, TurnInvariant, RequestInvariant, PTL

=============================================================================
