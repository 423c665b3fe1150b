------------------------ MODULE SessionHistoryProofs ------------------------
(***************************************************************************)
(* What SessionActor keeps, for every value of its constants.              *)
(*                                                                         *)
(* SessionActor implements Transcript: whatever a handler does to the      *)
(* model's context, the transcript only grows, is saved whole, is shown by *)
(* positions that exist, and a new process starts from the saved one.      *)
(*                                                                         *)
(* HistoryIsFaithful: HistoryInv says that every result in the history has *)
(* its call and that at most one call is open, the running batch's, so     *)
(* that a repair closes the history; and that the actor knows what the     *)
(* provider session holds, so that extending it gives the whole history.   *)
(*                                                                         *)
(* SavedStateIsSound: TurnsInv bounds the turn numbers of the transcript,  *)
(* SavedInv says that what is not a running batch's is saved when it is    *)
(* shown, and OfferInv keeps what an offer to continue needs.              *)
(***************************************************************************)
EXTENDS SessionTurnProofs

-----------------------------------------------------------------------------
(***************************************************************************)
(* The transcript                                                          *)
(***************************************************************************)
\* The transcript as the host knows it: before the Initial it is the saved one.
TheLog == IF initial THEN all_messages ELSE disk.all_messages

\* The host was shown positions that exist.
ShownExists == client.seen \subseteq 1..Len(TheLog)

\* Before the Initial there is no context, so that nothing can be compacted and
\* saved over the transcript that was not read yet.
EmptyBeforeInitial == Alive /\ ~initial => history = <<>>

\* When the compression of the history was tried again the final response is
\* already in the transcript: its position is the last one.
FinalIsThere == pc = "final" /\ frame.pushed => all_messages # <<>>

LogInv ==
    /\ ShownExists
    /\ EmptyBeforeInitial
    /\ FinalIsThere

-----------------------------------------------------------------------------
(***************************************************************************)
(* The two kinds of steps                                                  *)
(***************************************************************************)
\* A step that touches neither the transcript nor its copy nor what was shown.
Quiet ==
    /\ initial' = initial
    /\ all_messages' = all_messages
    /\ disk'.all_messages = disk.all_messages
    /\ client'.seen = client.seen
    /\ initial \/ history' = history
    /\ Alive' => Alive
    /\ pc' = "final" => UNCHANGED <<pc, frame>> \/ ~frame'.pushed

\* A step that may add messages, save all of them and show some of them.
Grows ==
    /\ initial /\ initial'
    /\ IsPrefixOf(all_messages, all_messages')
    /\ disk'.all_messages \in {disk.all_messages, all_messages'}
    /\ client.seen \subseteq client'.seen
    /\ client'.seen \subseteq client.seen \cup 1..Len(all_messages')
    /\ pc' = "final" => all_messages' # <<>>

\* What the events do to the positions the host was shown.
LEMMA ClientSeen ==
    ASSUME NEW c \in Client
    PROVE  /\ \A S : Shown(c, S).seen = c.seen \cup S
           /\ \A t : TurnStarted(c, t).seen = c.seen
           /\ TurnCompleted(c).seen = c.seen
           /\ \A b : TurnFailed(c, b).seen = c.seen
  BY DEF Client, Shown, TurnStarted, TurnCompleted, TurnFailed

\* A sequence is a prefix of itself and of what is appended to it.
LEMMA PrefixAppend ==
    ASSUME NEW s \in Seq(Message), NEW m \in Message, NEW r \in Message
    PROVE  /\ IsPrefixOf(s, s)
           /\ IsPrefixOf(s, Append(s, m)) /\ Len(Append(s, m)) = Len(s) + 1
           /\ IsPrefixOf(s, s \o <<m, r>>) /\ Len(s \o <<m, r>>) = Len(s) + 2
  BY DEF IsPrefixOf

\* A save writes the transcript it is given, or nothing.
LEMMA PersistLog ==
    ASSUME NEW h, NEW all, NEW t, NEW b, PersistIfClosed(h, all, t, b)
    PROVE  disk'.all_messages \in {disk.all_messages, all}
  BY DEF PersistIfClosed

\* Die, FinishTurnError and the cancellations show nothing.
LEMMA ErrorsShowNothing ==
    ASSUME client \in Client,
           \/ Die(client)
           \/ \E c : FinishTurnError(client, c)
           \/ \E b : CancelActiveProviderRequest(b)
           \/ \E t, e : WakeOrSchedule(t, e)
           \/ \E i : InterruptActiveTools(i)
           \/ client' = client
    PROVE  client'.seen = client.seen
<1>1. \A b : TurnFailed(client, b).seen = client.seen
  BY ClientSeen
<1>2. ASSUME NEW b, CancelActiveProviderRequest(b)
      PROVE  client'.seen = client.seen
  BY <1>1, <1>2 DEF CancelActiveProviderRequest
<1>3. ASSUME Die(client)
      PROVE  client'.seen = client.seen
  BY <1>1, <1>3 DEF Die
<1>4. ASSUME NEW c, FinishTurnError(client, c)
      PROVE  client'.seen = client.seen
  BY <1>1, <1>4 DEF FinishTurnError
<1>5. ASSUME NEW t, NEW e, WakeOrSchedule(t, e)
      PROVE  client'.seen = client.seen
  BY <1>2, <1>5 DEF WakeOrSchedule
<1>6. ASSUME NEW i, InterruptActiveTools(i)
      PROVE  client'.seen = client.seen
  BY <1>3, <1>6 DEF InterruptActiveTools
<1> QED
  BY <1>2, <1>3, <1>4, <1>5, <1>6

\* Both kinds of steps are steps of Transcript and keep LogInv.
LEMMA QuietStep ==
    ASSUME LogInv, Quiet
    PROVE  LogInv' /\ [Log!Next]_(Log!logVars)
<1>1. TheLog' = TheLog
  BY DEF Quiet, TheLog
<1>2. LogInv'
  BY <1>1 DEF LogInv, ShownExists, EmptyBeforeInitial, FinalIsThere, Quiet
<1>3. UNCHANGED Log!logVars
  BY <1>1 DEF Log!logVars, Quiet, TheLog
<1> QED
  BY <1>2, <1>3

LEMMA GrowsStep ==
    ASSUME TypeInv, TypeInv', LogInv, Grows
    PROVE  LogInv' /\ [Log!Next]_(Log!logVars)
<1>1. TheLog = all_messages /\ TheLog' = all_messages'
  BY DEF Grows, TheLog
<1>2. /\ all_messages \in Seq(Message) /\ all_messages' \in Seq(Message)
      /\ Len(all_messages) <= Len(all_messages')
  BY DEF TypeInv, TypeOK, Grows, IsPrefixOf
<1>3. client'.seen \subseteq 1..Len(all_messages')
  <2>1. 1..Len(all_messages) \subseteq 1..Len(all_messages')
    BY <1>2
  <2> QED
    BY <1>1, <2>1 DEF LogInv, ShownExists, Grows
<1>4. LogInv'
  BY <1>1, <1>3 DEF LogInv, ShownExists, EmptyBeforeInitial, FinalIsThere, Grows
<1>5. Log!Write
  BY <1>3 DEF Log!Write, Log!IsExtensionOf, Grows, IsPrefixOf
<1> QED
  BY <1>4, <1>5 DEF Log!Next

-----------------------------------------------------------------------------
(***************************************************************************)
(* The steps of the actor                                                  *)
(***************************************************************************)
\* The requests of the host that start no turn: none touches the transcript.
LEMMA LogRequests ==
    ASSUME TypeInv, LogInv,
           \/ HandleShutdown
           \/ \E kind \in DataKinds : HandleData(kind)
           \/ HandleCancelTurn
           \/ HandleContinueTurn
           \/ DrainPendingData
           \/ Crash
    PROVE  Quiet
<1>1. client \in Client
  BY DEF TypeInv, TypeOK
<1>2. /\ UNCHANGED <<initial, all_messages, disk, history>>
      /\ Alive
  BY DEF HandleShutdown, HandleData, HandleCancelTurn, HandleContinueTurn,
         DrainPendingData, Crash, Receive, Alive
<1>3. client'.seen = client.seen
  <2>1. CASE HandleShutdown
    BY <2>1 DEF HandleShutdown
  <2>2. CASE \E kind \in DataKinds : HandleData(kind)
    <3>1. \/ \E i : InterruptActiveTools(i)
          \/ client' = client
      BY <2>2, Zenon DEF HandleData
    <3> QED
      BY <1>1, <3>1, ErrorsShowNothing
  <2>3. CASE HandleCancelTurn
    <3>1. \/ \E b : CancelActiveProviderRequest(b)
          \/ \E i : InterruptActiveTools(i)
      BY <2>3, Zenon DEF HandleCancelTurn
    <3> QED
      BY <1>1, <3>1, ErrorsShowNothing
  <2>4. CASE HandleContinueTurn
    <3>1. \/ Die(client)
          \/ client' = client
          \/ client' = TurnStarted(client, next_turn_id)
      BY <2>4 DEF HandleContinueTurn
    <3> QED
      BY <1>1, <3>1, ErrorsShowNothing, ClientSeen
  <2>5. CASE DrainPendingData
    <3>1. Die(client) \/ client' = client
      BY <2>5 DEF DrainPendingData
    <3> QED
      BY <1>1, <3>1, ErrorsShowNothing
  <2>6. CASE Crash
    BY <1>1, <2>6, ErrorsShowNothing DEF Crash
  <2> QED
    BY <2>1, <2>2, <2>3, <2>4, <2>5, <2>6
<1>4. pc' # "final"
  <2>1. CASE HandleShutdown \/ DrainPendingData \/ Crash
    BY <2>1 DEF HandleShutdown, DrainPendingData, Crash, Die, BeginTurn
  <2>2. CASE \E kind \in DataKinds : HandleData(kind)
    BY <2>2 DEF HandleData, InterruptActiveTools, Die, Settle
  <2>3. CASE HandleCancelTurn
    BY <2>3 DEF HandleCancelTurn, CancelActiveProviderRequest,
                InterruptActiveTools, Die, Settle
  <2>4. CASE HandleContinueTurn
    BY <2>4 DEF HandleContinueTurn, BeginTurn, Die, Settle
  <2> QED
    BY <2>1, <2>2, <2>3, <2>4
<1> QED
  BY <1>2, <1>3, <1>4 DEF Quiet

\* The Initial: the log is the saved one before and after it.
LEMMA LogHandleInitial ==
    ASSUME TypeInv, LogInv, HandleInitial
    PROVE  LogInv' /\ [Log!Next]_(Log!logVars)
<1>1. CASE initial
  <2>1. Quiet
    BY <1>1 DEF HandleInitial, Quiet, Receive, Settle, Alive
  <2> QED
    BY <2>1, QuietStep
<1>2. CASE ~initial
  <2>1. /\ initial' /\ all_messages' = disk.all_messages
        /\ disk'.all_messages = disk.all_messages
        /\ pc' # "final"
    BY <1>2 DEF HandleInitial, Settle, TypeInv, TypeOK, PersistedState
  <2>2. client'.seen = client.seen
    <3>1. client \in Client
      BY DEF TypeInv, TypeOK
    <3>2. client' = client \/ client' = TurnFailed(client, TRUE)
      BY <1>2 DEF HandleInitial
    <3>3. TurnFailed(client, TRUE).seen = client.seen
      BY <3>1 DEF Client, TurnFailed
    <3> QED
      BY <3>2, <3>3
  <2>3. TheLog' = TheLog
    BY <1>2, <2>1 DEF TheLog
  <2>4. LogInv'
    BY <2>1, <2>2, <2>3 DEF LogInv, ShownExists, EmptyBeforeInitial, FinalIsThere
  <2>5. UNCHANGED Log!logVars
    BY <2>1, <2>2, <2>3 DEF Log!logVars, TheLog
  <2> QED
    BY <2>4, <2>5
<1> QED
  BY <1>1, <1>2

\* Nothing can be cut from an empty history.
LEMMA NoCompaction == Compactions(<<>>) = {}
  BY DEF Compactions, CompactStarts

\* A compaction asked for by the host.
LEMMA LogHandleCompactNow ==
    ASSUME TypeInv, LogInv, HandleCompactNow
    PROVE  Quiet \/ Grows
<1>1. /\ UNCHANGED <<initial, all_messages, client>>
      /\ pc = "recv" /\ pc' # "final"
  BY DEF HandleCompactNow, Receive, Settle
<1>2. CASE UNCHANGED <<history, disk>>
  BY <1>1, <1>2 DEF Quiet, Alive
<1>3. CASE /\ history' \in Compactions(history)
           /\ PersistIfClosed(history', all_messages, next_turn_id, next_batch_id)
  <2>1. initial
    BY <1>1, <1>3, NoCompaction DEF LogInv, EmptyBeforeInitial, Alive
  <2>2. disk'.all_messages \in {disk.all_messages, all_messages}
    BY <1>3, PersistLog
  <2>3. IsPrefixOf(all_messages, all_messages)
    BY DEF TypeInv, TypeOK, IsPrefixOf
  <2> QED
    BY <1>1, <2>1, <2>2, <2>3 DEF Grows
<1> QED
  BY <1>2, <1>3 DEF HandleCompactNow

\* The transcript with the message of the handler in it.
LEMMA TranscribedLog ==
    ASSUME TypeInv, pc \in {"input", "final"}
    PROVE  /\ IsPrefixOf(all_messages, Transcribed)
           /\ Transcribed \in Seq(Message)
<1>1. all_messages \in Seq(Message) /\ CurrentMessage \in Message
  BY CurrentMessageType DEF TypeInv, TypeOK
<1> QED
  BY <1>1, PrefixAppend, CurrentMessageType DEF Transcribed

\* The final response has a position.
LEMMA TranscribedThere ==
    ASSUME TypeInv, LogInv, pc = "final"
    PROVE  Transcribed \in Seq(Message) /\ Transcribed # <<>>
<1>1. all_messages \in Seq(Message) /\ CurrentMessage \in Message
  BY CurrentMessageType DEF TypeInv, TypeOK
<1>2. Append(all_messages, CurrentMessage) # <<>>
  BY <1>1
<1> QED
  BY <1>2, CurrentMessageType DEF Transcribed, LogInv, FinalIsThere

\* The steps that append the messages of a turn, and its final response.
LEMMA LogAppends ==
    ASSUME TypeInv, TurnInv, LogInv,
           \/ AppendInput
           \/ AppendInputFails
           \/ PruneWhileAppending
           \/ AppendFinalFails
    PROVE  Grows
<1>1. pc \in {"input", "final"} /\ initial' = initial
  BY DEF AppendInput, AppendInputFails, PruneWhileAppending, AppendFinalFails
<1>2. initial
  BY <1>1, BusyTurn
<1>3. client \in Client /\ IsPrefixOf(all_messages, Transcribed)
      /\ IsPrefixOf(all_messages, all_messages)
  BY <1>1, TranscribedLog, PrefixAppend DEF TypeInv, TypeOK, IsPrefixOf
<1>4. all_messages' \in {all_messages, Transcribed}
  BY DEF AppendInput, AppendInputFails, PruneWhileAppending, AppendFinalFails
<1>5. disk'.all_messages \in {disk.all_messages, all_messages'}
  <2>1. CASE AppendInput \/ PruneWhileAppending
    BY <2>1, PersistLog DEF AppendInput, PruneWhileAppending
  <2>2. CASE AppendInputFails \/ AppendFinalFails
    BY <2>2 DEF AppendInputFails, AppendFinalFails
  <2> QED
    BY <2>1, <2>2
<1>6. client'.seen = client.seen
  BY <1>3, ErrorsShowNothing
     DEF AppendInput, AppendInputFails, PruneWhileAppending, AppendFinalFails
<1>7. ASSUME pc' = "final" PROVE all_messages' # <<>>
  <2>1. pc = "final" /\ all_messages' = Transcribed
    BY <1>7 DEF AppendInput, AppendInputFails, PruneWhileAppending,
                AppendFinalFails, FinishTurnError, Settle, Die
  <2> QED
    BY <2>1, TranscribedThere
<1> QED
  BY <1>1, <1>2, <1>3, <1>4, <1>5, <1>6, <1>7 DEF Grows

\* The messages of a turn are shown when it is announced.
LEMMA LogAnnounceTurn ==
    ASSUME TypeInv, TurnInv, AnnounceTurn
    PROVE  Grows
<1>1. /\ pc = "announce"
      /\ UNCHANGED <<initial, all_messages, disk>>
      /\ client' = TurnStarted(Shown(client, (frame.from + 1)..Len(all_messages)),
                               frame.turn)
      /\ pc' = "start"
  BY DEF AnnounceTurn
<1>2. /\ initial
      /\ all_messages \in Seq(Message) /\ client \in Client
      /\ frame.from \in Nat
  BY <1>1, BusyTurn DEF TypeInv, TypeOK, Frame
<1>3. (frame.from + 1)..Len(all_messages) \subseteq 1..Len(all_messages)
  BY <1>2
<1>4. client'.seen = client.seen \cup (frame.from + 1)..Len(all_messages)
  BY <1>1, <1>2 DEF Client, Shown, TurnStarted
<1>5. IsPrefixOf(all_messages, all_messages')
  BY <1>1, <1>2 DEF IsPrefixOf
<1> QED
  BY <1>1, <1>2, <1>3, <1>4, <1>5 DEF Grows

\* The final response is appended and shown.
LEMMA LogAppendFinal ==
    ASSUME TypeInv, TurnInv, LogInv, AppendFinal
    PROVE  Grows
<1>1. /\ pc = "final"
      /\ initial' = initial
      /\ all_messages' = Transcribed
      /\ PersistIfClosed(history', all_messages', next_turn_id, next_batch_id)
      /\ client' = TurnCompleted(Shown(client, {Len(all_messages')}))
      /\ pc' # "final"
  BY DEF AppendFinal, Settle
<1>2. initial /\ all_messages \in Seq(Message) /\ client \in Client
  BY <1>1, BusyTurn DEF TypeInv, TypeOK
<1>3. IsPrefixOf(all_messages, all_messages') /\ all_messages' \in Seq(Message)
  BY <1>1, TranscribedLog
<1>4. disk'.all_messages \in {disk.all_messages, all_messages'}
  BY <1>1, PersistLog
<1>5. client'.seen = client.seen \cup {Len(all_messages')}
  BY <1>1, <1>2 DEF Client, Shown, TurnCompleted
<1>6. Len(all_messages') \in 1..Len(all_messages')
  BY <1>1, TranscribedThere
<1> QED
  BY <1>1, <1>2, <1>3, <1>4, <1>5, <1>6 DEF Grows

\* The repair before a request adds at most one message, which is shown.
LEMMA LogStartProviderRequest ==
    ASSUME TypeInv, TurnInv, StartProviderRequest
    PROVE  Grows
<1> DEFINE unclosed == Unclosed(history)
           h == Repair(history, unclosed, frame.turn)
           all == Repair(all_messages, unclosed, frame.turn)
           c == IF unclosed = {} THEN client ELSE Shown(client, {Len(all)})
<1>1. /\ pc = "start"
      /\ initial' = initial
      /\ all_messages' = all
      /\ \/ disk' = disk
         \/ PersistIfClosed(history', all, next_turn_id, next_batch_id)
      /\ Launch(h, all, c) \/ Shrink(h, c) \/ StartFails(c)
  BY DEF StartProviderRequest
<1>2. /\ history \in Seq(Message)
      /\ all_messages \in Seq(Message)
      /\ frame.turn \in Nat
      /\ client \in Client
  BY DEF TypeInv, TypeOK, Frame
<1>3. \/ unclosed = {} /\ all = all_messages
      \/ unclosed # {} /\ \E m \in Message : all = Append(all_messages, m)
  BY <1>2, RepairAppends
<1>4. /\ IsPrefixOf(all_messages, all)
      /\ c = client \/ (c = Shown(client, {Len(all)}) /\ Len(all) \in 1..Len(all))
  <2>1. CASE unclosed = {} /\ all = all_messages
    BY <1>2, <2>1 DEF IsPrefixOf
  <2>2. CASE unclosed # {} /\ \E m \in Message : all = Append(all_messages, m)
    <3>1. PICK m \in Message : all = Append(all_messages, m)
      BY <2>2
    <3>2. IsPrefixOf(all_messages, all) /\ Len(all) = Len(all_messages) + 1
      BY <1>2, <3>1, PrefixAppend
    <3>3. c = Shown(client, {Len(all)})
      BY <2>2
    <3> HIDE DEF all, c
    <3> QED
      BY <1>2, <3>2, <3>3
  <2> QED
    BY <1>3, <2>1, <2>2
<1> HIDE DEF unclosed, h, all, c
<1>5. /\ c \in Client
      /\ client.seen \subseteq c.seen
      /\ c.seen \subseteq client.seen \cup 1..Len(all)
  <2>1. CASE c = client
    BY <1>2, <2>1
  <2>2. CASE c = Shown(client, {Len(all)}) /\ Len(all) \in 1..Len(all)
    <3>1. c.seen = client.seen \cup {Len(all)}
      BY <1>2, <2>2 DEF Client, Shown
    <3>2. {Len(all)} \in SUBSET Nat
      BY <2>2
    <3> QED
      BY <1>2, <2>2, <3>1, <3>2, ClientTypes
  <2> QED
    BY <1>4, <2>1, <2>2
<1>6. \/ client' = c
      \/ \E b : client' = TurnFailed(c, b)
  <2>1. CASE StartFails(c)
    BY <2>1 DEF StartFails, FinishTurnError, Die
  <2>2. CASE Shrink(h, c)
    BY <2>2 DEF Shrink
  <2>3. CASE Launch(h, all, c) /\ ~StartFails(c)
    BY <2>3 DEF Launch
  <2> QED
    BY <1>1, <2>1, <2>2, <2>3
<1>7. client'.seen = c.seen
  BY <1>5, <1>6 DEF Client, TurnFailed
<1>8. pc' # "final"
  <2>1. CASE StartFails(c)
    BY <2>1 DEF StartFails, FinishTurnError, Die, Settle
  <2>2. CASE Shrink(h, c)
    BY <1>1, <2>2 DEF Shrink
  <2>3. CASE Launch(h, all, c) /\ ~StartFails(c)
    BY <2>3 DEF Launch
  <2> QED
    BY <1>1, <2>1, <2>2, <2>3
<1>9. disk'.all_messages \in {disk.all_messages, all_messages'}
  BY <1>1, PersistLog
<1>10. initial
  BY <1>1, BusyTurn
<1> QED
  BY <1>1, <1>4, <1>5, <1>7, <1>8, <1>9, <1>10 DEF Grows

\* A provider event: only a response with tool calls adds to the transcript.
LEMMA LogHandleProviderEvent ==
    ASSUME TypeInv, TurnInv, pc = "recv", NEW timer,
           provider_event_rx # <<>>,
           HandleProviderEvent(Head(provider_event_rx), timer)
    PROVE  Quiet \/ Grows
<1> DEFINE e == Head(provider_event_rx)
<1>1. initial' = initial
  BY DEF HandleProviderEvent
<1>2. \/ IgnoreProviderEvent(e, timer)
      \/ HandleStream(e, timer)
      \/ HandleRetry(e, timer)
      \/ HandleFinalResponse(e)
      \/ HandleToolCalls(e)
      \/ HandleTooLarge(e)
      \/ HandleProviderError(e)
  BY DEF HandleProviderEvent
<1>3. /\ client \in Client
      /\ all_messages \in Seq(Message)
      /\ e \in ProviderEvent
  BY DEF TypeInv, TypeOK
<1> HIDE DEF e
<1>4. Alive
  BY DEF Alive
<1>5. CASE IgnoreProviderEvent(e, timer)
  BY <1>1, <1>4, <1>5 DEF IgnoreProviderEvent, Settle, Quiet
<1>6. CASE HandleStream(e, timer) \/ HandleRetry(e, timer)
  <2>1. /\ UNCHANGED <<history, all_messages, disk>>
        /\ \/ client' = client /\ pc' = "recv"
           \/ WakeOrSchedule(timer, FALSE)
           \/ WakeOrSchedule(timer, grace_elapsed)
    BY <1>6, Zenon DEF HandleStream, HandleRetry
  <2>2. client'.seen = client.seen
    BY <1>3, <2>1, ErrorsShowNothing
  <2>3. pc' # "final"
    BY <2>1 DEF WakeOrSchedule, CancelActiveProviderRequest, Settle
  <2> QED
    BY <1>1, <1>4, <2>1, <2>2, <2>3 DEF Quiet
<1>7. CASE HandleFinalResponse(e)
  <2>1. /\ UNCHANGED <<history, all_messages, disk, client>>
        /\ frame' = [NoFrame EXCEPT !.turn = e.id.turn]
    BY <1>7 DEF HandleFinalResponse
  <2>2. ~frame'.pushed
    BY <2>1 DEF NoFrame
  <2> QED
    BY <1>1, <1>4, <2>1, <2>2 DEF Quiet
<1>8. ASSUME NEW result, TakeResult(e, result)
      PROVE  initial /\ running_batch = 0
  BY <1>8, RequestTurn DEF TakeResult, NoTools
<1>9. CASE HandleToolCalls(e)
  <2> DEFINE m == [kind |-> "calls", turn |-> e.id.turn, ref |-> Position]
  <2>1. initial /\ running_batch = 0
    BY <1>8, <1>9 DEF HandleToolCalls
  <2>2. /\ all_messages' = Append(all_messages, m)
        /\ client' = Shown(client, {Position})
        /\ PersistIfClosed(history', all_messages', next_turn_id,
                           next_batch_id')
        /\ pc' = "recv"
    BY <1>9, <2>1 DEF HandleToolCalls
  <2>3. Position = Len(all_messages) + 1 /\ Position \in Nat
    BY <1>3 DEF Position
  <2>4. m \in Message
    BY <1>3, <2>3, EventIdType DEF Message, Kinds
  <2> HIDE DEF m
  <2>5. IsPrefixOf(all_messages, all_messages')
        /\ Len(all_messages') = Len(all_messages) + 1
    BY <1>3, <2>2, <2>4, PrefixAppend
  <2>6. Position \in 1..Len(all_messages')
    BY <1>3, <2>3, <2>5
  <2>7. client'.seen = client.seen \cup {Position}
    BY <1>3, <2>2 DEF Client, Shown
  <2>8. disk'.all_messages \in {disk.all_messages, all_messages'}
    BY <2>2, PersistLog
  <2> QED
    BY <1>1, <2>1, <2>2, <2>5, <2>6, <2>7, <2>8 DEF Grows
<1>10. CASE HandleTooLarge(e) \/ HandleProviderError(e)
  <2>1. initial
    BY <1>8, <1>10, Zenon DEF HandleTooLarge, HandleProviderError
  <2>2. /\ all_messages' = all_messages
        /\ client' = client \/ FinishTurnError(client, CurrentHistory)
        /\ \/ disk' = disk
           \/ PersistIfClosed(history', all_messages, next_turn_id,
                              next_batch_id)
    BY <1>10, Zenon DEF HandleTooLarge, HandleProviderError
  <2>3. client'.seen = client.seen
    BY <1>3, <2>2, ErrorsShowNothing
  <2>4. disk'.all_messages \in {disk.all_messages, all_messages'}
    BY <2>2, PersistLog
  <2>5. pc' # "final"
    BY <1>10 DEF HandleTooLarge, HandleProviderError, FinishTurnError, Settle
  <2>6. IsPrefixOf(all_messages, all_messages')
    BY <1>3, <2>2 DEF IsPrefixOf
  <2> QED
    BY <1>1, <2>1, <2>3, <2>4, <2>5, <2>6 DEF Grows
<1> QED
  BY <1>2, <1>5, <1>6, <1>7, <1>9, <1>10

\* A provider event taken by the select, and a fired grace timer.
LEMMA LogEvents ==
    ASSUME TypeInv, TurnInv, ReceiveProviderEvent \/ HandleGraceElapsed
    PROVE  Quiet \/ Grows
<1>1. CASE /\ pc = "recv" /\ provider_event_rx # <<>>
           /\ \E t : HandleProviderEvent(Head(provider_event_rx), t)
  BY <1>1, LogHandleProviderEvent
<1>2. CASE /\ pc = "recv"
           /\ UNCHANGED <<initial, history, all_messages, disk>>
           /\ \/ WakeOrSchedule(0, grace_elapsed)
              \/ /\ Settle(active_provider_request, active_tool_batch,
                           pending_data)
                 /\ client' = client
  <2>1. client \in Client
    BY DEF TypeInv, TypeOK
  <2>2. client'.seen = client.seen
    BY <1>2, <2>1, ErrorsShowNothing
  <2>3. pc' # "final"
    BY <1>2 DEF WakeOrSchedule, CancelActiveProviderRequest, Settle
  <2> QED
    BY <1>2, <2>2, <2>3 DEF Quiet, Alive
<1> QED
  BY <1>1, <1>2, Zenon DEF ReceiveProviderEvent, HandleGraceElapsed

\* The results of a tool batch are appended and shown.
LEMMA LogHandleToolCompletion ==
    ASSUME TypeInv, TurnInv, HandleToolCompletion
    PROVE  Quiet \/ Grows
<1> DEFINE m == ResultsFor(active_tool_batch.call, active_tool_batch.turn)
<1>1. pc = "recv" /\ initial' = initial
  BY DEF HandleToolCompletion
<1>2. /\ client \in Client
      /\ all_messages \in Seq(Message)
      /\ m \in Message
  BY DEF TypeInv, TypeOK, ToolBatch, ResultsFor, Message, Kinds
<1>3. CASE /\ UNCHANGED <<history, all_messages, disk>>
           /\ \/ Die(client)
              \/ /\ Settle(active_provider_request, active_tool_batch,
                           pending_data)
                 /\ client' = client
  <2>1. client'.seen = client.seen
    BY <1>2, <1>3, ErrorsShowNothing
  <2>2. pc' # "final"
    BY <1>3 DEF Die, Settle
  <2> QED
    BY <1>1, <1>3, <2>1, <2>2 DEF Quiet, Alive
<1>4. CASE /\ active_tool_batch # NoBatch
           /\ all_messages' = Append(all_messages, m)
           /\ PersistIfClosed(history', all_messages', next_turn_id,
                              next_batch_id)
           /\ client' = Shown(client, {Position})
           /\ pc' # "final"
  <2> HIDE DEF m
  <2>1. initial
    BY <1>1, <1>4 DEF TurnInv, NothingBeforeInitial, Alive, ToolsIdle
  <2>2. IsPrefixOf(all_messages, all_messages')
        /\ Len(all_messages') = Len(all_messages) + 1
    BY <1>2, <1>4, PrefixAppend
  <2>3. Position \in 1..Len(all_messages')
    BY <1>2, <2>2 DEF Position
  <2>4. client'.seen = client.seen \cup {Position}
    BY <1>2, <1>4 DEF Client, Shown
  <2>5. disk'.all_messages \in {disk.all_messages, all_messages'}
    BY <1>4, PersistLog
  <2> QED
    BY <1>1, <1>4, <2>1, <2>2, <2>3, <2>4, <2>5 DEF Grows
<1> QED
  BY <1>3, <1>4 DEF HandleToolCompletion, Settle

-----------------------------------------------------------------------------
(***************************************************************************)
(* The refinement                                                          *)
(***************************************************************************)
\* Every step keeps LogInv and is a step of Transcript or leaves it alone.
LEMMA LogStep ==
    ASSUME TypeInv, TypeInv', TurnInv, LogInv, [Next]_vars
    PROVE  LogInv' /\ [Log!Next]_(Log!logVars)
<1>1. CASE HandleInitial
  BY <1>1, LogHandleInitial
<1>2. CASE Actor /\ ~HandleInitial
  <2>1. Quiet \/ Grows
    BY <1>2, LogRequests, LogHandleCompactNow, LogAppends, LogAppendFinal,
       LogAnnounceTurn, LogStartProviderRequest, LogEvents,
       LogHandleToolCompletion DEF Actor
  <2> QED
    BY <2>1, QuietStep, GrowsStep
<1>3. CASE \/ \E kind \in Requests : SendRequest(kind)
           \/ \E id \in provider_threads, type \in {"Stream", "Retry"} :
                ProviderStreams(id, type)
           \/ \E result \in Results : ProviderCompletes(result)
           \/ ProviderAborts
           \/ WorkerCompletes
           \/ GraceWindowElapses
           \/ \E t \in timers : TimerFires(t)
           \/ UNCHANGED vars
  <2>1. UNCHANGED <<actorVars, disk, client>>
    BY <1>3 DEF SendRequest, ProviderStreams, ProviderCompletes,
                ProviderAborts, WorkerCompletes, GraceWindowElapses,
                TimerFires, vars, hostVars
  <2>2. Quiet
    BY <2>1 DEF Quiet, actorVars, Alive
  <2> QED
    BY <2>2, QuietStep
<1>4. CASE Crash
  BY <1>4, LogRequests, QuietStep
<1>5. CASE Restart
  <2>1. /\ pc' = "recv" /\ ~initial' /\ history' = <<>>
        /\ disk' = disk
        /\ client'.seen = {}
    BY <1>5 DEF Restart, IdleClient
  <2>2. LogInv'
    BY <2>1 DEF LogInv, ShownExists, EmptyBeforeInitial, FinalIsThere
  <2>3. Log!Recover
    BY <2>1 DEF Log!Recover
  <2> QED
    BY <2>2, <2>3 DEF Log!Next
<1> QED
  BY <1>1, <1>2, <1>3, <1>4, <1>5 DEF Next

\* A session starts from what was saved, with nothing shown.
LEMMA LogInit == Init => LogInv /\ Log!Init
<1> SUFFICES ASSUME Init PROVE LogInv /\ Log!Init
  OBVIOUS
<1>1. /\ pc = "recv" /\ ~initial /\ history = <<>>
      /\ client.seen = {}
  BY DEF Init, IdleClient
<1>2. LogInv
  BY <1>1 DEF LogInv, ShownExists, EmptyBeforeInitial, FinalIsThere
<1>3. Log!Init
  BY <1>1 DEF Log!Init
<1> QED
  BY <1>2, <1>3

\* The invariant of the transcript, as a theorem of its own.
THEOREM LogInvariant == Spec => []LogInv
<1>1. TypeInv /\ TypeInv' /\ TurnInv /\ LogInv /\ [Next]_vars => LogInv'
  BY LogStep
<1> QED
  BY <1>1, LogInit, TypeInvariant, TurnInvariant, PTL DEF Spec

\* SessionActor implements Transcript: no handler rewrites or drops a message of
\* all_messages, a save of session.json covers all of it or nothing, the host is
\* shown positions that exist, and a restarted actor continues the saved log.
THEOREM TranscriptRefined == Spec => TranscriptIsAppendOnly
<1>1. Init => LogInv /\ Log!Init
  BY LogInit
<1>2. TypeInv /\ TypeInv' /\ TurnInv /\ LogInv /\ [Next]_vars
        => LogInv' /\ [Log!Next]_(Log!logVars)
  BY LogStep
<1> QED
  BY <1>1, <1>2, TypeInvariant, TurnInvariant, PTL
     DEF Spec, TranscriptIsAppendOnly, Log!Spec

-----------------------------------------------------------------------------
(***************************************************************************)
(* Open calls                                                              *)
(***************************************************************************)
\* Every result of the history has its call before it.
ResultsAnswer(h) ==
    \A j \in 1..Len(h) : h[j].kind = "results" => Answers(h, j)

\* At most one call is open: a repair closes them all.
AtMostOneOpen(h) == \A r, s \in Unclosed(h) : r = s

GoodHistory(h) == ResultsAnswer(h) /\ AtMostOneOpen(h)

\* A call is open when no later message answers it.
LEMMA UnclosedMember ==
    ASSUME NEW h, NEW r
    PROVE  r \in Unclosed(h) <=>
             \E i \in 1..Len(h) :
                /\ IsCall(h[i], r)
                /\ \A k \in (i + 1)..Len(h) : ~IsResult(h[k], r)
  BY DEF Unclosed, IsCall

\* What one more message does to the open calls: a call is one more, a result
\* closes its call, any other message changes nothing.
LEMMA UnclosedAppend ==
    ASSUME NEW h \in Seq(Message), NEW m \in Message, NEW r
    PROVE  r \in Unclosed(Append(h, m)) <=>
             \/ r \in Unclosed(h) /\ ~IsResult(m, r)
             \/ IsCall(m, r)
<1> DEFINE g == Append(h, m)
           n == Len(h)
<1>1. /\ n \in Nat /\ Len(g) = n + 1
      /\ \A i \in 1..n : g[i] = h[i]
      /\ g[n + 1] = m
  OBVIOUS
<1> HIDE DEF g
<1>2. ASSUME r \in Unclosed(g) PROVE (r \in Unclosed(h) /\ ~IsResult(m, r)) \/ IsCall(m, r)
  <2>1. PICK i \in 1..Len(g) : /\ IsCall(g[i], r)
                               /\ \A k \in (i + 1)..Len(g) : ~IsResult(g[k], r)
    BY <1>2, UnclosedMember
  <2>2. CASE i = n + 1
    BY <1>1, <2>1, <2>2
  <2>3. CASE i # n + 1
    <3>1. i \in 1..n /\ IsCall(h[i], r)
      BY <1>1, <2>1, <2>3
    <3>2. \A k \in (i + 1)..n : ~IsResult(h[k], r)
      <4> TAKE k \in (i + 1)..n
      <4>1. k \in 1..n /\ k \in (i + 1)..Len(g)
        BY <1>1, <3>1
      <4> QED
        BY <1>1, <2>1, <4>1
    <3>3. ~IsResult(m, r)
      <4>1. n + 1 \in (i + 1)..Len(g)
        BY <1>1, <3>1
      <4> QED
        BY <1>1, <2>1, <4>1
    <3>4. r \in Unclosed(h)
      BY <3>1, <3>2, UnclosedMember
    <3> QED
      BY <3>3, <3>4
  <2> QED
    BY <2>2, <2>3
<1>3. ASSUME r \in Unclosed(h), ~IsResult(m, r) PROVE r \in Unclosed(g)
  <2>1. PICK i \in 1..n : /\ IsCall(h[i], r)
                          /\ \A k \in (i + 1)..n : ~IsResult(h[k], r)
    BY <1>3, UnclosedMember
  <2>2. i \in 1..Len(g) /\ IsCall(g[i], r)
    BY <1>1, <2>1
  <2>3. \A k \in (i + 1)..Len(g) : ~IsResult(g[k], r)
    <3> TAKE k \in (i + 1)..Len(g)
    <3>1. k = n + 1 \/ (k \in (i + 1)..n /\ k \in 1..n)
      BY <1>1, <2>1
    <3> QED
      BY <1>1, <1>3, <2>1, <3>1
  <2> QED
    BY <2>2, <2>3, UnclosedMember
<1>4. ASSUME IsCall(m, r) PROVE r \in Unclosed(g)
  <2>1. n + 1 \in 1..Len(g) /\ IsCall(g[n + 1], r)
    BY <1>1, <1>4
  <2>2. \A k \in (n + 1 + 1)..Len(g) : ~IsResult(g[k], r)
    BY <1>1
  <2> QED
    BY <2>1, <2>2, UnclosedMember
<1> QED
  BY <1>2, <1>3, <1>4 DEF g

\* A result that answers an open call keeps the results in order; any other
\* message does.
LEMMA ResultsAnswerAppend ==
    ASSUME NEW h \in Seq(Message), NEW m \in Message, ResultsAnswer(h),
           m.kind = "results" => m.ref \in Unclosed(h)
    PROVE  ResultsAnswer(Append(h, m))
<1> DEFINE g == Append(h, m)
           n == Len(h)
<1>1. /\ n \in Nat /\ Len(g) = n + 1
      /\ \A i \in 1..n : g[i] = h[i]
      /\ g[n + 1] = m
  OBVIOUS
<1> HIDE DEF g
<1> SUFFICES ASSUME NEW j \in 1..(n + 1), g[j].kind = "results"
             PROVE  Answers(g, j)
  BY <1>1 DEF ResultsAnswer, g
<1>2. CASE j = n + 1
  <2>1. m.ref \in Unclosed(h) /\ g[j].ref = m.ref
    BY <1>1, <1>2
  <2>2. PICK i \in 1..n : /\ IsCall(h[i], m.ref)
                          /\ \A k \in (i + 1)..n : ~IsResult(h[k], m.ref)
    BY <2>1, UnclosedMember
  <2>3. i \in 1..(j - 1) /\ IsCall(g[i], g[j].ref)
    BY <1>1, <1>2, <2>1, <2>2
  <2>4. \A k \in (i + 1)..(j - 1) : ~IsResult(g[k], g[j].ref)
    <3> TAKE k \in (i + 1)..(j - 1)
    <3>1. k \in (i + 1)..n /\ k \in 1..n
      BY <1>1, <1>2, <2>2
    <3> QED
      BY <1>1, <2>1, <2>2, <3>1
  <2> QED
    BY <2>3, <2>4 DEF Answers
<1>3. CASE j # n + 1
  <2>1. j \in 1..n /\ g[j] = h[j]
    BY <1>1, <1>3
  <2>2. Answers(h, j)
    BY <2>1 DEF ResultsAnswer
  <2>3. PICK i \in 1..(j - 1) : /\ IsCall(h[i], h[j].ref)
                                /\ \A k \in (i + 1)..(j - 1) : ~IsResult(h[k], h[j].ref)
    BY <2>2 DEF Answers
  <2>4. \A k \in 1..(j - 1) : g[k] = h[k]
    BY <1>1, <2>1
  <2>5. \A k \in (i + 1)..(j - 1) : ~IsResult(g[k], g[j].ref)
    <3> TAKE k \in (i + 1)..(j - 1)
    <3>1. k \in 1..(j - 1)
      BY <2>1, <2>3
    <3> QED
      BY <2>1, <2>3, <2>4, <3>1
  <2> QED
    BY <2>1, <2>3, <2>4, <2>5 DEF Answers
<1> QED
  BY <1>2, <1>3

\* A closed history is a good one.
LEMMA ClosedIsGood ==
    ASSUME NEW h
    PROVE  IsToolProtocolClosed(h) <=> Unclosed(h) = {} /\ GoodHistory(h)
  BY DEF IsToolProtocolClosed, GoodHistory, ResultsAnswer, AtMostOneOpen

\* A message put before a closed history, such as a summary, leaves it closed.
LEMMA ClosedAfterSummary ==
    ASSUME NEW h \in Seq(Message), IsToolProtocolClosed(h)
    PROVE  IsToolProtocolClosed(<<Summary>> \o h)
<1> DEFINE g == <<Summary>> \o h
           n == Len(h)
<1>1. /\ n \in Nat /\ Len(g) = n + 1
      /\ \A i \in 1..n : g[i + 1] = h[i]
      /\ g[1] = Summary
  <2>1. Summary \in Message
    BY DEF Summary, Message, Kinds
  <2> QED
    BY <2>1
<1> HIDE DEF g
<1>2. Summary.kind = "summary"
  BY DEF Summary
<1>3. Unclosed(g) = {}
  <2> SUFFICES ASSUME NEW r \in Unclosed(g) PROVE FALSE
    OBVIOUS
  <2>1. PICK i \in 1..Len(g) : /\ IsCall(g[i], r)
                               /\ \A k \in (i + 1)..Len(g) : ~IsResult(g[k], r)
    BY UnclosedMember
  <2>2. i # 1
    BY <1>1, <1>2, <2>1 DEF IsCall
  <2>3. i - 1 \in 1..n /\ IsCall(h[i - 1], r)
    BY <1>1, <2>1, <2>2
  <2>4. \A k \in (i - 1 + 1)..n : ~IsResult(h[k], r)
    <3> TAKE k \in (i - 1 + 1)..n
    <3>1. k + 1 \in (i + 1)..Len(g) /\ k \in 1..n
      BY <1>1, <2>3
    <3> QED
      BY <1>1, <2>1, <3>1
  <2>5. r \in Unclosed(h)
    BY <2>3, <2>4, UnclosedMember
  <2> QED
    BY <2>5 DEF IsToolProtocolClosed
<1>4. ASSUME NEW j \in 1..Len(g), g[j].kind = "results" PROVE Answers(g, j)
  <2>1. j # 1
    BY <1>1, <1>2, <1>4
  <2>2. j - 1 \in 1..n /\ g[j] = h[j - 1]
    BY <1>1, <2>1
  <2>3. Answers(h, j - 1)
    BY <1>4, <2>2 DEF IsToolProtocolClosed
  <2>4. PICK i \in 1..(j - 1 - 1) :
           /\ IsCall(h[i], h[j - 1].ref)
           /\ \A k \in (i + 1)..(j - 1 - 1) : ~IsResult(h[k], h[j - 1].ref)
    BY <2>3 DEF Answers
  <2>5. i + 1 \in 1..(j - 1) /\ IsCall(g[i + 1], g[j].ref)
    BY <1>1, <2>2, <2>4
  <2>6. \A k \in (i + 1 + 1)..(j - 1) : ~IsResult(g[k], g[j].ref)
    <3> TAKE k \in (i + 1 + 1)..(j - 1)
    <3>1. k - 1 \in (i + 1)..(j - 1 - 1) /\ k - 1 \in 1..n /\ (k - 1) + 1 = k
      BY <1>1, <2>2, <2>4
    <3>2. g[k] = h[k - 1]
      BY <1>1, <3>1
    <3> QED
      BY <2>2, <2>4, <3>1, <3>2
  <2> QED
    BY <2>5, <2>6 DEF Answers
<1> QED
  BY <1>3, <1>4 DEF IsToolProtocolClosed, g

\* What is left of a history, unless all of it is dropped, is not empty.
LEMMA DropFirstLeaves ==
    ASSUME NEW h \in Seq(Message), NEW n \in 1..(Len(h) - 1)
    PROVE  DropFirst(h, n) \in Seq(Message) /\ DropFirst(h, n) # <<>>
<1>1. DropFirst(h, n) \in Seq(Message)
  BY DropFirstType
<1>2. Len(DropFirst(h, n)) = Len(h) - n
  BY DEF DropFirst
<1> QED
  BY <1>1, <1>2

\* A prune leaves a closed history.
LEMMA PrunesClosed ==
    ASSUME NEW h \in Seq(Message), NEW p \in Prunes(h)
    PROVE  IsToolProtocolClosed(p) /\ p \in Seq(Message) /\ p # <<>>
<1>1. PICK n \in PruneStarts(h) : p = DropFirst(h, n)
  BY DEF Prunes
<1> QED
  BY <1>1, DropFirstLeaves DEF PruneStarts

\* And so does a compaction.
LEMMA CompactionsClosed ==
    ASSUME NEW h \in Seq(Message), NEW p \in Compactions(h)
    PROVE  IsToolProtocolClosed(p) /\ p \in Seq(Message) /\ p # <<>>
<1>1. PICK n \in CompactStarts(h) :
          p = <<Summary>> \o DropFirst(h, n) \/ p = DropFirst(h, n)
  BY DEF Compactions
<1>2. /\ n \in 1..(Len(h) - 1)
      /\ IsToolProtocolClosed(DropFirst(h, n))
  BY DEF CompactStarts
<1>3. DropFirst(h, n) \in Seq(Message) /\ DropFirst(h, n) # <<>>
  BY <1>2, DropFirstLeaves
<1>4. CASE p = DropFirst(h, n)
  BY <1>2, <1>3, <1>4
<1>5. CASE p = <<Summary>> \o DropFirst(h, n)
  <2>1. IsToolProtocolClosed(p)
    BY <1>2, <1>3, <1>5, ClosedAfterSummary
  <2>2. p \in Seq(Message)
    BY CompactionsType
  <2>3. Len(p) = Len(DropFirst(h, n)) + 1
    <3> DEFINE d == DropFirst(h, n)
    <3>1. d \in Seq(Message)
      BY <1>3
    <3> HIDE DEF d
    <3>2. Len(<<Summary>> \o d) = Len(d) + 1
      BY <3>1
    <3> QED
      BY <1>5, <3>2 DEF d
  <2>4. Len(DropFirst(h, n)) \in Nat
    BY <1>3
  <2> QED
    BY <2>1, <2>2, <2>3, <2>4
<1> QED
  BY <1>1, <1>4, <1>5

\* The history after one more message.
LEMMA GoodAppend ==
    ASSUME NEW h \in Seq(Message), NEW m \in Message, GoodHistory(h),
           m.kind = "results" => m.ref \in Unclosed(h),
           m.kind = "calls" => Unclosed(h) = {}
    PROVE  GoodHistory(Append(h, m)) /\ Append(h, m) # <<>>
<1>1. ResultsAnswer(Append(h, m))
  BY ResultsAnswerAppend DEF GoodHistory
<1>2. AtMostOneOpen(Append(h, m))
  BY UnclosedAppend DEF GoodHistory, AtMostOneOpen, IsCall
<1> QED
  BY <1>1, <1>2 DEF GoodHistory

\* The empty history is good, and so is one that ends in an open call.
LEMMA EmptyIsGood == GoodHistory(<<>>) /\ Unclosed(<<>>) = {}
<1>1. Unclosed(<<>>) = {}
  BY UnclosedMember
<1> QED
  BY <1>1 DEF GoodHistory, ResultsAnswer, AtMostOneOpen

LEMMA LegacyIsGood == GoodHistory(LegacyState.history)
<1> DEFINE i == [kind |-> "input", turn |-> 1, ref |-> 0]
           c == [kind |-> "calls", turn |-> 1, ref |-> 2]
<1>1. i \in Message /\ c \in Message /\ i.kind = "input" /\ c.kind = "calls"
  BY DEF Message, Kinds
<1>2. LegacyState.history = Append(Append(<<>>, i), c)
  BY DEF LegacyState
<1> HIDE DEF i, c
<1>3. Append(<<>>, i) \in Seq(Message)
  BY <1>1
<1>4. <<>> \in Seq(Message)
  OBVIOUS
<1>5. GoodHistory(Append(<<>>, i))
  BY <1>1, <1>4, EmptyIsGood, GoodAppend
<1>6. Unclosed(Append(<<>>, i)) = {}
  BY <1>1, <1>4, EmptyIsGood, UnclosedAppend DEF IsCall
<1> QED
  BY <1>1, <1>2, <1>3, <1>5, <1>6, GoodAppend

\* What a message is appended to: the history or a compaction of it.
LEMMA BasesGood ==
    ASSUME NEW h \in Seq(Message), GoodHistory(h), NEW b \in AppendBases(h)
    PROVE  /\ b \in Seq(Message) /\ GoodHistory(b)
           /\ Unclosed(b) \subseteq Unclosed(h)
<1>1. b = h \/ b \in Compactions(h)
  BY DEF AppendBases
<1> QED
  BY <1>1, CompactionsClosed, ClosedIsGood

\* What is left of a history that was too large.
LEMMA ShrunkClosed ==
    ASSUME NEW h \in Seq(Message), NEW attempts, NEW p \in Shrunk(h, attempts)
    PROVE  IsToolProtocolClosed(p) /\ p # <<>>
  BY PrunesClosed, CompactionsClosed DEF Shrunk

\* The repair closes the one call that may be open.
LEMMA RepairCloses ==
    ASSUME NEW h \in Seq(Message), GoodHistory(h), NEW turn \in Nat
    PROVE  /\ IsToolProtocolClosed(Repair(h, Unclosed(h), turn))
           /\ h # <<>> => Repair(h, Unclosed(h), turn) # <<>>
<1>1. CASE Unclosed(h) = {}
  BY <1>1, ClosedIsGood DEF Repair
<1>2. CASE Unclosed(h) # {}
  <2>1. PICK r \in Unclosed(h) : r = CHOOSE x \in Unclosed(h) : TRUE
    BY <1>2
  <2>2. Repair(h, Unclosed(h), turn) = Append(h, ResultsFor(r, turn))
    BY <1>2, <2>1 DEF Repair
  <2>3. r \in Nat
    <3>1. PICK i \in 1..Len(h) : h[i].ref = r
      BY UnclosedMember DEF IsCall
    <3>2. h[i] \in Message
      BY <3>1
    <3> QED
      BY <3>1, <3>2 DEF Message
  <2>4. ResultsFor(r, turn) \in Message
    BY <2>3 DEF ResultsFor, Message, Kinds
  <2>5. ResultsFor(r, turn).kind = "results" /\ ResultsFor(r, turn).ref = r
    BY DEF ResultsFor
  <2>6. GoodHistory(Append(h, ResultsFor(r, turn)))
    BY <2>4, <2>5, GoodAppend
  <2>7. Unclosed(Append(h, ResultsFor(r, turn))) = {}
    <3> SUFFICES ASSUME NEW s \in Unclosed(Append(h, ResultsFor(r, turn)))
                 PROVE  FALSE
      OBVIOUS
    <3>1. s \in Unclosed(h) /\ ~IsResult(ResultsFor(r, turn), s)
      BY <2>4, <2>5, UnclosedAppend DEF IsCall
    <3>2. s = r
      BY <3>1 DEF GoodHistory, AtMostOneOpen
    <3> QED
      BY <2>5, <3>1, <3>2 DEF IsResult
  <2>8. Append(h, ResultsFor(r, turn)) # <<>>
    BY <2>4, <2>5, GoodAppend
  <2> QED
    BY <2>2, <2>6, <2>7, <2>8, ClosedIsGood
<1> QED
  BY <1>1, <1>2

-----------------------------------------------------------------------------
(***************************************************************************)
(* Closed histories                                                        *)
(***************************************************************************)
\* The call of the running batch is open.
BatchIsOpen ==
    Alive /\ ~ToolsIdle => active_tool_batch.call \in Unclosed(history)

\* The provider works on a closed history, whatever is done to it meanwhile.
RequestKeepsClosed == Alive /\ ~ProviderIdle => Unclosed(history) = {}

\* The actor knows what the provider session holds: extending it by the new
\* messages gives the current history.
ContextsAgree == session_context = provider_context.messages

HistoryInv ==
    /\ GoodHistory(history)
    /\ GoodHistory(disk.history)
    /\ BatchIsOpen
    /\ RequestKeepsClosed
    /\ ContextsAgree

\* The history is what it was, a closed one, or one with a message appended
\* that is neither a call nor a result.
Rewritten ==
    \/ history' = history
    \/ IsToolProtocolClosed(history') /\ history' # <<>>
    \/ \E h \in AppendBases(history), m \in Message :
         m.kind \in {"input", "final"} /\ history' = Append(h, m)

LEMMA RewrittenGood ==
    ASSUME TypeInv, GoodHistory(history), Rewritten
    PROVE  /\ GoodHistory(history')
           /\ Unclosed(history') \subseteq Unclosed(history)
           /\ history # <<>> => history' # <<>>
<1>1. history \in Seq(Message)
  BY DEF TypeInv, TypeOK
<1>2. CASE history' = history
  BY <1>2
<1>3. CASE IsToolProtocolClosed(history') /\ history' # <<>>
  BY <1>3, ClosedIsGood
<1>4. ASSUME NEW h \in AppendBases(history), NEW m \in Message,
             m.kind \in {"input", "final"}, history' = Append(h, m)
      PROVE  /\ GoodHistory(history')
             /\ Unclosed(history') \subseteq Unclosed(history)
             /\ history' # <<>>
  <2>1. /\ h \in Seq(Message) /\ GoodHistory(h)
        /\ Unclosed(h) \subseteq Unclosed(history)
    BY <1>1, BasesGood
  <2>2. GoodHistory(history') /\ history' # <<>>
    BY <1>4, <2>1, GoodAppend
  <2>3. Unclosed(history') \subseteq Unclosed(h)
    BY <1>4, <2>1, UnclosedAppend DEF IsCall
  <2> QED
    BY <2>1, <2>2, <2>3
<1> QED
  BY <1>2, <1>3, <1>4 DEF Rewritten

\* The saved history is the old one or the current one.
DiskFollows == disk'.history \in {disk.history, history'}

\* The batch is over, or goes on with the history as it was.
BatchUndisturbed ==
    \/ active_tool_batch' = NoBatch
    \/ /\ active_tool_batch # NoBatch
       /\ active_tool_batch'.call = active_tool_batch.call
       /\ history' = history

LEMMA HistoryKept ==
    ASSUME TypeInv, HistoryInv, Alive' => Alive, Rewritten, DiskFollows,
           UNCHANGED <<session_context, provider_context>>,
           active_provider_request' \in {NoRequest, active_provider_request},
           BatchUndisturbed
    PROVE  HistoryInv'
<1>1. /\ GoodHistory(history')
      /\ Unclosed(history') \subseteq Unclosed(history)
  BY RewrittenGood DEF HistoryInv
<1>2. GoodHistory(disk'.history)
  BY <1>1 DEF DiskFollows, HistoryInv
<1>3. BatchIsOpen'
  BY DEF BatchIsOpen, HistoryInv, BatchUndisturbed, ToolsIdle
<1>4. RequestKeepsClosed'
  BY <1>1 DEF RequestKeepsClosed, HistoryInv, ProviderIdle
<1>5. ContextsAgree'
  BY DEF ContextsAgree, HistoryInv
<1> QED
  BY <1>1, <1>2, <1>3, <1>4, <1>5 DEF HistoryInv

\* A save, or none.
LEMMA PersistFollows ==
    ASSUME \/ disk' = disk
           \/ \E all, t, b : PersistIfClosed(history', all, t, b)
    PROVE  DiskFollows
  BY DEF PersistIfClosed, DiskFollows

\* The requests of the host and the turns they begin.
LEMMA HistoryHostSteps ==
    ASSUME TypeInv, HistoryInv,
           \/ HandleShutdown
           \/ \E kind \in DataKinds : HandleData(kind)
           \/ HandleCancelTurn
           \/ HandleContinueTurn
           \/ DrainPendingData
           \/ HandleCompactNow
    PROVE  HistoryInv' /\ Rewritten
<1>1. /\ UNCHANGED <<session_context, provider_context>>
      /\ Alive
  BY DEF HandleShutdown, HandleData, HandleCancelTurn, HandleContinueTurn,
         DrainPendingData, HandleCompactNow, Receive, Alive, providerVars
<1>2. active_provider_request' \in {NoRequest, active_provider_request}
  BY DEF HandleShutdown, HandleData, HandleCancelTurn, HandleContinueTurn,
         DrainPendingData, HandleCompactNow, CancelActiveProviderRequest
<1>3. active_tool_batch \in ToolBatch /\ history \in Seq(Message)
  BY DEF TypeInv, TypeOK
<1>4. ASSUME history' = history, disk' = disk,
             \/ active_tool_batch' = active_tool_batch
             \/ \E i : InterruptActiveTools(i)
      PROVE  HistoryInv' /\ Rewritten
  <2>1. BatchUndisturbed
    <3>1. \/ active_tool_batch' = active_tool_batch
          \/ /\ active_tool_batch # NoBatch
             /\ \E i : active_tool_batch' = [active_tool_batch EXCEPT !.interrupt = i]
      BY <1>4, Zenon DEF InterruptActiveTools
    <3> QED
      BY <1>3, <1>4, <3>1 DEF BatchUndisturbed, ToolBatch
  <2>2. Rewritten /\ DiskFollows
    BY <1>4 DEF Rewritten, DiskFollows
  <2> QED
    BY <1>1, <1>2, <2>1, <2>2, HistoryKept
<1>5. CASE HandleShutdown \/ HandleContinueTurn \/ DrainPendingData
  BY <1>4, <1>5 DEF HandleShutdown, HandleContinueTurn, DrainPendingData
<1>6. CASE \E kind \in DataKinds : HandleData(kind)
  <2>1. \/ active_tool_batch' = active_tool_batch
        \/ \E i : InterruptActiveTools(i)
    BY <1>6, Zenon DEF HandleData
  <2> QED
    BY <1>4, <1>6, <2>1 DEF HandleData
<1>7. CASE HandleCancelTurn
  <2>1. \/ active_tool_batch' = active_tool_batch
        \/ \E i : InterruptActiveTools(i)
    BY <1>7, Zenon DEF HandleCancelTurn
  <2> QED
    BY <1>4, <1>7, <2>1 DEF HandleCancelTurn
<1>8. CASE HandleCompactNow
  <2>1. active_tool_batch' = active_tool_batch
    BY <1>8 DEF HandleCompactNow
  <2>2. CASE UNCHANGED <<history, disk>>
    BY <1>4, <2>1, <2>2
  <2>3. CASE /\ active_tool_batch = NoBatch
             /\ history' \in Compactions(history)
             /\ PersistIfClosed(history', all_messages, next_turn_id,
                                next_batch_id)
    <3>1. Rewritten
      BY <1>3, <2>3, CompactionsClosed DEF Rewritten
    <3>2. BatchUndisturbed
      BY <2>1, <2>3 DEF BatchUndisturbed
    <3> QED
      BY <1>1, <1>2, <2>3, <3>1, <3>2, HistoryKept, PersistFollows
  <2> QED
    BY <1>8, <2>2, <2>3 DEF HandleCompactNow
<1> QED
  BY <1>5, <1>6, <1>7, <1>8

\* Messages are appended between two requests.
LEMMA HistoryAppends ==
    ASSUME TypeInv, TurnInv, HistoryInv,
           \/ PruneWhileAppending
           \/ AppendInput
           \/ AppendInputFails
           \/ AnnounceTurn
           \/ AppendFinal
           \/ AppendFinalFails
    PROVE  HistoryInv' /\ Rewritten
<1>1. /\ UNCHANGED <<session_context, provider_context, active_provider_request,
                     active_tool_batch>>
      /\ Alive
      /\ pc \in {"input", "announce", "final"}
  BY DEF PruneWhileAppending, AppendInput, AppendInputFails, AnnounceTurn,
         AppendFinal, AppendFinalFails, Alive, providerVars
<1>2. BatchUndisturbed
  BY <1>1, BusyTurn DEF NoTools, BatchUndisturbed
<1>3. \/ disk' = disk
      \/ \E all, t, b : PersistIfClosed(history', all, t, b)
  BY Zenon DEF PruneWhileAppending, AppendInput, AppendInputFails, AnnounceTurn,
               AppendFinal, AppendFinalFails
<1>4. Rewritten
  <2>1. history \in Seq(Message)
    BY DEF TypeInv, TypeOK
  <2>2. CASE PruneWhileAppending
    BY <2>1, <2>2, PrunesClosed DEF PruneWhileAppending, Rewritten
  <2>3. CASE AppendInput \/ AppendFinal
    <3>1. PICK h \in AppendBases(history) : history' = Append(h, CurrentMessage)
      BY <2>3 DEF AppendInput, AppendFinal
    <3>2. pc \in {"input", "final"}
      BY <2>3 DEF AppendInput, AppendFinal
    <3>3. CurrentMessage \in Message
      BY <3>2, CurrentMessageType
    <3>4. CurrentMessage.kind \in {"input", "final"}
      BY DEF CurrentMessage
    <3> QED
      BY <3>1, <3>3, <3>4 DEF Rewritten
  <2>4. CASE AppendInputFails \/ AnnounceTurn \/ AppendFinalFails
    BY <2>4 DEF AppendInputFails, AnnounceTurn, AppendFinalFails, Rewritten
  <2> QED
    BY <2>2, <2>3, <2>4
<1> QED
  BY <1>1, <1>2, <1>3, <1>4, HistoryKept, PersistFollows

\* A prefix and what comes after it are the whole.
LEMMA PrefixConcat ==
    ASSUME NEW s \in Seq(Message), NEW h \in Seq(Message), IsPrefixOf(s, h)
    PROVE  s \o DropFirst(h, Len(s)) = h
<1> DEFINE d == DropFirst(h, Len(s))
           g == s \o d
<1>1. /\ Len(s) \in Nat /\ Len(h) \in Nat /\ Len(s) <= Len(h)
      /\ SubSeq(h, 1, Len(s)) = s
  BY DEF IsPrefixOf
<1>2. /\ d \in Seq(Message)
      /\ Len(d) = Len(h) - Len(s)
      /\ \A i \in 1..Len(d) : d[i] = h[Len(s) + i]
  BY <1>1 DEF DropFirst
<1>3. \A i \in 1..Len(s) : s[i] = h[i]
  BY <1>1
<1> HIDE DEF d
<1>4. /\ g \in Seq(Message)
      /\ Len(g) = Len(s) + Len(d)
      /\ \A i \in 1..Len(s) : g[i] = s[i]
      /\ \A i \in 1..Len(d) : g[Len(s) + i] = d[i]
  BY <1>1, <1>2
<1> HIDE DEF g
<1>5. Len(g) = Len(h)
  BY <1>1, <1>2, <1>4
<1>6. ASSUME NEW i \in 1..Len(h) PROVE g[i] = h[i]
  <2>1. CASE i <= Len(s)
    BY <1>1, <1>3, <1>4, <2>1
  <2>2. CASE i > Len(s)
    <3>1. i - Len(s) \in 1..Len(d) /\ Len(s) + (i - Len(s)) = i
      BY <1>1, <1>2, <2>2
    <3> QED
      BY <1>2, <1>4, <3>1
  <2> QED
    BY <1>1, <2>1, <2>2
<1>7. g = h
  BY <1>4, <1>5, <1>6, SeqEqual
<1> QED
  BY <1>7 DEF g, d

\* A request is started on the repaired history.
LEMMA HistoryStart ==
    ASSUME TypeInv, TurnInv, HistoryInv, StartProviderRequest
    PROVE  /\ HistoryInv' /\ Rewritten
           /\ session_active' # session_active =>
                /\ session_context' = history'
                /\ IsToolProtocolClosed(session_context')
<1> DEFINE unclosed == Unclosed(history)
           h == Repair(history, unclosed, frame.turn)
           all == Repair(all_messages, unclosed, frame.turn)
           c == IF unclosed = {} THEN client ELSE Shown(client, {Len(all)})
<1>1. /\ pc = "start" /\ Alive /\ history \in Seq(Message) /\ frame.turn \in Nat
      /\ UNCHANGED active_tool_batch
  BY DEF StartProviderRequest, Alive, TypeInv, TypeOK, Frame
<1>2. active_provider_request = NoRequest /\ active_tool_batch = NoBatch
  BY <1>1, BusyTurn DEF NoTools
<1>3. /\ IsToolProtocolClosed(h)
      /\ history # <<>> => h # <<>>
      /\ h \in Seq(Message)
  BY <1>1, RepairCloses, RepairType DEF HistoryInv
<1>4. h = history \/ h # <<>>
  <2>1. history # <<>> \/ h = history
    <3>1. CASE history = <<>>
      <4>1. unclosed = {}
        BY <3>1, UnclosedMember
      <4> QED
        BY <4>1 DEF Repair
    <3> QED
      BY <3>1
  <2> QED
    BY <1>3, <2>1
<1>5. DiskFollows
  <2>1. \/ disk' = disk
        \/ \E al, t, b : PersistIfClosed(history', al, t, b)
    BY Zenon DEF StartProviderRequest
  <2> QED
    BY <2>1, PersistFollows
<1>6. \/ StartFails(c) /\ history' = h
      \/ Shrink(h, c)
      \/ Launch(h, all, c) /\ ~StartFails(c) /\ history' = h
  BY Zenon DEF StartProviderRequest
<1> HIDE DEF unclosed, h, all, c
<1>7. BatchUndisturbed
  BY <1>1, <1>2 DEF BatchUndisturbed
<1>8. CASE StartFails(c) /\ history' = h
  <2>1. UNCHANGED <<session_context, provider_context, active_provider_request,
                    session_active>>
    BY <1>8 DEF StartFails
  <2>2. Rewritten
    BY <1>3, <1>4, <1>8 DEF Rewritten
  <2> QED
    BY <1>1, <1>5, <1>7, <2>1, <2>2, HistoryKept
<1>9. CASE Shrink(h, c)
  <2>1. /\ UNCHANGED <<session_context, provider_context,
                       active_provider_request, session_active>>
        /\ history' \in Shrunk(h, frame.attempts)
    BY <1>9 DEF Shrink
  <2>2. Rewritten
    BY <1>3, <2>1, ShrunkClosed DEF Rewritten
  <2> QED
    BY <1>1, <1>5, <1>7, <2>1, <2>2, HistoryKept
<1>10. CASE Launch(h, all, c) /\ ~StartFails(c) /\ history' = h
  <2>1. /\ session_context' =
             IF /\ provider_context.turn = frame.turn
                /\ IsPrefixOf(provider_context.messages, h)
             THEN session_context \o DropFirst(h, Len(provider_context.messages))
             ELSE h
        /\ provider_context' = [turn |-> frame.turn, messages |-> h]
        /\ pc' = "recv"
    BY <1>10 DEF Launch
  <2>2. session_context' = h
    <3>1. session_context = provider_context.messages
      BY DEF HistoryInv, ContextsAgree
    <3>2. provider_context.messages \in Seq(Message)
      BY DEF TypeInv, TypeOK, Context
    <3>3. PICK p \in Seq(Message) : p = provider_context.messages
      BY <3>2
    <3>4. IsPrefixOf(p, h) => p \o DropFirst(h, Len(p)) = h
      BY <1>3, PrefixConcat
    <3> QED
      BY <2>1, <3>1, <3>3, <3>4
  <2>3. Rewritten
    BY <1>3, <1>4, <1>10 DEF Rewritten
  <2>4. /\ GoodHistory(history')
        /\ Unclosed(history') = {}
    BY <1>3, <1>10, ClosedIsGood
  <2>5. GoodHistory(disk'.history)
    BY <1>5, <2>4 DEF DiskFollows, HistoryInv
  <2>6. ContextsAgree'
    BY <2>1, <2>2 DEF ContextsAgree
  <2>7. BatchIsOpen' /\ RequestKeepsClosed'
    BY <1>1, <1>2, <2>4 DEF BatchIsOpen, RequestKeepsClosed, ToolsIdle
  <2> QED
    BY <1>3, <1>10, <2>2, <2>3, <2>4, <2>5, <2>6, <2>7 DEF HistoryInv
<1> QED
  BY <1>6, <1>8, <1>9, <1>10

\* The Initial restores the saved history; nothing runs before it.
LEMMA HistoryHandleInitial ==
    ASSUME TypeInv, TurnInv, HistoryInv, HandleInitial
    PROVE  HistoryInv'
<1>1. /\ pc = "recv"
      /\ UNCHANGED <<active_provider_request, active_tool_batch,
                     session_context, provider_context>>
  BY DEF HandleInitial, Receive, providerVars
<1>2. CASE initial
  <2>1. history' = history /\ disk' = disk
    BY <1>2 DEF HandleInitial
  <2> QED
    BY <1>1, <2>1, HistoryKept DEF Rewritten, DiskFollows, BatchUndisturbed, Alive
<1>3. CASE ~initial
  <2>1. history' = disk.history /\ disk' = [disk EXCEPT !.saved = TRUE]
    BY <1>3 DEF HandleInitial
  <2>2. disk'.history = disk.history
    BY <2>1 DEF TypeInv, TypeOK, PersistedState
  <2>3. active_provider_request = NoRequest /\ active_tool_batch = NoBatch
    BY <1>1, <1>3 DEF TurnInv, NothingBeforeInitial, Alive, ProviderIdle, ToolsIdle
  <2> QED
    BY <1>1, <2>1, <2>2, <2>3
       DEF HistoryInv, BatchIsOpen, RequestKeepsClosed, ContextsAgree,
           ProviderIdle, ToolsIdle
<1> QED
  BY <1>2, <1>3

\* A provider event.  A response with tool calls is appended to a closed
\* history, so its calls are the only open ones.
LEMMA HistoryProviderEvent ==
    ASSUME TypeInv, TurnInv, HistoryInv, pc = "recv", NEW timer,
           provider_event_rx # <<>>,
           HandleProviderEvent(Head(provider_event_rx), timer)
    PROVE  /\ HistoryInv'
           /\ history # <<>> => history' # <<>>
<1> DEFINE e == Head(provider_event_rx)
<1>1. /\ UNCHANGED <<session_context, provider_context>>
      /\ Alive
  BY DEF HandleProviderEvent, Alive
<1>2. \/ IgnoreProviderEvent(e, timer)
      \/ HandleStream(e, timer)
      \/ HandleRetry(e, timer)
      \/ HandleFinalResponse(e)
      \/ HandleToolCalls(e)
      \/ HandleTooLarge(e)
      \/ HandleProviderError(e)
  BY DEF HandleProviderEvent
<1>3. /\ history \in Seq(Message)
      /\ all_messages \in Seq(Message)
      /\ e \in ProviderEvent
  BY DEF TypeInv, TypeOK
<1> HIDE DEF e
<1>4. ASSUME NEW result, TakeResult(e, result)
      PROVE  /\ active_tool_batch = NoBatch /\ running_batch = 0
             /\ Unclosed(history) = {}
             /\ active_provider_request' = NoRequest
  BY <1>1, <1>4, RequestTurn
     DEF TakeResult, NoTools, HistoryInv, RequestKeepsClosed, ProviderIdle
<1>5. CASE \/ IgnoreProviderEvent(e, timer)
           \/ HandleStream(e, timer)
           \/ HandleRetry(e, timer)
           \/ HandleFinalResponse(e)
           \/ HandleProviderError(e)
  <2>1. /\ history' = history /\ disk' = disk
        /\ active_tool_batch' = active_tool_batch
    BY <1>5 DEF IgnoreProviderEvent, HandleStream, HandleRetry,
                HandleFinalResponse, HandleProviderError
  <2>2. active_provider_request' \in {NoRequest, active_provider_request}
    BY <1>5 DEF IgnoreProviderEvent, HandleStream, HandleRetry,
                HandleFinalResponse, HandleProviderError, TakeResult,
                WakeOrSchedule, CancelActiveProviderRequest
  <2> QED
    BY <1>1, <2>1, <2>2, HistoryKept
       DEF Rewritten, DiskFollows, BatchUndisturbed
<1>6. CASE HandleTooLarge(e)
  <2>1. /\ TakeResult(e, "TooLarge")
        /\ \/ /\ history' \in Shrunk(history, e.id.attempts)
              /\ PersistIfClosed(history', all_messages, next_turn_id,
                                 next_batch_id)
           \/ history' = history /\ disk' = disk
        /\ active_tool_batch' = active_tool_batch
    BY <1>6, Zenon DEF HandleTooLarge
  <2>2. DiskFollows
    BY <2>1, PersistFollows DEF DiskFollows
  <2>3. Rewritten
    BY <1>3, <2>1, ShrunkClosed DEF Rewritten
  <2>4. BatchUndisturbed
    BY <1>4, <2>1 DEF BatchUndisturbed
  <2>5. history # <<>> => history' # <<>>
    BY <2>3, RewrittenGood DEF HistoryInv
  <2> QED
    BY <1>1, <1>4, <2>1, <2>2, <2>3, <2>4, <2>5, HistoryKept
<1>7. CASE HandleToolCalls(e)
  <2> DEFINE m == [kind |-> "calls", turn |-> e.id.turn, ref |-> Position]
  <2>1. /\ active_tool_batch = NoBatch /\ running_batch = 0
        /\ Unclosed(history) = {}
        /\ active_provider_request' = NoRequest
    BY <1>4, <1>7 DEF HandleToolCalls
  <2>2. /\ history' = Append(history, m)
        /\ active_tool_batch'.call = Position
        /\ PersistIfClosed(history', all_messages', next_turn_id,
                           next_batch_id')
    BY <1>7, <2>1 DEF HandleToolCalls
  <2>3. m \in Message /\ m.kind = "calls" /\ IsCall(m, Position)
    BY <1>3, EventIdType DEF Position, Message, Kinds, IsCall
  <2> HIDE DEF m
  <2>4. GoodHistory(history') /\ history' # <<>>
    BY <1>3, <2>1, <2>2, <2>3, GoodAppend DEF HistoryInv
  <2>5. Position \in Unclosed(history')
    BY <1>3, <2>2, <2>3, UnclosedAppend
  <2>6. GoodHistory(disk'.history)
    BY <2>2, <2>4, PersistFollows DEF DiskFollows, HistoryInv
  <2> QED
    BY <1>1, <2>1, <2>2, <2>4, <2>5, <2>6
       DEF HistoryInv, BatchIsOpen, RequestKeepsClosed, ContextsAgree,
           ProviderIdle
<1> QED
  BY <1>2, <1>5, <1>6, <1>7

\* A provider event taken by the select, and a fired grace timer.
LEMMA HistoryEvents ==
    ASSUME TypeInv, TurnInv, HistoryInv,
           ReceiveProviderEvent \/ HandleGraceElapsed
    PROVE  /\ HistoryInv'
           /\ history # <<>> => history' # <<>>
<1>1. CASE /\ pc = "recv" /\ provider_event_rx # <<>>
           /\ \E t : HandleProviderEvent(Head(provider_event_rx), t)
  BY <1>1, HistoryProviderEvent
<1>2. CASE /\ pc = "recv"
           /\ UNCHANGED <<history, disk, active_tool_batch, session_context,
                          provider_context>>
           /\ \/ WakeOrSchedule(0, grace_elapsed)
              \/ active_provider_request' = active_provider_request
  <2>1. active_provider_request' \in {NoRequest, active_provider_request}
    BY <1>2 DEF WakeOrSchedule, CancelActiveProviderRequest
  <2> QED
    BY <1>2, <2>1, HistoryKept
       DEF Rewritten, DiskFollows, BatchUndisturbed, Alive
<1> QED
  BY <1>1, <1>2, Zenon DEF ReceiveProviderEvent, HandleGraceElapsed

\* The results of a tool batch answer the one open call.
LEMMA HistoryToolCompletion ==
    ASSUME TypeInv, TurnInv, HistoryInv, HandleToolCompletion
    PROVE  /\ HistoryInv'
           /\ history # <<>> => history' # <<>>
           /\ history' # history =>
                /\ Unclosed(history') = {} /\ history' # <<>>
                /\ ~ToolsIdle /\ ToolsIdle'
<1> DEFINE m == ResultsFor(active_tool_batch.call, active_tool_batch.turn)
<1>1. /\ pc = "recv"
      /\ UNCHANGED <<active_provider_request, session_context, provider_context>>
      /\ Alive
  BY DEF HandleToolCompletion, providerVars, Alive
<1>2. /\ history \in Seq(Message)
      /\ m \in Message
  BY DEF TypeInv, TypeOK, ToolBatch, ResultsFor, Message, Kinds
<1>3. CASE UNCHANGED <<history, disk, active_tool_batch>>
  BY <1>1, <1>3, HistoryKept DEF Rewritten, DiskFollows, BatchUndisturbed
<1>4. CASE /\ active_tool_batch # NoBatch
           /\ active_tool_batch' = NoBatch
           /\ history' = Append(history, m)
           /\ PersistIfClosed(history', all_messages', next_turn_id,
                              next_batch_id)
  <2>1. m.kind = "results" /\ m.ref = active_tool_batch.call
    BY DEF ResultsFor
  <2>2. m.ref \in Unclosed(history)
    BY <1>1, <1>4, <2>1 DEF HistoryInv, BatchIsOpen, ToolsIdle
  <2> HIDE DEF m
  <2>3. GoodHistory(history') /\ history' # <<>>
    BY <1>2, <1>4, <2>1, <2>2, GoodAppend DEF HistoryInv
  <2>4. Unclosed(history') = {}
    <3> SUFFICES ASSUME NEW s \in Unclosed(history') PROVE FALSE
      OBVIOUS
    <3>1. s \in Unclosed(history) /\ ~IsResult(m, s)
      BY <1>2, <1>4, <2>1, UnclosedAppend DEF IsCall
    <3>2. s = m.ref
      BY <2>2, <3>1 DEF HistoryInv, GoodHistory, AtMostOneOpen
    <3> QED
      BY <2>1, <3>1, <3>2 DEF IsResult
  <2>5. GoodHistory(disk'.history)
    BY <1>4, <2>3, PersistFollows DEF DiskFollows, HistoryInv
  <2> QED
    BY <1>1, <1>4, <2>3, <2>4, <2>5
       DEF HistoryInv, BatchIsOpen, RequestKeepsClosed, ContextsAgree, ToolsIdle
<1> QED
  BY <1>3, <1>4 DEF HandleToolCompletion

\* Every step keeps the history good, and only a start gives the provider
\* session a request: the current history, closed.
LEMMA HistoryStep ==
    ASSUME TypeInv, TurnInv, HistoryInv, [Next]_vars
    PROVE  /\ HistoryInv'
           /\ session_active' # session_active /\ session_active' # NoId =>
                /\ session_context' = history'
                /\ IsToolProtocolClosed(session_context')
<1>1. CASE StartProviderRequest
  BY <1>1, HistoryStart
<1>2. CASE Actor /\ ~StartProviderRequest
  <2>1. HistoryInv'
    BY <1>2, HistoryHandleInitial, HistoryHostSteps, HistoryAppends,
       HistoryEvents, HistoryToolCompletion DEF Actor
  <2>2. session_active' = session_active
    BY <1>2 DEF Actor, HandleInitial, HandleShutdown, HandleData,
       HandleCancelTurn, HandleContinueTurn, HandleCompactNow,
       DrainPendingData, AppendInput, AppendInputFails, PruneWhileAppending,
       AppendFinal, AppendFinalFails, AnnounceTurn, ReceiveProviderEvent,
       HandleGraceElapsed, HandleProviderEvent, HandleToolCompletion,
       providerVars
  <2> QED
    BY <2>1, <2>2
<1>3. CASE \/ \E kind \in Requests : SendRequest(kind)
           \/ \E id \in provider_threads, type \in {"Stream", "Retry"} :
                ProviderStreams(id, type)
           \/ \E result \in Results : ProviderCompletes(result)
           \/ ProviderAborts
           \/ WorkerCompletes
           \/ GraceWindowElapses
           \/ \E t \in timers : TimerFires(t)
           \/ UNCHANGED vars
  <2>1. /\ UNCHANGED <<actorVars, disk, session_context>>
        /\ session_active' \in {NoId, session_active}
    BY <1>3 DEF SendRequest, ProviderStreams, ProviderCompletes,
                ProviderAborts, WorkerCompletes, GraceWindowElapses,
                TimerFires, vars, hostVars, providerVars
  <2>2. HistoryInv'
    BY <2>1 DEF HistoryInv, BatchIsOpen, RequestKeepsClosed, ContextsAgree,
                ProviderIdle, ToolsIdle, Alive, actorVars
  <2> QED
    BY <2>1, <2>2
<1>4. CASE Crash
  <2>1. /\ UNCHANGED <<history, disk, active_provider_request,
                       active_tool_batch, session_context, provider_context,
                       session_active>>
        /\ Alive
    BY <1>4 DEF Crash, providerVars
  <2> QED
    BY <2>1, HistoryKept DEF Rewritten, DiskFollows, BatchUndisturbed
<1>5. CASE Restart
  <2>1. /\ history' = <<>> /\ disk' = disk
        /\ active_provider_request' = NoRequest
        /\ active_tool_batch' = NoBatch
        /\ session_context' = <<>>
        /\ provider_context' = NoContext
        /\ session_active' = NoId
    BY <1>5 DEF Restart
  <2>2. GoodHistory(<<>>)
    BY EmptyIsGood
  <2> QED
    BY <2>1, <2>2
       DEF HistoryInv, BatchIsOpen, RequestKeepsClosed, ContextsAgree,
           ProviderIdle, ToolsIdle, NoContext
<1> QED
  BY <1>1, <1>2, <1>3, <1>4, <1>5 DEF Next

\* A session starts with no history, and with a saved one that may end in the
\* middle of a tool round.
LEMMA HistoryInit == Init => HistoryInv
<1> SUFFICES ASSUME Init PROVE HistoryInv
  OBVIOUS
<1>1. /\ history = <<>>
      /\ active_provider_request = NoRequest
      /\ active_tool_batch = NoBatch
      /\ session_context = <<>>
      /\ provider_context = NoContext
      /\ disk = NoState \/ disk = LegacyState
  BY FlagsAssumption DEF Init
<1>2. GoodHistory(<<>>)
  BY EmptyIsGood
<1>3. GoodHistory(LegacyState.history)
  BY LegacyIsGood
<1>4. GoodHistory(disk.history)
  BY <1>1, <1>2, <1>3 DEF NoState
<1> QED
  BY <1>1, <1>2, <1>4
     DEF HistoryInv, BatchIsOpen, RequestKeepsClosed, ContextsAgree,
         ProviderIdle, ToolsIdle, NoContext

\* The history is good in every state.
THEOREM HistoryInvariant == Spec => []HistoryInv
<1>1. TypeInv /\ TurnInv /\ HistoryInv /\ [Next]_vars => HistoryInv'
  BY HistoryStep
<1> QED
  BY <1>1, HistoryInit, TypeInvariant, TurnInvariant, PTL DEF Spec

\* What start_current hands to the provider session is the actor's history at
\* that moment, also when the session's context is only extended, and every tool
\* call in it is answered.
THEOREM ProviderAlwaysSeesClosedHistory == Spec => ProviderSeesClosedHistory
<1>1. TypeInv /\ TurnInv /\ HistoryInv /\ [Next]_vars =>
        [session_active' # session_active /\ session_active' # NoId
           => /\ session_context' = history'
              /\ IsToolProtocolClosed(session_context')]_vars
  BY HistoryStep
<1> QED
  BY <1>1, HistoryInvariant, TypeInvariant, TurnInvariant, PTL
     DEF Spec, ProviderSeesClosedHistory

\* A request the session works on keeps its context.
LEMMA RequestContextKept ==
    ASSUME [Next]_vars, session_active # NoId, session_active' # NoId
    PROVE  session_context' = session_context
<1>1. CASE StartProviderRequest
  <2>1. PICK h, all, c : Launch(h, all, c) \/ Shrink(h, c) \/ StartFails(c)
    BY <1>1, Zenon DEF StartProviderRequest
  <2> QED
    BY <2>1 DEF Launch, Shrink, StartFails
<1>2. CASE Actor /\ ~StartProviderRequest
  BY <1>2 DEF Actor, HandleInitial, HandleShutdown, HandleData,
     HandleCancelTurn, HandleContinueTurn, HandleCompactNow,
     DrainPendingData, AppendInput, AppendInputFails, PruneWhileAppending,
     AppendFinal, AppendFinalFails, AnnounceTurn, ReceiveProviderEvent,
     HandleGraceElapsed, HandleProviderEvent, HandleToolCompletion,
     providerVars
<1>3. CASE ~Actor
  BY <1>3 DEF Next, SendRequest, ProviderStreams, ProviderCompletes,
              ProviderAborts, WorkerCompletes, GraceWindowElapses,
              TimerFires, Crash, Restart, vars, hostVars, providerVars
<1> QED
  BY <1>1, <1>2, <1>3

\* Every tool call in the request the provider works on is answered, also when
\* the session.json it was built from ends in the middle of a tool round.
THEOREM RequestAlwaysClosed == Spec => []RequestIsClosed
<1>1. Init => RequestIsClosed
  BY DEF Init, RequestIsClosed
<1>2. TypeInv /\ TurnInv /\ HistoryInv /\ RequestIsClosed /\ [Next]_vars
        => RequestIsClosed'
  <2> SUFFICES ASSUME TypeInv, TurnInv, HistoryInv, RequestIsClosed,
                      [Next]_vars, session_active' # NoId
               PROVE  IsToolProtocolClosed(session_context')
    BY DEF RequestIsClosed
  <2>1. CASE session_active' # session_active
    BY <2>1, HistoryStep
  <2>2. CASE session_active' = session_active
    BY <2>2, RequestContextKept DEF RequestIsClosed
  <2> QED
    BY <2>1, <2>2
<1> QED
  BY <1>1, <1>2, HistoryInvariant, TypeInvariant, TurnInvariant, PTL DEF Spec

\* The two together: whatever is compacted, pruned, retried or restored, the
\* transcript only grows and the provider works on the current, closed history.
THEOREM HistoryAlwaysFaithful == Spec => HistoryIsFaithful
  BY TranscriptRefined, ProviderAlwaysSeesClosedHistory DEF HistoryIsFaithful

-----------------------------------------------------------------------------
(***************************************************************************)
(* Saved turn numbers                                                      *)
(***************************************************************************)
TurnsBelow(s, n) == \A i \in 1..Len(s) : s[i].turn < n

\* Neither in memory nor on disk is there a message of a turn that is to come.
TurnsInv ==
    /\ initial => TurnsBelow(all_messages, next_turn_id)
    /\ TurnsBelow(disk.all_messages, disk.next_turn_id)

\* A step that leaves the transcript and its copy alone; it may begin a turn.
TurnsQuiet ==
    /\ UNCHANGED <<initial, all_messages, disk>>
    /\ next_turn_id' \in {next_turn_id, next_turn_id + 1}

\* A step that may append a message of a turn that was begun, and may save.
TurnsGrow ==
    /\ initial /\ initial'
    /\ next_turn_id' = next_turn_id
    /\ \/ all_messages' = all_messages
       \/ \E m \in Message : /\ m.turn < next_turn_id
                             /\ all_messages' = Append(all_messages, m)
    /\ \/ disk' = disk
       \/ \E h, b : PersistIfClosed(h, all_messages', next_turn_id, b)

LEMMA TurnsKept ==
    ASSUME TypeInv, TurnsInv, TurnsQuiet \/ TurnsGrow
    PROVE  TurnsInv'
<1>1. /\ all_messages \in Seq(Message)
      /\ next_turn_id \in Nat
  BY DEF TypeInv, TypeOK
<1>2. \A i \in 1..Len(all_messages) : all_messages[i].turn \in Nat
  <2>1. \A i \in 1..Len(all_messages) : all_messages[i] \in Message
    BY <1>1
  <2> QED
    BY <2>1 DEF Message
<1>3. CASE TurnsQuiet
  BY <1>1, <1>2, <1>3 DEF TurnsQuiet, TurnsInv, TurnsBelow
<1>4. CASE TurnsGrow
  <2>1. TurnsBelow(all_messages', next_turn_id)
    <3>1. ASSUME NEW m \in Message, m.turn < next_turn_id
          PROVE  TurnsBelow(Append(all_messages, m), next_turn_id)
      BY <1>1, <1>4, <3>1 DEF TurnsBelow, TurnsInv, TurnsGrow
    <3> QED
      BY <1>4, <3>1 DEF TurnsGrow, TurnsInv
  <2>2. TurnsBelow(disk'.all_messages, disk'.next_turn_id)
    <3>1. \/ disk' = disk
          \/ /\ disk'.all_messages = all_messages'
             /\ disk'.next_turn_id = next_turn_id
      BY <1>4 DEF TurnsGrow, PersistIfClosed
    <3> QED
      BY <2>1, <3>1 DEF TurnsInv
  <2> QED
    BY <1>4, <2>1, <2>2 DEF TurnsInv, TurnsGrow
<1> QED
  BY <1>3, <1>4

\* The repair appends a message of the turn it is given.
LEMMA RepairTurn ==
    ASSUME NEW h, NEW g \in Seq(Message), NEW turn \in Nat
    PROVE  \/ Repair(h, Unclosed(g), turn) = h
           \/ \E m \in Message : /\ m.turn = turn
                                 /\ Repair(h, Unclosed(g), turn) = Append(h, m)
<1>1. CASE Unclosed(g) = {}
  BY <1>1 DEF Repair
<1>2. CASE Unclosed(g) # {}
  <2>1. PICK r \in Unclosed(g) : r = CHOOSE x \in Unclosed(g) : TRUE
    BY <1>2
  <2>2. PICK i \in 1..Len(g) : g[i].ref = r
    BY UnclosedMember DEF IsCall
  <2>3. g[i] \in Message
    BY <2>2
  <2>4. ResultsFor(r, turn) \in Message /\ ResultsFor(r, turn).turn = turn
    BY <2>2, <2>3 DEF ResultsFor, Message, Kinds
  <2>5. Repair(h, Unclosed(g), turn) = Append(h, ResultsFor(r, turn))
    BY <1>2, <2>1 DEF Repair
  <2> QED
    BY <2>4, <2>5
<1> QED
  BY <1>1, <1>2

\* The host's requests but the Initial, and the turns they begin.
LEMMA TurnsHostSteps ==
    ASSUME TypeInv, LogInv,
           \/ HandleShutdown
           \/ \E kind \in DataKinds : HandleData(kind)
           \/ HandleCancelTurn
           \/ HandleContinueTurn
           \/ DrainPendingData
           \/ HandleCompactNow
    PROVE  TurnsQuiet \/ TurnsGrow
<1>1. CASE HandleShutdown \/ HandleCancelTurn
  BY <1>1 DEF HandleShutdown, HandleCancelTurn, TurnsQuiet
<1>2. CASE \E kind \in DataKinds : HandleData(kind)
  BY <1>2 DEF HandleData, TurnsQuiet
<1>3. CASE HandleContinueTurn \/ DrainPendingData
  BY <1>3 DEF HandleContinueTurn, DrainPendingData, BeginTurn, TurnsQuiet
<1>4. CASE HandleCompactNow
  <2>1. /\ pc = "recv"
        /\ UNCHANGED <<initial, all_messages, next_turn_id>>
    BY <1>4 DEF HandleCompactNow, Receive
  <2>2. CASE UNCHANGED disk
    BY <2>1, <2>2 DEF TurnsQuiet
  <2>3. CASE /\ history' \in Compactions(history)
             /\ PersistIfClosed(history', all_messages, next_turn_id,
                                next_batch_id)
    <3>1. initial
      BY <2>1, <2>3, NoCompaction DEF LogInv, EmptyBeforeInitial, Alive
    <3> QED
      BY <2>1, <2>3, <3>1 DEF TurnsGrow
  <2> QED
    BY <1>4, <2>2, <2>3 DEF HandleCompactNow
<1> QED
  BY <1>1, <1>2, <1>3, <1>4

\* The messages of a turn carry its number.
LEMMA TurnsAppends ==
    ASSUME TypeInv, TurnInv, RequestInv,
           \/ PruneWhileAppending
           \/ AppendInput
           \/ AppendInputFails
           \/ AnnounceTurn
           \/ AppendFinal
           \/ AppendFinalFails
           \/ StartProviderRequest
    PROVE  TurnsGrow
<1>1. /\ pc \in {"input", "announce", "final", "start"}
      /\ UNCHANGED <<initial, next_turn_id>>
  BY DEF PruneWhileAppending, AppendInput, AppendInputFails, AnnounceTurn,
         AppendFinal, AppendFinalFails, StartProviderRequest
<1>2. /\ initial
      /\ frame.turn \in Nat /\ frame.turn < next_turn_id
      /\ history \in Seq(Message)
  BY <1>1, BusyTurn
     DEF TypeInv, TypeOK, Frame, RequestInv, IdsInOrder, FrameIsFresh, IsTurn,
         Alive
<1>3. \/ disk' = disk
      \/ \E h, b : PersistIfClosed(h, all_messages', next_turn_id, b)
  BY Zenon DEF PruneWhileAppending, AppendInput, AppendInputFails, AnnounceTurn,
         AppendFinal, AppendFinalFails, StartProviderRequest
<1>4. \/ all_messages' = all_messages
      \/ \E m \in Message : /\ m.turn = frame.turn
                            /\ all_messages' = Append(all_messages, m)
  <2>1. CASE AnnounceTurn
    BY <2>1 DEF AnnounceTurn
  <2>2. CASE StartProviderRequest
    <3>1. all_messages' = Repair(all_messages, Unclosed(history), frame.turn)
      BY <2>2 DEF StartProviderRequest
    <3> QED
      BY <1>2, <3>1, RepairTurn
  <2>3. CASE /\ pc \in {"input", "final"}
             /\ all_messages' \in {all_messages, Transcribed}
    <3>1. CurrentMessage \in Message
      BY <2>3, CurrentMessageType
    <3>2. CurrentMessage.turn = frame.turn
      BY DEF CurrentMessage
    <3> QED
      BY <2>3, <3>1, <3>2 DEF Transcribed
  <2> QED
    BY <2>1, <2>2, <2>3
       DEF PruneWhileAppending, AppendInput, AppendInputFails, AppendFinal,
           AppendFinalFails
<1> QED
  BY <1>1, <1>2, <1>3, <1>4 DEF TurnsGrow

\* A response with tool calls belongs to the turn of its request.
LEMMA TurnsProviderEvent ==
    ASSUME TypeInv, TurnInv, RequestInv, pc = "recv", NEW timer,
           provider_event_rx # <<>>,
           HandleProviderEvent(Head(provider_event_rx), timer)
    PROVE  TurnsQuiet \/ TurnsGrow
<1> DEFINE e == Head(provider_event_rx)
<1>1. UNCHANGED <<initial, next_turn_id>>
  BY DEF HandleProviderEvent
<1>2. \/ IgnoreProviderEvent(e, timer)
      \/ HandleStream(e, timer)
      \/ HandleRetry(e, timer)
      \/ HandleFinalResponse(e)
      \/ HandleToolCalls(e)
      \/ HandleTooLarge(e)
      \/ HandleProviderError(e)
  BY DEF HandleProviderEvent
<1>3. e \in ProviderEvent /\ all_messages \in Seq(Message)
  BY DEF TypeInv, TypeOK
<1> HIDE DEF e
<1>4. CASE \/ IgnoreProviderEvent(e, timer)
           \/ HandleStream(e, timer)
           \/ HandleRetry(e, timer)
           \/ HandleFinalResponse(e)
           \/ HandleProviderError(e)
  BY <1>1, <1>4
     DEF IgnoreProviderEvent, HandleStream, HandleRetry, HandleFinalResponse,
         HandleProviderError, TurnsQuiet
<1>5. ASSUME NEW result, TakeResult(e, result)
      PROVE  initial /\ running_batch = 0 /\ e.id.turn < next_turn_id
  BY <1>5, RequestTurn
     DEF TakeResult, NoTools, RequestInv, IdsInOrder, ActiveIsNewest, IsTurn,
         ProviderIdle, Alive
<1>6. CASE HandleTooLarge(e)
  <2>1. /\ initial
        /\ all_messages' = all_messages
        /\ \/ disk' = disk
           \/ PersistIfClosed(history', all_messages, next_turn_id,
                              next_batch_id)
    BY <1>5, <1>6, Zenon DEF HandleTooLarge
  <2> QED
    BY <1>1, <2>1 DEF TurnsGrow
<1>7. CASE HandleToolCalls(e)
  <2> DEFINE m == [kind |-> "calls", turn |-> e.id.turn, ref |-> Position]
  <2>1. initial /\ running_batch = 0 /\ e.id.turn < next_turn_id
    BY <1>5, <1>7 DEF HandleToolCalls
  <2>2. /\ all_messages' = Append(all_messages, m)
        /\ PersistIfClosed(history', all_messages', next_turn_id,
                           next_batch_id')
    BY <1>7, <2>1 DEF HandleToolCalls
  <2>3. m \in Message /\ m.turn = e.id.turn
    BY <1>3, EventIdType DEF Position, Message, Kinds
  <2> QED
    BY <1>1, <2>1, <2>2, <2>3 DEF TurnsGrow
<1> QED
  BY <1>2, <1>4, <1>6, <1>7

\* The results of a tool batch belong to the turn of the batch.
LEMMA TurnsToolCompletion ==
    ASSUME TypeInv, TurnInv, RequestInv, HandleToolCompletion
    PROVE  TurnsQuiet \/ TurnsGrow
<1> DEFINE m == ResultsFor(active_tool_batch.call, active_tool_batch.turn)
<1>1. pc = "recv" /\ UNCHANGED <<initial, next_turn_id>>
  BY DEF HandleToolCompletion
<1>2. CASE UNCHANGED <<all_messages, disk>>
  BY <1>1, <1>2 DEF TurnsQuiet
<1>3. CASE /\ active_tool_batch # NoBatch
           /\ all_messages' = Append(all_messages, m)
           /\ PersistIfClosed(history', all_messages', next_turn_id,
                              next_batch_id)
  <2>1. m \in Message /\ m.turn = active_tool_batch.turn
    BY DEF TypeInv, TypeOK, ToolBatch, ResultsFor, Message, Kinds
  <2>2. active_tool_batch.turn < next_turn_id
    BY <1>1, <1>3 DEF RequestInv, IdsInOrder, BatchIsFresh, IsTurn, ToolsIdle,
                      Alive
  <2>3. initial
    BY <1>1, <1>3 DEF TurnInv, NothingBeforeInitial, Alive, ToolsIdle
  <2> QED
    BY <1>1, <1>3, <2>1, <2>2, <2>3 DEF TurnsGrow
<1> QED
  BY <1>2, <1>3 DEF HandleToolCompletion

LEMMA TurnsStep ==
    ASSUME TypeInv, TurnInv, LogInv, RequestInv, TurnsInv, [Next]_vars
    PROVE  TurnsInv'
<1>1. CASE HandleInitial
  <2>1. CASE initial
    BY <1>1, <2>1, TurnsKept DEF HandleInitial, TurnsQuiet
  <2>2. CASE ~initial
    <3>1. /\ all_messages' = disk.all_messages
          /\ next_turn_id' = disk.next_turn_id
          /\ disk' = [disk EXCEPT !.saved = TRUE]
      BY <1>1, <2>2 DEF HandleInitial
    <3>2. /\ disk'.all_messages = disk.all_messages
          /\ disk'.next_turn_id = disk.next_turn_id
      BY <3>1 DEF TypeInv, TypeOK, PersistedState
    <3> QED
      BY <3>1, <3>2 DEF TurnsInv
  <2> QED
    BY <2>1, <2>2
<1>2. CASE ReceiveProviderEvent \/ HandleGraceElapsed
  <2>1. \/ /\ pc = "recv" /\ provider_event_rx # <<>>
           /\ \E t : HandleProviderEvent(Head(provider_event_rx), t)
        \/ UNCHANGED <<initial, all_messages, disk, next_turn_id>>
    BY <1>2, Zenon DEF ReceiveProviderEvent, HandleGraceElapsed
  <2> QED
    BY <2>1, TurnsProviderEvent, TurnsKept DEF TurnsQuiet
<1>3. CASE Actor /\ ~HandleInitial /\ ~(ReceiveProviderEvent \/ HandleGraceElapsed)
  <2>1. TurnsQuiet \/ TurnsGrow
    BY <1>3, TurnsHostSteps, TurnsAppends, TurnsToolCompletion DEF Actor
  <2> QED
    BY <2>1, TurnsKept
<1>4. CASE \/ \E kind \in Requests : SendRequest(kind)
           \/ \E id \in provider_threads, type \in {"Stream", "Retry"} :
                ProviderStreams(id, type)
           \/ \E result \in Results : ProviderCompletes(result)
           \/ ProviderAborts
           \/ WorkerCompletes
           \/ GraceWindowElapses
           \/ \E t \in timers : TimerFires(t)
           \/ Crash
           \/ UNCHANGED vars
  <2>1. TurnsQuiet
    BY <1>4 DEF SendRequest, ProviderStreams, ProviderCompletes,
                ProviderAborts, WorkerCompletes, GraceWindowElapses,
                TimerFires, Crash, vars, hostVars, actorVars, TurnsQuiet
  <2> QED
    BY <2>1, TurnsKept
<1>5. CASE Restart
  BY <1>5 DEF Restart, TurnsInv
<1> QED
  BY <1>1, <1>2, <1>3, <1>4, <1>5 DEF Next

LEMMA TurnsInit == Init => TurnsInv
<1> SUFFICES ASSUME Init PROVE TurnsInv
  OBVIOUS
<1>1. ~initial /\ (disk = NoState \/ disk = LegacyState)
  BY FlagsAssumption DEF Init
<1>2. CASE disk = NoState
  BY <1>1, <1>2 DEF NoState, TurnsInv, TurnsBelow
<1>3. CASE disk = LegacyState
  <2>1. Len(disk.all_messages) = 2 /\ disk.next_turn_id = 2
    BY <1>3 DEF LegacyState
  <2>2. disk.all_messages[1].turn = 1 /\ disk.all_messages[2].turn = 1
    BY <1>3 DEF LegacyState
  <2> QED
    BY <1>1, <2>1, <2>2 DEF TurnsInv, TurnsBelow
<1> QED
  BY <1>1, <1>2, <1>3

-----------------------------------------------------------------------------
(***************************************************************************)
(* What a crash leaves                                                     *)
(***************************************************************************)
\* For a session that was never saved in the middle of a tool round: nothing but
\* a running batch keeps a call open, so everything else is saved when it is
\* done, before the host is told.
SavedInv ==
    /\ Unclosed(disk.history) = {}
    /\ Alive /\ ToolsIdle => Unclosed(history) = {}
    /\ pc = "announce" => disk.all_messages = all_messages
    /\ ShownIsDurable

\* A step that neither saves nor shows.
LEMMA SavedKept ==
    ASSUME TypeInv, HistoryInv, SavedInv, Alive' => Alive, Rewritten, BatchUndisturbed,
           ToolsIdle' => ToolsIdle, pc' # "announce",
           client'.seen = client.seen, disk' = disk
    PROVE  SavedInv'
<1>1. Unclosed(history') \subseteq Unclosed(history)
  BY RewrittenGood DEF HistoryInv
<1>2. Unclosed(disk'.history) = {}
  BY DEF SavedInv
<1>3. Alive' /\ ToolsIdle' => Unclosed(history') = {}
  BY <1>1 DEF SavedInv
<1>4. ShownIsDurable'
  BY DEF SavedInv, ShownIsDurable, BatchUndisturbed, ToolsIdle
<1> QED
  BY <1>2, <1>3, <1>4 DEF SavedInv

\* A step after which everything is saved.
LEMMA SavedAll ==
    ASSUME LogInv', initial', Unclosed(history') = {},
           disk'.history = history', disk'.all_messages = all_messages',
           all_messages' \in Seq(Message)
    PROVE  SavedInv'
<1>1. client'.seen \subseteq 1..Len(all_messages')
  BY DEF LogInv, ShownExists, TheLog
<1>2. ShownIsDurable'
  BY <1>1 DEF ShownIsDurable
<1> QED
  BY <1>2 DEF SavedInv

\* persist_state_if_history_closed saves a closed history.
LEMMA PersistSaves ==
    ASSUME NEW t, NEW b, Unclosed(history') = {},
           PersistIfClosed(history', all_messages', t, b)
    PROVE  disk'.history = history' /\ disk'.all_messages = all_messages'
  BY DEF PersistIfClosed

LEMMA SavedHandleInitial ==
    ASSUME TypeInv, TypeInv', LogInv', HistoryInv, SavedInv, HandleInitial
    PROVE  SavedInv'
<1>1. /\ pc = "recv" /\ pc' # "announce"
      /\ active_tool_batch' = active_tool_batch
  BY DEF HandleInitial, Receive, Settle
<1>2. CASE initial
  <2>1. history' = history /\ disk' = disk /\ client' = client
    BY <1>2 DEF HandleInitial
  <2> QED
    BY <1>1, <2>1, SavedKept DEF Rewritten, BatchUndisturbed, Alive, ToolsIdle
<1>3. CASE ~initial
  <2>1. /\ initial'
        /\ history' = disk.history
        /\ all_messages' = disk.all_messages
        /\ disk' = [disk EXCEPT !.saved = TRUE]
    BY <1>3 DEF HandleInitial
  <2>2. disk'.history = disk.history /\ disk'.all_messages = disk.all_messages
    BY <2>1 DEF TypeInv, TypeOK, PersistedState
  <2>3. all_messages' \in Seq(Message)
    BY DEF TypeInv, TypeOK
  <2> QED
    BY <2>1, <2>2, <2>3, SavedAll DEF SavedInv
<1> QED
  BY <1>2, <1>3

\* An interrupt leaves the batch running.
LEMMA InterruptKeepsRunning ==
    ASSUME TypeInv, history' = history,
           \/ active_tool_batch' = active_tool_batch
           \/ \E i : InterruptActiveTools(i)
    PROVE  BatchUndisturbed /\ (ToolsIdle' => ToolsIdle)
<1>1. \/ active_tool_batch' = active_tool_batch
      \/ /\ active_tool_batch # NoBatch
         /\ \E i : /\ active_tool_batch' = [active_tool_batch EXCEPT !.interrupt = i]
                   /\ active_tool_batch.interrupt = "None"
                   /\ InterruptActiveTools(i)
  BY Zenon DEF InterruptActiveTools
<1>2. active_tool_batch \in ToolBatch
  BY DEF TypeInv, TypeOK
<1>3. CASE active_tool_batch' = active_tool_batch
  BY <1>3 DEF BatchUndisturbed, ToolsIdle
<1>4. ASSUME NEW i, active_tool_batch # NoBatch,
             active_tool_batch' = [active_tool_batch EXCEPT !.interrupt = i],
             active_tool_batch.interrupt = "None"
      PROVE  BatchUndisturbed /\ active_tool_batch' # NoBatch
  <2>1. active_tool_batch'.call = active_tool_batch.call
    BY <1>2, <1>4 DEF ToolBatch
  <2>2. ASSUME active_tool_batch' = NoBatch PROVE FALSE
    <3>1. i = "None"
      BY <1>2, <1>4, <2>2 DEF ToolBatch, NoBatch
    <3>2. active_tool_batch' = active_tool_batch
      BY <1>2, <1>4, <3>1 DEF ToolBatch
    <3> QED
      BY <1>4, <2>2, <3>2
  <2> QED
    BY <1>4, <2>1, <2>2 DEF BatchUndisturbed
<1> QED
  BY <1>1, <1>3, <1>4 DEF ToolsIdle

\* The other requests of the host show nothing; a compaction is saved.
LEMMA SavedHostSteps ==
    ASSUME TypeInv, TypeInv', LogInv, LogInv', HistoryInv, SavedInv,
           \/ HandleShutdown
           \/ \E kind \in DataKinds : HandleData(kind)
           \/ HandleCancelTurn
           \/ HandleContinueTurn
           \/ DrainPendingData
           \/ HandleCompactNow
    PROVE  SavedInv'
<1>1. Rewritten /\ Alive
  BY HistoryHostSteps
     DEF HandleShutdown, HandleData, HandleCancelTurn, HandleContinueTurn,
         DrainPendingData, HandleCompactNow, Receive, Alive
<1>2. pc' # "announce"
  <2>1. CASE HandleShutdown \/ DrainPendingData \/ HandleCompactNow
    BY <2>1 DEF HandleShutdown, DrainPendingData, HandleCompactNow, Die,
                BeginTurn, Settle
  <2>2. CASE \E kind \in DataKinds : HandleData(kind)
    BY <2>2 DEF HandleData, InterruptActiveTools, Die, Settle
  <2>3. CASE HandleCancelTurn
    BY <2>3 DEF HandleCancelTurn, CancelActiveProviderRequest,
                InterruptActiveTools, Die, Settle
  <2>4. CASE HandleContinueTurn
    BY <2>4 DEF HandleContinueTurn, BeginTurn, Die, Settle
  <2> QED
    BY <2>1, <2>2, <2>3, <2>4
<1>3. CASE ~HandleCompactNow
  <2>1. client'.seen = client.seen
    BY <1>3, LogRequests DEF Quiet
  <2>2. /\ history' = history /\ disk' = disk
        /\ \/ active_tool_batch' = active_tool_batch
           \/ \E i : InterruptActiveTools(i)
    BY <1>3, Zenon DEF HandleShutdown, HandleData, HandleCancelTurn,
                       HandleContinueTurn, DrainPendingData
  <2>3. BatchUndisturbed /\ (ToolsIdle' => ToolsIdle)
    BY <2>2, InterruptKeepsRunning
  <2> QED
    BY <1>1, <1>2, <2>1, <2>2, <2>3, SavedKept
<1>4. CASE HandleCompactNow
  <2>1. /\ UNCHANGED <<initial, all_messages, active_tool_batch, client>>
        /\ pc = "recv"
    BY <1>4 DEF HandleCompactNow, Receive
  <2>2. CASE UNCHANGED <<history, disk>>
    BY <1>1, <1>2, <2>1, <2>2, SavedKept DEF BatchUndisturbed, ToolsIdle
  <2>3. CASE /\ history' \in Compactions(history)
             /\ PersistIfClosed(history', all_messages, next_turn_id,
                                next_batch_id)
    <3>1. initial
      BY <2>1, <2>3, NoCompaction DEF LogInv, EmptyBeforeInitial, Alive
    <3>2. history \in Seq(Message) /\ all_messages' \in Seq(Message)
      BY DEF TypeInv, TypeOK
    <3>3. Unclosed(history') = {}
      BY <2>3, <3>2, CompactionsClosed DEF IsToolProtocolClosed
    <3> QED
      BY <2>1, <2>3, <3>1, <3>2, <3>3, PersistSaves, SavedAll
  <2> QED
    BY <1>4, <2>2, <2>3 DEF HandleCompactNow
<1> QED
  BY <1>3, <1>4

\* The messages of a turn are saved before they are announced.
LEMMA SavedAppends ==
    ASSUME TypeInv, TypeInv', TurnInv, LogInv', HistoryInv, SavedInv,
           \/ PruneWhileAppending
           \/ AppendInput
           \/ AppendInputFails
           \/ AnnounceTurn
           \/ AppendFinal
           \/ AppendFinalFails
    PROVE  SavedInv'
<1>1. /\ UNCHANGED <<initial, active_tool_batch>>
      /\ Alive
      /\ pc \in {"input", "announce", "final"}
  BY DEF PruneWhileAppending, AppendInput, AppendInputFails, AnnounceTurn,
         AppendFinal, AppendFinalFails, Alive
<1>2. /\ initial'
      /\ active_tool_batch = NoBatch
      /\ history \in Seq(Message) /\ all_messages' \in Seq(Message)
      /\ client \in Client
  BY <1>1, BusyTurn DEF NoTools, TypeInv, TypeOK
<1>3. Rewritten
  BY HistoryAppends
<1>4. Unclosed(history') = {}
  BY <1>1, <1>2, <1>3, RewrittenGood DEF SavedInv, HistoryInv, ToolsIdle
<1>5. CASE PruneWhileAppending \/ AppendInput \/ AppendFinal
  <2>1. PersistIfClosed(history', all_messages', next_turn_id, next_batch_id)
    BY <1>5 DEF PruneWhileAppending, AppendInput, AppendFinal
  <2> QED
    BY <1>2, <1>4, <2>1, PersistSaves, SavedAll
<1>6. CASE AppendInputFails \/ AppendFinalFails
  <2>1. client'.seen = client.seen
    BY <1>2, <1>6, ErrorsShowNothing DEF AppendInputFails, AppendFinalFails
  <2>2. disk' = disk /\ pc' # "announce"
    BY <1>6 DEF AppendInputFails, AppendFinalFails, FinishTurnError, Die, Settle
  <2> QED
    BY <1>1, <1>2, <1>3, <2>1, <2>2, SavedKept DEF BatchUndisturbed, ToolsIdle
<1>7. CASE AnnounceTurn
  <2>1. /\ pc = "announce" /\ pc' # "announce"
        /\ UNCHANGED <<disk, all_messages>>
    BY <1>7 DEF AnnounceTurn
  <2>2. disk'.all_messages = all_messages'
    BY <2>1 DEF SavedInv
  <2>3. client'.seen \subseteq 1..Len(all_messages')
    BY <1>2 DEF LogInv, ShownExists, TheLog
  <2>4. ShownIsDurable'
    BY <1>2, <2>2, <2>3 DEF ShownIsDurable
  <2> QED
    BY <1>4, <2>1, <2>4 DEF SavedInv
<1> QED
  BY <1>5, <1>6, <1>7

\* Nothing is left to repair; a shrunk history is saved.
LEMMA SavedStart ==
    ASSUME TypeInv, TypeInv', TurnInv, LogInv', HistoryInv, SavedInv,
           StartProviderRequest
    PROVE  SavedInv'
<1>1. /\ pc = "start" /\ Alive
      /\ UNCHANGED <<initial, active_tool_batch>>
  BY DEF StartProviderRequest, Alive
<1>2. /\ initial'
      /\ active_tool_batch = NoBatch
      /\ all_messages' \in Seq(Message)
      /\ client \in Client
  BY <1>1, BusyTurn DEF NoTools, TypeInv, TypeOK
<1>3. Rewritten
  BY HistoryStart
<1>4. Unclosed(history) = {} /\ Unclosed(history') = {}
  BY <1>1, <1>2, <1>3, RewrittenGood DEF SavedInv, HistoryInv, ToolsIdle
<1>5. /\ all_messages' = all_messages
      /\ \/ Launch(history, all_messages, client)
         \/ Shrink(history, client)
         \/ StartFails(client)
      /\ \/ disk' = disk
         \/ PersistIfClosed(history', all_messages, next_turn_id, next_batch_id)
  BY <1>4 DEF StartProviderRequest, Repair
<1>6. /\ \/ client' = client
         \/ \E b : client' = TurnFailed(client, b)
      /\ pc' # "announce"
  <2>1. CASE StartFails(client)
    BY <2>1 DEF StartFails, FinishTurnError, Die, Settle
  <2>2. CASE Shrink(history, client)
    BY <1>1, <2>2 DEF Shrink
  <2>3. CASE Launch(history, all_messages, client) /\ ~StartFails(client)
    BY <2>3 DEF Launch
  <2> QED
    BY <1>5, <2>1, <2>2, <2>3
<1>7. client'.seen = client.seen
  BY <1>2, <1>6, ClientSeen
<1>8. CASE disk' = disk
  BY <1>1, <1>2, <1>3, <1>6, <1>7, <1>8, SavedKept DEF BatchUndisturbed, ToolsIdle
<1>9. CASE PersistIfClosed(history', all_messages, next_turn_id, next_batch_id)
  BY <1>2, <1>4, <1>5, <1>9, PersistSaves, SavedAll
<1> QED
  BY <1>5, <1>8, <1>9

\* A response with tool calls is shown and not saved: it is the running batch's.
LEMMA SavedProviderEvent ==
    ASSUME TypeInv, TypeInv', TurnInv, LogInv', HistoryInv, SavedInv,
           pc = "recv", NEW timer, provider_event_rx # <<>>,
           HandleProviderEvent(Head(provider_event_rx), timer)
    PROVE  SavedInv'
<1> DEFINE e == Head(provider_event_rx)
<1>1. initial' = initial /\ Alive
  BY DEF HandleProviderEvent, Alive
<1>2. \/ IgnoreProviderEvent(e, timer)
      \/ HandleStream(e, timer)
      \/ HandleRetry(e, timer)
      \/ HandleFinalResponse(e)
      \/ HandleToolCalls(e)
      \/ HandleTooLarge(e)
      \/ HandleProviderError(e)
  BY DEF HandleProviderEvent
<1>3. /\ history \in Seq(Message)
      /\ all_messages \in Seq(Message) /\ all_messages' \in Seq(Message)
      /\ client \in Client
      /\ e \in ProviderEvent
  <2>1. TypeOK /\ TypeOK'
    BY DEF TypeInv
  <2>2. all_messages' \in Seq(Message)
    BY <2>1 DEF TypeOK
  <2>3. e \in ProviderEvent
    BY RequestTypes
  <2>4. /\ history \in Seq(Message) /\ all_messages \in Seq(Message)
        /\ client \in Client
    BY <2>1 DEF TypeOK
  <2> QED
    BY <2>2, <2>3, <2>4
<1> HIDE DEF e
<1>4. ASSUME NEW result, TakeResult(e, result)
      PROVE  active_tool_batch = NoBatch /\ running_batch = 0 /\ initial
  BY <1>4, RequestTurn DEF TakeResult, NoTools
<1>5. CASE \/ IgnoreProviderEvent(e, timer)
           \/ HandleStream(e, timer)
           \/ HandleRetry(e, timer)
           \/ HandleFinalResponse(e)
           \/ HandleProviderError(e)
  <2>1. /\ history' = history /\ disk' = disk
        /\ active_tool_batch' = active_tool_batch
    BY <1>5 DEF IgnoreProviderEvent, HandleStream, HandleRetry,
                HandleFinalResponse, HandleProviderError
  <2>2. \/ client' = client
        \/ \E t, x : WakeOrSchedule(t, x)
        \/ \E x : FinishTurnError(client, x)
    BY <1>5, Zenon DEF IgnoreProviderEvent, HandleStream, HandleRetry,
                HandleFinalResponse, HandleProviderError
  <2>3. client'.seen = client.seen
    BY <1>3, <2>2, ErrorsShowNothing
  <2>4. pc' # "announce"
    BY <1>5 DEF IgnoreProviderEvent, HandleStream, HandleRetry,
                HandleFinalResponse, HandleProviderError, FinishTurnError,
                WakeOrSchedule, CancelActiveProviderRequest, Settle
  <2> QED
    BY <1>1, <2>1, <2>3, <2>4, SavedKept DEF Rewritten, BatchUndisturbed, ToolsIdle
<1>6. CASE HandleTooLarge(e)
  <2>1. /\ active_tool_batch = NoBatch /\ initial
        /\ all_messages' = all_messages
        /\ active_tool_batch' = active_tool_batch
        /\ \/ /\ history' \in Shrunk(history, e.id.attempts)
              /\ PersistIfClosed(history', all_messages, next_turn_id,
                                 next_batch_id)
           \/ /\ history' = history /\ disk' = disk
              /\ FinishTurnError(client, CurrentHistory)
    BY <1>4, <1>6, Zenon DEF HandleTooLarge
  <2>2. CASE /\ history' \in Shrunk(history, e.id.attempts)
             /\ PersistIfClosed(history', all_messages, next_turn_id,
                                next_batch_id)
    <3>1. Unclosed(history') = {}
      BY <1>3, <2>2, ShrunkClosed DEF IsToolProtocolClosed
    <3> QED
      BY <1>1, <1>3, <2>1, <2>2, <3>1, PersistSaves, SavedAll
  <2>3. CASE /\ history' = history /\ disk' = disk
             /\ FinishTurnError(client, CurrentHistory)
    <3>1. client'.seen = client.seen
      BY <1>3, <2>3, ErrorsShowNothing
    <3>2. pc' # "announce"
      BY <2>3 DEF FinishTurnError, Settle
    <3> QED
      BY <1>1, <2>1, <2>3, <3>1, <3>2, SavedKept
         DEF Rewritten, BatchUndisturbed, ToolsIdle
  <2> QED
    BY <2>1, <2>2, <2>3
<1>7. CASE HandleToolCalls(e)
  <2> DEFINE m == [kind |-> "calls", turn |-> e.id.turn, ref |-> Position]
  <2>1. active_tool_batch = NoBatch /\ running_batch = 0
    BY <1>4, <1>7 DEF HandleToolCalls
  <2>2. /\ history' = Append(history, m)
        /\ client' = Shown(client, {Position})
        /\ active_tool_batch'.call = Position
        /\ PersistIfClosed(history', all_messages', next_turn_id,
                           next_batch_id')
        /\ pc' = "recv"
    BY <1>7, <2>1 DEF HandleToolCalls
  <2>3. m \in Message /\ IsCall(m, Position) /\ Position # 0
    BY <1>3, EventIdType DEF Position, Message, Kinds, IsCall
  <2> HIDE DEF m
  <2>4. Position \in Unclosed(history')
    BY <1>3, <2>2, <2>3, UnclosedAppend
  <2>5. disk' = disk
    BY <2>2, <2>4 DEF PersistIfClosed
  <2>6. ~ToolsIdle'
    BY <2>2, <2>3 DEF ToolsIdle, NoBatch
  <2>7. client'.seen = client.seen \cup {Position}
    BY <1>3, <2>2, ClientSeen
  <2>8. ShownIsDurable'
    BY <1>1, <2>1, <2>2, <2>5, <2>6, <2>7 DEF SavedInv, ShownIsDurable, ToolsIdle
  <2> QED
    BY <2>2, <2>5, <2>6, <2>8 DEF SavedInv
<1> QED
  BY <1>2, <1>5, <1>6, <1>7

\* The results of a batch are saved together with its call.
LEMMA SavedToolCompletion ==
    ASSUME TypeInv, TypeInv', TurnInv, LogInv', HistoryInv, SavedInv,
           HandleToolCompletion
    PROVE  SavedInv'
<1>1. /\ pc = "recv" /\ Alive
      /\ initial' = initial
  BY DEF HandleToolCompletion, Alive
<1>2. client \in Client /\ all_messages' \in Seq(Message)
  BY DEF TypeInv, TypeOK
<1>3. CASE /\ UNCHANGED <<history, disk, active_tool_batch>>
           /\ \/ Die(client)
              \/ /\ Settle(active_provider_request, active_tool_batch,
                           pending_data)
                 /\ client' = client
  <2>1. client'.seen = client.seen
    BY <1>2, <1>3, ErrorsShowNothing
  <2>2. pc' # "announce"
    BY <1>3 DEF Die, Settle
  <2> QED
    BY <1>1, <1>3, <2>1, <2>2, SavedKept DEF Rewritten, BatchUndisturbed, ToolsIdle
<1>4. CASE /\ active_tool_batch # NoBatch
           /\ history' = Append(history, ResultsFor(active_tool_batch.call,
                                                    active_tool_batch.turn))
           /\ PersistIfClosed(history', all_messages', next_turn_id,
                              next_batch_id)
  <2>1. history' # history
    BY <1>4 DEF TypeInv, TypeOK
  <2>2. Unclosed(history') = {}
    BY <2>1, HistoryToolCompletion
  <2>3. initial
    BY <1>1, <1>4 DEF TurnInv, NothingBeforeInitial, Alive, ToolsIdle
  <2> QED
    BY <1>1, <1>2, <1>4, <2>2, <2>3, PersistSaves, SavedAll
<1> QED
  BY <1>3, <1>4 DEF HandleToolCompletion

LEMMA SavedStep ==
    ASSUME TypeInv, TypeInv', TurnInv, LogInv, LogInv', HistoryInv, SavedInv,
           [Next]_vars
    PROVE  SavedInv'
<1>1. CASE ReceiveProviderEvent \/ HandleGraceElapsed
  <2>1. CASE /\ pc = "recv" /\ provider_event_rx # <<>>
             /\ \E t : HandleProviderEvent(Head(provider_event_rx), t)
    BY <2>1, SavedProviderEvent
  <2>2. CASE /\ pc = "recv"
             /\ UNCHANGED <<history, disk, active_tool_batch>>
             /\ \/ WakeOrSchedule(0, grace_elapsed)
                \/ /\ Settle(active_provider_request, active_tool_batch,
                             pending_data)
                   /\ client' = client
    <3>1. client \in Client
      BY DEF TypeInv, TypeOK
    <3>2. client'.seen = client.seen
      BY <2>2, <3>1, ErrorsShowNothing
    <3>3. pc' # "announce"
      BY <2>2 DEF WakeOrSchedule, CancelActiveProviderRequest, Settle
    <3> QED
      BY <2>2, <3>2, <3>3, SavedKept DEF Rewritten, BatchUndisturbed, ToolsIdle, Alive
  <2> QED
    BY <1>1, <2>1, <2>2, Zenon DEF ReceiveProviderEvent, HandleGraceElapsed
<1>2. CASE Actor /\ ~(ReceiveProviderEvent \/ HandleGraceElapsed)
  BY <1>2, SavedHandleInitial, SavedHostSteps, SavedAppends, SavedStart,
     SavedToolCompletion DEF Actor
<1>3. CASE \/ \E kind \in Requests : SendRequest(kind)
           \/ \E id \in provider_threads, type \in {"Stream", "Retry"} :
                ProviderStreams(id, type)
           \/ \E result \in Results : ProviderCompletes(result)
           \/ ProviderAborts
           \/ WorkerCompletes
           \/ GraceWindowElapses
           \/ \E t \in timers : TimerFires(t)
           \/ UNCHANGED vars
  <2>1. UNCHANGED <<actorVars, disk, client>>
    BY <1>3 DEF SendRequest, ProviderStreams, ProviderCompletes,
                ProviderAborts, WorkerCompletes, GraceWindowElapses,
                TimerFires, vars, hostVars
  <2> QED
    BY <2>1 DEF SavedInv, ShownIsDurable, ToolsIdle, Alive, actorVars
<1>4. CASE Crash
  <2>1. pc' = "dead" /\ disk' = disk
    BY <1>4 DEF Crash, Die
  <2> QED
    BY <2>1 DEF SavedInv, ShownIsDurable, Alive
<1>5. CASE Restart
  <2>1. /\ pc' = "recv" /\ history' = <<>> /\ disk' = disk
        /\ client'.seen = {}
    BY <1>5 DEF Restart, IdleClient
  <2> QED
    BY <2>1, EmptyIsGood DEF SavedInv, ShownIsDurable
<1> QED
  BY <1>1, <1>2, <1>3, <1>4, <1>5 DEF Next

LEMMA SavedInit == Init /\ ~LegacyDisk => SavedInv
<1> SUFFICES ASSUME Init, ~LegacyDisk PROVE SavedInv
  OBVIOUS
<1>1. /\ pc = "recv" /\ history = <<>>
      /\ disk = NoState
      /\ client = IdleClient
  BY DEF Init
<1> QED
  BY <1>1, EmptyIsGood DEF SavedInv, ShownIsDurable, NoState, IdleClient

-----------------------------------------------------------------------------
(***************************************************************************)
(* Offers to continue                                                      *)
(***************************************************************************)
\* Whatever works on the history, or would resume it, has one.
ContextIsThere ==
    \/ pc \in {"announce", "start", "final"}
    \/ ~ProviderIdle
    \/ ~ToolsIdle
    \/ pending_continuation.kind = "CurrentHistory"
    => history # <<>>

\* An offer that was made stands until the next turn begins.
OfferStands ==
    client.can_continue /\ pc \notin {"input", "announce"}
      => pending_continuation.kind # "None"

OfferInv == Alive => ContextIsThere /\ OfferStands

\* What the events offer.
LEMMA ClientOffers ==
    ASSUME NEW c \in Client
    PROVE  /\ \A S : Shown(c, S).can_continue = c.can_continue
           /\ \A t : ~TurnStarted(c, t).can_continue
           /\ ~TurnCompleted(c).can_continue
           /\ \A b : TurnFailed(c, b).can_continue = b
  BY DEF Client, Shown, TurnStarted, TurnCompleted, TurnFailed

\* A step that makes no offer and starts nothing.
LEMMA OfferKept ==
    ASSUME OfferInv, Alive' => Alive,
           history # <<>> => history' # <<>>,
           active_provider_request' \in {NoRequest, active_provider_request},
           ToolsIdle => ToolsIdle',
           pending_continuation' = pending_continuation,
           client'.can_continue => client.can_continue,
           pc \notin {"input", "announce"},
           pc' \in {"recv", "drain", "dead", "down"}
             \/ history' # <<>>
    PROVE  OfferInv'
<1>1. Alive' => ContextIsThere'
  BY DEF OfferInv, ContextIsThere, ProviderIdle, Alive
<1>2. Alive' => OfferStands'
  BY DEF OfferInv, OfferStands
<1> QED
  BY <1>1, <1>2 DEF OfferInv

\* A failed turn offers to continue from the history it has worked on.
LEMMA OfferFails ==
    ASSUME NEW c, FinishTurnError(c, CurrentHistory), history' # <<>>
    PROVE  OfferInv'
<1>1. pending_continuation'.kind = "CurrentHistory"
  BY DEF FinishTurnError, CurrentHistory
<1> QED
  BY <1>1 DEF OfferInv, ContextIsThere, OfferStands

\* An actor that has ended offers nothing.
LEMMA OfferDead == ASSUME pc' \in {"dead", "down"} PROVE OfferInv'
  BY DEF OfferInv, Alive

LEMMA OfferHandleInitial ==
    ASSUME TypeInv, TurnInv, LogInv, OfferInv, HandleInitial
    PROVE  OfferInv'
<1>1. /\ pc = "recv" /\ Alive
      /\ UNCHANGED <<active_provider_request, active_tool_batch>>
      /\ pc' \in {"recv", "drain"}
  BY DEF HandleInitial, Receive, Settle, Alive
<1>2. CASE initial
  <2>1. UNCHANGED <<history, pending_continuation, client>>
    BY <1>2 DEF HandleInitial
  <2> QED
    BY <1>1, <2>1, OfferKept DEF ToolsIdle
<1>3. CASE ~initial
  <2>1. ProviderIdle' /\ ToolsIdle'
    BY <1>1, <1>3 DEF TurnInv, NothingBeforeInitial, ProviderIdle, ToolsIdle
  <2>2. history = <<>>
    BY <1>1, <1>3 DEF LogInv, EmptyBeforeInitial
  <2>3. pending_continuation.kind # "CurrentHistory"
    BY <1>1, <2>2 DEF OfferInv, ContextIsThere
  <2>4. \/ /\ pending_continuation' = CurrentHistory
           /\ history' # <<>>
        \/ UNCHANGED <<pending_continuation, client>>
    BY <1>3 DEF HandleInitial, NeedsContinuation
  <2>5. CASE pending_continuation' = CurrentHistory /\ history' # <<>>
    BY <2>5 DEF OfferInv, ContextIsThere, OfferStands, CurrentHistory
  <2>6. CASE UNCHANGED <<pending_continuation, client>>
    BY <1>1, <2>1, <2>3, <2>6 DEF OfferInv, ContextIsThere, OfferStands
  <2> QED
    BY <2>4, <2>5, <2>6
<1> QED
  BY <1>2, <1>3

\* The requests of the host that neither continue a turn nor begin one.
LEMMA OfferHostSteps ==
    ASSUME TypeInv, HistoryInv, OfferInv,
           \/ HandleShutdown
           \/ \E kind \in DataKinds : HandleData(kind)
           \/ HandleCancelTurn
           \/ HandleCompactNow
    PROVE  OfferInv'
<1>1. /\ pc = "recv" /\ Alive
      /\ pending_continuation' = pending_continuation
      /\ active_provider_request' \in {NoRequest, active_provider_request}
  BY DEF HandleShutdown, HandleData, HandleCancelTurn, HandleCompactNow,
         Receive, Alive, CancelActiveProviderRequest
<1>2. client \in Client
  BY DEF TypeInv, TypeOK
<1>3. history # <<>> => history' # <<>>
  BY HistoryHostSteps, RewrittenGood DEF HistoryInv
<1>4. /\ pc' \in {"recv", "drain", "dead", "down"}
      /\ ToolsIdle => ToolsIdle'
      /\ client' = client \/ client' = TurnFailed(client, FALSE)
  <2>1. CASE HandleShutdown
    BY <2>1 DEF HandleShutdown, ToolsIdle
  <2>2. ASSUME NEW i, InterruptActiveTools(i)
        PROVE  <1>4!:
    BY <2>2 DEF InterruptActiveTools, Die, Settle, ToolsIdle
  <2>3. CASE \E kind \in DataKinds : HandleData(kind)
    <3>1. \/ \E i : InterruptActiveTools(i)
          \/ /\ Settle(active_provider_request, active_tool_batch, pending_data')
             /\ UNCHANGED <<active_tool_batch, client>>
      BY <2>3, Zenon DEF HandleData
    <3> QED
      BY <2>2, <3>1 DEF Settle, ToolsIdle
  <2>4. CASE HandleCancelTurn
    <3>1. \/ \E i : InterruptActiveTools(i)
          \/ /\ CancelActiveProviderRequest(TRUE)
             /\ UNCHANGED active_tool_batch
      BY <2>4, Zenon DEF HandleCancelTurn
    <3> QED
      BY <2>2, <3>1 DEF CancelActiveProviderRequest, Settle, ToolsIdle
  <2>5. CASE HandleCompactNow
    BY <2>5 DEF HandleCompactNow, Settle, ToolsIdle
  <2> QED
    BY <2>1, <2>3, <2>4, <2>5
<1>5. client'.can_continue => client.can_continue
  <2>1. ~TurnFailed(client, FALSE).can_continue
    BY <1>2 DEF Client, TurnFailed
  <2> QED
    BY <1>4, <2>1
<1> QED
  BY <1>1, <1>3, <1>4, <1>5, OfferKept

\* A turn begins, with new messages, with those of the failed turn, or from the
\* history.
LEMMA OfferBegins ==
    ASSUME TypeInv, TurnInv, OfferInv, DrainPendingData \/ HandleContinueTurn
    PROVE  OfferInv'
<1>1. /\ pc \in {"drain", "recv"} /\ Alive
      /\ UNCHANGED <<history, active_provider_request, active_tool_batch>>
      /\ pc = "drain" => active_provider_request = NoRequest /\ active_tool_batch = NoBatch
  BY BusyTurn DEF DrainPendingData, HandleContinueTurn, Receive, Alive, NoTools
<1>2. client \in Client
  BY DEF TypeInv, TypeOK
<1>3. ASSUME NEW rs, BeginTurn(rs),
             active_provider_request = NoRequest, active_tool_batch = NoBatch
      PROVE  OfferInv'
  BY <1>1, <1>3
     DEF BeginTurn, NoContinuation, OfferInv, ContextIsThere, OfferStands,
         ProviderIdle, ToolsIdle
<1>4. CASE DrainPendingData
  <2>1. pc = "drain" /\ (Die(client) \/ BeginTurn(pending_data))
    BY <1>4 DEF DrainPendingData
  <2>2. CASE Die(client)
    BY <2>2, OfferDead DEF Die
  <2>3. CASE BeginTurn(pending_data)
    BY <1>1, <1>3, <2>1, <2>3
  <2> QED
    BY <2>1, <2>2, <2>3
<1>5. CASE HandleContinueTurn
  <2>1. pc = "recv"
    BY <1>5 DEF HandleContinueTurn, Receive
  <2>2. CASE Die(client)
    BY <2>2, OfferDead DEF Die
  <2>3. CASE /\ Settle(active_provider_request, active_tool_batch, pending_data)
             /\ UNCHANGED <<pending_continuation, client>>
    BY <1>1, <2>1, <2>3, OfferKept DEF Settle, ToolsIdle
  <2>4. CASE /\ active_provider_request = NoRequest
             /\ active_tool_batch = NoBatch
             /\ BeginTurn(pending_continuation.requests)
    BY <1>3, <2>4
  <2>5. CASE /\ pending_continuation # NoContinuation
             /\ pending_continuation.kind # "DataRequests"
             /\ history = <<>>
             /\ pc' \in {"recv", "drain"}
             /\ UNCHANGED client
             /\ pending_continuation' = NoContinuation
    <3>1. pending_continuation.kind # "CurrentHistory"
      BY <1>1, <2>5 DEF OfferInv, ContextIsThere
    <3>2. pending_continuation.kind = "None"
      BY <2>5, <3>1 DEF TypeInv, TypeOK, Continuation
    <3>3. ~client.can_continue
      BY <1>1, <2>1, <3>2 DEF OfferInv, OfferStands
    <3>4. pending_continuation'.kind = "None"
      BY <2>5 DEF NoContinuation
    <3> QED
      BY <1>1, <2>1, <2>5, <3>3, <3>4
         DEF OfferInv, ContextIsThere, OfferStands, ProviderIdle, ToolsIdle
  <2>6. CASE /\ history # <<>>
             /\ client' = TurnStarted(client, next_turn_id)
             /\ pc' = "start"
    <3>1. ~client'.can_continue
      BY <1>2, <2>6, ClientOffers
    <3> QED
      BY <1>1, <2>6, <3>1 DEF OfferInv, ContextIsThere, OfferStands
  <2> QED
    BY <1>5, <2>2, <2>3, <2>4, <2>5, <2>6 DEF HandleContinueTurn, Settle
<1> QED
  BY <1>4, <1>5

\* The messages of a turn.
LEMMA OfferAppends ==
    ASSUME TypeInv, TurnInv, HistoryInv, OfferInv,
           \/ PruneWhileAppending
           \/ AppendInput
           \/ AppendInputFails
           \/ AnnounceTurn
           \/ AppendFinal
           \/ AppendFinalFails
    PROVE  OfferInv'
<1>1. /\ pc \in {"input", "announce", "final"} /\ Alive
      /\ UNCHANGED <<active_provider_request, active_tool_batch>>
  BY DEF PruneWhileAppending, AppendInput, AppendInputFails, AnnounceTurn,
         AppendFinal, AppendFinalFails, Alive
<1>2. /\ ProviderIdle' /\ ToolsIdle'
      /\ client \in Client
  BY <1>1, BusyTurn DEF NoTools, ProviderIdle, ToolsIdle, TypeInv, TypeOK
<1>3. history # <<>> => history' # <<>>
  BY HistoryAppends, RewrittenGood DEF HistoryInv
<1>4. pc \in {"announce", "final"} => history # <<>>
  BY <1>1 DEF OfferInv, ContextIsThere
<1>5. CASE PruneWhileAppending
  <2>1. UNCHANGED <<pc, client, pending_continuation>>
    BY <1>5 DEF PruneWhileAppending
  <2> QED
    BY <1>1, <1>2, <1>3, <2>1 DEF OfferInv, ContextIsThere, OfferStands
<1>6. CASE AppendInput
  <2>1. /\ pc' \in {"input", "announce"}
        /\ \E h \in AppendBases(history) : history' = Append(h, CurrentMessage)
    BY <1>6 DEF AppendInput
  <2>2. pc = "input" /\ history \in Seq(Message)
    BY <1>6 DEF AppendInput, TypeInv, TypeOK
  <2>3. history' # <<>>
    <3>1. PICK h \in AppendBases(history) : history' = Append(h, CurrentMessage)
      BY <2>1
    <3>2. h \in Seq(Message) /\ CurrentMessage \in Message
      BY <2>2, BasesGood, CurrentMessageType DEF HistoryInv
    <3> QED
      BY <3>1, <3>2
  <2> QED
    BY <2>1, <2>3 DEF OfferInv, ContextIsThere, OfferStands
<1>7. CASE AppendInputFails
  <2>1. /\ pending_continuation' = DataRequests(frame.requests)
        /\ pc' \in {"recv", "drain"}
    BY <1>7 DEF AppendInputFails, FinishTurnError, Settle
  <2>2. pending_continuation'.kind = "DataRequests"
    BY <2>1 DEF DataRequests
  <2> QED
    BY <1>2, <2>1, <2>2 DEF OfferInv, ContextIsThere, OfferStands
<1>8. CASE AnnounceTurn
  <2>1. /\ client' = TurnStarted(Shown(client, (frame.from + 1)..Len(all_messages)),
                                 frame.turn)
        /\ pc = "announce"
    BY <1>8 DEF AnnounceTurn
  <2>2. ~client'.can_continue
    BY <1>2, <2>1 DEF Client, Shown, TurnStarted
  <2> QED
    BY <1>3, <1>4, <2>1, <2>2 DEF OfferInv, ContextIsThere, OfferStands
<1>9. CASE AppendFinal
  <2>1. /\ client' = TurnCompleted(Shown(client, {Len(all_messages')}))
        /\ pc = "final"
    BY <1>9 DEF AppendFinal
  <2>2. ~client'.can_continue
    BY <1>2, <2>1 DEF Client, Shown, TurnCompleted
  <2> QED
    BY <1>3, <1>4, <2>1, <2>2 DEF OfferInv, ContextIsThere, OfferStands
<1>10. CASE AppendFinalFails
  BY <1>10, OfferDead DEF AppendFinalFails, Die
<1> QED
  BY <1>5, <1>6, <1>7, <1>8, <1>9, <1>10

\* A request starts, or its turn fails with the offer to continue.
LEMMA OfferStart ==
    ASSUME TypeInv, TurnInv, HistoryInv, OfferInv, StartProviderRequest
    PROVE  OfferInv'
<1> DEFINE unclosed == Unclosed(history)
           h == Repair(history, unclosed, frame.turn)
           all == Repair(all_messages, unclosed, frame.turn)
           c == IF unclosed = {} THEN client ELSE Shown(client, {Len(all)})
<1>1. /\ pc = "start" /\ Alive
      /\ Launch(h, all, c) \/ Shrink(h, c) \/ StartFails(c)
  BY DEF StartProviderRequest, Alive
<1>2. c.can_continue = client.can_continue
  BY ClientOffers DEF TypeInv, TypeOK
<1> HIDE DEF unclosed, h, all, c
<1>3. history' # <<>>
  BY <1>1, HistoryStart, RewrittenGood DEF OfferInv, ContextIsThere, HistoryInv
<1>4. CASE StartFails(c)
  <2>1. FinishTurnError(c, CurrentHistory) \/ Die(c)
    BY <1>4 DEF StartFails
  <2> QED
    BY <1>3, <2>1, OfferFails, OfferDead DEF Die
<1>5. CASE Shrink(h, c) \/ (Launch(h, all, c) /\ ~StartFails(c))
  <2>1. client' = c /\ pending_continuation' = pending_continuation
    BY <1>5 DEF Shrink, Launch
  <2> QED
    BY <1>1, <1>2, <1>3, <2>1 DEF OfferInv, ContextIsThere, OfferStands
<1> QED
  BY <1>1, <1>4, <1>5

\* A provider event.
LEMMA OfferProviderEvent ==
    ASSUME TypeInv, TurnInv, HistoryInv, OfferInv, pc = "recv", NEW timer,
           provider_event_rx # <<>>,
           HandleProviderEvent(Head(provider_event_rx), timer)
    PROVE  OfferInv'
<1> DEFINE e == Head(provider_event_rx)
<1>1. Alive /\ (history # <<>> => history' # <<>>)
  BY HistoryProviderEvent DEF Alive
<1>2. \/ IgnoreProviderEvent(e, timer)
      \/ HandleStream(e, timer)
      \/ HandleRetry(e, timer)
      \/ HandleFinalResponse(e)
      \/ HandleToolCalls(e)
      \/ HandleTooLarge(e)
      \/ HandleProviderError(e)
  BY DEF HandleProviderEvent
<1>3. client \in Client
  BY DEF TypeInv, TypeOK
<1> HIDE DEF e
<1>4. ASSUME NEW result, TakeResult(e, result)
      PROVE  history' # <<>> /\ running_batch = 0
  BY <1>1, <1>4, RequestTurn
     DEF TakeResult, OfferInv, ContextIsThere, ProviderIdle, NoTools
<1>5. CASE IgnoreProviderEvent(e, timer)
  BY <1>1, <1>5, OfferKept DEF IgnoreProviderEvent, Settle, ToolsIdle
<1>6. CASE HandleStream(e, timer) \/ HandleRetry(e, timer)
  <2>1. /\ UNCHANGED <<active_tool_batch, pending_continuation>>
        /\ \/ /\ pc' = "recv"
              /\ UNCHANGED <<client, active_provider_request>>
           \/ \E t, x : WakeOrSchedule(t, x)
    BY <1>6, Zenon DEF HandleStream, HandleRetry
  <2>2. /\ pc' \in {"recv", "drain"}
        /\ client' = client
        /\ active_provider_request' \in {NoRequest, active_provider_request}
    BY <2>1 DEF WakeOrSchedule, CancelActiveProviderRequest, Settle
  <2> QED
    BY <1>1, <2>1, <2>2, OfferKept DEF ToolsIdle
<1>7. CASE HandleFinalResponse(e) \/ HandleToolCalls(e)
  <2>1. /\ history' # <<>> /\ running_batch = 0
    BY <1>4, <1>7, Zenon DEF HandleFinalResponse, HandleToolCalls
  <2>2. /\ pending_continuation' = pending_continuation
        /\ client' = client \/ client' = Shown(client, {Position})
    BY <1>7, <2>1 DEF HandleFinalResponse, HandleToolCalls
  <2>3. client'.can_continue = client.can_continue
    BY <1>3, <2>2, ClientOffers
  <2> QED
    BY <1>1, <2>1, <2>2, <2>3 DEF OfferInv, ContextIsThere, OfferStands
<1>8. CASE HandleTooLarge(e) \/ HandleProviderError(e)
  <2>1. history' # <<>>
    BY <1>4, <1>8, Zenon DEF HandleTooLarge, HandleProviderError
  <2>2. \/ FinishTurnError(client, CurrentHistory)
        \/ UNCHANGED <<pending_continuation, client>>
    BY <1>8, Zenon DEF HandleTooLarge, HandleProviderError
  <2>3. CASE FinishTurnError(client, CurrentHistory)
    BY <2>1, <2>3, OfferFails
  <2>4. CASE UNCHANGED <<pending_continuation, client>>
    BY <1>1, <2>1, <2>4 DEF OfferInv, ContextIsThere, OfferStands
  <2> QED
    BY <2>2, <2>3, <2>4
<1> QED
  BY <1>2, <1>5, <1>6, <1>7, <1>8

\* The results of a tool batch.
LEMMA OfferToolCompletion ==
    ASSUME TypeInv, TurnInv, HistoryInv, OfferInv, HandleToolCompletion
    PROVE  OfferInv'
<1>1. /\ pc = "recv" /\ Alive
      /\ UNCHANGED <<active_provider_request, pending_continuation>>
      /\ history # <<>> => history' # <<>>
  BY HistoryToolCompletion DEF HandleToolCompletion, Alive
<1>2. client \in Client
  BY DEF TypeInv, TypeOK
<1>3. CASE Die(client)
  BY <1>3, OfferDead DEF Die
<1>4. CASE /\ UNCHANGED <<active_tool_batch, client>>
           /\ pc' \in {"recv", "drain"}
  BY <1>1, <1>4, OfferKept DEF ToolsIdle
<1>5. CASE /\ active_tool_batch # NoBatch
           /\ client' = Shown(client, {Position})
           /\ pc' \in {"recv", "drain", "start"}
  <2>1. history' # <<>>
    BY <1>1, <1>5 DEF OfferInv, ContextIsThere, ToolsIdle
  <2>2. client'.can_continue = client.can_continue
    BY <1>2, <1>5, ClientOffers
  <2> QED
    BY <1>1, <1>5, <2>1, <2>2 DEF OfferInv, ContextIsThere, OfferStands
<1> QED
  BY <1>3, <1>4, <1>5 DEF HandleToolCompletion, Settle

LEMMA OfferStep ==
    ASSUME TypeInv, TurnInv, LogInv, HistoryInv, OfferInv, [Next]_vars
    PROVE  OfferInv'
<1>1. CASE ReceiveProviderEvent \/ HandleGraceElapsed
  <2>1. CASE /\ pc = "recv" /\ provider_event_rx # <<>>
             /\ \E t : HandleProviderEvent(Head(provider_event_rx), t)
    BY <2>1, OfferProviderEvent
  <2>2. CASE /\ pc = "recv"
             /\ UNCHANGED <<history, pending_continuation, active_tool_batch>>
             /\ \/ WakeOrSchedule(0, grace_elapsed)
                \/ /\ Settle(active_provider_request, active_tool_batch,
                             pending_data)
                   /\ UNCHANGED <<active_provider_request, client>>
    <3>1. /\ pc' \in {"recv", "drain"}
          /\ client' = client
          /\ active_provider_request' \in {NoRequest, active_provider_request}
      BY <2>2 DEF WakeOrSchedule, CancelActiveProviderRequest, Settle
    <3> QED
      BY <2>2, <3>1, OfferKept DEF ToolsIdle, Alive
  <2> QED
    BY <1>1, <2>1, <2>2, Zenon DEF ReceiveProviderEvent, HandleGraceElapsed
<1>2. CASE Actor /\ ~(ReceiveProviderEvent \/ HandleGraceElapsed)
  BY <1>2, OfferHandleInitial, OfferHostSteps, OfferBegins, OfferAppends,
     OfferStart, OfferToolCompletion DEF Actor
<1>3. CASE \/ \E kind \in Requests : SendRequest(kind)
           \/ \E id \in provider_threads, type \in {"Stream", "Retry"} :
                ProviderStreams(id, type)
           \/ \E result \in Results : ProviderCompletes(result)
           \/ ProviderAborts
           \/ WorkerCompletes
           \/ GraceWindowElapses
           \/ \E t \in timers : TimerFires(t)
           \/ UNCHANGED vars
  <2>1. UNCHANGED <<actorVars, client>>
    BY <1>3 DEF SendRequest, ProviderStreams, ProviderCompletes,
                ProviderAborts, WorkerCompletes, GraceWindowElapses,
                TimerFires, vars, hostVars
  <2> QED
    BY <2>1 DEF OfferInv, ContextIsThere, OfferStands, ProviderIdle, ToolsIdle,
                Alive, actorVars
<1>4. CASE Crash
  BY <1>4, OfferDead DEF Crash, Die
<1>5. CASE Restart
  BY <1>5 DEF Restart, IdleClient, NoContinuation, OfferInv, ContextIsThere,
              OfferStands, ProviderIdle, ToolsIdle
<1> QED
  BY <1>1, <1>2, <1>3, <1>4, <1>5 DEF Next

LEMMA OfferInit == Init => OfferInv
  BY DEF Init, IdleClient, NoContinuation, OfferInv, ContextIsThere, OfferStands,
         ProviderIdle, ToolsIdle

-----------------------------------------------------------------------------
(***************************************************************************)
(* The theorems                                                            *)
(***************************************************************************)
\* Behind every TurnFailed that offered to continue the actor holds a
\* continuation it can resume, and no turn number of a saved message is given
\* out again after a restart, also when session.json ends inside a tool round.
THEOREM OffersAndTurnsAlwaysSound ==
    Spec => [](OfferIsBacked /\ SavedTurnsNotReused)
<1>1. Init => OfferInv /\ TurnsInv
  BY OfferInit, TurnsInit
<1>2. /\ TypeInv /\ TurnInv /\ LogInv /\ HistoryInv
      /\ RequestInv /\ TimerInv
      /\ OfferInv /\ TurnsInv /\ [Next]_vars
      => OfferInv' /\ TurnsInv'
  BY OfferStep, TurnsStep
<1>3. TypeInv /\ OfferInv /\ TurnsInv => OfferIsBacked /\ SavedTurnsNotReused
  <2> SUFFICES ASSUME TypeInv, OfferInv, TurnsInv
               PROVE  OfferIsBacked /\ SavedTurnsNotReused
    OBVIOUS
  <2>1. SavedTurnsNotReused
    BY DEF SavedTurnsNotReused, TurnsInv, TurnsBelow
  <2>2. pending_continuation.kind \in {"None", "CurrentHistory", "DataRequests"}
    BY DEF TypeInv, TypeOK, Continuation
  <2>3. OfferIsBacked
    BY <2>2 DEF OfferIsBacked, OfferInv, ContextIsThere, OfferStands, Alive
  <2> QED
    BY <2>1, <2>3
<1> QED
  BY <1>1, <1>2, <1>3, TypeInvariant, TurnInvariant, LogInvariant,
     HistoryInvariant, RequestInvariant, PTL DEF Spec

\* What a crash leaves on disk is a state the actor can go on from.  A session
\* whose session.json was written in the middle of a tool round is excepted:
\* until its first request repairs that round, persist_state_if_history_closed
\* writes nothing, and messages are shown that a crash would lose.
THEOREM SavedStateAlwaysSound == Spec => [](LegacyDisk \/ SavedStateIsSound)
<1>1. Init => LegacyDisk \/ SavedInv
  BY SavedInit
<1>2. /\ TypeInv /\ TypeInv' /\ TurnInv /\ LogInv /\ LogInv' /\ HistoryInv
      /\ LegacyDisk \/ SavedInv
      /\ [Next]_vars
      => LegacyDisk' \/ SavedInv'
  BY SavedStep
<1>3. /\ HistoryInv /\ OfferIsBacked /\ SavedTurnsNotReused
      /\ LegacyDisk \/ SavedInv
      => LegacyDisk \/ SavedStateIsSound
  BY ClosedIsGood DEF SavedStateIsSound, HistoryInv, SavedInv, DiskIsClosed
<1> QED
  BY <1>1, <1>2, <1>3, TypeInvariant, TurnInvariant, LogInvariant,
     HistoryInvariant, OffersAndTurnsAlwaysSound, PTL DEF Spec

=============================================================================
