---------------------------- MODULE TelegramOut ----------------------------
(***************************************************************************)
(* What a Telegram channel shows of a conversation's turns: session events *)
(* are projected to outgoing events, one loop sends them, a progress panel *)
(* is a message that is edited until its turn ends, and every call to the  *)
(* API is repeated until it succeeds or is refused.                        *)
(***************************************************************************)
EXTENDS Naturals, Sequences, FiniteSets, SequencesExt, FiniteSetsExt

CONSTANTS
    Sessions,   \* sessions of the conversation
    MaxTurns,   \* bound: turns of a session
    MaxSilent,  \* bound: turns that end without an event of their own
    MaxFaults,  \* bound: attempts that fail
    MaxQueue    \* bound: events waiting when progress is reported

TelegramOutAssumption == MaxTurns \in Nat /\ MaxSilent \in Nat /\ MaxFaults \in Nat /\ MaxQueue \in Nat

VARIABLES
    turn, live,  \* of a session: its last turn and whether it is running
    queue,       \* outgoing events: [type, session, turn, of]; turn 0 when the event names none,
                 \* of the turn it is really about
    event,       \* the event the loop is busy with, or NoEvent
    call,        \* its call to the API: [method, msg, text] or NoCall
    panels,      \* progress_panels: [session, turn] to [msg, status]
    screen,      \* messages of the chat: each a panel's status or a reply
    owner,       \* the turn a message of the chat belongs to
    ended,       \* turns whose end was handled: [session, turn] to the status it ended with
    refused,     \* turns for which the API refused a call
    silent, faults

vars == <<turn, live, queue, event, call, panels, screen, owner, ended, refused, silent, faults>>

NoEvent == [type |-> "none"]
NoCall == [method |-> "none"]
Key(s, t) == [session |-> s, turn |-> t]
Without(f, k) == [x \in DOMAIN f \ {k} |-> f[x]]
Put(f, k, v) == [x \in DOMAIN f \cup {k} |-> IF x = k THEN v ELSE f[x]]
Ev(type, s, t, of) == [type |-> type, session |-> s, turn |-> t, of |-> Key(s, of)]

-----------------------------------------------------------------------------
(* The sessions, and project_channel_event.                                *)

\* What the projection of a session event holds for Telegram.  TurnFailed
\* becomes an error and a stream event that does not name its turn; a crash
\* becomes an error only.
Project(type, s, t) ==
    CASE type = "started" -> <<Ev("turn_started", s, t, t)>>
      [] type = "delta" -> <<Ev("delta", s, t, t)>>
      [] type = "plan" -> <<Ev("plan", s, 0, t)>>
      [] type = "completed" -> <<Ev("final", s, t, t), Ev("turn_completed", s, t, t)>>
      [] type = "failed" -> <<Ev("error", s, 0, t), Ev("turn_failed", s, 0, t)>>
      [] type = "crashed" -> <<Ev("error", s, 0, t)>>

StartTurn(s) ==
    /\ turn[s] < MaxTurns /\ ~live[s]
    /\ turn' = [turn EXCEPT ![s] = @ + 1]
    /\ live' = [live EXCEPT ![s] = TRUE]
    /\ queue' = queue \o Project("started", s, turn[s] + 1)
    /\ UNCHANGED <<event, call, panels, screen, owner, ended, refused, silent, faults>>

Progress(s) ==
    /\ live[s]
    /\ Len(queue) < MaxQueue
    /\ \E type \in {"delta", "plan"} : queue' = queue \o Project(type, s, turn[s])
    /\ UNCHANGED <<turn, live, event, call, panels, screen, owner, ended, refused, silent, faults>>

EndTurn(s) ==
    /\ live[s]
    /\ live' = [live EXCEPT ![s] = FALSE]
    /\ \E type \in {"completed", "failed"} : queue' = queue \o Project(type, s, turn[s])
    /\ UNCHANGED <<turn, event, call, panels, screen, owner, ended, refused, silent, faults>>

\* A crash, or a turn that a new message supersedes, which reports nothing.
EndSilently(s) ==
    /\ live[s]
    /\ silent < MaxSilent
    /\ silent' = silent + 1
    /\ live' = [live EXCEPT ![s] = FALSE]
    /\ queue' \in {queue, queue \o Project("crashed", s, turn[s])}
    /\ UNCHANGED <<turn, event, call, panels, screen, owner, ended, refused, faults>>

-----------------------------------------------------------------------------
(* The outgoing loop.                                                      *)

\* The panel an event is about: by its turn, else the first of its session.
PanelKey(e) ==
    LET ks == {k \in DOMAIN panels : k.session = e.session}
    IN IF e.turn # 0 THEN Key(e.session, e.turn)
       ELSE IF ks = {} THEN Key(e.session, 0) ELSE CHOOSE k \in ks : \A j \in ks : k.turn <= j.turn

\* handle_progress_stream: the status an event sets.
StatusOf(e) ==
    CASE e.type = "turn_completed" -> "Completed" [] e.type = "turn_failed" -> "Failed" [] OTHER -> "Running"

Terminal(e) == e.type \in {"turn_completed", "turn_failed"}

KeepsPanel(e, k) == Put(panels, k, [panels[k] EXCEPT !.status = StatusOf(e)])

\* A panel is dropped with the last event of its turn.
PanelsAfter(e, k) == IF Terminal(e) THEN Without(panels, k) ELSE Put(panels, k, [panels[k] EXCEPT !.status = StatusOf(e)])

UpdateThrottled(e) ==
    LET k == PanelKey(e)
    IN IF k \notin DOMAIN panels
       THEN /\ UNCHANGED <<panels, event, call>>
       ELSE /\ panels' = PanelsAfter(e, k)
            /\ \/ event' = e /\ call' = [method |-> "edit", msg |-> panels[k].msg, text |-> StatusOf(e)]
               \/ UNCHANGED <<event, call>>

\* update_progress_panel: an edit, unless there is no panel or, for an event
\* that does not force one, the last edit is recent.
Update(e) ==
    LET k == PanelKey(e)
    IN IF k \notin DOMAIN panels
       THEN /\ UNCHANGED <<panels, event, call>>
       ELSE /\ panels' = PanelsAfter(e, k)
            /\ \/ event' = e /\ call' = [method |-> "edit", msg |-> panels[k].msg, text |-> StatusOf(e)]
               \/ e.type = "delta" /\ UNCHANGED <<event, call>>

\* send_event: a new panel, or the text of a reply or of an error.
CallFor(e) ==
    IF e.type = "turn_started" THEN [method |-> "panel", msg |-> 0, text |-> "Running"]
    ELSE [method |-> "text", msg |-> 0, text |-> e.type]

Lifo ==
    /\ queue # <<>>
    /\ event = NoEvent
    /\ queue' = Front(queue)
    /\ LET e == Last(queue)
       IN /\ IF e.type \in {"turn_started", "final", "error"}
             THEN event' = e /\ call' = CallFor(e) /\ UNCHANGED panels
             ELSE UNCHANGED <<event, call, panels>>
    /\ UNCHANGED <<turn, live, screen, owner, ended, refused, silent, faults>>

Receive ==
    /\ queue # <<>>
    /\ event = NoEvent
    /\ queue' = Tail(queue)
    /\ LET e == Head(queue)
       IN /\ IF e.type \in {"turn_started", "final", "error"}
             THEN event' = e /\ call' = CallFor(e) /\ UNCHANGED panels
             ELSE Update(e)
          /\ ended' = IF Terminal(e) THEN Put(ended, e.of, StatusOf(e)) ELSE ended
    /\ UNCHANGED <<turn, live, screen, owner, refused, silent, faults>>

-----------------------------------------------------------------------------
(* call_api_delivery.                                                      *)

\* What the server does with the call.
Applied == IF call.method = "edit" THEN [screen EXCEPT ![call.msg] = call.text] ELSE Append(screen, call.text)
OwnerAfter == IF call.method = "edit" THEN owner ELSE Append(owner, event.of)

Over == event' = NoEvent /\ call' = NoCall

SucceedNextId ==
    /\ call # NoCall
    /\ screen' = Applied /\ owner' = OwnerAfter
    /\ panels' = IF call.method = "panel" THEN Put(panels, Key(event.session, event.turn), [msg |-> Len(screen) + 2, status |-> "Running"]) ELSE panels
    /\ Over
    /\ UNCHANGED <<turn, live, queue, ended, refused, silent, faults>>

Succeed ==
    /\ call # NoCall
    /\ screen' = Applied /\ owner' = OwnerAfter
    /\ panels' = IF call.method = "panel" THEN Put(panels, Key(event.session, event.turn), [msg |-> Len(screen) + 1, status |-> "Running"]) ELSE panels
    /\ Over
    /\ UNCHANGED <<turn, live, queue, ended, refused, silent, faults>>

RetryGivesUp ==
    /\ call # NoCall
    /\ faults < MaxFaults
    /\ faults' = faults + 1
    /\ UNCHANGED <<screen, owner>>
    /\ IF call.method = "text" THEN Over ELSE UNCHANGED <<event, call>>
    /\ UNCHANGED <<turn, live, queue, panels, ended, refused, silent>>

\* A transport error, a server error or a rate limit: the call is made again.
\* The server may have carried it out.
Retry ==
    /\ call # NoCall
    /\ faults < MaxFaults
    /\ faults' = faults + 1
    /\ \/ UNCHANGED <<screen, owner>>
       \/ screen' = Applied /\ owner' = OwnerAfter
    /\ UNCHANGED <<turn, live, queue, event, call, panels, ended, refused, silent>>

\* Another client error, here or in the upload of an attachment: the loop logs it
\* and goes on.
Refuse ==
    /\ call # NoCall
    /\ faults < MaxFaults
    /\ faults' = faults + 1
    /\ refused' = refused \cup {event.of}
    /\ Over
    /\ UNCHANGED <<turn, live, queue, panels, screen, owner, ended, silent>>

-----------------------------------------------------------------------------

Init ==
    /\ turn = [s \in Sessions |-> 0] /\ live = [s \in Sessions |-> FALSE]
    /\ queue = <<>> /\ event = NoEvent /\ call = NoCall
    /\ panels = [k \in {} |-> 0] /\ screen = <<>> /\ owner = <<>>
    /\ ended = [k \in {} |-> 0] /\ refused = {} /\ silent = 0 /\ faults = 0

Next ==
    \/ \E s \in Sessions : StartTurn(s) \/ Progress(s) \/ EndTurn(s) \/ EndSilently(s)
    \/ Receive \/ Succeed \/ Retry \/ Refuse

Spec == Init /\ [][Next]_vars

\* The loop runs, and an attempt that is made again and again succeeds.
FairSpec == Spec /\ WF_vars(Receive) /\ SF_vars(Succeed)

-----------------------------------------------------------------------------
(* Properties.                                                             *)

TypeOK ==
    /\ DOMAIN panels \subseteq [session : Sessions, turn : 1..MaxTurns]
    /\ \A k \in DOMAIN panels : panels[k].msg \in DOMAIN screen
    /\ Len(owner) = Len(screen)
    /\ (event = NoEvent) = (call = NoCall)

Ends(k) == k \in DOMAIN ended /\ call = NoCall
ReplyOf(k) == \E i \in DOMAIN screen : screen[i] = "final" /\ owner[i] = k

\* No reply is swallowed: when the end of a turn has been handled its reply is
\* on the screen, unless the API refused a call of that turn.
NoReplySwallowed ==
    \A k \in DOMAIN ended : ended[k] = "Completed" /\ k \notin refused => ReplyOf(k)

LastPanel(k) == Max({i \in DOMAIN screen : owner[i] = k /\ screen[i] \in {"Running", "Completed", "Failed"}} \cup {0})

\* When a turn has completed or failed, the panel of that turn shows so.
PanelShowsEnd ==
    \A k \in DOMAIN ended :
        Ends(k) /\ k \notin refused => LastPanel(k) # 0 /\ screen[LastPanel(k)] = ended[k]

\* A panel is remembered only while its turn has not been seen to end.
NoStalePanel == DOMAIN panels \cap DOMAIN ended = {}

\* The replies of a session are shown in the order of its turns, a repeated
\* one next to its first copy.
RepliesInOrder ==
    \A i, j \in DOMAIN screen :
        i < j /\ screen[i] = "final" /\ screen[j] = "final" /\ owner[i].session = owner[j].session
            => owner[i].turn <= owner[j].turn

\* A reply of a completed turn is shown in the end.
ReplyIsShown ==
    \A s \in Sessions, t \in 1..MaxTurns :
        Ev("final", s, t, t) \in ToSet(queue) ~> ReplyOf(Key(s, t)) \/ Key(s, t) \in refused

=============================================================================
