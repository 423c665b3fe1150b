------------------------------- MODULE Codex -------------------------------
(***************************************************************************)
(* The Codex backend of a provider worker: a request is sent over a cached *)
(* websocket, as a suffix to a response the server remembers when it       *)
(* continues one, and sent again after a lost connection, an unknown       *)
(* response, a refused token or a passing failure.  A worker serves one    *)
(* request at a time; an abort ends the worker and with it this state.     *)
(*                                                                         *)
(* An input item is a number; items of a response that have no canonical   *)
(* form (an empty message, reasoning without content) are not sent back.   *)
(***************************************************************************)
EXTENDS Integers, Sequences, FiniteSets, SequencesExt, TLC

CONSTANTS
    Client,     \* "actor": requests come from sync_provider_context; "any": from any caller
    MaxTurns,   \* bound: turns
    MaxItems,   \* bound: input items
    MaxRetries, \* max_retries of the model's retry mode
    MaxFaults   \* bound: failures

CodexAssumption ==
    /\ Client \in {"actor", "any"}
    /\ MaxTurns \in Nat /\ MaxItems \in Nat /\ MaxRetries \in Nat /\ MaxFaults \in Nat

VARIABLES
    history, turn,  \* the items of the session and its turn
    synced,         \* the actor's provider_context: [turn, msgs]; turn 0: none
    current,        \* current_context of the provider session: [msgs, reset]
    context,        \* incremental_context: [base, id] and the turn it is from; id 0: none
    socket,         \* the cached websocket: a live or lost connection, or none
    request,        \* the request being served
    responses,      \* the server's: response id to [items, turn]
    hidden,         \* items of responses that have no canonical form
    answered,       \* the last request that was answered: [asked, got, suffix, turn]
    nextItem, faults

vars == <<history, turn, synced, current, context, socket, request, responses, hidden, answered, nextItem, faults>>

None == [base |-> <<>>, id |-> 0, turn |-> 0]
Idle == [pc |-> "idle", input |-> <<>>, reset |-> FALSE, prev |-> 0, wire |-> <<>>, reconnected |-> FALSE,
         again |-> FALSE, retries |-> 0]
NoSync == [turn |-> 0, msgs |-> <<>>]

-----------------------------------------------------------------------------
(* The session.                                                            *)

Fresh == nextItem <= MaxItems

StartTurn ==
    /\ request.pc = "idle"
    /\ turn < MaxTurns /\ Fresh
    /\ turn' = turn + 1
    /\ history' = Append(history, nextItem)
    /\ nextItem' = nextItem + 1
    /\ UNCHANGED <<synced, current, context, socket, request, responses, hidden, answered, faults>>

\* The result of a tool call continues the turn.
ToolResult ==
    /\ request.pc = "idle"
    /\ answered.turn = turn /\ turn # 0 /\ Fresh
    /\ history' = Append(history, nextItem)
    /\ nextItem' = nextItem + 1
    /\ UNCHANGED <<turn, synced, current, context, socket, request, responses, hidden, answered, faults>>

\* Compression replaces the history, in the middle of a turn too.
Compress ==
    /\ request.pc = "idle"
    /\ history # <<>> /\ Fresh
    /\ history' = <<nextItem>>
    /\ nextItem' = nextItem + 1
    /\ UNCHANGED <<turn, synced, current, context, socket, request, responses, hidden, answered, faults>>

Appends == synced.turn = turn /\ IsPrefix(synced.msgs, history)

SyncAppendsAll(reset) ==
    /\ synced' = [turn |-> turn, msgs |-> history]
    /\ current' = IF Appends THEN [current EXCEPT !.msgs = history \o @] ELSE [msgs |-> history, reset |-> reset]

SyncKeepsState(reset) ==
    /\ synced' = [turn |-> turn, msgs |-> history]
    /\ current' = IF Appends THEN [current EXCEPT !.msgs = @ \o SubSeq(history, Len(synced.msgs) + 1, Len(history))]
                  ELSE [msgs |-> history, reset |-> FALSE]

\* sync_provider_context: the suffix is appended to the session's context, or
\* the context is set with the wish to drop the incremental state.  Nothing
\* takes that wish back.
Sync(reset) ==
    /\ synced' = [turn |-> turn, msgs |-> history]
    /\ current' = IF Appends THEN [current EXCEPT !.msgs = @ \o SubSeq(history, Len(synced.msgs) + 1, Len(history))]
                  ELSE [msgs |-> history, reset |-> reset]

\* Another caller sends its messages as they are.
Direct(reset) ==
    /\ current' = [msgs |-> history, reset |-> reset]
    /\ UNCHANGED synced

\* send_once: the incremental state is dropped when the request says so.
Begin(req, c) ==
    /\ context' = IF req.reset THEN None ELSE c
    /\ request' = [req EXCEPT !.pc = "prepare", !.reconnected = FALSE, !.again = FALSE]

StartRequest ==
    /\ request.pc = "idle"
    /\ turn # 0 /\ Fresh
    /\ \/ Client = "actor" /\ Sync(TRUE)
       \/ Client = "any" /\ \E reset \in BOOLEAN : Direct(reset)
    /\ Begin([Idle EXCEPT !.input = current'.msgs, !.reset = current'.reset], context)
    /\ UNCHANGED <<history, turn, socket, responses, hidden, answered, nextItem, faults>>

-----------------------------------------------------------------------------
(* Sending.                                                                *)

LengthOnly(base, input) == Len(base) <= Len(input)

\* value_slice_starts_with; the rest of the request is the same throughout.
Continues(base, input) == IsPrefix(base, input)

\* incremental_response_create_payload, once per send_with_auth: a reconnect
\* sends the same payload again.
Prepare ==
    /\ request.pc = "prepare"
    /\ LET inc == context.id # 0 /\ Continues(context.base, request.input)
       IN request' = [request EXCEPT !.pc = IF socket = "none" THEN "connect" ELSE "sent",
              !.prev = IF inc THEN context.id ELSE 0,
              !.wire = IF inc THEN SubSeq(request.input, Len(context.base) + 1, Len(request.input)) ELSE request.input]
    /\ UNCHANGED <<history, turn, synced, current, context, socket, responses, hidden, answered, nextItem, faults>>

\* The cached socket is taken out for the time of the request.
Connect ==
    /\ request.pc = "connect"
    /\ request' = [request EXCEPT !.pc = "sent"]
    /\ socket' = "live"
    /\ UNCHANGED <<history, turn, synced, current, context, responses, hidden, answered, nextItem, faults>>

Known == request.prev = 0 \/ request.prev \in DOMAIN responses
Seen == (IF request.prev = 0 THEN <<>> ELSE responses[request.prev].items) \o request.wire

\* canonical_response_output_item_for_input
Canonical(items, h) == SelectSeq(items, LAMBDA i : i \notin h)

\* record_incremental_response_context
Recorded(out, id) == IF id = 0 THEN None ELSE [base |-> request.input \o out, id |-> id, turn |-> turn]

\* response.completed: the socket is cached again, the response becomes the
\* base of the next request and its message part of the history.  The item may
\* come back in another form than it was recorded in.
Complete ==
    /\ request.pc = "sent" /\ socket = "live" /\ Known
    /\ \E named, canonical, alike \in BOOLEAN :
        LET id == nextItem
            out == <<nextItem>>
            h == IF canonical THEN hidden ELSE hidden \cup {nextItem}
            back == Canonical(out, h)
        IN /\ hidden' = h
           /\ responses' = responses @@ (id :> [items |-> Seen \o out, turn |-> turn])
           /\ context' = Recorded(back, IF named THEN id ELSE 0)
           /\ history' = history \o (IF alike THEN back ELSE <<-nextItem>>)
           /\ nextItem' = nextItem + 1
    /\ answered' = [asked |-> request.input, got |-> Seen, suffix |-> request.prev # 0, turn |-> turn,
                    from |-> IF request.prev = 0 THEN turn ELSE responses[request.prev].turn]
    /\ request' = Idle
    /\ UNCHANGED <<turn, synced, current, socket, faults>>

Fail == faults < MaxFaults /\ faults' = faults + 1

\* send_provider_request_with_retry_and_stream: the request starts over, with
\* what is remembered of the last response.
Again(c) ==
    IF request.retries < MaxRetries
    THEN Begin([request EXCEPT !.retries = @ + 1], c)
    ELSE request' = Idle /\ context' = c

\* A completed response that cannot be made into a message: it was recorded and
\* its socket cached before.  The request fails, or is sent again when the
\* response names a passing failure.
Unreadable ==
    /\ request.pc = "sent" /\ socket = "live" /\ Known
    /\ Fail
    /\ hidden' \in {hidden, hidden \cup {nextItem}}
    /\ responses' = responses @@ (nextItem :> [items |-> Seen \o <<nextItem>>, turn |-> turn])
    /\ \E named \in BOOLEAN :
        LET c == Recorded(Canonical(<<nextItem>>, hidden'), IF named THEN nextItem ELSE 0)
        IN Again(c) \/ (request' = Idle /\ context' = c)
    /\ nextItem' = nextItem + 1
    /\ UNCHANGED <<history, turn, synced, current, socket, answered>>

NotFoundKeepsContext ==
    /\ request.pc = "sent" /\ socket = "live" /\ ~Known
    /\ socket' = "none"
    /\ request' = [request EXCEPT !.pc = "prepare", !.reconnected = FALSE]
    /\ UNCHANGED <<history, turn, synced, current, context, responses, hidden, answered, nextItem, faults>>

\* The server no longer has the response: the whole payload is sent.
\* In the second send of a request it is a failure like others.
NotFound ==
    /\ request.pc = "sent" /\ socket = "live" /\ ~Known
    /\ socket' = "none"
    /\ IF request.again
       THEN Again(context)
       ELSE request' = [request EXCEPT !.pc = "prepare", !.again = TRUE, !.reconnected = FALSE] /\ context' = None
    /\ UNCHANGED <<history, turn, synced, current, responses, hidden, answered, nextItem, faults>>

\* 401 from the handshake: the token is refreshed and the
\* payload sent once more; a refresh that fails ends the request.
Unauthorized ==
    /\ request.pc = "connect"
    /\ Fail
    /\ socket' = "none"
    /\ \/ ~request.again /\ request' = [request EXCEPT !.pc = "prepare", !.again = TRUE, !.reconnected = FALSE]
       \/ request' = Idle
    /\ UNCHANGED <<history, turn, synced, current, context, responses, hidden, answered, nextItem>>

\* The connection breaks before response.completed (the server may have
\* answered): once it is opened again and the payload repeated.
TransportError ==
    /\ request.pc = "sent"
    /\ (socket = "lost" /\ UNCHANGED faults) \/ Fail
    /\ socket' = "none"
    /\ \/ UNCHANGED <<responses, nextItem>>
       \/ /\ socket = "live" /\ Known
          /\ responses' = responses @@ (nextItem :> [items |-> Seen \o <<nextItem>>, turn |-> turn])
          /\ nextItem' = nextItem + 1
    /\ IF request.reconnected THEN Again(context)
       ELSE request' = [request EXCEPT !.pc = "connect", !.reconnected = TRUE] /\ UNCHANGED context
    /\ UNCHANGED <<history, turn, synced, current, hidden, answered>>

\* A refused connection, a rate limit, a server error: the socket was taken
\* and is not put back.
Transient ==
    /\ request.pc \in {"connect", "sent"}
    /\ Fail
    /\ socket' = "none"
    /\ Again(context)
    /\ UNCHANGED <<history, turn, synced, current, responses, hidden, answered, nextItem>>

\* Too large, an invalid response, an authentication error in the stream: the
\* request fails.
Permanent ==
    /\ request.pc = "sent"
    /\ Fail
    /\ socket' = "none"
    /\ request' = Idle
    /\ UNCHANGED <<history, turn, synced, current, context, responses, hidden, answered, nextItem>>

\* The idle connection is closed by the server.
Drop ==
    /\ socket = "live" /\ Fail
    /\ socket' = "lost"
    /\ UNCHANGED <<history, turn, synced, current, context, request, responses, hidden, answered, nextItem>>

\* The server forgets what it does not store: the client learns it later.
Forget ==
    /\ DOMAIN responses # {} /\ Fail
    /\ \E id \in DOMAIN responses : responses' = [i \in DOMAIN responses \ {id} |-> responses[i]]
    /\ UNCHANGED <<history, turn, synced, current, context, socket, request, hidden, answered, nextItem>>

\* An abort kills the worker: the next one starts without any of this.
Abort ==
    /\ request.pc # "idle" /\ Fail
    /\ request' = Idle /\ context' = None /\ socket' = "none"
    /\ UNCHANGED <<history, turn, synced, current, responses, hidden, answered, nextItem>>

-----------------------------------------------------------------------------

Init ==
    /\ history = <<>> /\ turn = 0 /\ synced = NoSync /\ current = [msgs |-> <<>>, reset |-> FALSE]
    /\ context = None /\ socket = "none" /\ request = Idle
    /\ responses = [i \in {} |-> 0] /\ hidden = {}
    /\ answered = [asked |-> <<>>, got |-> <<>>, suffix |-> FALSE, turn |-> 0, from |-> 0]
    /\ nextItem = 1 /\ faults = 0

Next ==
    \/ StartTurn \/ ToolResult \/ Compress \/ StartRequest
    \/ Prepare \/ Connect \/ Complete \/ Unreadable \/ NotFound
    \/ Unauthorized \/ TransportError \/ Transient \/ Permanent \/ Drop \/ Forget \/ Abort

Spec == Init /\ [][Next]_vars

\* The worker runs; the server answers or the connection times out.
FairSpec == Spec /\ WF_vars(Prepare) /\ WF_vars(Connect) /\ WF_vars(Complete \/ NotFound \/ TransportError)

-----------------------------------------------------------------------------
(* Properties.                                                             *)

TypeOK ==
    /\ request.pc \in {"idle", "prepare", "connect", "sent"}
    /\ socket \in {"none", "live", "lost"}
    /\ (request.pc = "connect" => socket = "none") /\ (request.pc = "sent" => socket # "none")
    /\ request.retries \in 0..MaxRetries

\* What the server worked on, suffixes put after the responses they continue,
\* is what the caller asked, whatever was lost or forgotten on the way.
ServerSeesRequest == Canonical(answered.got, hidden) = answered.asked

\* A request holds the history of the session: the context that is kept up to
\* date by appending never drifts from it.
RequestIsHistory == request.pc # "idle" => request.input = history

\* No request of the session continues a response of an earlier turn.
TurnsAreIsolated == answered.suffix => answered.from = answered.turn

\* A request ends: with an answer or an error.
RequestEnds == request.pc # "idle" ~> request.pc = "idle"

=============================================================================
