-------------------------------- MODULE WebLive --------------------------------
(***************************************************************************)
(* The live state that WebChannelMain (channels/web/main.rs) keeps of a    *)
(* foreground session, the markdown renderer of streamed text, and the     *)
(* chat and home subscribers that are shown the session.                   *)
(*                                                                         *)
(* The main thread handles one command at a time, so a step here is one    *)
(* command.  The commands come from two sources that race: the channel     *)
(* service announces a posted message ("queued"), the session's own events *)
(* follow in the order the session emits them.  A message is named by its  *)
(* position in the history, so a response that failed leaves its name to   *)
(* the message that is written next.                                       *)
(*                                                                         *)
(* Text is a sequence of atoms: "t" plain text, "o" the opening of a link  *)
(* to a file of the workspace, "w" of a link to anything else, "c" the     *)
(* bracket that closes a link, "k" a mark that opens or closes code; "O"   *)
(* is an opening whose target the renderer replaced by an attachment.      *)
(***************************************************************************)
EXTENDS Integers, Sequences, SequencesExt, FiniteSets, FiniteSetsExt

CONSTANTS
    Users,         \* messages the user may post
    MaxTurns,      \* bound: turns
    MaxMsgs,       \* bound: requests of a turn
    MaxRetries,    \* bound: attempts of a request that are made again
    MaxPosts,      \* bound: messages that are posted
    MaxIdx,        \* bound: stream events of a response
    Chunks,        \* the pieces of text a response is streamed in
    Items,         \* items of a response that hold a tool call
    MaxParts,      \* bound: parts of a reasoning summary
    PendingLimit,  \* STREAM_MARKDOWN_PENDING_LIMIT, in atoms
    MaxLost,       \* bound: events the bridge loses, because the metadata file is being rewritten
    MidLink,       \* a client may subscribe while a link is held back
    Reposts,       \* a client may post a message again while it waits
    Compacts,      \* the session may compact its history
    Crashes        \* the runtime of the session may crash

\* append_history_message gives a message that was posted an id of its own, which names its position: one no message
\* was queued under.
Rewritten == "written"

WebLiveAssumption ==
    /\ {MaxTurns, MaxMsgs, MaxRetries, MaxPosts, MaxIdx, MaxParts, PendingLimit, MaxLost} \subseteq Nat
    /\ Chunks \subseteq {"plain", "opens", "closes", "link", "web", "code"}
    /\ Items \subseteq Nat /\ Rewritten \notin Users
    /\ {MidLink, Reposts, Compacts, Crashes} \subseteq BOOLEAN

\* The text of a piece of a streamed message.
Atoms == [plain |-> <<"t">>, opens |-> <<"t", "o">>, closes |-> <<"c", "t">>, link |-> <<"o", "c", "o">>,
          web |-> <<"w", "o", "c">>, code |-> <<"k", "o", "k", "w">>]

\* STREAM_MARKDOWN_PENDING_CHUNK_LIMIT
ChunkLimit == 2

VARIABLES
    sess,      \* the session: its phase, its history's length, what it streams and what it will write
    posted,    \* messages on their way to the session, oldest first
    waiting,   \* messages the session has taken and not written, oldest first
    live,      \* live_states[key]
    renderers, \* stream_renderers: response -> [pending, chunks]
    chat,      \* a chat subscriber: on, and what it shows
    home,      \* a home subscriber: on, its queue, and the state it shows
    alarm,     \* a stream_commit_mismatch was published
    typing,    \* processing_states[chat] is Typing
    lost       \* events lost so far

vars == <<sess, posted, waiting, live, renderers, chat, home, alarm, typing, lost>>

\* The position of no message: the first message of a history is number 1.
NoMsg == 0

NoProv == [m |-> NoMsg, text |-> <<>>, calls |-> <<>>, reason |-> <<>>]

\* ChatLiveState::default
Idle == [turn |-> 0, comp |-> FALSE, prov |-> NoProv, tools |-> {}, queued |-> <<>>, err |-> FALSE,
         next |-> <<>>, bad |-> {}]

\* The session: posts counts the messages posted, n the messages of its history, batch and told are the messages of
\* a turn that begins, sent is all text streamed for the response under way, and text, calls and reason are what its
\* last attempt streamed; again: an attempt before it streamed something; over: a turn was cut off for a newer message
\* and its end was not told; cont: pending_continuation; fresh: the messages posted since a turn last completed.
Quiet == [phase |-> "idle", posts |-> 0, turn |-> 0, n |-> 0, k |-> 0, tries |-> 0, idx |-> 0, comp |-> FALSE,
          batch |-> <<>>, told |-> "", sent |-> <<>>, text |-> <<>>, calls |-> <<>>, reason |-> <<>>, done |-> {},
          over |-> FALSE, again |-> FALSE, cont |-> FALSE, fresh |-> {}]

\* An event of the session, or of the channel service, about the session.
Event(type) == [type |-> type, turn |-> 0, m |-> NoMsg, idx |-> -1, chunk |-> <<>>, item |-> 0, call |-> FALSE,
                part |-> 0, user |-> "", tool |-> 0]

\* WebChannelMain::new
Init ==
    /\ sess = Quiet /\ posted = <<>> /\ waiting = <<>>
    /\ live = Idle /\ renderers = <<>> /\ alarm = FALSE /\ typing = FALSE /\ lost = 0
    /\ chat = [on |-> FALSE, m |-> NoMsg, text |-> <<>>, turn |-> 0]
    /\ home = [on |-> FALSE, rx |-> <<>>, state |-> "idle", asked |-> FALSE]

--------------------------------------------------------------------------------
(* The renderer of streamed markdown. *)

Opens(a) == a \in {"o", "w"}

\* find_markdown_link_start: the first opening of a link outside code, 0 when there is none; whether s begins in code is
\* not known to it.
LinkStart(s) ==
    LET marks(i) == Cardinality({j \in 1..i : s[j] = "k"})
        starts == {i \in DOMAIN s : Opens(s[i]) /\ marks(i) % 2 = 0}
    IN IF starts = {} THEN 0 ELSE Min(starts)

\* find_markdown_link_end: the bracket that closes the link s opens, 0 when s does not hold it.
LinkEnd(s) ==
    LET opens(i)  == Cardinality({j \in 2..i : Opens(s[j])})
        closes(i) == Cardinality({j \in 2..i : s[j] = "c"})
        ends == {i \in 2..Len(s) : s[i] = "c" /\ closes(i) > opens(i)}
    IN IF ends = {} THEN 0 ELSE Min(ends)

\* render_link_segment: the target of a link to a file of the workspace becomes an attachment, any other stays.
RenderLink(seg) == IF Head(seg) = "o" THEN <<"O">> \o Tail(seg) ELSE seg

\* The loop of render_delta over what is left of its input.
RECURSIVE RenderRest(_, _)
RenderRest(rest, chunks) ==
    LET start  == LinkStart(rest)
        before == SubSeq(rest, 1, start - 1)
        cand   == SubSeq(rest, start, Len(rest))
        end    == LinkEnd(cand)
    IN  IF start = 0 THEN [out |-> rest, pending |-> <<>>, chunks |-> chunks]
        ELSE IF end = 0
             THEN IF Len(cand) > PendingLimit \/ chunks + 1 >= ChunkLimit
                  THEN [out |-> before \o cand, pending |-> <<>>, chunks |-> 0]
                  ELSE [out |-> before, pending |-> cand, chunks |-> chunks + 1]
        ELSE LET tail == RenderRest(SubSeq(cand, end + 1, Len(cand)), 0)
             IN [tail EXCEPT !.out = before \o RenderLink(SubSeq(cand, 1, end)) \o @]

\* Faulty: what the renderer holds back is forgotten.
RenderFresh(r, delta) == RenderRest(delta, r.chunks)

\* StreamMarkdownRenderer::render_delta
RenderDelta(r, delta) == RenderRest(r.pending \o delta, r.chunks)

\* A renderer is kept under its turn and its message.
Renderer(key) == IF key \in DOMAIN renderers THEN renderers[key] ELSE [pending |-> <<>>, chunks |-> 0]

\* What was sent, from what was rendered.
Raw(s) == [i \in DOMAIN s |-> IF s[i] = "O" THEN "o" ELSE s[i]]

--------------------------------------------------------------------------------
(* ChatLiveState. *)

\* summary_state
Summary(l) ==
    IF l.turn # 0 THEN "running" ELSE IF l.queued # <<>> THEN "queued" ELSE IF l.err THEN "failed" ELSE "idle"

Expected(l, m) == IF m \in DOMAIN l.next THEN l.next[m] ELSE 0

Forget(f, S) == [x \in DOMAIN f \ S |-> f[x]]

DropProv(l, m) == IF l.prov.m = m THEN [l EXCEPT !.prov = NoProv] ELSE l

\* validate_stream_event: only an event with a message and an index is checked.
Indexed(e) == e.type # "stream_error" /\ e.m # NoMsg /\ e.idx >= 0

\* Faulty: an event beyond the expected index passes.
NotBefore(l, e) == Indexed(e) => e.m \notin l.bad /\ e.idx >= Expected(l, e.m)

Contiguous(l, e) == Indexed(e) => e.m \notin l.bad /\ e.idx = Expected(l, e.m)

Validated(l, e) == IF Indexed(e) THEN [l EXCEPT !.next = (e.m :> (e.idx + 1)) @@ @] ELSE l

\* The event is refused: its message is invalid from now on.
Refused(l, e) == IF e.m \in l.bad THEN l ELSE [DropProv(l, e.m) EXCEPT !.bad = @ \cup {e.m}]

\* ensure_provisional_message
Ensure(l, e) == IF l.prov.m = e.m THEN l.prov ELSE [NoProv EXCEPT !.m = e.m]

\* apply_assistant_delta
ApplyText(l, e) ==
    [l EXCEPT !.turn = e.turn, !.prov = [Ensure(l, e) EXCEPT !.text = @ \o e.chunk]]

\* Faulty: the item id of a call is not compared.
CallByIdOnly(s, e) == SelectInSeq(s, LAMBDA c : c.call /\ e.call /\ c.item = e.item)

\* The tool call an event belongs to: the same call id, or the same item id.
CallOf(s, e) == SelectInSeq(s, LAMBDA c : c.item = e.item)

\* apply_tool_call_delta
ApplyCall(l, e) ==
    LET p == Ensure(l, e)
        i == CallOf(p.calls, e)
    IN [l EXCEPT !.turn = e.turn,
          !.prov = IF i = 0 THEN [p EXCEPT !.calls = Append(@, [item |-> e.item, call |-> e.call, n |-> 1])]
                   ELSE [p EXCEPT !.calls[i].n = @ + 1, !.calls[i].call = @ \/ e.call]]

\* Faulty: the text of every part goes to the first one.
OnePart(s, e) == SelectInSeq(s, LAMBDA r : TRUE)

\* Parts of a reasoning summary are told apart by their index.
PartOf(s, e) == SelectInSeq(s, LAMBDA r : r.ix = e.part)

\* apply_reasoning_summary_delta
ApplyReason(l, e) ==
    LET p == Ensure(l, e)
        i == PartOf(p.reason, e)
    IN [l EXCEPT !.turn = e.turn,
          !.prov = IF i = 0 THEN [p EXCEPT !.reason = Append(@, [ix |-> e.part, n |-> 1])]
                   ELSE [p EXCEPT !.reason[i].n = @ + 1]]

\* apply_tool_result_done
ApplyResult(l, e) == [l EXCEPT !.tools = {t \in @ : t.call # e.tool} \cup {[call |-> e.tool, committed |-> FALSE]}]

\* The message with this id is queued no more.
Unqueue(l, u) == [l EXCEPT !.queued = SelectSeq(@, LAMBDA q : q # u)]

TurnStarted(l, e) == [l EXCEPT !.err = FALSE, !.turn = e.turn, !.prov = NoProv, !.tools = {}, !.next = <<>>, !.bad = {}]

\* Faulty: the queue outlives the turn.
TurnCompletedKeeps(l) ==
    [l EXCEPT !.turn = 0, !.prov = NoProv, !.tools = {}, !.next = <<>>, !.bad = {}, !.err = FALSE]

TurnCompleted(l) ==
    [l EXCEPT !.turn = 0, !.prov = NoProv, !.tools = {}, !.next = <<>>, !.bad = {}, !.queued = <<>>, !.err = FALSE]

\* Faulty: the turn stays active.
StreamErrorKeepsTurn(l, e) ==
    LET d == IF e.m = NoMsg THEN [l EXCEPT !.prov = NoProv]
             ELSE [DropProv(l, e.m) EXCEPT !.next = Forget(@, {e.m}), !.bad = @ \cup {e.m}]
    IN [d EXCEPT !.tools = {}, !.err = TRUE]

\* stream_error: of one response, or of the turn when it names no message
StreamError(l, e) ==
    LET d == IF e.m = NoMsg THEN [l EXCEPT !.prov = NoProv]
             ELSE [DropProv(l, e.m) EXCEPT !.next = Forget(@, {e.m}), !.bad = @ \cup {e.m}]
    IN [d EXCEPT !.turn = 0, !.tools = {}, !.err = TRUE]

\* Faulty: no look for the same id.
QueueTwice(l, e) == [l EXCEPT !.queued = Append(@, e.user), !.err = FALSE]

Queue(l, e) == [l EXCEPT !.queued = IF e.user \in ToSet(@) THEN @ ELSE Append(@, e.user), !.err = FALSE]

\* record_session_stream
Record(l, e) ==
    CASE e.type = "user_message_queued"    -> Queue(l, e)
      [] e.type = "user_message_started"   -> [l EXCEPT !.err = FALSE]
      [] e.type = "user_message_committed" -> [Unqueue(l, e.user) EXCEPT !.err = FALSE]
      [] e.type = "turn_started"           -> TurnStarted(l, e)
      [] e.type = "compact_started"        -> [l EXCEPT !.comp = TRUE]
      [] e.type = "compact_completed"      -> [l EXCEPT !.comp = FALSE]
      [] e.type = "text"                   -> ApplyText(l, e)
      [] e.type = "call"                   -> ApplyCall(l, e)
      [] e.type = "reason"                 -> ApplyReason(l, e)
      [] e.type = "part_added"             -> [l EXCEPT !.turn = e.turn]
      [] e.type = "tool_result"            -> ApplyResult(l, e)
      [] e.type = "stream_error"           -> StreamError(l, e)
      [] e.type = "turn_completed"         -> TurnCompleted(l)

\* Faulty: the provisional message is not cleared.
RecordAppendedKeeps(l, m, u, tools) ==
    [Unqueue(l, u) EXCEPT !.tools = {[t EXCEPT !.committed = @ \/ t.call \in tools] : t \in @}]

\* record_message_appended of a message that is the response m, a user's message with the id u, or the results of
\* tools.  A queued entry names no conversation, so the search for one by conversation finds none.
RecordAppended(l, m, u, tools) ==
    [DropProv(Unqueue(l, u), m) EXCEPT !.next = Forget(@, {m}), !.bad = @ \ {m},
                           !.tools = {[t EXCEPT !.committed = @ \/ t.call \in tools] : t \in @}]

\* stream_message_fingerprint
StreamPrint(p) == [text |-> p.text, calls |-> {<<c.item, c.n>> : c \in ToSet(p.calls)},
                   reason |-> {<<r.ix, r.n>> : r \in ToSet(p.reason)}]

\* committed_message_fingerprint: reasoning parts are numbered through all items of the message
CommittedPrint(s) == [text |-> s.text, calls |-> {<<c.item, c.n>> : c \in ToSet(s.calls)},
                      reason |-> {<<i - 1, s.reason[i].n>> : i \in DOMAIN s.reason}]

\* commit_consistency_error
Mismatch(l, m, s) ==
    /\ l.prov.m = m
    /\ l.prov.text # <<>> \/ l.prov.calls # <<>> \/ l.prov.reason # <<>>
    /\ StreamPrint(l.prov) # CommittedPrint(s)

--------------------------------------------------------------------------------
(* What subscribers are sent. *)

\* publish_foreground_session_state_event
PublishState(l) == home' = IF home.on THEN [home EXCEPT !.rx = Append(@, Summary(l))] ELSE home

\* Faulty: an error is not announced to home.
QuietErrors == {"user_message_queued", "user_message_started", "user_message_committed", "turn_started",
                "turn_completed"}

Lifecycle == {"user_message_queued", "user_message_started", "user_message_committed", "turn_started",
              "turn_completed", "stream_error"}

\* What a chat client makes of an event: deltas extend the message they name, the rest clears it.  The text that the
\* renderers flush comes just before an event that clears it.
Shown(c, e, out) ==
    CASE ~c.on -> c
      [] e.type = "text" ->
           IF c.m = e.m THEN [c EXCEPT !.text = @ \o out, !.turn = e.turn]
           ELSE [c EXCEPT !.m = e.m, !.text = out, !.turn = e.turn]
      [] e.type = "turn_started" -> [c EXCEPT !.m = NoMsg, !.text = <<>>, !.turn = e.turn]
      [] e.type \in {"turn_completed", "stream_error"} -> [c EXCEPT !.m = NoMsg, !.text = <<>>, !.turn = 0]
      [] OTHER -> c

\* protocol::chat_stream_error: the channel's own report, of the message m or of none
Reported(c, m) == IF c.on /\ m \in {NoMsg, c.m} THEN [c EXCEPT !.m = NoMsg, !.text = <<>>] ELSE c

\* Faulty: the end of a turn flushes nothing.
DrainedAtStart(e) == {key \in DOMAIN renderers : e.type = "turn_started"}

\* drain_stream_renderer_pending: all renderers of the session, or those of the turn that ended
Drained(e) ==
    {key \in DOMAIN renderers : \/ e.type = "turn_started"
                                \/ e.type \in {"turn_completed", "stream_error"} /\ e.turn \in {0, key[1]}}

\* session_stream: check, render, record, announce the state, flush the renderers, publish.
Deliver(e) ==
    LET key  == <<e.turn, e.m>>
        l    == Record(Validated(live, e), e)
        out  == RenderDelta(Renderer(key), e.chunk)
        rend == IF e.type = "text"
                THEN (key :> [pending |-> out.pending, chunks |-> out.chunks]) @@ renderers ELSE renderers
    IN  IF Contiguous(live, e)
        THEN /\ live' = l
             /\ renderers' = Forget(rend, Drained(e))
             /\ chat' = Shown(chat, e, out.out)
             /\ IF e.type \in Lifecycle THEN PublishState(l) ELSE UNCHANGED home
        ELSE /\ live' = Refused(live, e)
             /\ chat' = Reported(chat, e.m)
             /\ PublishState(live')
             /\ UNCHANGED renderers

\* run_conversation_event_bridge: an event whose projection fails is logged and gone.
Lose ==
    /\ lost < MaxLost /\ lost' = lost + 1
    /\ UNCHANGED <<live, renderers, chat, home, typing>>

\* SetProcessing comes before the stream event when a turn starts, ends or fails.
Processing(e) ==
    CASE e.type = "turn_started" -> typing' = TRUE
      [] e.type = "turn_completed" \/ (e.type = "stream_error" /\ e.turn = 0) -> typing' = FALSE
      [] OTHER -> UNCHANGED typing

SessionStream(e) == (Processing(e) /\ Deliver(e) /\ UNCHANGED lost) \/ Lose

\* message_appended for the next message of the history: a response, a user's message with the id u, or the results of
\* tools; a mismatch is reported before the message itself is sent, which replaces the streamed one.  An alarm counts
\* only when one attempt streamed the response.
MessageAppended(response, u, tools) ==
    LET m == sess.n + 1
    IN \/ /\ alarm' = (alarm \/ (response /\ Mismatch(live, m, sess) /\ ~sess.again))
          /\ live' = RecordAppended(live, m, u, tools)
          /\ chat' = IF chat.m = m THEN Reported(chat, m) ELSE chat
          /\ PublishState(live')
          /\ UNCHANGED <<renderers, typing, lost>>
       \/ Lose /\ UNCHANGED alarm

--------------------------------------------------------------------------------
(* The channel service and the session, in the order they emit events. *)

\* A message is posted, or posted again: ChannelService announces it before it hands it to the session.
Post(u) ==
    /\ sess.phase # "crashed" /\ sess.posts < MaxPosts
    /\ u \in ToSet(posted \o waiting \o sess.batch) => Reposts
    /\ sess' = [sess EXCEPT !.posts = @ + 1, !.fresh = @ \cup {u}]
    /\ posted' = Append(posted, u)
    /\ SessionStream([Event("user_message_queued") EXCEPT !.user = u])
    /\ UNCHANGED <<waiting, alarm>>

\* The agent session service announces a message and passes it to the session.
Take ==
    /\ posted # <<>> /\ sess.phase # "crashed"
    /\ SessionStream([Event("user_message_started") EXCEPT !.user = Head(posted)])
    /\ posted' = Tail(posted) /\ waiting' = Append(waiting, Head(posted))
    /\ UNCHANGED <<sess, alarm>>

\* The session is in one of these phases and does not compact.
At(phases) == sess.phase \in phases /\ ~sess.comp

\* run_pending_data_if_idle: an idle session begins a turn with all messages that wait.
BeginTurn ==
    /\ At({"idle"}) /\ waiting # <<>> /\ sess.turn < MaxTurns
    /\ sess' = [sess EXCEPT !.phase = "committing", !.batch = waiting]
    /\ waiting' = <<>>
    /\ UNCHANGED <<posted, live, renderers, chat, home, alarm, typing, lost>>

\* Each is written to the history, under the id it has there, and sent as a message that was appended, then as
\* committed: neither names what the channel queued.
Commit ==
    /\ At({"committing"}) /\ sess.told = "" /\ sess.batch # <<>>
    /\ sess' = [sess EXCEPT !.told = Head(sess.batch), !.batch = Tail(@), !.n = @ + 1]
    /\ MessageAppended(FALSE, Rewritten, {})
    /\ UNCHANGED <<posted, waiting>>

TellCommitted ==
    /\ sess.phase = "committing" /\ sess.told # ""
    /\ sess' = [sess EXCEPT !.told = ""]
    /\ SessionStream([Event("user_message_committed") EXCEPT !.user = Rewritten])
    /\ UNCHANGED <<posted, waiting, alarm>>

\* A new request: nothing of its response is streamed.
Requested(s, k) ==
    [s EXCEPT !.phase = "streaming", !.k = k, !.tries = 0, !.idx = 0, !.sent = <<>>, !.text = <<>>, !.calls = <<>>,
              !.reason = <<>>, !.done = {}, !.over = FALSE, !.again = FALSE, !.cont = FALSE]

\* The turn is announced after its messages.
StartTurn ==
    /\ At({"committing"}) /\ sess.told = "" /\ sess.batch = <<>>
    /\ sess' = [Requested(sess, 1) EXCEPT !.turn = @ + 1]
    /\ SessionStream([Event("turn_started") EXCEPT !.turn = sess'.turn])
    /\ UNCHANGED <<posted, waiting, alarm>>

\* continue_turn_from_history: a turn that failed is taken up again, without a message.
ContinueTurn ==
    /\ At({"idle"}) /\ sess.cont /\ sess.turn < MaxTurns
    /\ sess' = [Requested(sess, 1) EXCEPT !.turn = @ + 1]
    /\ SessionStream([Event("turn_started") EXCEPT !.turn = sess'.turn])
    /\ UNCHANGED <<posted, waiting, alarm>>

\* Where the session is in its turn: its response will be the next message of the history.
Here(type) == [Event(type) EXCEPT !.turn = sess.turn, !.m = sess.n + 1, !.idx = sess.idx]

Streams == At({"streaming"}) /\ sess.idx < MaxIdx

StreamText(c) ==
    /\ Streams
    /\ sess' = [sess EXCEPT !.idx = @ + 1, !.text = @ \o c, !.sent = @ \o c]
    /\ SessionStream([Here("text") EXCEPT !.chunk = c])
    /\ UNCHANGED <<posted, waiting, alarm>>

\* The first events of a tool call may name its item only.  (Bound: the last response of a turn calls no tool.)
StreamCall(item, named) ==
    /\ Streams /\ sess.k < MaxMsgs
    /\ LET i == SelectInSeq(sess.calls, LAMBDA c : c.item = item)
       IN sess' = [sess EXCEPT !.idx = @ + 1,
                     !.calls = IF i = 0 THEN Append(@, [item |-> item, n |-> 1]) ELSE [@ EXCEPT ![i].n = @ + 1]]
    /\ SessionStream([Here("call") EXCEPT !.item = item, !.call = named])
    /\ UNCHANGED <<posted, waiting, alarm>>

\* Text of a part of the reasoning summary: of the last part, or of the next one.  (Bound: a response has one reasoning
\* item; the parts of a second one would be numbered from 0 again, and the fingerprints would differ.)
StreamReason(part) ==
    /\ Streams /\ part < MaxParts
    /\ \/ /\ part = Len(sess.reason)
          /\ sess' = [sess EXCEPT !.idx = @ + 1, !.reason = Append(@, [n |-> 1])]
       \/ /\ part = Len(sess.reason) - 1
          /\ sess' = [sess EXCEPT !.idx = @ + 1, !.reason[part + 1].n = @ + 1]
    /\ SessionStream([Here("reason") EXCEPT !.part = part])
    /\ UNCHANGED <<posted, waiting, alarm>>

\* A part of a reasoning summary is announced.
AddPart ==
    /\ Streams /\ MaxParts > 0
    /\ sess' = [sess EXCEPT !.idx = @ + 1]
    /\ SessionStream([Here("part_added") EXCEPT !.part = Len(sess.reason)])
    /\ UNCHANGED <<posted, waiting, alarm>>

\* The provider tries the request again: the session logs that, and what the new attempt streams follows what the old
\* one did, under the same message and with the next index.
Retry ==
    /\ At({"streaming"}) /\ sess.tries < MaxRetries
    /\ sess' = [sess EXCEPT !.tries = @ + 1, !.text = <<>>, !.calls = <<>>, !.reason = <<>>,
                            !.again = @ \/ sess.idx > 0]
    /\ UNCHANGED <<posted, waiting, live, renderers, chat, home, alarm, typing, lost>>

\* The response is complete and in the history: its tools run next, or the turn ends.
CommitResponse ==
    /\ At({"streaming"})
    /\ MessageAppended(TRUE, "", {})
    /\ sess' = [sess EXCEPT !.phase = IF sess.calls = <<>> THEN "ending" ELSE "tools", !.n = @ + 1]
    /\ UNCHANGED <<posted, waiting>>

\* The id of a call, unique in the turn.
CallId(item) == MaxMsgs * item + sess.k

Calls == {CallId(c.item) : c \in ToSet(sess.calls)}

ToolDone(item) ==
    /\ At({"tools"}) /\ CallId(item) \in Calls \ sess.done
    /\ sess' = [sess EXCEPT !.done = @ \cup {CallId(item)}]
    /\ SessionStream([Event("tool_result") EXCEPT !.turn = sess.turn, !.tool = CallId(item)])
    /\ UNCHANGED <<posted, waiting, alarm>>

\* The results of all tools are written and the next request is made; a batch that a newer message cut off ends the
\* turn without an event that says so.
CommitResults ==
    /\ At({"tools"})
    /\ MessageAppended(FALSE, "", Calls)
    /\ \/ /\ sess.done = Calls
          /\ sess' = [Requested(sess, sess.k + 1) EXCEPT !.n = @ + 1]
       \/ /\ waiting # <<>>
          /\ sess' = [sess EXCEPT !.phase = "idle", !.n = @ + 1, !.over = TRUE]
    /\ UNCHANGED <<posted, waiting>>

EndTurn ==
    /\ sess.phase = "ending"
    /\ SessionStream([Event("turn_completed") EXCEPT !.turn = sess.turn])
    /\ sess' = [sess EXCEPT !.phase = "idle", !.fresh = {}]
    /\ UNCHANGED <<posted, waiting, alarm>>

\* A request that failed: an error of its response, then of the turn.
FailResponse ==
    /\ At({"streaming"})
    /\ SessionStream(Here("stream_error"))
    /\ sess' = [sess EXCEPT !.phase = "failing"]
    /\ UNCHANGED <<posted, waiting, alarm>>

\* A request that is cancelled, and fails its turn, or that a newer message cuts off.
CancelRequest ==
    /\ At({"streaming"})
    /\ SessionStream(Here("stream_error"))
    /\ \/ sess' = [sess EXCEPT !.phase = "failing"]
       \/ waiting # <<>> /\ sess' = [sess EXCEPT !.phase = "idle"]
    /\ UNCHANGED <<posted, waiting, alarm>>

\* A turn fails after its response did, or when its next request cannot be made; it can be continued or not.  TurnFailed
\* is projected as an error and as a stream_error of the turn: both clear what a client shows.
FailTurn ==
    /\ At({"failing"}) \/ (At({"streaming"}) /\ sess.idx = 0 /\ sess.tries = 0)
    /\ SessionStream(Event("stream_error"))
    /\ \E b \in BOOLEAN : sess' = [sess EXCEPT !.phase = "idle", !.cont = b]
    /\ UNCHANGED <<posted, waiting, alarm>>

\* RuntimeCrashed is projected as an error only: SendError tells the subscribers and records nothing.
Crash ==
    /\ Crashes /\ sess.phase # "crashed"
    /\ sess' = [sess EXCEPT !.phase = "crashed"]
    /\ chat' = Reported(chat, NoMsg)
    /\ typing' = FALSE
    /\ UNCHANGED <<posted, waiting, live, renderers, home, alarm, lost>>

\* Before it appends a message, and when it is asked to, the session may compact its history; that it failed is
\* recorded like that it is done.
Compact ==
    /\ Compacts /\ sess.phase \in {"idle", "committing", "streaming", "tools"}
    /\ sess' = [sess EXCEPT !.comp = ~@]
    /\ SessionStream(Event(IF sess.comp THEN "compact_completed" ELSE "compact_started"))
    /\ UNCHANGED <<posted, waiting, alarm>>

--------------------------------------------------------------------------------
(* Subscribers. *)

\* SubscribeChat: the subscription and the copy of the live state are one step.
SubscribeChat ==
    /\ ~chat.on
    /\ MidLink \/ \A key \in DOMAIN renderers : renderers[key].pending = <<>>
    /\ chat' = [on |-> TRUE, m |-> live.prov.m, text |-> live.prov.text, turn |-> live.turn]
    /\ UNCHANGED <<sess, posted, waiting, live, renderers, home, alarm, typing, lost>>

LeaveChat ==
    /\ chat.on
    /\ chat' = [on |-> FALSE, m |-> NoMsg, text |-> <<>>, turn |-> 0]
    /\ UNCHANGED <<sess, posted, waiting, live, renderers, home, alarm, typing, lost>>

\* SubscribeHome; the snapshot is built later, from live states that are asked for one by one.
SubscribeHome ==
    /\ ~home.on
    /\ home' = [on |-> TRUE, rx |-> <<>>, state |-> "idle", asked |-> FALSE]
    /\ UNCHANGED <<sess, posted, waiting, live, renderers, chat, alarm, typing, lost>>

HomeSnapshot ==
    /\ home.on /\ ~home.asked
    /\ home' = [home EXCEPT !.asked = TRUE, !.state = Summary(live)]
    /\ UNCHANGED <<sess, posted, waiting, live, renderers, chat, alarm, typing, lost>>

HomeReads ==
    /\ home.asked /\ home.rx # <<>>
    /\ home' = [home EXCEPT !.rx = Tail(@), !.state = Head(home.rx)]
    /\ UNCHANGED <<sess, posted, waiting, live, renderers, chat, alarm, typing, lost>>

\* Bound on what a home subscriber has not read.
HomeBound == Len(home.rx) <= 1

SessionNext ==
    \/ \E u \in Users : Post(u)
    \/ Take \/ BeginTurn \/ Commit \/ TellCommitted \/ StartTurn \/ ContinueTurn
    \/ \E c \in Chunks : StreamText(Atoms[c])
    \/ \E i \in Items, b \in BOOLEAN : StreamCall(i, b)
    \/ \E i \in 0..MaxParts : StreamReason(i)
    \/ AddPart \/ Retry \/ CommitResponse
    \/ \E i \in Items : ToolDone(i)
    \/ CommitResults \/ EndTurn \/ FailResponse \/ CancelRequest \/ FailTurn \/ Crash \/ Compact

ClientNext == SubscribeChat \/ LeaveChat \/ SubscribeHome \/ HomeSnapshot \/ HomeReads

Next == (HomeBound /\ SessionNext) \/ ClientNext

Spec == Init /\ [][Next]_vars

--------------------------------------------------------------------------------
(* Properties. *)

TypeOK ==
    /\ sess.phase \in {"idle", "committing", "streaming", "tools", "ending", "failing", "crashed"}
    /\ live.turn \in 0..MaxTurns /\ live.err \in BOOLEAN /\ live.comp \in BOOLEAN
    /\ ToSet(live.queued) \subseteq Users /\ Len(live.queued) = Cardinality(ToSet(live.queued))
    /\ \A key \in DOMAIN renderers : renderers[key].chunks < ChunkLimit
    /\ alarm \in BOOLEAN /\ typing \in BOOLEAN

\* A chat client shows what the session streamed: its text, with links turned back, and what the renderer still
\* holds make up the text of the live message, whenever the client subscribed.
TextIsShownOnce ==
    chat.on /\ chat.m # NoMsg /\ chat.m = live.prov.m
        => Raw(chat.text) \o Renderer(<<live.turn, chat.m>>).pending = live.prov.text

\* A client follows the live message: the two name the same one as soon as it has text.
ClientFollows == chat.on /\ live.prov.text # <<>> => chat.m = live.prov.m

\* The live state says "running" exactly while a turn of the session is under way, or was cut off for a message that
\* begins the next one.
RunningIsTrue ==
    sess.phase # "crashed" =>
        ((Summary(live) = "running") <=> (sess.phase \in {"streaming", "tools", "ending"} \/ sess.over))

\* What is shown as queued is what was posted since a turn last completed, each message once, be it written to the
\* history by now or not: no turn that fails or is cut off, and no other event, takes a message away.
QueuedIsRecent == ToSet(live.queued) = sess.fresh

\* A response that one attempt streamed completely raises no commit mismatch.
NoFalseAlarm == ~alarm

\* A home subscriber that has read all it was sent shows the state of the session.
HomeConverges == home.asked /\ home.rx = <<>> => home.state = Summary(live)

\* Even when events are lost the live message is never text with a hole: it is a prefix of what was streamed.
NoHole == sess.phase = "streaming" /\ live.prov.m = sess.n + 1 => IsPrefix(live.prov.text, sess.sent)

\* No renderer outlives its turn.
RenderersEnd == sess.phase \in {"idle", "committing"} /\ ~sess.over => DOMAIN renderers = {}

\* Nobody is shown typing for a session that crashed, or that is idle with no message to begin a turn with.
TypingEnds == typing => sess.phase # "crashed" /\ (sess.phase = "idle" => waiting # <<>>)

===============================================================================
