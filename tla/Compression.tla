---------------------------- MODULE Compression ----------------------------
(***************************************************************************)
(* The history a session keeps for its model and how it is shortened       *)
(* (core/src/session_actor/compressor.rs and the calls of actor.rs): a     *)
(* message whose append would exceed the threshold, and /compact, replace  *)
(* the older messages by a summary; a request that is still too large      *)
(* drops the older half.                                                   *)
(*                                                                         *)
(* A session may be resumed with another model between any two steps, so   *)
(* every answer and every compaction is that of any model of Models.  The  *)
(* model that summarises is taken to leave nothing out of what it is told. *)
(***************************************************************************)
EXTENDS Payload

CONSTANTS Models,           \* records [provider, sees, draws]
          UserPictures,     \* what a user sends: "none" is a text
          Answers,          \* the kinds of the items of an answer
          ResultPicture,    \* what a tool result carries
          Threshold,        \* threshold_tokens
          RetainRecent,     \* retain_recent_tokens
          MaxPreserved,     \* MAX_PRESERVED_TOOL_CALL_IDS
          MaxMessages,      \* bound on the messages of the conversation
          MaxCompactions,
          MaxPrunes

CompressionAssumption ==
    /\ \A m \in Models : m \in [provider : {"codex", "responses", "completion", "claude"},
                                sees : BOOLEAN, draws : BOOLEAN]
    /\ Threshold \in Nat \ {0}
    /\ RetainRecent \in Nat

VARIABLES history,      \* SessionActor.history
          said,         \* the facts that entered the history
          lost,         \* facts a known loss took from the history
          next,         \* the next fresh fact and call id
          appended,     \* counters of the bounds
          compactions,
          prunes

vars == <<history, said, lost, next, appended, compactions, prunes>>

TypeOK ==
    /\ \A i \in DOMAIN history : history[i].role \in {"User", "Assistant", "Compaction"}
    /\ said \subseteq 1..next /\ lost \subseteq said
    /\ next \in Nat /\ appended \in 0..MaxMessages
    /\ compactions \in 0..MaxCompactions /\ prunes \in 0..MaxPrunes

-----------------------------------------------------------------------------

CallIds(message) == {item.id : item \in ToSet(OfKind(message.data, {"call"}))}
ResultIds(message) == {item.id : item \in ToSet(OfKind(message.data, {"result"}))}

SuffixFrom(messages, start) == SubSeq(messages, start, Len(messages))

\* is_tool_protocol_closed_suffix
ClosedSuffix(messages) ==
    /\ \A i \in DOMAIN messages : \A id \in ResultIds(messages[i]) :
           \E j \in 1..(i - 1) : id \in CallIds(messages[j])
    /\ \A i \in DOMAIN messages : \A id \in CallIds(messages[i]) :
           \E j \in (i + 1)..Len(messages) : id \in ResultIds(messages[j])

\* The estimate: a token for each item.  Each item has at least one.
Tokens(messages) == FoldLeft(LAMBDA sum, m: sum + Len(m.data), 0, messages)

\* adjust_split_index_to_preserve_tool_context: a tail never starts with a
\* result whose call it leaves behind.
Origins(messages, i) ==
    {CHOOSE j \in 1..(i - 1) :
        /\ id \in CallIds(messages[j])
        /\ \A k \in (j + 1)..(i - 1) : id \notin CallIds(messages[k])
     : id \in {r \in ResultIds(messages[i]) : \E j \in 1..(i - 1) : r \in CallIds(messages[j])}}

AdjustSplit(messages, i) ==
    LET Moved[k \in 1..i] ==
            IF Origins(messages, k) = {} THEN k
            ELSE Moved[CHOOSE o \in Origins(messages, k) :
                           \A p \in Origins(messages, k) : o <= p]
    IN  Moved[i]

\* Mutant: the exchange that exceeds the budget is kept too.
RecentStartOverBudget(messages) ==
    LET len == Len(messages)
        From[start \in 1..(len + 1)] ==
            IF start = 1 THEN 1
            ELSE LET candidate == AdjustSplit(messages, start - 1)
                     total == Tokens(SuffixFrom(messages, candidate))
                 IN  IF total >= RetainRecent THEN candidate ELSE From[candidate]
    IN  From[len + 1]

\* recent_tail_start_by_token_budget: whole exchanges from the end while they
\* fit, and always the last one.
RecentStart(messages) ==
    LET len == Len(messages)
        From[start \in 1..(len + 1)] ==
            IF start = 1 THEN 1
            ELSE LET candidate == AdjustSplit(messages, start - 1)
                     total == Tokens(SuffixFrom(messages, candidate))
                 IN  IF total > RetainRecent /\ start <= len THEN start
                     ELSE IF total >= RetainRecent THEN candidate
                     ELSE From[candidate]
    IN  From[len + 1]

-----------------------------------------------------------------------------
(***************************************************************************)
(* The request for a summary.                                              *)
(***************************************************************************)

\* A message that only tells the model of runtime updates.
IsUpdate(message) == message.role = "User" /\ message.data = <<Text({})>>

\* Mutant: tool results are left out as well.
SanitizedWithoutResults(messages) ==
    LET Clean(message) ==
            LET data == Each(OfKind(message.data, {"text", "summary", "file"}),
                             LAMBDA item: <<Text(item.facts)>>)
            IN  IF IsUpdate(message) \/ data = <<>> THEN <<>>
                ELSE <<Message(message.role, data)>>
    IN  Each(messages, Clean)

\* Reasoning and foreign compactions are left out, all else becomes text; the
\* message keeps its role, that of an earlier compaction too.
Sanitized(messages) ==
    LET Plain(item) ==
            IF item.kind \in {"reason", "cipher", "opaque"} THEN <<>> ELSE <<Text(item.facts)>>
        Clean(message) ==
            LET data == Each(message.data, Plain)
            IN  IF IsUpdate(message) \/ data = <<>> THEN <<>>
                ELSE <<Message(message.role, data)>>
    IN  Each(messages, Clean)

\* Mutant: the calls alone.
PreservedCalls(messages, requested) ==
    LET Kept(message) ==
            LET data == SelectSeq(message.data, LAMBDA item:
                            item.kind = "call" /\ item.id \in requested)
            IN  IF data = <<>> THEN <<>> ELSE <<Message(message.role, data)>>
    IN  Each(messages, Kept)

\* The calls the summary asks to keep, with their results.
Preserved(messages, requested) ==
    LET Kept(message) ==
            LET data == SelectSeq(message.data, LAMBDA item:
                            item.kind \in {"call", "result"} /\ item.id \in requested)
            IN  IF data = <<>> THEN <<>> ELSE <<Message(message.role, data)>>
    IN  Each(messages, Kept)

\* The compact endpoint answers with what it alone can read, and may repeat the
\* users' texts before it.  (An answer without such an item would be taken as
\* well, and the older messages would be gone; the endpoint is trusted here.)
CompactAnswer(messages, payload, repeats) ==
    LET Repeated(message) ==
            LET data == OfKind(message.data, {"text"})
            IN  IF message.role # "User" \/ data = <<>> THEN <<>> ELSE <<Message("User", data)>>
    IN  (IF repeats THEN Each(messages, Repeated) ELSE <<>>)
            \o <<Message("Compaction", <<Opaque(FactsOf(payload))>>)>>

\* The messages to summarise and the instruction, which says nothing itself.
SummaryRequest(messages) == Sanitized(messages)

\* What replaces the older messages.  Codex compacts the history itself, with
\* the payload its builder makes of it; the others are asked for a summary, with
\* a request that is not normalised for the provider.  requested is what the
\* answer keeps: the calls a summary names, or, if anything, the users' texts.
Replacement(messages, model, requested) ==
    IF model.provider = "codex"
    THEN CompactAnswer(messages, Build(NormalizeForModel(messages, model), model), requested # {})
    ELSE LET request == SummaryRequest(messages)
         IN  IF request = <<>> THEN <<>>
             ELSE <<Message("Compaction", <<Summary(FactsOf(Build(request, model)))>>)>>
                      \o Preserved(messages, requested)

\* The ids a summary may name: calls of the older messages, or none of them.
Requests(messages) ==
    {ids \in SUBSET (UNION {CallIds(messages[i]) : i \in DOMAIN messages} \cup {0}) :
        Cardinality(ids) <= MaxPreserved}

\* Two losses of the code as it is: a generic summary is made without what an
\* earlier compaction said, and only Codex reads what Codex compacted.
Overlooked(messages, model) ==
    IF model.provider = "codex" THEN {}
    ELSE UNION {FactsOf(OfKind(messages[i].data, {"summary", "opaque"})) : i \in DOMAIN messages}

Compacted(model, requested) ==
    LET start == RecentStart(history)
    IN  Replacement(SubSeq(history, 1, start - 1), model, requested)
            \o SuffixFrom(history, start)

\* A compaction by some model, and what it overlooks.
Compacts(model, requested) ==
    LET older == SubSeq(history, 1, RecentStart(history) - 1)
    IN  /\ compactions < MaxCompactions
        /\ compactions' = compactions + 1
        /\ requested \in Requests(older)
        /\ lost' = lost \cup Overlooked(older, model)

-----------------------------------------------------------------------------

Init ==
    /\ history = <<>> /\ said = {} /\ lost = {} /\ next = 0
    /\ appended = 0 /\ compactions = 0 /\ prunes = 0

Fresh(message) ==
    /\ appended < MaxMessages
    /\ appended' = appended + 1
    /\ next' = next + Len(message.data)

\* append_with_compression: push as it fits, or when there is nothing older than
\* the recent tail.
Push(message) ==
    /\ \/ Tokens(Append(history, message)) <= Threshold
       \/ history = <<>>
       \/ RecentStart(history) = 1
    /\ history' = Append(history, message)
    /\ UNCHANGED <<lost, compactions>>

\* Otherwise the older messages are compacted first.
PushCompacted(message) ==
    /\ Tokens(Append(history, message)) > Threshold
    /\ history # <<>> /\ RecentStart(history) > 1
    /\ \E model \in Models, requested \in Requests(history) :
           /\ Compacts(model, requested)
           /\ history' = Append(Compacted(model, requested), message)

\* A compaction that fails (the provider's error, an empty answer or one that is
\* not the JSON asked for) fails the append, and the message is not in the history.
AppendMessage(message) ==
    /\ Fresh(message)
    /\ said' = said \cup FactsOf(message.data)
    /\ Push(message) \/ PushCompacted(message)
    /\ UNCHANGED prunes

\* Calls and results are appended as they are.
AppendDeferred(message) ==
    /\ Fresh(message)
    /\ said' = said \cup FactsOf(message.data)
    /\ history' = Append(history, message)
    /\ UNCHANGED <<lost, compactions, prunes>>

Closed == ClosedSuffix(history)

UserSays ==
    /\ Closed
    /\ \E pic \in UserPictures :
           AppendMessage(Message("User",
               <<IF pic = "none" THEN Text({next + 1})
                 ELSE Item("file", 0, {next + 1}, pic)>>))

Notice ==
    /\ Closed
    /\ AppendMessage(Message("User", <<Text({})>>))

\* Each item of an answer says something of its own; reasoning says nothing that
\* has to be kept.
AnswerItem(kind, n) ==
    CASE kind = "text" -> Text({n})
      [] kind = "file" -> Item("file", 0, {n}, "image")
      [] kind = "call" -> Item("call", n, {}, "none")
      [] kind = "reason" -> Item("reason", 0, {}, "none")

LastMessage == history[Len(history)]

Answer ==
    /\ Closed /\ history # <<>>
    /\ LastMessage.role = "User" \/ ResultIds(LastMessage) # {}
    /\ \E model \in Models, kinds \in Answers :
           LET out == [i \in DOMAIN kinds |-> AnswerItem(kinds[i], next + i)]
               message == Message("Assistant", Received(out, model))
           IN  /\ message.data # <<>>
               /\ IF CallIds(message) = {} THEN AppendMessage(message)
                  ELSE AppendDeferred(message)

\* The results of a batch are one message (into_result_message).
ToolResults ==
    /\ history # <<>> /\ CallIds(LastMessage) # {}
    /\ LET calls == OfKind(LastMessage.data, {"call"})
           data == [i \in DOMAIN calls |->
                       Item("result", calls[i].id, {next + i},
                            IF i = 1 THEN ResultPicture ELSE "none")]
       IN  AppendDeferred(Message("Assistant", data))

\* /compact, and the first attempt after a request that was too large.
CompactNow ==
    /\ Closed /\ history # <<>> /\ RecentStart(history) > 1
    /\ \E model \in Models, requested \in Requests(history) :
           /\ Compacts(model, requested)
           /\ history' = Compacted(model, requested)
    /\ UNCHANGED <<said, next, appended, prunes>>

\* prune_history_after_request_too_large: the first closed suffix of at most half
\* of the history.  The user is warned of the loss.
PruneStarts(messages) ==
    LET half == Len(messages) \div 2
    IN  {s \in (IF half > 1 THEN half ELSE 1)..(Len(messages) - 1) :
            ClosedSuffix(SuffixFrom(messages, s + 1))}

Prune ==
    /\ prunes < MaxPrunes /\ prunes' = prunes + 1
    /\ Len(history) > 1
    /\ PruneStarts(history) # {}
    /\ LET dropped == CHOOSE s \in PruneStarts(history) :
                          \A t \in PruneStarts(history) : s <= t
       IN  /\ history' = SuffixFrom(history, dropped + 1)
           /\ lost' = lost \cup UNION {FactsOf(history[i].data) : i \in 1..dropped}
    /\ UNCHANGED <<said, next, appended, compactions>>

Next ==
    \/ UserSays
    \/ Notice
    \/ Answer
    \/ ToolResults
    \/ CompactNow
    \/ Prune

Spec == Init /\ [][Next]_vars

-----------------------------------------------------------------------------
(***************************************************************************)
(* What the requests of a session must satisfy, whichever model it is      *)
(* resumed with.                                                           *)
(***************************************************************************)

Positions(parts, kind, id) == {i \in DOMAIN parts : parts[i].kind = kind /\ parts[i].id = id}

\* In every request each call has one output after it and each output its call
\* before it; for all builders but Codex's (whose items may be interleaved with
\* text) only calls and outputs stand between the two.  Compaction, preserved
\* calls and pruning must all keep the exchanges whole (compressor.rs:769-896,
\* actor.rs:3475): providers reject a request that breaks one.
AnswersFollowCalls ==
    (history # <<>> => CallIds(LastMessage) = {}) => \A model \in Models :
        LET parts == Request(history, model)
            ids == {parts[i].id : i \in {j \in DOMAIN parts : parts[j].kind \in {"call", "output"}}}
        IN  \A id \in ids :
                LET calls == Positions(parts, "call", id)
                    outputs == Positions(parts, "output", id)
                IN  /\ Cardinality(calls) = 1 /\ Cardinality(outputs) = 1
                    /\ \A c \in calls, o \in outputs :
                           /\ c < o
                           /\ model.provider # "codex" =>
                                  \A k \in c..o : parts[k].kind \in {"call", "output"}

\* A request holds a picture only for a model that sees, shows it once, and
\* carries state only Codex can read to no other provider
\* (media_normalizer.rs:97-140, providers/mod.rs:344-381).
RequestFits ==
    Closed => \A model \in Models :
        LET parts == Request(history, model)
            shown == {i \in DOMAIN parts : parts[i].pic = "image"}
        IN  /\ shown # {} => model.sees
            /\ \A i, j \in shown : parts[i].facts = parts[j].facts => i = j
            /\ model.provider # "codex" =>
                   \A i \in DOMAIN parts : parts[i].kind \notin {"cipher", "opaque"}

\* Every request tells all that was ever said in the conversation, in full or in
\* a summary, but for the losses the code has: what a prune dropped with a
\* warning, what a generic summary overlooks, and what only Codex can read.
NothingForgotten ==
    Closed => \A model \in Models :
        LET sealed == UNION {FactsOf(OfKind(history[i].data, {"opaque"})) : i \in DOMAIN history}
        IN  said \ (lost \cup (IF model.provider = "codex" THEN {} ELSE sealed))
                \subseteq FactsOf(Request(history, model))

\* The tail a compaction keeps is the longest one of whole exchanges within the
\* budget, or the last exchange when not even that fits (compressor.rs:491-523).
TailIsLongest ==
    Closed /\ history # <<>> =>
        LET whole == {s \in DOMAIN history : ClosedSuffix(SuffixFrom(history, s))}
            within == {s \in whole : Tokens(SuffixFrom(history, s)) <= RetainRecent}
            start == RecentStart(history)
        IN  IF within # {} THEN start \in within /\ \A s \in within : start <= s
            ELSE start \in whole /\ \A s \in whole : s <= start

=============================================================================
