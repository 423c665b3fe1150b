------------------------------ MODULE Payload ------------------------------
(***************************************************************************)
(* How a chat history becomes the payload of a provider request            *)
(* (core/src/session_actor/media_normalizer.rs and the builders of         *)
(* core/src/providers), and how a response becomes a chat message.         *)
(*                                                                         *)
(* A history is a sequence of messages, a message a role and a sequence of *)
(* items.  What a text, a file or a result says is a set of facts; of a    *)
(* file it matters whether it is a picture that can be read.  A payload is *)
(* the sequence of its parts in order, without the grouping of parts into  *)
(* messages of one role.                                                   *)
(***************************************************************************)
EXTENDS Integers, Sequences, FiniteSets, SequencesExt

Item(kind, id, facts, pic) == [kind |-> kind, id |-> id, facts |-> facts, pic |-> pic]

Message(role, data) == [role |-> role, data |-> data]

Text(facts) == Item("text", 0, facts, "none")

\* A generic summary and a compaction only its provider can read.
Summary(facts) == Item("summary", 0, facts, "none")
Opaque(facts) == Item("opaque", 0, facts, "none")

OfKind(data, kinds) == SelectSeq(data, LAMBDA item: item.kind \in kinds)

\* One part of a payload.
Part(role, kind, item) ==
    [role |-> role, kind |-> kind, id |-> item.id, facts |-> item.facts, pic |-> item.pic]

\* The parts that Convert makes of each element, in order.
Each(seq, Convert(_)) == FlattenSeq([i \in DOMAIN seq |-> Convert(seq[i])])

FactsOf(seq) == UNION {seq[i].facts : i \in DOMAIN seq}

-----------------------------------------------------------------------------
(***************************************************************************)
(* Media: what the model of the request takes.  A model sees when it takes *)
(* pictures as input and has a transport configured for them, and draws    *)
(* when it can put pictures out.                                           *)
(***************************************************************************)

\* The bytes can be read, decoded and have the signature of their type.
Readable(file) == file.pic = "image"

\* A picture the model cannot take, or that is crashed or unreadable, is told as
\* a reference in text.
NormalizeFile(file, model) ==
    IF Readable(file) /\ model.sees THEN file ELSE Text(file.facts)

NormalizeAssistantFile(file, model) ==
    IF model.draws THEN file ELSE Text(file.facts)

NormalizeItem(item, role, model) ==
    CASE item.kind = "reason" -> <<>>
      [] item.kind = "file" /\ role = "User" -> <<NormalizeFile(item, model)>>
      [] item.kind = "file" /\ role # "User" -> <<NormalizeAssistantFile(item, model)>>
      [] OTHER -> <<item>>

\* Mutant: the history goes out as it is.
NormalizeForAnyModel(messages, model) == messages

NormalizeForModel(messages, model) ==
    LET Normalized(message) ==
            Message(message.role,
                    Each(message.data,
                         LAMBDA item: NormalizeItem(item, message.role, model)))
    IN  [i \in DOMAIN messages |-> Normalized(messages[i])]

\* Generic providers read a summary as what the user said, and nothing of a
\* compaction made by another provider.
GenericCompaction(messages) ==
    LET Portable(message) ==
            IF message.role # "Compaction" THEN <<message>>
            ELSE LET said == OfKind(message.data, {"summary"})
                 IN  IF said = <<>> THEN <<>>
                     ELSE <<Message("User", Each(said, LAMBDA s: <<Text(s.facts)>>))>>
    IN  Each(messages, Portable)

CodexMessages(messages) ==
    LET Kept(message) ==
            LET data == SelectSeq(message.data, LAMBDA item: item.kind # "reason")
            IN  IF data = <<>> THEN <<>> ELSE <<Message(message.role, data)>>
    IN  Each(messages, Kept)

NormalizeForProvider(messages, model) ==
    IF model.provider = "codex" THEN CodexMessages(messages)
    ELSE GenericCompaction(messages)

-----------------------------------------------------------------------------
(***************************************************************************)
(* The builders.                                                           *)
(***************************************************************************)

\* A file as an item of its own: its url, its id or its contents.
FilePart(file) == Part("user", "message", file)

\* A user's items.  No user message holds calls or results.
UserParts(message) ==
    LET Content(item) ==
            CASE item.kind \in {"text", "summary"} -> <<Part("user", "message", item)>>
              [] item.kind = "file" -> <<FilePart(item)>>
              [] OTHER -> <<>>
    IN  Each(message.data, Content)

Outputs(message) ==
    Each(message.data,
         LAMBDA item: IF item.kind # "result" THEN <<>>
                      ELSE <<Part("tool", "output", [item EXCEPT !.pic = "none"])>>)

\* The pictures of tool results follow all results of their message, as if the
\* user had sent them; a crashed one is left out.
ResultPictures(message, model) ==
    Each(message.data,
         LAMBDA item: IF item.kind = "result" /\ item.pic = "image"
                      THEN <<Part("user", "message", NormalizeFile(item, model))>>
                      ELSE <<>>)

\* Files of an assistant are named by their uri.
AssistantText(message) ==
    Each(message.data,
         LAMBDA item: IF item.kind \in {"text", "summary", "file"}
                      THEN <<Part("assistant", "message", [item EXCEPT !.pic = "none"])>>
                      ELSE <<>>)

Calls(message) ==
    Each(message.data,
         LAMBDA item: IF item.kind = "call" THEN <<Part("assistant", "call", item)>> ELSE <<>>)

\* codex_subscription.rs: reasoning first, then text and calls as they came; a
\* picture the assistant made is shown as if the user had sent it.
CodexAssistant(message, model) ==
    LET Content(item) ==
            CASE item.kind \in {"text", "summary"} -> <<Part("assistant", "message", item)>>
              [] item.kind = "file" /\ item.pic = "image" /\ model.sees ->
                     <<Part("user", "message", Text({})), Part("user", "message", item)>>
              [] item.kind = "file" /\ ~(item.pic = "image" /\ model.sees) ->
                     <<Part("assistant", "message", [item EXCEPT !.pic = "none"])>>
              [] item.kind = "call" -> <<Part("assistant", "call", item)>>
              [] OTHER -> <<>>
    IN  Each(OfKind(message.data, {"cipher"}), LAMBDA item: <<Part("assistant", "cipher", item)>>)
            \o Each(message.data, Content)

CodexCompaction(message) ==
    Each(message.data,
         LAMBDA item: CASE item.kind = "opaque" -> <<Part("user", "opaque", item)>>
                        [] item.kind = "summary" -> <<Part("user", "message", item)>>
                        [] OTHER -> <<>>)

CodexInput(message, model) ==
    CASE message.role = "User" -> UserParts(message)
      [] message.role = "Compaction" -> CodexCompaction(message)
      [] OTHER -> CodexAssistant(message, model) \o Outputs(message)
                      \o ResultPictures(message, model)

\* openrouter_responses.rs
ResponsesInput(message, model) ==
    CASE message.role = "User" -> UserParts(message)
      [] message.role = "Compaction" -> <<>>
      [] OTHER -> AssistantText(message) \o Calls(message) \o Outputs(message)
                      \o ResultPictures(message, model)

\* openrouter_completion.rs: the texts of a message, then a user's pictures.
CompletionText(message) ==
    LET Visible(item) ==
            \/ item.kind \in {"text", "summary"}
            \/ item.kind = "file" /\ ~(item.pic = "image" /\ message.role = "User")
    IN  Each(SelectSeq(message.data, Visible),
             LAMBDA item: <<Part(IF message.role = "User" THEN "user" ELSE "assistant",
                                 "message", [item EXCEPT !.pic = "none"])>>)

CompletionPictures(message) ==
    LET Pictured(item) == item.kind \in {"file", "result"} /\ item.pic = "image"
    IN  IF message.role # "User" THEN <<>>
        ELSE Each(SelectSeq(message.data, Pictured), LAMBDA item: <<FilePart(item)>>)

CompletionMessages(message, model) ==
    CASE message.role = "User" -> CompletionText(message) \o CompletionPictures(message)
      [] message.role = "Compaction" -> <<>>
      [] OTHER -> CompletionText(message) \o Calls(message) \o Outputs(message)
                      \o ResultPictures(message, model)

\* claude_code.rs: content blocks say nothing of a compaction item.
ClaudeContent(message) ==
    LET Block(item) ==
            CASE item.kind = "text" \/ (item.kind = "file" /\ message.role # "User") ->
                     <<Part(IF message.role = "User" THEN "user" ELSE "assistant",
                            "message", [item EXCEPT !.pic = "none"])>>
              [] item.kind = "file" /\ message.role = "User" -> <<FilePart(item)>>
              [] OTHER -> <<>>
    IN  Each(message.data, Block)

\* The results are one user message, their pictures another.
ClaudeResults(message, model) == Outputs(message) \o ResultPictures(message, model)

ClaudeMessages(message, model) ==
    IF message.role = "Compaction" THEN <<>>
    ELSE ClaudeContent(message) \o Calls(message) \o ClaudeResults(message, model)

Build(messages, model) ==
    LET Convert(message) ==
            CASE model.provider = "codex" -> CodexInput(message, model)
              [] model.provider = "responses" -> ResponsesInput(message, model)
              [] model.provider = "completion" -> CompletionMessages(message, model)
              [] model.provider = "claude" -> ClaudeMessages(message, model)
    IN  Each(messages, Convert)

\* The request of a turn (start_provider_request).
Request(messages, model) ==
    Build(NormalizeForProvider(NormalizeForModel(messages, model), model), model)

-----------------------------------------------------------------------------
(***************************************************************************)
(* Responses: what the history keeps of the parts of an answer, in the     *)
(* order the provider's converter gives them.  Reasoning of Codex comes    *)
(* back encrypted.  Claude puts out no pictures; a completion has no       *)
(* reasoning.                                                              *)
(***************************************************************************)

CodexReasoning(item) == [item EXCEPT !.kind = "cipher"]

CodexAnswer(out) ==
    Each(out, LAMBDA item: <<IF item.kind = "reason" THEN CodexReasoning(item) ELSE item>>)

ResponsesAnswer(out) == out

CompletionAnswer(out) ==
    OfKind(out, {"text"}) \o OfKind(out, {"call"}) \o OfKind(out, {"file"})

ClaudeAnswer(out) == OfKind(out, {"text", "reason", "call"})

Received(out, model) ==
    CASE model.provider = "codex" -> CodexAnswer(out)
      [] model.provider = "responses" -> ResponsesAnswer(out)
      [] model.provider = "completion" -> CompletionAnswer(out)
      [] model.provider = "claude" -> ClaudeAnswer(out)

=============================================================================
