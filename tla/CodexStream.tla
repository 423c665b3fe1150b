---------------------------- MODULE CodexStream ----------------------------
(***************************************************************************)
(* One response of the Codex websocket: what send_response_create collects *)
(* of it and what it streams on the way.  The items of the response are    *)
(* announced, filled, finished and listed once more at the end, and any of *)
(* these may be left out.                                                  *)
(***************************************************************************)
EXTENDS Naturals, Sequences, FiniteSets, SequencesExt

CONSTANTS
    Calls,      \* function calls of the response
    Others,     \* its messages
    Reasoning,  \* its reasoning items
    MaxDeltas   \* bound: pieces of one item's text

CodexStreamAssumption == MaxDeltas \in Nat

Items == Calls \cup Others \cup Reasoning

VARIABLES
    stage,      \* of an item: "none", "added" or "done"
    deltas,     \* of an item: pieces sent
    named,      \* of a call: how the pieces of its input name it: by id, call id or both
    output,     \* output_items: [item, whole]
    active,     \* active_output_item_id and active_reasoning_item_id: [output, reasoning]
    streamed,   \* streamed_tool_inputs: <<item, "id">> and <<item, "call">>
    shown,      \* on_stream: [item, whole] in the order of the calls
    response    \* what was returned: a sequence of [item, whole], or Open, or Failed

vars == <<stage, deltas, named, output, active, streamed, shown, response>>

Open == << >>
None == "none"
Live == response = Open
Full(i) == [item |-> i, whole |-> TRUE]
Part(i) == [item |-> i, whole |-> FALSE]
Failed == <<Part(None)>>
Returned == response \notin {Open, Failed}

\* tool_input_stream_keys
Keys(i, by) == CASE by = "id" -> {<<i, "id">>} [] by = "call" -> {<<i, "call">>} [] by = "both" -> {<<i, "id">>, <<i, "call">>}

PushAlways(out, entry) == Append(out, entry)

\* push_unique_item: an item with the same id is replaced.
PushUnique(out, entry) ==
    LET at == {k \in DOMAIN out : out[k].item = entry.item}
    IN IF at = {} THEN Append(out, entry) ELSE [k \in DOMAIN out |-> IF k \in at THEN entry ELSE out[k]]

MatchAllKeys(i, keys) == i \in Calls /\ ~(Keys(i, "both") \subseteq keys)

\* tool_call_stream_event_from_item: the input of a call is shown whole unless
\* it was streamed under one of its names.
Missing(i, keys) == i \in Calls /\ Keys(i, "both") \cap keys = {}

\* The keys after the item was looked at, and the event if there is one.
KeysAfter(i, keys) == IF i \in Calls THEN keys \cup Keys(i, "both") ELSE keys
Whole(i, keys) == IF Missing(i, keys) THEN <<Full(i)>> ELSE << >>

-----------------------------------------------------------------------------

AddedIsActive(i) ==
    /\ Live /\ stage[i] = "none"
    /\ stage' = [stage EXCEPT ![i] = "added"]
    /\ output' = PushUnique(output, Part(i))
    /\ active' = [output |-> i, reasoning |-> i]
    /\ UNCHANGED <<deltas, named, streamed, shown, response>>

\* response.output_item.added
Added(i) ==
    /\ Live /\ stage[i] = "none"
    /\ stage' = [stage EXCEPT ![i] = "added"]
    /\ output' = PushUnique(output, Part(i))
    /\ active' = [output |-> i, reasoning |-> IF i \in Reasoning THEN i ELSE active.reasoning]
    /\ UNCHANGED <<deltas, named, streamed, shown, response>>

\* A piece of a call's input, which names the call in its own way.
InputDelta(i) ==
    /\ Live /\ i \in Calls /\ stage[i] = "added" /\ deltas[i] < MaxDeltas
    /\ deltas' = [deltas EXCEPT ![i] = @ + 1]
    /\ streamed' = streamed \cup Keys(i, named[i])
    /\ shown' = Append(shown, Part(i))
    /\ UNCHANGED <<stage, named, output, active, response>>

\* A piece of text, or of a reasoning summary, is shown under the active item.
\* Text comes for the item that was announced last.
TextDelta(i) ==
    /\ Live /\ i \notin Calls /\ stage[i] = "added" /\ deltas[i] < MaxDeltas
    /\ i \in Reasoning \/ active.output = i
    /\ deltas' = [deltas EXCEPT ![i] = @ + 1]
    /\ shown' = Append(shown, [item |-> IF i \in Reasoning THEN active.reasoning ELSE active.output, whole |-> FALSE])
    /\ UNCHANGED <<stage, named, output, active, streamed, response>>

\* response.output_item.done
Done(i) ==
    /\ Live /\ stage[i] # "done"
    /\ stage' = [stage EXCEPT ![i] = "done"]
    /\ shown' = shown \o Whole(i, streamed)
    /\ streamed' = KeysAfter(i, streamed)
    /\ output' = PushUnique(output, Full(i))
    /\ active' = [output |-> IF active.output = i THEN None ELSE active.output,
                  reasoning |-> IF i \in Reasoning THEN None ELSE active.reasoning]
    /\ UNCHANGED <<deltas, named, response>>

\* missing_tool_call_stream_events, over the listed and the collected items.
ShowMissing(list) ==
    FoldLeft(LAMBDA st, entry : [keys |-> KeysAfter(entry.item, st.keys), out |-> st.out \o Whole(entry.item, st.keys)],
             [keys |-> streamed, out |-> << >>], list \o output).out

\* merge_streamed_response_output
Merged(list) == list \o SelectSeq(output, LAMBDA o : \A k \in DOMAIN list : list[k].item # o.item)

\* response.completed lists any of the items, all those that were not finished
\* among them.
Completed ==
    /\ Live
    /\ \E listed \in SUBSET Items :
        /\ {i \in Items : stage[i] # "done"} \subseteq listed
        /\ LET list == SetToSeq({Full(i) : i \in listed})
           IN shown' = shown \o ShowMissing(list) /\ response' = Merged(list)
    /\ UNCHANGED <<stage, deltas, named, output, active, streamed>>

\* The provider reports a failure, the socket breaks or is closed, or nothing
\* comes for too long: the error is returned, and what was shown stays shown.
Fails ==
    /\ Live
    /\ response' = Failed
    /\ UNCHANGED <<stage, deltas, named, output, active, streamed, shown>>

Init ==
    /\ stage = [i \in Items |-> "none"] /\ deltas = [i \in Items |-> 0]
    /\ named \in [Calls -> {"id", "call", "both"}]
    /\ output = << >> /\ active = [output |-> None, reasoning |-> None]
    /\ streamed = {} /\ shown = << >> /\ response = Open

Next == (\E i \in Items : Added(i) \/ InputDelta(i) \/ TextDelta(i) \/ Done(i)) \/ Completed \/ Fails

Spec == Init /\ [][Next]_vars

-----------------------------------------------------------------------------
(* Properties.                                                             *)

Shown(i, whole) == Cardinality({k \in DOMAIN shown : shown[k] = [item |-> i, whole |-> whole]})

\* The input of a call is shown piece by piece or whole, never both, never
\* twice, and no call is left out.
InputShownOnce ==
    \A i \in Calls :
        /\ Shown(i, TRUE) <= (IF deltas[i] = 0 THEN 1 ELSE 0)
        /\ Returned => Shown(i, TRUE) + deltas[i] > 0

\* The response that is returned holds every item once, as it was finished.
ResponseIsComplete == Returned => IsInjective(response) /\ ToSet(response) = {Full(i) : i \in Items}

\* Text is shown under the item it belongs to.
TextIsAttributed == \A i \in Items \ Calls : Shown(i, FALSE) = deltas[i]

=============================================================================
