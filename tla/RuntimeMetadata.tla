-------------------------- MODULE RuntimeMetadata --------------------------
(***************************************************************************)
(* What a session tells its model of files that change while it lives      *)
(* (core, session_actor/runtime_metadata.rs and the calls of the actor).   *)
(* The system prompt holds a snapshot of every component.  A user turn     *)
(* reads the files again and appends a notice of what changed since the    *)
(* last one; a compaction folds what was notified into the snapshot.  A    *)
(* history is kept as the notices and loaded skills in it: every other     *)
(* message says nothing of a file.                                         *)
(***************************************************************************)
EXTENDS Naturals, Sequences, SequencesExt, FiniteSets, TLC

CONSTANTS
    Lines,          \* the entries the user's memory may hold
    Texts,          \* the contents of a plain file, "" when it is absent
    MaxVersion,     \* versions the skill goes through
    MaxEdits,       \* changes of the files
    MaxTurns,       \* turns that are started
    MaxCompactions, \* compactions
    MaxFaults,      \* appends that fail and histories that are pruned
    MaxCrashes      \* restarts of the process

RuntimeMetadataAssumption ==
    /\ "" \in Texts
    /\ {MaxVersion, MaxEdits, MaxTurns, MaxCompactions, MaxFaults, MaxCrashes} \subseteq Nat

VARIABLES
    file,       \* the workspace: identity, user_memory, remote and the skill
    memory,     \* memory_enabled of the Initial message
    comp,       \* prompt_components: the snapshot and the value notified last
    skill,      \* skill_states: the content seen last, and whether it was loaded
    hist,       \* what the history says of the files
    disk,       \* the saved session
    pc,         \* what the actor is doing
    queue,      \* notices observed and not appended yet
    todo,       \* messages of the turn that are not appended yet
    pending,    \* all messages of the turn, to be continued when it fails
    lost,       \* history variable: what the model was not told, or forgot
    count       \* what has been used of the bounds

vars == <<file, memory, comp, skill, hist, disk, pc, queue, todo, pending, lost, count>>

Plain == {"identity", "remote_workspace"}
Components == Plain \union {"user_memory", "skills_metadata"}
Nothing == [told |-> <<>>, content |-> 0]

\* infer_skill_description: two versions may share a description; 0 is no skill.
Description(version) == (version + 1) \div 2

\* load_workspace_runtime_metadata, and what the Initial message says.
LoadedFrom(f) ==
    [c \in Components |->
        CASE c = "user_memory" -> f.user_memory
          [] c = "skills_metadata" -> {Description(v) : v \in {f.skill} \ {0}}
          [] OTHER -> f[c]]
Loaded == LoadedFrom(file)

Use(bound) == [count EXCEPT ![bound] = @ + 1]

Missing == [known |-> FALSE, system |-> {}, notified |-> {}]
Fresh(value) == [known |-> TRUE, system |-> value, notified |-> value]

\* The components of this session: the memory only where it is enabled.
Wanted(enabled) == IF enabled THEN Components ELSE Components \ {"user_memory"}

\* initialize_from_workspace, of a session without components.
Initialized(f, enabled) ==
    [c \in Components |-> IF c \in Wanted(enabled) THEN Fresh(LoadedFrom(f)[c]) ELSE Missing]

NoSkill == [seen |-> 0, loaded |-> FALSE]

Init ==
    /\ file = [identity |-> "", remote_workspace |-> "", user_memory |-> {}, skill |-> 1]
    /\ memory = TRUE
    /\ comp = [c \in Components |-> Missing]
    /\ skill = NoSkill
    /\ hist = <<>>
    /\ \E legacy \in BOOLEAN :
         disk = [hist |-> <<>>, skill |-> NoSkill,
                 comp |-> [c \in Components |-> IF legacy /\ c # "remote_workspace" THEN Fresh(Loaded[c]) ELSE Missing]]
    /\ pc = "down"
    /\ queue = <<>> /\ todo = <<>> /\ pending = <<>>
    /\ lost = {}
    /\ count = [edits |-> 0, turns |-> 0, compactions |-> 0, faults |-> 0, crashes |-> 0]

-----------------------------------------------------------------------------
(* The workspace.                                                          *)

\* Somebody changes a file; the skill only moves on to a new version, or goes.
Edit ==
    /\ count.edits < MaxEdits
    /\ \/ \E t \in Texts : file' = [file EXCEPT !.identity = t]
       \/ \E m \in SUBSET Lines : file' = [file EXCEPT !.user_memory = m]
    /\ file' # file
    /\ count' = Use("edits")
    /\ UNCHANGED <<memory, comp, skill, hist, disk, pc, queue, todo, pending, lost>>

\* The registry publishes a version of the skill; the directory that is
\* replaced is gone for a while.
Publish ==
    /\ count.edits < MaxEdits
    /\ \E v \in 0..MaxVersion :
         /\ v = 0 => file.skill # 0
         /\ v # 0 => v > file.skill /\ v > skill.seen /\ \A i \in DOMAIN hist : v > hist[i].content
         /\ file' = [file EXCEPT !.skill = v]
    /\ count' = Use("edits")
    /\ UNCHANGED <<memory, comp, skill, hist, disk, pc, queue, todo, pending, lost>>

-----------------------------------------------------------------------------
(* The actor.                                                              *)

\* persist_state_if_history_closed: notices are appended between turns.
Saved(h, c, s) == [hist |-> h, comp |-> c, skill |-> s]

\* The Initial message of a process that starts: a new session, or an old file
\* without components, is initialised; what was restored is saved.
Start(enabled, remote) ==
    /\ pc = "down"
    /\ pc' = "idle"
    /\ memory' = enabled
    /\ file' = [file EXCEPT !.remote_workspace = remote]
    /\ hist' = disk.hist
    /\ LET empty == \A c \in Components : ~disk.comp[c].known
       IN  /\ skill' = IF empty THEN [seen |-> file.skill, loaded |-> FALSE] ELSE disk.skill
           /\ comp' = IF empty THEN Initialized(file', enabled)
                      ELSE [disk.comp EXCEPT !["remote_workspace"] = IF @.known THEN @ ELSE Fresh(remote)]
    /\ disk' = Saved(hist', comp', skill')
    /\ UNCHANGED <<lost, queue, todo, pending, count>>

Crash ==
    /\ pc # "down" /\ count.crashes < MaxCrashes
    /\ pc' = "down"
    /\ comp' = [c \in Components |-> Missing] /\ skill' = NoSkill /\ hist' = <<>>
    /\ queue' = <<>> /\ todo' = <<>> /\ pending' = <<>>
    /\ lost' = IF \E i \in DOMAIN queue : queue[i].content # 0 /\ disk.skill.seen = queue[i].content
               THEN lost \union {"skill"} ELSE lost
    /\ count' = Use("crashes")
    /\ UNCHANGED <<file, memory, disk>>

\* run_turn_from_data_requests: a turn for new messages, of users and of actors.
Turn(messages) ==
    /\ pc = "idle" /\ count.turns < MaxTurns
    /\ pc' = "input" /\ todo' = messages /\ pending' = messages
    /\ count' = Use("turns")
    /\ UNCHANGED <<file, memory, comp, skill, hist, disk, queue, lost>>

\* Continue: the messages of the failed turn, all of them again.
Retry ==
    /\ pc = "idle" /\ pending # <<>>
    /\ pc' = "input" /\ todo' = pending
    /\ UNCHANGED <<file, memory, comp, skill, hist, disk, queue, pending, lost, count>>

\* observe_component.
Observed(old, value) == IF old.known THEN [old EXCEPT !.notified = value] ELSE Fresh(value)

\* render_prompt_component_change_notices; the memory's notice is the
\* difference of the lines.
Told(c, old, value) == IF c = "user_memory" THEN [minus |-> old \ value, plus |-> value \ old] ELSE value

NoticeUntilFolded ==
    LET changed == {c \in Wanted(memory) : comp[c].known /\ Loaded[c] \notin {comp[c].notified} \intersect {comp[c].system}}
    IN IF changed = {} THEN <<>>
       ELSE <<[Nothing EXCEPT !.told = [c \in changed |-> Told(c, comp[c].notified, Loaded[c])]]>>
Notice ==
    LET changed == {c \in Wanted(memory) : comp[c].known /\ comp[c].notified # Loaded[c]}
    IN IF changed = {} THEN <<>>
       ELSE <<[Nothing EXCEPT !.told = [c \in changed |-> Told(c, comp[c].notified, Loaded[c])]]>>

SkillNoticeOfDescription ==
    IF file.skill # 0 /\ skill.loaded /\ Description(skill.seen) # Description(file.skill)
    THEN <<[Nothing EXCEPT !.content = file.skill]>> ELSE <<>>

\* observe_skill_changes: only of a skill that was loaded is the content told;
\* a skill that is gone is forgotten.
SkillNotice ==
    IF file.skill # 0 /\ skill.loaded /\ skill.seen # file.skill THEN <<[Nothing EXCEPT !.content = file.skill]>> ELSE <<>>

SkillSeen ==
    IF file.skill = 0 THEN NoSkill ELSE [skill EXCEPT !.seen = file.skill]

\* observe_for_user_turn_from_workspace: everything is taken as notified before
\* the first notice is appended.
Observe ==
    /\ pc = "input" /\ todo # <<>> /\ Head(todo) = "user"
    /\ pc' = "append"
    /\ queue' = Notice \o SkillNotice
    /\ comp' = [c \in Components |-> IF c \in Wanted(memory) THEN Observed(comp[c], Loaded[c]) ELSE Missing]
    /\ skill' = SkillSeen
    /\ lost' = lost \union {c \in Wanted(memory) : ~comp[c].known}
                    \union (IF file.skill = 0 THEN {"skill"} ELSE {})
    /\ UNCHANGED <<file, memory, hist, disk, todo, pending, count>>

\* A file that cannot be read ends the turn before anything is observed.
Unreadable ==
    /\ pc = "input" /\ todo # <<>> /\ Head(todo) = "user" /\ count.faults < MaxFaults
    /\ pc' = "idle" /\ todo' = <<>>
    /\ count' = Use("faults")
    /\ UNCHANGED <<file, memory, comp, skill, hist, disk, queue, pending, lost>>

NotPromoted(c) == c

\* promote_notified_components_to_system_snapshot.
Promoted(c) == [x \in Components |-> [c[x] EXCEPT !.system = c[x].notified]]

\* What only the snapshot speaks of when this is all the history says.
Folded(h) == {c \in Components : \A i \in DOMAIN h : c \notin DOMAIN h[i].told}

\* append_history_message of whatever says something, or of an input that does
\* not: the history may be compacted before it.
Append1(message, h, c) == /\ hist' = h \o message /\ comp' = c /\ disk' = Saved(h \o message, c, skill)
AppendHistory(message) ==
    \/ /\ Append1(message, hist, comp)
       /\ UNCHANGED <<count, lost>>
    \/ /\ count.compactions < MaxCompactions
       /\ \E h \in Suffixes(hist) : Append1(message, h, Promoted(comp)) /\ lost' = lost \ Folded(h)
       /\ count' = Use("compactions")

AppendNotice ==
    /\ pc = "append" /\ queue # <<>>
    /\ AppendHistory(<<Head(queue)>>)
    /\ queue' = Tail(queue)
    /\ UNCHANGED <<file, memory, skill, pc, todo, pending>>

AppendInput ==
    /\ \/ pc = "append" /\ queue = <<>>
       \/ pc = "input" /\ todo # <<>> /\ Head(todo) = "actor"
    /\ AppendHistory(<<>>)
    /\ todo' = Tail(todo)
    /\ pc' = IF Len(todo) = 1 THEN "asking" ELSE "input"
    /\ UNCHANGED <<file, memory, skill, queue, pending>>

\* An append that fails, for its compaction does: the notices are not told
\* again, what they say is taken as notified.
AppendFails ==
    /\ pc = "append" /\ count.faults < MaxFaults
    /\ pc' = "idle" /\ todo' = <<>> /\ queue' = <<>>
    /\ lost' = lost \union UNION {DOMAIN queue[i].told : i \in DOMAIN queue}
                    \union (IF \E i \in DOMAIN queue : queue[i].content # 0 THEN {"skill"} ELSE {})
    /\ count' = Use("faults")
    /\ UNCHANGED <<file, memory, comp, skill, hist, disk, pending>>

\* prune_history_after_request_too_large: the head of the history is dropped.
Prune ==
    /\ pc = "asking" /\ count.faults < MaxFaults
    /\ \E h \in Suffixes(hist) \ {hist} :
         /\ hist' = h
         /\ disk' = Saved(h, comp, skill)
         /\ lost' = lost \union UNION {DOMAIN hist[i].told : i \in 1..(Len(hist) - Len(h))}
    /\ count' = Use("faults")
    /\ UNCHANGED <<file, memory, comp, skill, pc, queue, todo, pending>>

\* handle_compact_now between turns, or the compaction of a request that is too
\* large.
Compact ==
    /\ pc \in {"idle", "asking"} /\ count.compactions < MaxCompactions
    /\ \E h \in Suffixes(hist) :
         /\ hist' = h
         /\ comp' = Promoted(comp)
         /\ disk' = Saved(h, Promoted(comp), skill)
         /\ lost' = lost \ Folded(h)
    /\ count' = Use("compactions")
    /\ UNCHANGED <<file, memory, skill, pc, queue, todo, pending>>

\* mark_loaded_skills, and the result of skill_load, which is appended.
LoadSkill ==
    /\ pc = "asking" /\ file.skill # 0
    /\ LET shown == <<[Nothing EXCEPT !.content = file.skill]>>
           marked == [skill EXCEPT !.loaded = TRUE]
       IN /\ skill' = marked
          /\ hist' = hist \o shown
          /\ disk' = Saved(hist \o shown, comp, marked)
    /\ pc' = "answer"
    /\ lost' = lost \ {"skill"}
    /\ UNCHANGED <<file, memory, comp, queue, todo, pending, count>>

EndTurn ==
    /\ pc \in {"asking", "answer"}
    /\ pc' = "idle" /\ pending' = <<>>
    /\ UNCHANGED <<file, memory, comp, skill, hist, disk, queue, todo, lost, count>>

Next ==
    \/ Edit \/ Publish
    \/ \E enabled \in BOOLEAN, remote \in Texts : Start(enabled, remote)
    \/ Crash
    \/ \E messages \in {<<"user">>, <<"actor">>, <<"user", "user">>} : Turn(messages)
    \/ Retry \/ Observe \/ Unreadable
    \/ AppendNotice \/ AppendInput \/ AppendFails
    \/ Prune \/ Compact \/ LoadSkill \/ EndTurn

Spec == Init /\ [][Next]_vars

-----------------------------------------------------------------------------
TypeOK ==
    /\ pc \in {"down", "idle", "input", "append", "asking", "answer"}
    /\ \A c \in Components : DOMAIN comp[c] = {"known", "system", "notified"}
    /\ skill.seen \in 0..MaxVersion
    /\ lost \subseteq Components \union {"skill"}

\* What the model makes of the snapshot and the notices after it.
Apply(view, notice) ==
    [c \in Components |->
        CASE c \notin DOMAIN notice.told -> view[c]
          [] c = "user_memory" /\ c \in DOMAIN notice.told -> (view[c] \ notice.told[c].minus) \union notice.told[c].plus
          [] OTHER -> notice.told[c]]
View == FoldLeft(Apply, [c \in Components |-> comp[c].system], hist)

\* When the model is asked, the snapshot with the notices still in the history
\* is what was observed last: a compaction that keeps old notices, or differences
\* of the memory that the new snapshot already holds, changes nothing.  The only
\* exceptions are notices lost with a failed append or a pruned head, and a memory
\* that was switched off and on again, until a compaction drops what the history
\* said of it before.
KnowsLatest ==
    pc = "asking" => \A c \in Wanted(memory) : comp[c].known /\ c \notin lost => View[c] = comp[c].notified

\* A loaded skill that the history still shows is shown as it was when the user
\* last spoke, or newer: unless its notice was lost, or the skill was gone when
\* the user spoke.
SkillIsFresh ==
    pc = "asking" /\ "skill" \notin lost =>
        LET shown == {i \in DOMAIN hist : hist[i].content # 0}
        IN shown # {} => hist[CHOOSE i \in shown : \A j \in shown : j <= i].content >= skill.seen

\* A turn that is tried again, or a restart, tells nothing twice: two notices in
\* a row never say the same of a plain component, unless one between them was lost.
ToldOnce ==
    \A i, j \in DOMAIN hist : \A c \in Plain \ lost :
        /\ i < j /\ c \in DOMAIN hist[i].told \intersect DOMAIN hist[j].told
        /\ \A k \in (i + 1)..(j - 1) : c \notin DOMAIN hist[k].told
        => hist[i].told[c] # hist[j].told[c]

=============================================================================
