----------------------------- MODULE MediaStaging -----------------------------
(***************************************************************************)
(* Staging of remote media files (tool_catalog/media_tools.rs).  A tool    *)
(* call asks the host for the file's hash, uses the local copy named after *)
(* that hash when its content has it, and otherwise streams the bytes into *)
(* a temporary file that it renames, then checks.  The file on the host    *)
(* may change at any time; each ssh process is killed when the call is     *)
(* interrupted or takes too long, while the thread that writes its output  *)
(* runs on.                                                                *)
(***************************************************************************)
EXTENDS Integers, FiniteSets

CONSTANTS
    Calls,       \* tool calls that stage the same path
    Versions,    \* contents of the remote file
    MaxChanges,  \* bound: changes of the remote file
    MaxCuts      \* bound: transfers that fail

MediaStagingAssumption == {MaxChanges, MaxCuts} \subseteq Nat /\ {"none", "part"} \cap Versions = {}

VARIABLES
    remote,   \* the content of the remote file
    staged,   \* Versions -> content of the local file named after that version's hash, or "none"
    call,     \* Calls -> [at, hash]: "new", "hash", "look", "copy", "copied", "verify", "ready", "failed"
    tmp,      \* Calls -> the call's temporary file: "none", "part", "mixed" or a content
    writer,   \* Calls -> the thread that writes it: "none", "starting", "writing"
    src,      \* Calls -> [content, since]: what the ssh process began to send, and after how many changes
    changes, cuts

vars == <<remote, staged, call, tmp, writer, src, changes, cuts>>

Init ==
    /\ remote \in Versions /\ staged = [v \in Versions |-> "none"]
    /\ call = [c \in Calls |-> [at |-> "new", hash |-> "none"]] /\ tmp = [c \in Calls |-> "none"]
    /\ writer = tmp /\ src = [c \in Calls |-> [content |-> "none", since |-> 0]] /\ changes = 0 /\ cuts = 0

At(c, where) == call[c].at = where

Goto(c, where) == call' = [call EXCEPT ![c].at = where]

\* ensure_tool_binary_interruptibly: it may fail or be interrupted.
EnsureTool(c) ==
    /\ At(c, "new")
    /\ Goto(c, "hash") \/ Goto(c, "failed")
    /\ UNCHANGED <<remote, staged, tmp, writer, src, changes, cuts>>

\* remote_media_file_hash
Hash(c) ==
    /\ At(c, "hash")
    /\ call' = [call EXCEPT ![c] = [at |-> "look", hash |-> remote]] \/ Goto(c, "failed")
    /\ UNCHANGED <<remote, staged, tmp, writer, src, changes, cuts>>

\* local_media_hash_matches
Matches(c) == staged[call[c].hash] = call[c].hash

\* The copy that is there already is used when its content has the hash.
Look(c) ==
    /\ At(c, "look")
    /\ Goto(c, IF Matches(c) THEN "ready" ELSE "copy")
    /\ UNCHANGED <<remote, staged, tmp, writer, src, changes, cuts>>

\* copy_remote_media_file_to_local: ssh is started, with a thread for its output.
StartCopy(c) ==
    /\ At(c, "copy")
    /\ src' = [src EXCEPT ![c] = [content |-> remote, since |-> changes]] /\ writer' = [writer EXCEPT ![c] = "starting"]
    /\ Goto(c, "copying")
    /\ UNCHANGED <<remote, staged, tmp, changes, cuts>>

\* copy_pipe_to_file creates the file ...
CreateTmp(c) ==
    /\ writer[c] = "starting"
    /\ tmp' = [tmp EXCEPT ![c] = "part"] /\ writer' = [writer EXCEPT ![c] = "writing"]
    /\ UNCHANGED <<remote, staged, call, src, changes, cuts>>

\* (external) What the host sends in all: the file is read piece by piece, so that one which is written meanwhile
\* may come as the old content, as the new one, or as some of each.
Sent(c) == IF src[c].since = changes THEN {remote} ELSE {src[c].content, remote, "mixed"}

\* ... and writes until the pipe ends, after the last byte or when ssh was killed.
WriterEnds(c) ==
    /\ writer[c] = "writing"
    /\ IF tmp[c] = "part" /\ At(c, "copying") THEN \E content \in Sent(c) : tmp' = [tmp EXCEPT ![c] = content]
       ELSE UNCHANGED tmp
    /\ writer' = [writer EXCEPT ![c] = "none"]
    /\ UNCHANGED <<remote, staged, call, src, changes, cuts>>

InstallPart(c) ==
    /\ At(c, "copying") /\ writer[c] # "starting"
    /\ staged' = [staged EXCEPT ![call[c].hash] = tmp[c]] /\ tmp' = [tmp EXCEPT ![c] = "none"]
    /\ Goto(c, "verify")
    /\ UNCHANGED <<remote, writer, src, changes, cuts>>

\* wait_child_with_cancel and the joins end well: the temporary file is renamed.
Install(c) ==
    /\ At(c, "copying") /\ writer[c] = "none"
    /\ staged' = [staged EXCEPT ![call[c].hash] = tmp[c]] /\ tmp' = [tmp EXCEPT ![c] = "none"]
    /\ Goto(c, "verify")
    /\ UNCHANGED <<remote, writer, src, changes, cuts>>

\* ssh fails, times out or is killed by an interrupt: the temporary file is removed, if it is there already.
Cut(c) ==
    /\ At(c, "copying") /\ cuts < MaxCuts /\ cuts' = cuts + 1
    /\ tmp' = [tmp EXCEPT ![c] = "none"]
    /\ Goto(c, "failed")
    /\ UNCHANGED <<remote, staged, writer, src, changes>>

VerifyNothing(c) ==
    /\ At(c, "verify")
    /\ Goto(c, "ready")
    /\ UNCHANGED <<remote, staged, tmp, writer, src, changes, cuts>>

\* The hash is checked again: a file that changed in between is refused.
Verify(c) ==
    /\ At(c, "verify")
    /\ Goto(c, IF Matches(c) THEN "ready" ELSE "failed")
    /\ UNCHANGED <<remote, staged, tmp, writer, src, changes, cuts>>

\* (external) somebody writes the remote file
Change(v) ==
    /\ changes < MaxChanges /\ changes' = changes + 1 /\ v # remote
    /\ remote' = v
    /\ UNCHANGED <<staged, call, tmp, writer, src, cuts>>

Next ==
    \/ \E c \in Calls : \/ EnsureTool(c) \/ Hash(c) \/ Look(c) \/ StartCopy(c) \/ CreateTmp(c) \/ WriterEnds(c)
                        \/ Install(c) \/ Cut(c) \/ Verify(c)
    \/ \E v \in Versions : Change(v)

Spec == Init /\ [][Next]_vars

--------------------------------------------------------------------------------
(* Properties. *)

\* A staged file is never a part of a transfer, however transfers, interrupts and changes interleave: what stands
\* under a hash's name is all that the host sent for the file.
StagedIsWhole == \A v \in Versions : staged[v] # "part"

\* A call that is about to hand the file on has seen the content the host named at that moment.
ReadyWasSeen == [][\A c \in Calls : ~At(c, "ready") /\ At(c, "ready")' => staged[call[c].hash] = call[c].hash]_vars

\* A file that was handed on keeps the content its name stands for.
ReadyStays == \A c \in Calls : At(c, "ready") => staged[call[c].hash] = call[c].hash

===============================================================================
