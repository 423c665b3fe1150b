----------------------------- MODULE Visibility -----------------------------
(***************************************************************************)
(* shell_make_visible and attachment_make_visible: one path of a workspace *)
(* is copied between this host and the remote one.  The tool of a session  *)
(* waits for a process until a timeout; the script that installs a copy on *)
(* the remote host is a process of its own there and lives on when the     *)
(* tool has given up, so that a second call may find it at work.           *)
(***************************************************************************)
EXTENDS Integers

CONSTANTS
    Directory,  \* the path is a directory, not a file
    Methods,    \* the ways of copying the two hosts are equipped for
    MaxCalls, MaxCuts, MaxKills, MaxEdits

VisibilityAssumption ==
    /\ Directory \in BOOLEAN /\ Methods \subseteq {"tar", "scp"}
    /\ {MaxCalls, MaxCuts, MaxKills, MaxEdits} \subseteq Nat

Calls == 1..MaxCalls
None == 0
Mixed == -1   \* one copy inside the other

VARIABLES
    at,       \* what the path holds on a side: a version, None or Mixed
    cur,      \* the last call
    tool,     \* [pc, dir, via, res]: where the tool of that call is
    script,   \* Calls -> its install script: [pc, tar, ok]
    staged,   \* Calls -> the copy in its temporary directory
    old,      \* Calls -> what it has put aside as its backup
    took,     \* Calls -> the version it has read
    cuts, kills, edits

vars == <<at, cur, tool, script, staged, old, took, cuts, kills, edits>>

Running == {"extract", "test", "backup", "move", "trap", "restore", "rm"}
Waits == {"mktemp", "scp", "wait", "stage"}
From(dir) == IF dir = "out" THEN "local" ELSE "remote"
To(dir) == IF dir = "out" THEN "remote" ELSE "local"
At(pc) == tool.pc = pc
Goto(pc) == tool' = [tool EXCEPT !.pc = pc]
End(res) == tool' = [tool EXCEPT !.pc = "idle", !.res = res]
Script(c, pc) == script' = [script EXCEPT ![c].pc = pc]

-----------------------------------------------------------------------------
(* The tool.                                                               *)

\* The call arrives; make_visible calls of a session run one after the other.
Begin ==
    /\ At("idle") /\ cur < MaxCalls
    /\ cur' = cur + 1
    /\ \E dir \in {"out", "in"} : tool' = [pc |-> "check", dir |-> dir, via |-> "none", res |-> "none"]
    /\ UNCHANGED <<at, script, staged, old, took, cuts, kills, edits>>

\* An argument, a symbolic link, a missing source or a host that lacks what
\* the copy needs: refused before anything is touched.
Refuse ==
    /\ At("check")
    /\ End("failed")
    /\ UNCHANGED <<at, cur, script, staged, old, took, cuts, kills, edits>>

\* choose_copy_method: tar when both sides have it, else scp.  A copy to the
\* remote host by tar is one remote script; scp asks for a directory first.
Choose ==
    /\ At("check") /\ at[From(tool.dir)] # None
    /\ \E via \in Methods :
         /\ tool' = [tool EXCEPT !.via = via,
                     !.pc = CASE tool.dir = "in" -> "stage" [] via = "tar" -> "wait" [] OTHER -> "mktemp"]
         /\ took' = [took EXCEPT ![cur] = at[From(tool.dir)]]
         /\ IF tool.dir = "out" /\ via = "tar" 
            THEN script' = [script EXCEPT ![cur] = [pc |-> "extract", tar |-> TRUE, ok |-> FALSE]]
            ELSE UNCHANGED script
    /\ UNCHANGED <<at, cur, staged, old, cuts, kills, edits>>

\* create_remote_tmp_dir.
MakeTmp ==
    /\ At("mktemp")
    /\ Goto("scp")
    /\ UNCHANGED <<at, cur, script, staged, old, took, cuts, kills, edits>>

\* scp has copied the source; remote_install_existing_path_script is started.
Scp ==
    /\ At("scp")
    /\ staged' = [staged EXCEPT ![cur] = took[cur]]
    /\ Script(cur, "test")
    /\ Goto("wait")
    /\ UNCHANGED <<at, cur, old, took, cuts, kills, edits>>

StatusIgnored ==
    /\ At("wait") /\ script[cur].pc = "ended"
    /\ tool' = [tool EXCEPT !.pc = "idle", !.res = "ok"]
    /\ UNCHANGED <<at, cur, script, staged, old, took, cuts, kills, edits>>

\* run_command_with_timeout returns: the script has ended.  After scp the
\* temporary directory is the tool's to remove.
ScriptEnded ==
    /\ At("wait") /\ script[cur].pc = "ended"
    /\ LET res == IF script[cur].ok THEN "ok" ELSE "failed"
       IN IF tool.via = "scp" THEN tool' = [tool EXCEPT !.pc = "cleanup", !.res = res] ELSE End(res)
    /\ UNCHANGED <<at, cur, script, staged, old, took, cuts, kills, edits>>

\* The timeout, or an error of ssh, scp or tar: the local process group is
\* killed.  A script that has been started goes on.
Cut ==
    /\ tool.pc \in Waits /\ cuts < MaxCuts /\ cuts' = cuts + 1
    /\ IF tool.via = "scp" /\ tool.dir = "out" /\ ~At("mktemp")
       THEN tool' = [tool EXCEPT !.pc = "cleanup", !.res = "failed"]
       ELSE End("failed")
    /\ UNCHANGED <<at, cur, script, staged, old, took, kills, edits>>

\* cleanup_remote_path, whose own failure is ignored.
Cleanup ==
    /\ At("cleanup")
    /\ staged' \in {staged, [staged EXCEPT ![cur] = None]}
    /\ End(tool.res)
    /\ UNCHANGED <<at, cur, script, old, took, cuts, kills, edits>>

\* copy_remote_to_local_tar and copy_remote_to_local_scp have filled the
\* local temporary directory.
Stage ==
    /\ At("stage")
    /\ staged' = [staged EXCEPT ![cur] = took[cur]]
    /\ Goto("aside")
    /\ UNCHANGED <<at, cur, script, old, took, cuts, kills, edits>>

\* install_local_staged_path: the checks are made again, and may now fail ...
RefuseStaged ==
    /\ At("aside")
    /\ staged' = [staged EXCEPT ![cur] = None]
    /\ End("failed")
    /\ UNCHANGED <<at, cur, script, old, took, cuts, kills, edits>>

\* ... what is there is renamed to the backup ...
SetAside ==
    /\ At("aside")
    /\ old' = [old EXCEPT ![cur] = at["local"]]
    /\ at' = [at EXCEPT !["local"] = None]
    /\ Goto("rename")
    /\ UNCHANGED <<cur, script, staged, took, cuts, kills, edits>>

\* ... the copy takes its place ...
Rename ==
    /\ At("rename")
    /\ at' = [at EXCEPT !["local"] = staged[cur]]
    /\ staged' = [staged EXCEPT ![cur] = None]
    /\ Goto("drop")
    /\ UNCHANGED <<cur, script, old, took, cuts, kills, edits>>

DropsUnplaced ==
    /\ At("rename")
    /\ old' = [old EXCEPT ![cur] = None]
    /\ End("failed")
    /\ UNCHANGED <<at, cur, script, staged, took, cuts, kills, edits>>

\* The failure of a step whose result the code ignores leaves the backup, as a
\* kill before it would, and is bounded with the kills.
Ignored == kills < MaxKills /\ kills' = kills + 1 /\ UNCHANGED <<at, old>>

\* ... or the backup comes back, if it can ...
RenameFails ==
    /\ At("rename")
    /\ \/ /\ at' = [at EXCEPT !["local"] = old[cur]]
          /\ old' = [old EXCEPT ![cur] = None]
          /\ UNCHANGED kills
       \/ Ignored
    /\ staged' = [staged EXCEPT ![cur] = None]
    /\ End("failed")
    /\ UNCHANGED <<cur, script, took, cuts, edits>>

\* ... and the backup goes, if it can.
Drop ==
    /\ At("drop")
    /\ \/ old' = [old EXCEPT ![cur] = None] /\ UNCHANGED <<at, kills>>
       \/ Ignored
    /\ End("ok")
    /\ UNCHANGED <<cur, script, staged, took, cuts, edits>>

ToolStep ==
    \/ Begin \/ Refuse \/ Choose \/ MakeTmp \/ Scp \/ ScriptEnded \/ Cut \/ Cleanup
    \/ Stage \/ RefuseStaged \/ SetAside \/ Rename \/ RenameFails \/ Drop

-----------------------------------------------------------------------------
(* The scripts on the remote host.                                         *)

\* tar -xzf: it fails when the stream ends early, as when the tool was cut.
Extract(c) ==
    /\ script[c].pc = "extract"
    /\ \/ staged' = [staged EXCEPT ![c] = took[c]] /\ Script(c, "test")
       \/ Script(c, "trap") /\ UNCHANGED staged
    /\ UNCHANGED <<at, cur, tool, old, took, cuts, kills, edits>>

TestsCopyOnly(c) ==
    /\ script[c].pc = "test"
    /\ Script(c, IF staged[c] = None THEN "trap" ELSE "move")
    /\ UNCHANGED <<at, cur, tool, staged, old, took, cuts, kills, edits>>

\* test -e of the copy and of the target.
Test(c) ==
    /\ script[c].pc = "test"
    /\ Script(c, CASE staged[c] = None -> "trap" [] at["remote"] # None -> "backup" [] OTHER -> "move")
    /\ UNCHANGED <<at, cur, tool, staged, old, took, cuts, kills, edits>>

\* mv of the target into a new backup directory; another script may have
\* taken it in between.
Backup(c) ==
    /\ script[c].pc = "backup"
    /\ Script(c, IF at["remote"] = None THEN "trap" ELSE "move")
    /\ old' = [old EXCEPT ![c] = at["remote"]]
    /\ at' = [at EXCEPT !["remote"] = None]
    /\ UNCHANGED <<cur, tool, staged, took, cuts, kills, edits>>

\* mv of the copy.  mv puts it into a directory that is there.
Move(c) ==
    /\ script[c].pc = "move"
    /\ script' = [script EXCEPT ![c].pc = "trap", ![c].ok = staged[c] # None]
    /\ staged' = [staged EXCEPT ![c] = None]
    /\ at' = CASE staged[c] = None -> at
               [] Directory /\ at["remote"] # None -> [at EXCEPT !["remote"] = Mixed]
               [] OTHER -> [at EXCEPT !["remote"] = staged[c]]
    /\ UNCHANGED <<cur, tool, old, took, cuts, kills, edits>>

TrapDrops(c) ==
    /\ script[c].pc = "trap"
    /\ Script(c, "rm")
    /\ UNCHANGED <<at, cur, tool, staged, old, took, cuts, kills, edits>>

\* The trap: a backup goes back when nothing stands in its place.
Trap(c) ==
    /\ script[c].pc = "trap"
    /\ Script(c, IF old[c] # None /\ at["remote"] = None THEN "restore" ELSE "rm")
    /\ UNCHANGED <<at, cur, tool, staged, old, took, cuts, kills, edits>>

Restore(c) ==
    /\ script[c].pc = "restore"
    /\ Script(c, "rm")
    /\ at' = [at EXCEPT !["remote"] = IF Directory /\ at["remote"] # None THEN Mixed ELSE old[c]]
    /\ old' = [old EXCEPT ![c] = None]
    /\ UNCHANGED <<cur, tool, staged, took, cuts, kills, edits>>

ExitKeepsBackup(c) ==
    /\ script[c].pc = "rm"
    /\ Script(c, "ended")
    /\ UNCHANGED <<at, cur, tool, staged, old, took, cuts, kills, edits>>

\* The backup goes and, with tar, the temporary directory.  The exit status is
\* that of the mv; but without a backup the trap's last test fails, and a shell
\* that heeds set -e in a trap, as bash and dash do, exits with 1.
Exit(c) ==
    /\ script[c].pc = "rm"
    /\ \E ok \in {script[c].ok, script[c].ok /\ old[c] # None} :
           script' = [script EXCEPT ![c].pc = "ended", ![c].ok = ok]
    /\ old' = [old EXCEPT ![c] = None]
    /\ staged' = [staged EXCEPT ![c] = IF script[c].tar THEN None ELSE @]
    /\ UNCHANGED <<at, cur, tool, took, cuts, kills, edits>>

ScriptStep(c) == Extract(c) \/ Test(c) \/ Backup(c) \/ Move(c) \/ Trap(c) \/ Restore(c) \/ Exit(c)

-----------------------------------------------------------------------------
\* (external) The remote host, or this process, is killed.
KillScript(c) ==
    /\ script[c].pc \in Running /\ kills < MaxKills /\ kills' = kills + 1
    /\ Script(c, "dead")
    /\ UNCHANGED <<at, cur, tool, staged, old, took, cuts, edits>>

KillTool ==
    /\ ~At("idle") /\ kills < MaxKills /\ kills' = kills + 1
    /\ End("killed")
    /\ UNCHANGED <<at, cur, script, staged, old, took, cuts, edits>>

\* (external) Another tool of the session writes the path, between two calls.
Edit(side) ==
    /\ At("idle") /\ edits < MaxEdits /\ edits' = edits + 1
    /\ at[side] # None
    /\ at' = [at EXCEPT ![side] = 2 + edits + 1]
    /\ UNCHANGED <<cur, tool, script, staged, old, took, cuts, kills>>

Init ==
    /\ at \in [{"local", "remote"} -> {None, 1, 2}] /\ at["local"] \in {None, 1} /\ at["remote"] \in {None, 2}
    /\ cur = 0
    /\ tool = [pc |-> "idle", dir |-> "out", via |-> "none", res |-> "none"]
    /\ script = [c \in Calls |-> [pc |-> "none", tar |-> FALSE, ok |-> FALSE]]
    /\ staged = [c \in Calls |-> None]
    /\ old = [c \in Calls |-> None]
    /\ took = [c \in Calls |-> None]
    /\ cuts = 0 /\ kills = 0 /\ edits = 0

Next ==
    \/ ToolStep
    \/ \E c \in Calls : ScriptStep(c) \/ KillScript(c)
    \/ KillTool
    \/ \E side \in {"local", "remote"} : Edit(side)

Spec == Init /\ [][Next]_vars

-----------------------------------------------------------------------------
(* Properties.                                                             *)

TypeOK ==
    /\ at \in [{"local", "remote"} -> {None, Mixed} \cup 1..(2 + MaxEdits)]
    /\ cur \in 0..MaxCalls
    /\ tool.pc \in Waits \cup {"idle", "check", "cleanup", "aside", "rename", "drop"}
    /\ \A c \in Calls : script[c].pc \in Running \cup {"none", "ended", "dead"}
    /\ {staged, old, took} \subseteq [Calls -> {None, Mixed} \cup 1..(2 + MaxEdits)]

\* The calls that hold what they have put aside on a side.
Holding(side) == {c \in Calls : old[c] # None /\ (side = "remote" <=> script[c].pc # "none")}

There(side) == at[side] # None \/ Holding(side) # {}

\* A path that held something is never left with nothing: the old content, the
\* copy or a backup is there, also when a timeout, a late script of an earlier
\* call and a kill meet.
NothingIsLost == [][\A side \in {"local", "remote"} : There(side) => There(side)']_vars

\* The path holds one whole version, never one copy inside another: mv would
\* put a directory into one that has not been moved away.
OneCopy == \A side \in {"local", "remote"} : at[side] # Mixed

\* A call that answers ok has put what it read in its place.  On the remote
\* host only a script that an earlier call gave up can come in between.
OkMeansCopied ==
    [][tool.res = "none" /\ tool'.res = "ok" /\ (tool.dir = "in" \/ cuts + kills = 0)
           => at'[To(tool.dir)] = took[cur]]_vars

Quiet == \A c \in Calls : script[c].pc \notin Running

\* When everything has come to an end no backup is left behind.
NoBackupLeft == At("idle") /\ Quiet /\ kills = 0 => \A c \in Calls : old[c] = None

=============================================================================
