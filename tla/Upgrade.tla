------------------------------ MODULE Upgrade ------------------------------
(***************************************************************************)
(* The workdir upgrade chain (stellaclaw/src/upgrade): upgrade_workdir     *)
(* reads the version file, runs the upgrader of that version, writes the   *)
(* next version, and so on up to the latest one, before anything else of   *)
(* the server starts.  A step that was cut is run again from its start.    *)
(*                                                                         *)
(* Each upgrader is the list of what it does to the files (Plan); a file   *)
(* is the facts it holds (data) and the version of its format (at).  One   *)
(* conversation stands for all of them; "log1" is its log under            *)
(* .log/stellaclaw, "old" the one under .stellaclaw/log with the session   *)
(* id of before 0.19, "fg" the one the foreground service reads.           *)
(***************************************************************************)
EXTENDS Naturals, Sequences, FiniteSets, TLC

CONSTANTS Start,      \* the version the workdir is in: 39 (PartyClaw), 6 or 12
          RemoteUp,   \* whether the host of the conversation can be reached
          TornWrites, \* whether a crash may fall inside a write in place
          MaxCrashes

UpgradeAssumption ==
    /\ Start \in {39, 6, 12}
    /\ RemoteUp \in BOOLEAN
    /\ TornWrites \in BOOLEAN
    /\ MaxCrashes \in Nat

Latest == 26

Paths == {"version", "conv", "ghost", "legacy_conv", "legacy_session", "wsfile",
          "log1/session", "log1/all", "old/session", "old/all", "fg/session",
          "fg/all", "index", "ids", "oldids", "oldcron", "cron", "oldlog", "log",
          "oldweb", "web", "seen", "legacy_auth", "oldauth", "auth", "sshfs", "att",
          "att.copy", "att2", "att2.copy", "skill0", "skill", "skill2", "link",
          "compaction", "usage", "meta", "rt", "manifest", "agent", "crontasks"}

VARIABLES disk,     \* [Paths -> file]
          proc,     \* "down", "up", "failed" (exited with an error) or "served"
          current,  \* the version in memory
          todo,     \* what is left of the upgrader under way
          crashes

vars == <<disk, proc, current, todo, crashes>>

File(d, n) == [data |-> d, at |-> n]
Absent == File({"absent"}, 0)
Torn == File({}, 0)                       \* truncated, or a part of the new content
There(p) == disk[p] # Absent
Readable(p) == There(p) /\ disk[p] # Torn

-----------------------------------------------------------------------------
(* What the workdir holds at the start: m the history, k the conversation's *)
(* settings, t a cron task, s the seen state, f and g two attachments of    *)
(* the same name, a the authorizations, w a skill.                          *)
Legacy == ("legacy_conv" :> File({"k"}, 1)) @@ ("legacy_session" :> File({"m"}, 1))
            @@ ("wsfile" :> File({"f"}, 1)) @@ ("legacy_auth" :> File({"a"}, 1))
            @@ ("skill0" :> File({"w"}, 1)) @@ ("version" :> File({"v"}, 39))
Older == ("conv" :> File({"k"}, 2)) @@ ("old/session" :> File({"m"}, 2))
            @@ ("old/all" :> File({"m"}, 2)) @@ ("oldids" :> File({"c"}, 2))
            @@ ("oldcron" :> File({"t"}, 2)) @@ ("oldweb" :> File({"s"}, 2))
            @@ ("oldlog" :> File({"l"}, 2)) @@ ("log" :> File({"n"}, 2))
            @@ ("att" :> File({"f"}, 2)) @@ ("att2" :> File({"g"}, 2))
            @@ ("skill" :> File({"w"}, 1)) @@ ("link" :> File({"stale"}, 1))
            @@ ("version" :> File({"v"}, 6))
Remote == ("conv" :> File({"k"}, 12)) @@ ("old/session" :> File({"m"}, 12))
            @@ ("old/all" :> File({"m"}, 12)) @@ ("ids" :> File({"c"}, 12))
            @@ ("cron" :> File({"t"}, 12)) @@ ("web" :> File({"s"}, 12))
            @@ ("sshfs" :> File({"f"}, 1)) @@ ("skill" :> File({"w"}, 1))
            @@ ("version" :> File({"v"}, 12))
At(start) == CASE start = 39 -> Legacy [] start = 6 -> Older [] OTHER -> Remote

Init ==
    /\ disk = At(Start) @@ [p \in Paths |-> Absent]
    /\ proc = "down"
    /\ current = 0
    /\ todo = <<>>
    /\ crashes = 0

-----------------------------------------------------------------------------
(* The upgraders.  Directories that are only created are left out.          *)
PartyClawUpgrade ==
    <<<<"copy", "skill0", "skill">>, <<"put", "oldauth", "legacy_auth", 2>>, <<"scan">>>>
ModelSelectionUpgrade == <<<<"rewrite", "conv", 4>>, <<"rewrite", "ghost", 4>>>>
CronScriptFieldRenameUpgrade == <<<<"rewrite", "oldcron", 8>>>>
ConversationNicknameUpgrade == <<<<"rewrite", "conv", 10>>, <<"rewrite", "ghost", 10>>>>
StellaclawWorkdirDirectoryUpgrade ==
    <<<<"prepend", "oldlog", "log">>, <<"prepend", "oldids", "ids">>,
      <<"prepend", "oldcron", "cron">>,
      <<"movedir", {<<"oldauth", "auth">>, <<"oldweb", "web">>}>>>>
SshfsWorkspaceMaterializeUpgrade == <<<<"remote">>, <<"keep", "sshfs", "att">>>>
StellaclawConversationSpecialPathUpgrade ==
    <<<<"movein", "skill", "skill2">>, <<"movein", "att", "att2">>,
      <<"movein", "att.copy", "att2">>, <<"unlink">>, <<"link">>>>
StaleSpecialLinkRepairUpgrade == <<<<"moveon", "skill", "skill2">>, <<"unlink">>, <<"link">>>>
MemoryV1DirectoryUpgrade == <<<<"ensure", "compaction", "version", 16>>>>
MemoryV1UsageLogUpgrade == <<<<"append", "usage">>>>
ToolResultStructuredContentUpgrade ==
    <<<<"rewrite", "old/session", 18>>, <<"lines", "old/all", 18>>>>
ConversationFiles ==
    <<<<"ensure", "meta", "conv", 19>>, <<"ensure", "rt", "conv", 19>>,
      <<"ensure", "manifest", "conv", 19>>>>
AgentAndCronFiles == <<<<"ensure", "agent", "fg/all", 19>>, <<"ensure", "crontasks", "cron", 19>>>>
ConversationServiceStateUpgrade ==
    <<<<"movedir", {<<"old/session", "fg/session">>, <<"old/all", "fg/all">>}>>>>
      \o ConversationFiles \o AgentAndCronFiles \o <<<<"rewrite", "conv", 19>>>>
ReasoningSummaryPartsUpgrade ==
    <<<<"rewrite", "fg/session", 20>>, <<"lines", "fg/all", 20>>, <<"put", "index", "fg/all", 20>>>>
WebSeenStateUpgrade == <<<<"copy", "web", "seen">>, <<"remove", "web">>>>
RemoveStatusServiceUpgrade == <<<<"rewrite", "manifest", 22>>>>
RemoveIdleTimeoutCompactUpgrade == <<<<"rewrite", "rt", 26>>>>

Plan(v) ==
    CASE v = 39 -> PartyClawUpgrade
      [] v = 3  -> ModelSelectionUpgrade
      [] v = 7  -> CronScriptFieldRenameUpgrade
      [] v = 9  -> ConversationNicknameUpgrade
      [] v = 11 -> StellaclawWorkdirDirectoryUpgrade
      [] v = 12 -> SshfsWorkspaceMaterializeUpgrade
      [] v = 13 -> StellaclawConversationSpecialPathUpgrade
      [] v = 14 -> StaleSpecialLinkRepairUpgrade
      [] v = 15 -> MemoryV1DirectoryUpgrade
      [] v = 16 -> MemoryV1UsageLogUpgrade
      [] v = 17 -> ToolResultStructuredContentUpgrade
      [] v = 18 -> ConversationServiceStateUpgrade
      [] v = 19 -> ReasoningSummaryPartsUpgrade
      [] v = 20 -> WebSeenStateUpgrade
      [] v = 21 -> RemoveStatusServiceUpgrade
      [] v = 25 -> RemoveIdleTimeoutCompactUpgrade
      [] OTHER  -> <<>>

ToNext(v) == v + 1

To(v) == IF v = 39 THEN 2 ELSE v + 1

\* upgrade_workdir: a version file that does not read as a version is refused
StartUp ==
    /\ proc \in {"down", "failed"}
    /\ IF Readable("version")
         THEN proc' = "up" /\ current' = disk["version"].at
         ELSE proc' = "failed" /\ UNCHANGED current
    /\ todo' = <<>>
    /\ UNCHANGED <<disk, crashes>>

NextUpgrader ==
    /\ proc = "up" /\ todo = <<>> /\ current # Latest
    /\ IF current \in (1..25) \cup {39}
         THEN todo' = Plan(current) \o <<<<"version", To(current)>>>> /\ UNCHANGED proc
         ELSE proc' = "failed" /\ UNCHANGED todo
    /\ UNCHANGED <<disk, current, crashes>>

Serve ==
    /\ proc = "up" /\ todo = <<>> /\ current = Latest
    /\ proc' = "served"
    /\ UNCHANGED <<disk, current, todo, crashes>>

Crash ==
    /\ proc = "up" /\ crashes < MaxCrashes
    /\ proc' = "down" /\ todo' = <<>> /\ crashes' = crashes + 1
    /\ UNCHANGED <<disk, current>>

-----------------------------------------------------------------------------
Op(name) == proc = "up" /\ todo # <<>> /\ Head(todo)[1] = name
Rest == Tail(todo)
Skip == todo' = Rest /\ UNCHANGED <<disk, proc>>
Fail == proc' = "failed" /\ todo' = <<>> /\ UNCHANGED disk
Same == UNCHANGED <<current, crashes>>

\* fs::write truncates the file and then fills it
Write(p, file, rest) ==
    /\ IF TornWrites
         THEN disk' = [disk EXCEPT ![p] = Torn] /\ todo' = <<<<"fill", p, file>>>> \o rest
         ELSE disk' = [disk EXCEPT ![p] = file] /\ todo' = rest
    /\ UNCHANGED proc

Fill ==
    /\ Op("fill")
    /\ disk' = [disk EXCEPT ![Head(todo)[2]] = Head(todo)[3]]
    /\ todo' = Rest
    /\ UNCHANGED <<proc, current, crashes>>

WriteVersion ==
    /\ Op("version")
    /\ Write("version", File({"v"}, Head(todo)[2]), Rest)
    /\ current' = Head(todo)[2]
    /\ UNCHANGED crashes

(* A JSON file is read, changed and written back; what does not parse ends *)
(* the upgrade, what has the new form already is left alone.  The lines of *)
(* a log are read and written the same way, but a log cut to nothing has   *)
(* no line that could fail to parse.                                       *)
Rewrite ==
    /\ Op("rewrite")
    /\ LET p == Head(todo)[2] n == Head(todo)[3] IN
         \/ ~There(p) /\ Skip
         \/ disk[p] = Torn /\ Fail
         \/ Readable(p) /\ disk[p].at >= n /\ Skip
         \/ Readable(p) /\ disk[p].at < n /\ Write(p, File(disk[p].data, n), Rest)
    /\ Same

RewriteLines ==
    /\ Op("lines")
    /\ LET p == Head(todo)[2] n == Head(todo)[3] IN
         IF Readable(p) /\ disk[p].at < n
           THEN Write(p, File(disk[p].data, n), Rest)
           ELSE Skip
    /\ Same

Source(p) == IF Readable(p) THEN disk[p].data ELSE {}

\* the service files of 0.19: one that is there already is kept
EnsureEmpty ==
    /\ Op("ensure")
    /\ LET p == Head(todo)[2] IN
         IF There(p) THEN Skip ELSE Write(p, File({}, Head(todo)[4]), Rest)
    /\ Same

Ensure ==
    /\ Op("ensure")
    /\ LET p == Head(todo)[2] IN
         IF There(p) THEN Skip
                     ELSE Write(p, File(Source(Head(todo)[3]), Head(todo)[4]), Rest)
    /\ Same

\* written over whatever is there, from a source that may be missing
Put ==
    /\ Op("put")
    /\ LET p == Head(todo)[2] q == Head(todo)[3] IN
         IF There(q) THEN Write(p, File(Source(q), Head(todo)[4]), Rest) ELSE Skip
    /\ Same

\* OpenOptions::append creates the usage log and keeps what it holds
AppendLog ==
    /\ Op("append")
    /\ disk' = [disk EXCEPT !["usage"] = IF There("usage") THEN @ ELSE File({"v"}, 17)]
    /\ todo' = Rest
    /\ UNCHANGED <<proc, current, crashes>>

\* copy_file_if_missing
Copy ==
    /\ Op("copy")
    /\ LET p == Head(todo)[2] q == Head(todo)[3] IN
         IF There(p) /\ ~There(q) THEN Write(q, disk[p], Rest) ELSE Skip
    /\ Same

RemoveFile ==
    /\ Op("remove")
    /\ disk' = [disk EXCEPT ![Head(todo)[2]] = Absent]
    /\ todo' = Rest
    /\ UNCHANGED <<proc, current, crashes>>

\* a directory is renamed when its new name is free, else it stays
MoveDir ==
    /\ Op("movedir")
    /\ LET moves == Head(todo)[2]
           target(p) == {q \in {m[1] : m \in moves} : <<q, p>> \in moves} IN
         IF \A m \in moves : ~There(m[2])
           THEN disk' = [p \in Paths |->
                           IF p \in {m[1] : m \in moves} THEN Absent
                           ELSE IF target(p) = {} THEN disk[p]
                           ELSE disk[CHOOSE q \in target(p) : TRUE]]
           ELSE UNCHANGED disk
    /\ todo' = Rest
    /\ UNCHANGED <<proc, current, crashes>>

\* v0_11 puts a file whose new name is taken in front of the one that has it:
\* that joins the lines of two logs, but two JSON documents in one file do not parse
Joined(p, q) ==
    IF p = "oldlog" \/ disk[p] = Torn THEN File(disk[p].data \cup disk[q].data, disk[q].at) ELSE Torn

Prepend ==
    /\ Op("prepend")
    /\ LET p == Head(todo)[2] q == Head(todo)[3] IN
         \/ ~There(p) /\ Skip
         \/ There(p) /\ ~There(q)
            /\ disk' = [disk EXCEPT ![p] = Absent, ![q] = disk[p]]
            /\ todo' = Rest /\ UNCHANGED proc
         \/ There(p) /\ There(q)
            /\ Write(q, Joined(p, q), <<<<"remove", p>>>> \o Rest)
    /\ Same

Other(p) == IF p \in {"att", "att.copy"} THEN "att.copy" ELSE "att2.copy"

(* v0_12: a key file is written under its name, or under the name of a     *)
(* copy when something else has it; the same bytes are not written again.  *)
(* The host that cannot be reached is replaced by the old sshfs directory, *)
(* and a fallback that copied nothing ends the upgrade.                    *)
Keep ==
    /\ Op("keep")
    /\ LET p == Head(todo)[2] q == Head(todo)[3] IN
         \/ (~There(p) \/ disk[q] = disk[p]) /\ Skip
         \/ There(p) /\ ~There(q) /\ Write(q, disk[p], Rest)
         \/ There(p) /\ There(q) /\ disk[q] # disk[p] /\ Write(Other(q), disk[p], Rest)
    /\ Same

FromRemote ==
    /\ Op("remote")
    /\ \/ RemoteUp /\ todo' = <<<<"keep", "sshfs", "att">>>> \o Rest /\ UNCHANGED <<disk, proc>>
       \/ ~RemoteUp /\ There("sshfs") /\ disk["att"] # disk["sshfs"]
          /\ todo' = <<<<"keep", "sshfs", "att">>>> \o Rest /\ UNCHANGED <<disk, proc>>
       \/ ~RemoteUp /\ (~There("sshfs") \/ disk["att"] = disk["sshfs"]) /\ Fail
    /\ Same

(* v0_13, v0_14: an entry is moved under its new name; one that is there   *)
(* already with the same bytes makes it a duplicate, other bytes give the  *)
(* moved one the name of a copy.                                           *)
MoveOver ==
    /\ Op("movein")
    /\ LET p == Head(todo)[2] q == Head(todo)[3] IN
         disk' = IF There(p) THEN [disk EXCEPT ![p] = Absent, ![q] = disk[p]] ELSE disk
    /\ todo' = Rest
    /\ UNCHANGED <<proc, current, crashes>>

MoveIn ==
    /\ Op("movein")
    /\ LET p == Head(todo)[2] q == Head(todo)[3]
           target == IF There(q) /\ disk[q] # disk[p] THEN Other(q) ELSE q IN
         disk' = IF There(p) THEN [disk EXCEPT ![p] = Absent, ![target] = disk[p]] ELSE disk
    /\ todo' = Rest
    /\ UNCHANGED <<proc, current, crashes>>

\* v0_14 does not compare: what has the name already gives the moved one a copy's
MoveOn ==
    /\ Op("moveon")
    /\ LET p == Head(todo)[2] q == Head(todo)[3] IN
         disk' = IF There(p)
                   THEN [disk EXCEPT ![p] = Absent, ![IF There(q) THEN Other(q) ELSE q] = disk[p]]
                   ELSE disk
    /\ todo' = Rest
    /\ UNCHANGED <<proc, current, crashes>>

\* the link to the skill memory is removed and made again, in two steps
Unlink ==
    /\ Op("unlink")
    /\ disk' = [disk EXCEPT !["link"] = Absent]
    /\ todo' = Rest
    /\ UNCHANGED <<proc, current, crashes>>

LinkOld ==
    /\ Op("link")
    /\ disk' = [disk EXCEPT !["link"] = File({"stale"}, current)]
    /\ todo' = Rest
    /\ UNCHANGED <<proc, current, crashes>>

Link ==
    /\ Op("link")
    /\ disk' = [disk EXCEPT !["link"] = File({"canonical"}, 15)]
    /\ todo' = Rest
    /\ UNCHANGED <<proc, current, crashes>>

-----------------------------------------------------------------------------
(* PartyClaw (v0_1): every directory under conversations/ that holds a     *)
(* conversation.json is migrated, in the order read_dir gives; a directory *)
(* made meanwhile may or may not be given.  ids is the id manager's file,  *)
(* whose key "::" belongs to no chat.                                      *)
Scan ==
    /\ Op("scan")
    /\ \E order \in {<<"legacy_conv", "conv">>, <<"conv", "legacy_conv">>} :
         todo' = [i \in 1..2 |-> <<"visit", order[i]>>] \o Rest
    /\ UNCHANGED <<disk, proc, current, crashes>>

Id(key, rest) ==
    IF There("ids") /\ key \in disk["ids"].data THEN rest
    ELSE <<<<"fill", "ids", File(Source("ids") \cup {key}, 2)>>>> \o rest

MigrateLegacy ==
    <<<<"copy", "wsfile", "att">>, <<"seed">>, <<"put", "conv", "legacy_conv", 2>>,
      <<"put", "log1/session", "legacy_session", 2>>, <<"put", "log1/all", "legacy_session", 2>>>>

(* The conversation.json of a conversation that was migrated already reads *)
(* as a legacy one with an empty address.                                  *)
Visit ==
    /\ Op("visit")
    /\ LET d == Head(todo)[2] IN
         \/ ~Readable(d) /\ todo' = Rest
         \/ Readable(d) /\ d = "legacy_conv" /\ todo' = Id("c", MigrateLegacy \o Rest)
         \/ Readable(d) /\ d = "conv"
            /\ todo' = Id("::", <<<<"put", "ghost", "conv", 2>>>> \o Rest)
         \/ d = "conv" /\ todo' = Rest       \* made after read_dir passed its place
    /\ UNCHANGED <<disk, proc, current, crashes>>

\* ensure_workspace_seed: the link is made, and a log of an earlier attempt moves
Seed ==
    /\ Op("seed")
    /\ disk' = [p \in Paths |->
         CASE p = "link" /\ ~There("link") -> File({"canonical"}, 15)
           [] p = "old/session" /\ ~There("old/all") -> disk["log1/session"]
           [] p = "old/all" /\ ~There("old/all") -> disk["log1/all"]
           [] p \in {"log1/session", "log1/all"} -> Absent
           [] OTHER -> disk[p]]
    /\ todo' = Rest
    /\ UNCHANGED <<proc, current, crashes>>

-----------------------------------------------------------------------------
DoOp == Fill \/ WriteVersion \/ Rewrite \/ RewriteLines \/ Ensure \/ Put \/ AppendLog \/ Copy
          \/ RemoveFile \/ MoveDir \/ Prepend \/ Keep \/ FromRemote \/ MoveIn \/ MoveOn \/ Unlink
          \/ Link \/ Scan \/ Visit \/ Seed

Next == StartUp \/ NextUpgrader \/ Serve \/ Crash \/ DoOp

Spec == Init /\ [][Next]_vars

(* The operator starts a server that went down again, and a process that   *)
(* runs takes its next step.                                               *)
FairSpec ==
    Spec /\ WF_vars(StartUp) /\ WF_vars(NextUpgrader) /\ WF_vars(Serve) /\ WF_vars(DoOp)

-----------------------------------------------------------------------------
Facts == UNION {At(Start)[p].data : p \in DOMAIN At(Start)} \ {"v", "stale", "l", "n"}

(* Whatever the workdir held is in some file whenever no upgrade is under  *)
(* way, whichever step it was cut after and whatever was run twice, if     *)
(* the cut does not fall inside a write.                                   *)
NothingLost == proc # "up" => \A x \in Facts : \E p \in Paths : x \in disk[p].data

\* Where the services look for each fact.
Places == [m |-> {"fg/all"}, s |-> {"seen"}, k |-> {"rt"}, t |-> {"crontasks"},
           f |-> {"att2", "att2.copy"}, g |-> {"att2", "att2.copy"}, a |-> {"auth"},
           w |-> {"skill2"}, c |-> {"ids"}]

\* PartyClaw's history is left where no later step and no service looks.
Stranded == IF Start = 39 THEN {"m"} ELSE {}

(* When the server starts to serve, everything is where the services look  *)
(* for it: the history in the log of the foreground session, unless it     *)
(* comes from PartyClaw, the seen state, the settings, the tasks, the      *)
(* attachments (under a copy's name when the name was taken), the          *)
(* authorizations and the skills.                                          *)
EverythingArrives ==
    proc = "served" =>
        \A x \in (Facts \cap DOMAIN Places) \ Stranded : \E p \in Places[x] : x \in disk[p].data

(* The conversation's link to the skill memory points at the new directory *)
(* once the server serves, although the repair removes it before it makes  *)
(* it again.                                                               *)
LinkPoints == proc = "served" => disk["link"].data = {"canonical"}

(* Only conversations the workdir had are in the id manager's file: an     *)
(* upgrade that was cut and run again invents none.                        *)
NoGhost == "::" \notin disk["ids"].data /\ ~There("ghost")

(* However often it is cut, the upgrade reaches the latest version in the  *)
(* end and the server serves.                                              *)
UpgradeEnds == <>(proc = "served")
=============================================================================
