------------------------------- MODULE Skill -------------------------------
(***************************************************************************)
(* The skill services of the conversations of one process and the runtime  *)
(* skill store they share.  A skill is a directory, in the store and in    *)
(* the workspace of every conversation.  A service copies it file by file  *)
(* into a temporary directory beside the destination, removes the          *)
(* destination file by file and renames; the process may be killed between *)
(* any two of these calls.  One skill is modelled; a file's content is the *)
(* number of the edit that wrote it.  A removal that meets files which     *)
(* another service has just removed passes over them.  At start the        *)
(* process pushes the configured skill to its git upstream; a payload in   *)
(* the root of the repository, which it would take out, is not there.      *)
(***************************************************************************)
EXTENDS Integers, Sequences, FiniteSets, SequencesExt

CONSTANTS Convs,       \* conversations with a directory under conversations/
          Active,      \* the ones whose services run
          Edits,       \* conversations whose agent edits its staged copy
          EditDuring,  \* TRUE: an edit may fall into the agent's own persist
          Upstreamed,  \* TRUE: skill_sync names the skill
          MaxEdits, MaxOps, MaxCrashes, MaxForeign   \* bounds

SkillAssumption ==
    /\ Active \subseteq Convs /\ Edits \subseteq Active /\ "store" \notin Convs
    /\ {EditDuring, Upstreamed} \subseteq BOOLEAN
    /\ {MaxEdits, MaxOps, MaxCrashes, MaxForeign} \subseteq Nat

VARIABLES
    dir,     \* dir[place].skill, dir[place].tmp: the two directories
    rooted,  \* conversations whose workspace has .stellaclaw/skill
    phase,   \* of the process: "boot", "pushing", "serving"
    job,     \* job[c]: calls the service of c has left
    op,      \* op[c]: the request under way: "none", "start", "create", ...
    up,      \* commits of the upstream's main branch
    base,    \* the commits the push under way builds on
    synced,  \* the last thing that happened to the skill is an answered persist
    gone,    \* a delete was answered and nothing was staged since
    edits, ops, crashes, foreign

vars == <<dir, rooted, phase, job, op, up, base, synced, gone,
          edits, ops, crashes, foreign>>

Files == {"SKILL.md", "more"}
NoFiles == [f \in Files |-> 0]
Absent == [is |-> FALSE, file |-> NoFiles]
Empty == [is |-> TRUE, file |-> NoFiles]
Places == Convs \cup {"store"}
-----------------------------------------------------------------------------
Call(do, from, to) == [do |-> do, from |-> from, to |-> to, left |-> {}]

(* Faulty: a temporary directory left by a killed copy is not removed. *)
CopyIntoLeftover(from, to) ==
    <<Call("make", from, to), Call("list", from, to), Call("fill", from, to),
      Call("drop", from, to), Call("rename", from, to)>>

(* copy_skill_atomically, call by call. *)
Copy(from, to) ==
    <<Call("wipe", from, to), Call("make", from, to), Call("list", from, to),
      Call("fill", from, to), Call("drop", from, to), Call("rename", from, to)>>

(* The conversations in an order in which read_dir may list them. *)
Listings == SetToSeqs(Convs)

(* Faulty: a persist fills the store only. *)
SyncNone(c, listed) == <<>>

(* sync_skill_to_conversation_workspaces with a source ... *)
SyncAll(c, listed) == FlattenSeq([i \in DOMAIN listed |-> Copy(c, listed[i])])

(* Faulty: a delete empties the store only. *)
RemoveNone(listed) == <<>>

(* ... and without. *)
RemoveAll(listed) == [i \in DOMAIN listed |-> Call("drop", "store", listed[i])]

(* persist_skill: the store first, then every workspace, also its own. *)
PersistCalls(c, mode, listed) ==
    CASE mode = "create" ->
            <<Call("absent", "store", c), Call("valid", c, c)>>
                \o Copy(c, "store") \o SyncAll(c, listed)
      [] mode = "update" ->
            <<Call("exists", "store", c), Call("valid", c, c)>>
                \o Copy(c, "store") \o SyncAll(c, listed)
      [] mode = "delete" ->
            <<Call("exists", "store", c), Call("drop", c, "store")>> \o RemoveAll(listed)

(* reconcile_skills: the store is listed once, the skill is copied, and a   *)
(* temporary directory in the listing has no valid skill name.              *)
ReconcileCalls(c) ==
    (IF dir["store"].skill.is
     THEN <<Call("valid", "store", c)>> \o Copy("store", c) ELSE <<>>)
    \o (IF dir["store"].tmp.is THEN <<Call("bad_name", "store", c)>> ELSE <<>>)
-----------------------------------------------------------------------------
Init ==
    /\ dir = [p \in Places |-> [skill |-> Absent, tmp |-> Absent]]
    /\ rooted = Convs \ Active
    /\ phase = "boot"
    /\ job = [c \in Convs |-> <<>>] /\ op = [c \in Convs |-> "none"]
    /\ up = <<>> /\ base = <<>>
    /\ synced = FALSE /\ gone = FALSE
    /\ edits = 0 /\ ops = 0 /\ crashes = 0 /\ foreign = 0

git == <<up, base, foreign>>

Valid(d) == d.is /\ d.file["SKILL.md"] # 0

(* main: the configured skill is pushed when it is there and valid.  The    *)
(* fetch may fail or time out, and the branch then starts without a parent. *)
BootPush ==
    /\ phase = "boot"
    /\ IF Upstreamed /\ Valid(dir["store"].skill)
       THEN phase' = "pushing" /\ base' \in {up, <<>>}
       ELSE phase' = "serving" /\ UNCHANGED base
    /\ UNCHANGED <<dir, rooted, job, op, up, synced, gone, edits, ops, crashes, foreign>>

(* What a branch has in the skill's directory. *)
Holds(branch) == IF branch = <<>> THEN NoFiles ELSE Last(branch).file

(* The branch to push: a commit on the fetched one when the skill differs. *)
Committed ==
    IF Holds(base) = dir["store"].skill.file THEN base
    ELSE Append(base, [by |-> "us", n |-> 0, file |-> dir["store"].skill.file])

(* Faulty: git push --force. *)
ForcedPush == TRUE

(* git push without force: refused unless it fast-forwards the upstream,    *)
(* that is when the branch was fetched and nobody has pushed since.         *)
PushAccepted == base = up

PushEnd ==
    /\ phase = "pushing"
    /\ phase' = "serving"
    /\ \/ PushAccepted /\ up' = Committed
       \/ up' = up                       \* refused, failed or timed out
    /\ UNCHANGED <<dir, rooted, job, op, base, synced, gone, edits, ops, crashes, foreign>>

(* Somebody else pushes to the same upstream. *)
ForeignPush ==
    /\ foreign < MaxForeign
    /\ foreign' = foreign + 1
    /\ up' = Append(up, [by |-> "them", n |-> foreign, file |-> Holds(up)])
    /\ UNCHANGED <<dir, rooted, phase, job, op, base, synced, gone, edits, ops, crashes>>

(* A conversation's services are mounted: the skill service makes its       *)
(* directory and reconciles.                                                *)
Start(c) ==
    /\ phase = "serving" /\ op[c] = "none"
    /\ op' = [op EXCEPT ![c] = "start"]
    /\ rooted' = rooted \cup {c}
    /\ job' = [job EXCEPT ![c] = ReconcileCalls(c)]
    /\ synced' = FALSE
    /\ UNCHANGED <<dir, phase, git, gone, edits, ops, crashes>>

(* A request of the conversation's agent, or a Reconcile request.  List and *)
(* Load read and change nothing.                                            *)
Ask(c, mode) ==
    /\ phase = "serving" /\ op[c] = "idle" /\ ops < MaxOps
    /\ ops' = ops + 1
    /\ op' = [op EXCEPT ![c] = mode]
    /\ \E listed \in Listings :
          job' = [job EXCEPT ![c] = IF mode = "reconcile" THEN ReconcileCalls(c)
                                    ELSE PersistCalls(c, mode, listed)]
    /\ synced' = FALSE
    /\ UNCHANGED <<dir, rooted, phase, git, gone, edits, crashes>>

Busy(c) == op[c] \notin {"none", "idle"}
Held(d) == {f \in Files : d.file[f] # 0}

(* One file of a directory is unlinked, then the directory: remove_dir_all  *)
(* is not one step, and stays the first call until nothing is left.         *)
Removes(c, p, which) ==
    LET d == dir[p][which] IN
    /\ d.is
    /\ \/ \E f \in Held(d) : dir' = [dir EXCEPT ![p][which].file[f] = 0]
       \/ Held(d) = {} /\ dir' = [dir EXCEPT ![p][which] = Absent]
    /\ UNCHANGED job

Return(c) == job' = [job EXCEPT ![c] = Tail(@)]

(* A call that answers a question, or finds nothing to remove, returns. *)
Passes(s) ==
    \/ s.do = "absent" /\ ~dir[s.from].skill.is
    \/ s.do = "exists" /\ dir[s.from].skill.is
    \/ s.do = "valid" /\ Valid(dir[s.from].skill)
    \/ s.do = "wipe" /\ ~dir[s.to].tmp.is
    \/ s.do = "fill" /\ s.left = {}
    \/ s.do = "drop" /\ ~dir[s.to].skill.is

(* copy_directory_recursive_local: the entries of the source are listed ... *)
Lists(c, s) ==
    /\ s.do = "list" /\ dir[s.from].skill.is
    /\ job' = [job EXCEPT ![c] = [Tail(@) EXCEPT ![1].left = Held(dir[s.from].skill)]]
    /\ UNCHANGED dir

(* ... and copied in any order.                                             *)
Copies(c, s) ==
    /\ s.do = "fill" /\ dir[s.to].tmp.is
    /\ \E f \in s.left \cap Held(dir[s.from].skill) :
          /\ dir' = [dir EXCEPT ![s.to].tmp.file[f] = dir[s.from].skill.file[f]]
          /\ job' = [job EXCEPT ![c][1].left = @ \ {f}]

(* rename replaces nothing but an empty directory. *)
Renames(c, s) ==
    /\ s.do = "rename" /\ dir[s.to].tmp.is /\ Held(dir[s.to].skill) = {}
    /\ dir' = [dir EXCEPT ![s.to] = [skill |-> @.tmp, tmp |-> Absent]]
    /\ Return(c)

(* What fails: a refused request, a source or a temporary directory that    *)
(* another service took away, a name that is no skill name.                 *)
FailsOn(s) ==
    \/ s.do \in {"absent", "exists", "valid"} /\ ~Passes(s)
    \/ s.do = "list" /\ ~dir[s.from].skill.is
    \/ s.do = "fill" /\ s.left # {}
       /\ ~(dir[s.to].tmp.is /\ s.left \subseteq Held(dir[s.from].skill))
    \/ s.do = "rename" /\ (~dir[s.to].tmp.is \/ Held(dir[s.to].skill) # {})
    \/ s.do = "bad_name"

(* A workspace without .stellaclaw/skill is passed over. *)
Skipped(s) == s.do \in {"wipe", "drop"} /\ s.to \in Convs \ rooted

Work(c) ==
    /\ Busy(c) /\ job[c] # <<>>
    /\ LET s == Head(job[c]) IN
       \/ /\ Skipped(s) /\ UNCHANGED dir
          /\ job' = [job EXCEPT ![c] = SelectSeq(@, LAMBDA r : r.to # s.to)]
       \/ /\ ~Skipped(s)
          /\ \/ Passes(s) /\ Return(c) /\ UNCHANGED dir
             \/ s.do = "wipe" /\ Removes(c, s.to, "tmp")
             \/ s.do = "drop" /\ Removes(c, s.to, "skill")
             \/ s.do = "make" /\ Return(c)
                /\ dir' = [dir EXCEPT ![s.to].tmp.is = TRUE]
             \/ Lists(c, s)
             \/ Copies(c, s)
             \/ Renames(c, s)
    /\ UNCHANGED <<rooted, phase, op, git, synced, gone, edits, ops, crashes>>

(* The answer, or the status after the startup reconcile. *)
Finish(c) ==
    /\ Busy(c) /\ job[c] = <<>>
    /\ op' = [op EXCEPT ![c] = "idle"]
    /\ synced' = (op[c] \in {"create", "update"})
    /\ gone' = (gone \/ op[c] = "delete")
    /\ UNCHANGED <<dir, rooted, phase, job, git, edits, ops, crashes>>

(* An error: a Failure answer; at startup a service failure, on which the   *)
(* kernel ends the conversation, which may be started again.                *)
Fail(c) ==
    /\ Busy(c) /\ job[c] # <<>>
    /\ FailsOn(Head(job[c]))
    /\ job' = [job EXCEPT ![c] = <<>>]
    /\ op' = [op EXCEPT ![c] = IF op[c] = "start" THEN "none" ELSE "idle"]
    /\ UNCHANGED <<dir, rooted, phase, git, synced, gone, edits, ops, crashes>>

(* The stop of the conversation's services; a request is finished before. *)
Stop(c) ==
    /\ op[c] = "idle"
    /\ op' = [op EXCEPT ![c] = "none"]
    /\ UNCHANGED <<dir, rooted, phase, job, git, synced, gone, edits, ops, crashes>>

(* The agent stages a version of the skill, of some of its files, as a whole. *)
Edit(c) ==
    /\ edits < MaxEdits /\ phase = "serving"
    /\ op[c] = "idle" \/ (EditDuring /\ op[c] \in {"create", "update"})
    /\ edits' = edits + 1
    /\ \E fs \in SUBSET Files \ {{}} :
          dir' = [dir EXCEPT ![c].skill =
                     [is |-> TRUE,
                      file |-> [f \in Files |-> IF f \in fs THEN edits + 1 ELSE 0]]]
    /\ synced' = FALSE /\ gone' = FALSE
    /\ UNCHANGED <<rooted, phase, job, op, git, ops, crashes>>

(* The process ends and is started again; directories stay as they are. *)
Crash ==
    /\ crashes < MaxCrashes /\ phase # "boot"
    /\ crashes' = crashes + 1
    /\ phase' = "boot"
    /\ job' = [c \in Convs |-> <<>>] /\ op' = [c \in Convs |-> "none"]
    /\ UNCHANGED <<dir, rooted, git, synced, gone, edits, ops>>

Next ==
    \/ BootPush \/ PushEnd \/ ForeignPush \/ Crash
    \/ \E c \in Active :
          \/ Start(c) \/ Stop(c) \/ Work(c) \/ Finish(c) \/ Fail(c)
          \/ \E mode \in {"create", "update", "delete", "reconcile"} : Ask(c, mode)
    \/ \E c \in Edits : Edit(c)

Spec == Init /\ [][Next]_vars
-----------------------------------------------------------------------------
(* A skill directory never mixes files of two versions, in the store or in  *)
(* a workspace, whichever call the process was killed at and whatever the   *)
(* killed copy left behind (copy_skill_atomically).  A removal that was cut *)
(* may leave some of one version's files.                                   *)
OneVersion ==
    \A p \in Places : Cardinality({dir[p].skill.file[f] : f \in Held(dir[p].skill)}) <= 1

(* load_skill: the workspace's copy, and the store's when there is none. *)
Loaded(c) == IF dir[c].skill.is THEN dir[c].skill ELSE dir["store"].skill

(* When a persist was answered, the store and every conversation's          *)
(* workspace hold the same files of the same version, and that is what each *)
(* conversation can load (persist_skill with                                *)
(* sync_skill_to_conversation_workspaces, load_skill).                      *)
AckMeansSynced ==
    synced => /\ Valid(dir["store"].skill)
              /\ \A c \in rooted : dir[c].skill = dir["store"].skill
              /\ \A c \in Convs : Loaded(c) = dir["store"].skill

(* A skill whose deletion was answered is in no workspace any more, until   *)
(* an agent stages it again (persist_skill, Delete).                        *)
DeletedIsGone == gone => \A p \in Places : ~dir[p].skill.is

(* The upstream never loses a commit, whoever pushes between the fetch and  *)
(* the push and however the fetch failed (sync_skill_to_upstream_repo).     *)
UpstreamGrows == [][IsPrefix(up, up')]_vars
=============================================================================
