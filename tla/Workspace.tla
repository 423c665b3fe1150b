----------------------------- MODULE Workspace -----------------------------
(***************************************************************************)
(* The workspace service: one thread that answers file requests about a    *)
(* conversation's workspace, while the agent's own tools write to the same *)
(* trees.  A request is resolved against the configuration in force to a   *)
(* side, the conversation directory ("local") or the fixed SSH workspace   *)
(* ("remote"), and then takes the file system one call at a time: todo     *)
(* holds the calls the request under way has left.  The paths under        *)
(* .stellaclaw are Overlay; names, sizes and encodings are abstracted,     *)
(* bytes are the number of the write that made them.                       *)
(***************************************************************************)
EXTENDS Integers, Sequences, FiniteSets, SequencesExt

CONSTANTS Files,          \* ordinary paths of the workspace
          Overlay,        \* paths under .stellaclaw
          Ops,            \* the operations the clients ask for
          FirstMode,      \* "selectable" or "fixed": the mode at mount
          MaxRequests,    \* bound: requests sent
          MaxAgentWrites, \* bound: files written by the agent's own tools
          MaxTicks,       \* bound: milliseconds that pass
          Faults          \* TRUE: a file system call or ssh may fail

WorkspaceAssumption ==
    /\ Files \cap Overlay = {}
    /\ FirstMode \in {"selectable", "fixed"}
    /\ {MaxRequests, MaxAgentWrites, MaxTicks} \subseteq Nat
    /\ Faults \in BOOLEAN

VARIABLES
    mode,    \* runtime_config.tool_remote_mode of the service
    sendMode,\* the mode after every update already in the inbox
    inbox,   \* requests not yet taken
    cur,     \* the request under way, or Idle
    todo,    \* file system calls it has left
    disk,    \* disk[side][path]: the number of the write it holds, 0: absent
    attach,  \* incoming attachments: <<millisecond, name>> -> write number
    refs,    \* attachments handed out as file:// URIs: <<path, write number>>
    answers, \* request number -> "ok" or "error"
    touched, \* <<side, path, sendMode>> of every path a request reached
    clobbered, \* what a create or a move destroyed: [by, write, began], the write and the last one before the request was taken
    writes, now, agent, asked, alive

vars == <<mode, sendMode, inbox, cur, todo, disk, attach, refs, answers,
          touched, clobbered, writes, now, agent, asked, alive>>

Sides == {"local", "remote"}
Paths == Files \cup Overlay
Targets == {"auto", "local_workspace", "local_overlay", "remote"}
Idle == [op |-> "idle"]
Refused == "refused"
-----------------------------------------------------------------------------
(* The side a path of a request is served from, or Refused.  A path that is *)
(* absolute or holds ".." ("outside") is refused before it is resolved.     *)

ResolveMut(m, target, path) ==
    IF path = "outside" THEN Refused
    ELSE IF m = "fixed" THEN "remote" ELSE "local"

Resolve(m, target, path) ==
    CASE path = "outside" -> Refused
      [] target = "local_overlay" /\ path \notin Overlay -> Refused
      [] target = "local_overlay" /\ path \in Overlay -> "local"
      [] m = "selectable" /\ target = "remote" -> Refused
      [] m = "selectable" /\ target \in {"auto", "local_workspace"} -> "local"
      [] m = "fixed" /\ target = "local_workspace" -> Refused
      [] m = "fixed" /\ target = "auto" ->
            IF path \in Overlay THEN "local" ELSE "remote"
      [] m = "fixed" /\ target = "remote" ->
            IF path \in Overlay THEN Refused ELSE "remote"
      [] OTHER -> Refused

(* What a client may ask: a request names one or two paths; an upload names *)
(* a directory ("root" is the workspace itself) and unpacks entries in it.  *)

Asked == Paths \cup {"outside"}

Requests ==
    [op : {"list", "read", "delete"} \cap Ops, target : Targets, path : Asked]
    \cup [op : {"write"} \cap Ops, target : Targets, path : Asked,
          overwrite : BOOLEAN, decodes : BOOLEAN]
    \cup [op : {"move", "download"} \cap Ops, target : Targets, path : Asked,
          to : Asked]
    \cup [op : {"upload"} \cap Ops, target : {"auto", "remote"},
          path : {"root"}, entries : {<<p, "outside", q>> : p, q \in Paths}]
    \cup [op : {"materialize"} \cap Ops,
          files : {<<[name |-> "png", decodes |-> d], [name |-> "png", decodes |-> TRUE]>>
                      : d \in BOOLEAN}]
    \cup [op : {"config"} \cap Ops, mode : {"selectable", "fixed"}]
    \cup [op : {"root", "bad"} \cap Ops]

(* The file system calls of each request, in their order, or NoPlan. *)

NoPlan == <<[do |-> Refused]>>

At(do, side, path) == [do |-> do, side |-> side, path |-> path]

ReadPlan(r, s) == <<At("look", s, r.path)>>

DeletePlan(r, s) == <<At("look", s, r.path), At("unlink", s, r.path)>>

WritePlan(r, s) ==
    IF ~r.decodes THEN NoPlan
    ELSE IF r.overwrite THEN <<At("parent", s, r.path), At("put", s, r.path)>>
    ELSE <<At("absent", s, r.path),
           At(IF s = "local" THEN "create_new" ELSE "put_absent", s, r.path)>>

MoveUnchecked(r, s, s2) ==
    IF s # s2 THEN NoPlan ELSE <<At("rename", s, r.path) @@ [to |-> r.to]>>

MovePlan(r, s, s2) ==
    IF s # s2 THEN NoPlan
    ELSE <<At("absent", s, r.to), At("rename", s, r.path) @@ [to |-> r.to]>>

DownloadPlan(r, s, s2) ==
    IF s # s2 THEN NoPlan ELSE <<At("look", s, r.path), At("look", s, r.to)>>

UploadPlan(r, s) ==
    LET kept == SelectSeq(r.entries, LAMBDA p : p # "outside")
    IN  [i \in 1..Len(kept) |-> At("put", s, kept[i])]

MaterializePlan(r) ==
    [i \in 1..Len(r.files) |->
        [do |-> IF r.files[i].decodes THEN "attach" ELSE "crashed",
         name |-> r.files[i].name]]

Plan(m, r) ==
    IF r.op = "root" THEN <<>>
    ELSE IF r.op = "materialize" THEN MaterializePlan(r)
    ELSE LET s == Resolve(m, r.target, r.path) IN
      CASE s = Refused -> NoPlan
        [] s # Refused /\ r.op \in {"list", "read"} -> ReadPlan(r, s)
        [] s # Refused /\ r.op = "delete" -> DeletePlan(r, s)
        [] s # Refused /\ r.op = "write" -> WritePlan(r, s)
        [] s # Refused /\ r.op = "move" -> MovePlan(r, s, Resolve(m, r.target, r.to))
        [] s # Refused /\ r.op = "download" -> DownloadPlan(r, s, Resolve(m, r.target, r.to))
        [] s # Refused /\ r.op = "upload" -> UploadPlan(r, s)
-----------------------------------------------------------------------------
Init ==
    /\ mode = FirstMode /\ sendMode = FirstMode
    /\ inbox = <<>> /\ cur = Idle /\ todo = <<>>
    /\ disk = [s \in Sides |-> [p \in Paths |-> 0]]
    /\ attach = << >> /\ refs = {} /\ answers = << >>
    /\ touched = {} /\ clobbered = {}
    /\ writes = 0 /\ now = 0 /\ agent = 0 /\ asked = 0 /\ alive = TRUE

(* A channel's request, or the kernel's configuration update, arrives. *)
Ask(r) ==
    /\ asked < MaxRequests
    /\ asked' = asked + 1
    /\ inbox' = Append(inbox, r @@ [id |-> asked + 1, sentIn |-> sendMode])
    /\ sendMode' = IF r.op = "config" THEN r.mode ELSE sendMode
    /\ UNCHANGED <<mode, cur, todo, disk, attach, refs, answers, touched,
                   clobbered, writes, now, agent, alive>>

Answer(id, result) == answers' = answers @@ (id :> result)

(* The service takes a request: an update replaces the configuration and is *)
(* not answered, a payload that does not decode fails without an answer,    *)
(* and a request that does not resolve is answered with its error.          *)
Take ==
    /\ alive /\ cur = Idle /\ inbox # <<>>
    /\ inbox' = Tail(inbox)
    /\ LET r == Head(inbox) IN
       CASE r.op = "config" ->
               /\ mode' = r.mode
               /\ UNCHANGED <<cur, todo, answers>>
         [] r.op = "bad" -> UNCHANGED <<mode, cur, todo, answers>>
         [] r.op \notin {"config", "bad"} /\ Plan(mode, r) = NoPlan ->
               /\ Answer(r.id, "error")
               /\ UNCHANGED <<mode, cur, todo>>
         [] OTHER ->
               /\ cur' = r @@ [began |-> writes]
               /\ todo' = Plan(mode, r)
               /\ UNCHANGED <<mode, answers>>
    /\ UNCHANGED <<sendMode, disk, attach, refs, touched, clobbered, writes,
                   now, agent, asked, alive>>

Finish(result) ==
    /\ Answer(cur.id, result)
    /\ cur' = Idle
    /\ todo' = <<>>

Holds(c) == disk[c.side][c.path]

(* One file system call succeeds.  What is at the path a call writes to is  *)
(* destroyed; the last checks of a create and of a move are calls before.   *)
Destroys(c, path) ==
    clobbered' = clobbered \cup {x \in {[by |-> c.do, write |-> disk[c.side][path], began |-> cur.began]} : x.write # 0}

CreateMut(c) ==
    /\ c.do \in {"create_new", "put_absent"}
    /\ writes' = writes + 1
    /\ disk' = [disk EXCEPT ![c.side][c.path] = writes + 1]
    /\ Destroys(c, c.path)

(* A write that may not overwrite opens the file with create_new here, and  *)
(* with a plain write_bytes on the remote.                                  *)
Create(c) ==
    /\ c.do = "put_absent" \/ (c.do = "create_new" /\ Holds(c) = 0)
    /\ writes' = writes + 1
    /\ disk' = [disk EXCEPT ![c.side][c.path] = writes + 1]
    /\ Destroys(c, c.path)

Look(c) == c.do = "look" /\ Holds(c) # 0

StoreAttachment(c) ==
    /\ c.do = "attach"
    /\ LET path == <<now, c.name>> IN
       /\ attach' = (path :> (writes + 1)) @@ attach
       /\ refs' = refs \cup {<<path, writes + 1>>}
    /\ writes' = writes + 1

Call(c) ==
    \/ /\ Look(c)
       /\ UNCHANGED <<disk, attach, refs, clobbered, writes>>
    \/ /\ c.do = "parent" \/ (c.do = "absent" /\ Holds(c) = 0)
       /\ UNCHANGED <<disk, attach, refs, clobbered, writes>>
    \/ /\ c.do = "unlink" /\ Holds(c) # 0
       /\ disk' = [disk EXCEPT ![c.side][c.path] = 0]
       /\ UNCHANGED <<attach, refs, clobbered, writes>>
    \/ /\ Create(c)
       /\ UNCHANGED <<attach, refs>>
    \/ /\ c.do = "put"
       /\ writes' = writes + 1
       /\ disk' = [disk EXCEPT ![c.side][c.path] = writes + 1]
       /\ UNCHANGED <<attach, refs, clobbered>>
    \/ /\ c.do = "rename" /\ Holds(c) # 0
       /\ disk' = [disk EXCEPT ![c.side][c.path] = 0, ![c.side][c.to] = Holds(c)]
       /\ Destroys(c, c.to)
       /\ UNCHANGED <<attach, refs, writes>>
    \/ /\ StoreAttachment(c)
       /\ UNCHANGED <<disk, clobbered>>
    \/ /\ c.do = "crashed"                 \* the FileItem is kept, marked
       /\ UNCHANGED <<disk, attach, refs, clobbered, writes>>

(* A call that finds the tree in another state than it needs. *)
Refuses(c) ==
    \/ c.do \in {"look", "unlink", "rename"} /\ Holds(c) = 0
    \/ c.do \in {"absent", "create_new"} /\ Holds(c) # 0

Reached(c) == IF c.do \in {"attach", "crashed"} THEN {} ELSE {<<c.side, c.path, cur.sentIn>>}

Step ==
    /\ alive /\ cur # Idle /\ todo # <<>>
    /\ Call(Head(todo))
    /\ todo' = Tail(todo)
    /\ touched' = touched \cup Reached(Head(todo))
    /\ UNCHANGED <<mode, sendMode, inbox, cur, answers, now, agent, asked, alive>>

Done ==
    /\ alive /\ cur # Idle /\ todo = <<>>
    /\ Finish("ok")
    /\ UNCHANGED <<mode, sendMode, inbox, disk, attach, refs, touched,
                   clobbered, writes, now, agent, asked, alive>>

FailMut ==
    /\ alive /\ cur # Idle /\ todo # <<>>
    /\ Refuses(Head(todo)) \/ Faults
    /\ cur' = Idle /\ todo' = <<>>
    /\ UNCHANGED <<answers, alive>>
    /\ UNCHANGED <<mode, sendMode, inbox, disk, attach, refs, touched,
                   clobbered, writes, now, agent, asked>>

(* A call that fails answers the request with its error and leaves what the *)
(* calls before it did; only the materialization of attachments passes the  *)
(* error on and ends the service.                                           *)
Fail ==
    /\ alive /\ cur # Idle /\ todo # <<>>
    /\ Refuses(Head(todo)) \/ (Faults /\ Head(todo).do # "crashed")
    /\ IF cur.op = "materialize"
       THEN alive' = FALSE /\ UNCHANGED <<cur, todo, answers>>
       ELSE Finish("error") /\ UNCHANGED alive
    /\ UNCHANGED <<mode, sendMode, inbox, disk, attach, refs, touched,
                   clobbered, writes, now, agent, asked>>

(* The agent's own tools write and delete on the same trees at any time.    *)
AgentWrites(s, p) ==
    /\ agent < MaxAgentWrites
    /\ agent' = agent + 1
    /\ \/ /\ writes' = writes + 1
          /\ disk' = [disk EXCEPT ![s][p] = writes + 1]
       \/ /\ disk[s][p] # 0
          /\ disk' = [disk EXCEPT ![s][p] = 0]
          /\ UNCHANGED writes
    /\ UNCHANGED <<mode, sendMode, inbox, cur, todo, attach, refs, answers,
                   touched, clobbered, now, asked, alive>>

Tick ==
    /\ now < MaxTicks
    /\ now' = now + 1
    /\ UNCHANGED <<mode, sendMode, inbox, cur, todo, disk, attach, refs, answers,
                   touched, clobbered, writes, agent, asked, alive>>

Next ==
    \/ \E r \in Requests : Ask(r)
    \/ Take \/ Step \/ Done \/ Fail \/ Tick
    \/ \E s \in Sides, p \in Paths : AgentWrites(s, p)

Spec == Init /\ [][Next]_vars

(* The service's thread runs on; a file system or ssh call returns. *)
FairSpec == Spec /\ WF_vars(Take) /\ WF_vars(Step) /\ WF_vars(Done)
                 /\ WF_vars(Fail)
-----------------------------------------------------------------------------
(* Every path a request reaches is served from the side the configuration   *)
(* in force when the request was sent asks for: .stellaclaw from the        *)
(* conversation directory, everything else from the workspace of the mode   *)
(* (resolve_workspace_target), whatever updates wait in the inbox.          *)
RoutedByConfig ==
    \A t \in touched :
        t[1] = IF t[2] \in Overlay \/ t[3] = "selectable" THEN "local" ELSE "remote"

(* A create or a move destroys at most what the agent wrote after the       *)
(* request was taken, between the check that found nothing there and the    *)
(* call that writes; a create in the conversation directory destroys not    *)
(* even that, for create_new checks again as it opens the file.             *)
CreateDestroysNothing == \A c \in clobbered : c.write > c.began /\ c.by # "create_new"

(* An attachment handed out as a file:// URI keeps the bytes it was handed  *)
(* out with (unique_attachment_path in materialize_file).                   *)
AttachmentIsStable == \A r \in refs : attach[r[1]] = r[2]

\* Requests that expect an answer.
Answerable(id) ==
    \A i \in 1..Len(inbox) : inbox[i].id = id => inbox[i].op \notin {"config", "bad"}

(* Every request a running service has received is answered, with a result  *)
(* or an error; only an attachment that cannot be stored ends the service.  *)
EveryRequestAnswered ==
    \A id \in 1..MaxRequests :
        ((\E i \in 1..Len(inbox) : inbox[i].id = id) /\ Answerable(id))
            ~> (id \in DOMAIN answers \/ ~alive)
=============================================================================
