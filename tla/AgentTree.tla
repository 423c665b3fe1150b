----------------------------- MODULE AgentTree -----------------------------
(***************************************************************************)
(* A parent agent session and the sessions it starts: subagents, which it  *)
(* joins and may kill, and background agents, whose results come back as   *)
(* messages.  The parent learns what became of a child from the child's    *)
(* events, and asks it to shut down; every call goes through the kernel,   *)
(* in the order it was sent.                                               *)
(***************************************************************************)
EXTENDS Naturals, Sequences, FiniteSets

CONSTANTS
    Subagents,    \* children started with subagent_start
    Backgrounds,  \* children started with background_agent_start
    Joins         \* subagent_join requests of the parent's tools

TreeAssumption == Subagents \cap Backgrounds = {}

Children == Subagents \cup Backgrounds
Statuses == {"running", "completed", "failed", "killed"}
Ended == Statuses \ {"running"}

VARIABLES
    record,   \* the parent's record of a child: "none", "asked", "refused" or its status
    inbox,    \* the parent's inbox: <<what, child>>
    child,    \* a child's session: "none", "up", "turn", "turned", "dead" or "gone"
    mail,     \* a child's inbox
    join,     \* a join: [at |-> "new" | "pending" | "answered", of, says]
    returned, \* how often a background result was put back into the parent
    parent,   \* the parent's own state: "live" or "crashed"
    kernel    \* "up", or "failed" by a call to a session that is gone

vars == <<record, inbox, child, mail, join, returned, parent, kernel>>

Alive(c) == child[c] \in {"up", "turn", "turned", "dead"}

\* A call to a session whose inbox is gone ends the kernel.
Posted(c, what) ==
    IF Alive(c) THEN mail' = [mail EXCEPT ![c] = Append(@, what)] /\ UNCHANGED kernel
    ELSE kernel' = "failed" /\ UNCHANGED mail

-----------------------------------------------------------------------------
(* The parent.                                                             *)

\* child_agent_start_bridge_call: the index is saved before the kernel is asked,
\* which creates the session or refuses.
StartChild(c) ==
    /\ record[c] = "none"
    /\ record' = [record EXCEPT ![c] = "asked"]
    /\ \/ child' = [child EXCEPT ![c] = "up"] /\ inbox' = Append(inbox, <<"created", c>>)
       \/ inbox' = Append(inbox, <<"refused", c>>) /\ UNCHANGED child
    /\ UNCHANGED <<mail, join, returned, parent, kernel>>

\* handle_kernel_response: the record is made, then the task is posted.
Created(c) ==
    /\ record' = [record EXCEPT ![c] = "running"]
    /\ Posted(c, "task")
    /\ UNCHANGED <<child, join, returned, parent>>

\* The tool gets the kernel's error; nothing is recorded.
Refused(c) ==
    /\ record' = [record EXCEPT ![c] = "refused"]
    /\ UNCHANGED <<child, mail, join, returned, parent, kernel>>

AnsweredAsCompleted(js, status) ==
    [j \in Joins |-> IF j \in js THEN [join[j] EXCEPT !.at = "answered", !.says = "completed"] ELSE join[j]]

\* subagent_join_payload for the joins that can be answered.
Answered(js, status) ==
    [j \in Joins |-> IF j \in js THEN [join[j] EXCEPT !.at = "answered", !.says = status[join[j].of]]
                     ELSE join[j]]

NoneReady(status) == {}

\* resolve_ready_subagent_joins.
Ready(status) == {j \in Joins : join[j].at = "pending" /\ status[join[j].of] # "running"}

ByEventName(c, e) == IF record[c] # "running" THEN record[c] ELSE e

ByLastEvent(c, e) ==
    CASE e = "completed" -> "completed"
      [] e = "failed" -> "failed"
      [] e = "terminated" -> "killed"

\* Which status an event of a child leads to.
ByFirstEvent(c, e) ==
    IF record[c] # "running" THEN record[c]
    ELSE CASE e = "completed" -> "completed"
           [] e = "failed" -> "failed"
           [] e = "terminated" -> "killed"

NeverShutdown(c, e) == FALSE

ShutdownAlways(c, e) == TRUE

\* Does the parent ask the child to shut down?  A child that terminates does
\* that by itself.
NeedsShutdown(c, e) == record[c] = "running" /\ e # "terminated"

ReinsertAlways(c, e) == c \in Backgrounds /\ e = "completed"

\* Is a background result put back?
Reinserts(c, e) == c \in Backgrounds /\ e = "completed" /\ record[c] = "running"

\* handle_child_session_event.
ChildEvent(c, e) ==
    LET status == [record EXCEPT ![c] = ByFirstEvent(c, e)]
    IN /\ record' = status
       /\ join' = Answered(Ready(status), status)
       /\ returned' = [returned EXCEPT ![c] = IF Reinserts(c, e) THEN @ + 1 ELSE @]
       /\ IF NeedsShutdown(c, e) THEN Posted(c, "shutdown") ELSE UNCHANGED <<mail, kernel>>
       /\ UNCHANGED <<child, parent>>

\* The reply to the parent's shutdown request carries no response id and none
\* of the protocols the parent tries has it: the parent marks itself crashed.
StoppedReply(c) ==
    /\ parent' = "crashed"
    /\ UNCHANGED <<record, child, mail, join, returned, kernel>>

HandleCall ==
    /\ inbox # <<>>
    /\ inbox' = Tail(inbox)
    /\ LET e == Head(inbox)[1]
           c == Head(inbox)[2]
       IN \/ e = "created" /\ Created(c)
          \/ e = "refused" /\ Refused(c)
          \/ e \in {"completed", "failed", "terminated"} /\ ChildEvent(c, e)
          \/ e = "stopped" /\ StoppedReply(c)

KillEnded(c) ==
    /\ record[c] \in Statuses
    /\ record' = [record EXCEPT ![c] = "killed"]
    /\ Posted(c, "shutdown")
    /\ UNCHANGED <<inbox, child, join, returned, parent>>

\* subagent_kill; only a running subagent can be killed.
KillSubagent(c) ==
    /\ record[c] = "running"
    /\ record' = [record EXCEPT ![c] = "killed"]
    /\ Posted(c, "shutdown")
    /\ UNCHANGED <<inbox, child, join, returned, parent>>

\* subagent_join: an ended child, or one without a timeout, is answered at once.
Join(j, c, timeout) ==
    /\ join[j].at = "new"
    /\ record[c] \in Statuses
    /\ join' = [join EXCEPT ![j] =
                  IF record[c] # "running" \/ ~timeout
                  THEN [at |-> "answered", of |-> c, says |-> record[c]]
                  ELSE [at |-> "pending", of |-> c, says |-> "none"]]
    /\ UNCHANGED <<record, inbox, child, mail, returned, parent, kernel>>

\* subagent_join_cancel, from a tool that was interrupted.
JoinCancel(j) ==
    /\ join[j].at = "pending"
    /\ join' = [join EXCEPT ![j].at = "answered", ![j].says = "interrupted"]
    /\ UNCHANGED <<record, inbox, child, mail, returned, parent, kernel>>

TimerSkips(j) ==
    /\ join[j].at = "pending"
    /\ join' = Answered({i \in Ready(record) : i # j}, record)
    /\ UNCHANGED <<record, inbox, child, mail, returned, parent, kernel>>

\* resolve_due_subagent_joins: when the timer of j fires, j and every join of
\* an ended child are answered.
JoinTimer(j) ==
    /\ join[j].at = "pending"
    /\ join' = Answered(Ready(record) \cup {j}, record)
    /\ UNCHANGED <<record, inbox, child, mail, returned, parent, kernel>>

-----------------------------------------------------------------------------
(* A child.                                                                *)

\* The child's session reads its inbox.  A shutdown is answered to whoever
\* asked for it, and then the session is gone.
ReadMail(c) ==
    /\ Alive(c)
    /\ mail[c] # <<>>
    /\ mail' = [mail EXCEPT ![c] = Tail(@)]
    /\ \/ /\ Head(mail[c]) = "task"
          /\ child' = [child EXCEPT ![c] = IF @ = "up" THEN "turn" ELSE @]
          /\ UNCHANGED <<inbox, kernel>>
       \/ /\ Head(mail[c]) = "shutdown"
          /\ child' = [child EXCEPT ![c] = "gone"]
          /\ inbox' = Append(inbox, <<"stopped", c>>)
          /\ UNCHANGED kernel
       \/ /\ Head(mail[c]) = "self"
          /\ child' = [child EXCEPT ![c] = "gone"]
          /\ kernel' \in {"up", "failed"}
          /\ UNCHANGED inbox
    /\ UNCHANGED <<record, join, returned, parent>>

\* The child's turn ends.
TurnEnds(c) ==
    /\ child[c] = "turn"
    /\ child' = [child EXCEPT ![c] = "turned"]
    /\ \E e \in {"completed", "failed"} : inbox' = Append(inbox, <<e, c>>)
    /\ UNCHANGED <<record, mail, join, returned, parent, kernel>>

\* The runner of a child dies, also after its turn: one more event, the last.
RunnerCrashes(c) ==
    /\ child[c] \in {"up", "turn", "turned"}
    /\ child' = [child EXCEPT ![c] = "dead"]
    /\ inbox' = Append(inbox, <<"failed", c>>)
    /\ UNCHANGED <<record, mail, join, returned, parent, kernel>>

\* terminate_bridge_response: the child tells its parent and shuts itself down.
Terminate(c) ==
    /\ c \in Backgrounds
    /\ child[c] = "turn"
    /\ ~\E i \in DOMAIN mail[c] : mail[c][i] = "self"
    /\ inbox' = Append(inbox, <<"terminated", c>>)
    /\ mail' = [mail EXCEPT ![c] = Append(@, "self")]
    /\ UNCHANGED <<record, child, join, returned, parent, kernel>>

-----------------------------------------------------------------------------

Init ==
    /\ record = [c \in Children |-> "none"]
    /\ inbox = <<>>
    /\ child = [c \in Children |-> "none"]
    /\ mail = [c \in Children |-> <<>>]
    /\ join = [j \in Joins |-> [at |-> "new", of |-> "nobody", says |-> "none"]]
    /\ returned = [c \in Children |-> 0]
    /\ parent = "live"
    /\ kernel = "up"

Next ==
    /\ kernel = "up"
    /\ \/ HandleCall
       \/ \E c \in Children :
            StartChild(c) \/ ReadMail(c) \/ TurnEnds(c) \/ RunnerCrashes(c) \/ Terminate(c)
       \/ \E c \in Subagents : KillSubagent(c) \/ \E j \in Joins : \E t \in BOOLEAN : Join(j, c, t)
       \/ \E j \in Joins : JoinCancel(j) \/ JoinTimer(j)

Spec == Init /\ [][Next]_vars

\* The sessions read their inboxes, a turn of a child ends, and timers fire.
FairSpec ==
    /\ Spec
    /\ WF_vars(kernel = "up" /\ HandleCall)
    /\ \A c \in Children : WF_vars(kernel = "up" /\ ReadMail(c)) /\ WF_vars(kernel = "up" /\ TurnEnds(c))
    /\ \A j \in Joins : WF_vars(kernel = "up" /\ JoinTimer(j))

-----------------------------------------------------------------------------
(* Properties.                                                             *)

TypeOK ==
    /\ record \in [Children -> {"none", "asked", "refused"} \cup Statuses]
    /\ child \in [Children -> {"none", "up", "turn", "turned", "dead", "gone"}]
    /\ \A c \in Children : \A i \in DOMAIN mail[c] : mail[c][i] \in {"task", "shutdown", "self"}
    /\ \A j \in Joins : join[j].at \in {"new", "pending", "answered"}
    /\ returned \in [Children -> Nat]
    /\ parent \in {"live", "crashed"}
    /\ kernel \in {"up", "failed"}

\* A child's first terminal event decides its record: a kill, a late result, a
\* crash after the result or a termination does not change it again.
EndIsFinal == [][\A c \in Children : record[c] \in Ended => record'[c] = record[c]]_vars

\* A background result comes back to the parent exactly once, and only that of
\* an agent whose record says it completed.
ResultReturnsOnce ==
    \A c \in Backgrounds : returned[c] = IF record[c] = "completed" THEN 1 ELSE 0

\* What a join told its tool is still what the parent has on record, unless it
\* was told that the child was running or was itself interrupted.
JoinTellsTruth ==
    \A j \in Joins : join[j].says \in Ended => record[join[j].of] = join[j].says

\* The parent never calls a child that is gone, which would end the kernel:
\* only a child that shuts itself down can.
NoCallToGoneChild ==
    kernel = "failed" => \E c \in Backgrounds : child[c] = "gone" /\ record[c] \in {"running", "killed"}

\* Every join returns, whatever becomes of the child.
JoinsReturn == \A j \in Joins : join[j].at = "pending" ~> (join[j].at = "answered" \/ kernel = "failed")

\* A child that ended, or was killed, does not stay mounted.
EndedChildGoes == \A c \in Children : record[c] \in Ended ~> (child[c] = "gone" \/ kernel = "failed")

\* A child that ends regularly leaves its parent working.
ParentStaysLive == parent = "live"

=============================================================================
