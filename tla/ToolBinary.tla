------------------------------ MODULE ToolBinary ------------------------------
(***************************************************************************)
(* Managed tool binaries (tool_binary_manager.rs, services/tool_binary.rs). *)
(* One manager thread takes requests from a queue and serves each in a     *)
(* helper process, which it kills when it takes too long.  A helper        *)
(* installs the binary in the local cache through a file ".incoming" that  *)
(* it renames and, for a host, copies it there with scp, a process in a    *)
(* group of its own.  Helpers and copies outlive a crash of the manager.   *)
(***************************************************************************)
EXTENDS Integers, Sequences, FiniteSets, SequenceTheorems, FiniteSetTheorems, TLAPS

CONSTANTS
    Clients,    \* services that ask for the binary
    Hosts,      \* remote hosts; the request may also be for the local machine
    Helpers,    \* helper processes that may exist at once
    MaxReqs,    \* bound: requests
    MaxCrashes, \* bound: crashes of the manager's process
    MaxCuts,    \* bound: copies to a host that are cut
    MayHang     \* a helper may hang for ever

Local == "local"

ToolBinaryAssumption ==
    /\ Local \notin Hosts /\ "dead" \notin Helpers /\ "nofile" \notin Helpers /\ "" \notin Clients
    /\ {MaxReqs, MaxCrashes, MaxCuts} \subseteq Nat /\ MayHang \in BOOLEAN

VARIABLES
    cli,     \* Clients -> what the client waits for: "idle", Local or a host
    queue,   \* the manager's queue of [c, host]
    job,     \* Helpers -> [pc, host, c]; pc "none" when there is no such process, c = "" when nobody waits for it
    inc,     \* the file ".incoming": {"nofile"}, or the writers that truncated it and did not finish
    loc,     \* the cached binary, likewise
    remote,  \* Hosts -> "none", "partial", "whole"
    scp,     \* hosts with a copy under way
    ok,      \* what was answered as ready: Local and hosts
    reqs, crashes, cuts

vars == <<cli, queue, job, inc, loc, remote, scp, ok, reqs, crashes, cuts>>

disk   == <<inc, loc>>
net    == <<remote, scp>>
counts == <<reqs, crashes, cuts>>

NoFile == {"nofile"}

NoJob == [pc |-> "none", host |-> "", c |-> ""]

Init ==
    /\ cli = [c \in Clients |-> "idle"] /\ queue = <<>> /\ job = [p \in Helpers |-> NoJob]
    /\ inc = NoFile /\ loc = NoFile /\ remote = [h \in Hosts |-> "none"] /\ scp = {} /\ ok = {}
    /\ reqs = 0 /\ crashes = 0 /\ cuts = 0

--------------------------------------------------------------------------------
(* Clients and the manager. *)

\* ToolBinaryClient::ensure
Ensure(c, h) ==
    /\ cli[c] = "idle" /\ reqs < MaxReqs /\ reqs' = reqs + 1
    /\ cli' = [cli EXCEPT ![c] = h] /\ queue' = Append(queue, [c |-> c, host |-> h])
    /\ UNCHANGED <<job, disk, net, ok, crashes, cuts>>

\* The helper the manager waits for.
Served == {p \in Helpers : job[p].c # ""}

ServeAtOnce(p) ==
    /\ queue # <<>> /\ job[p].pc = "none"
    /\ job' = [job EXCEPT ![p] = [pc |-> "asset", host |-> Head(queue).host, c |-> Head(queue).c]]
    /\ queue' = Tail(queue)
    /\ UNCHANGED <<cli, disk, net, ok, counts>>

\* The manager takes the next request and starts a helper.
Serve(p) ==
    /\ queue # <<>> /\ Served = {} /\ job[p].pc = "none"
    /\ job' = [job EXCEPT ![p] = [pc |-> "asset", host |-> Head(queue).host, c |-> Head(queue).c]]
    /\ queue' = Tail(queue)
    /\ UNCHANGED <<cli, disk, net, ok, counts>>

\* The answer reaches the client, unless it gave up.
Reply(p) == cli' = IF job[p].c = "" THEN cli
                   ELSE [cli EXCEPT ![job[p].c] = IF @ = job[p].host THEN "idle" ELSE @]

\* TOOL_BINARY_CLIENT_TIMEOUT
GiveUp(c) ==
    /\ cli[c] # "idle"
    /\ cli' = [cli EXCEPT ![c] = "idle"]
    /\ UNCHANGED <<queue, job, disk, net, ok, counts>>

--------------------------------------------------------------------------------
(* A helper: ensure_direct. *)

At(p, pc) == job[p].pc = pc

Goto(p, pc) == job' = [job EXCEPT ![p].pc = pc] /\ UNCHANGED <<cli, ok>>

\* A writer that goes without finishing leaves what it wrote.
Drop(f, p) == IF p \in f THEN (f \ {p}) \cup {"dead"} ELSE f

Fail(p) ==
    /\ Reply(p) /\ job' = [job EXCEPT ![p] = NoJob]
    /\ UNCHANGED ok

Succeed(p) ==
    /\ Reply(p) /\ job' = [job EXCEPT ![p] = NoJob]
    /\ ok' = IF job[p].c = "" THEN ok ELSE ok \cup {job[p].host}

\* remote_platform, local_platform and asset_for_platform, which may ask the network each time
Asset(p) ==
    /\ At(p, "asset")
    /\ Goto(p, IF loc = NoFile THEN "install" ELSE IF job[p].host = Local THEN "done" ELSE "check") \/ Fail(p)
    /\ UNCHANGED <<queue, disk, net, counts>>

\* install_local_binary: the archive is downloaded, verified and unpacked in a directory of its own.
Install(p) ==
    /\ At(p, "install")
    /\ Goto(p, "copy") \/ Fail(p)
    /\ UNCHANGED <<queue, disk, net, counts>>

CopyInPlace(p) ==
    /\ At(p, "copy")
    /\ loc' = {p} /\ Goto(p, "copying")
    /\ UNCHANGED <<queue, inc, net, counts>>

\* fs::copy to ".incoming": it truncates what is there ...
Copy(p) ==
    /\ At(p, "copy")
    /\ inc' = (inc \ {"nofile", "dead"}) \cup {p} /\ Goto(p, "copying")
    /\ UNCHANGED <<queue, loc, net, counts>>

\* ... and ends.
Copied(p) ==
    /\ At(p, "copying")
    /\ inc' = inc \ {p} /\ loc' = loc \ {p} /\ Goto(p, "rename")
    /\ UNCHANGED <<queue, net, counts>>

\* set_permissions and rename, which fail when the file was renamed away.
Rename(p) ==
    /\ At(p, "rename")
    /\ IF inc = NoFile THEN Fail(p) /\ UNCHANGED disk
       ELSE loc' = inc /\ inc' = NoFile /\ Goto(p, IF job[p].host = Local THEN "done" ELSE "check")
    /\ UNCHANGED <<queue, net, counts>>

\* ensure_remote: the host has an executable of that name.  scp -p makes the file executable from the start.
Check(p) ==
    /\ At(p, "check")
    /\ Goto(p, IF remote[job[p].host] # "none" THEN "done" ELSE "scp") \/ Fail(p)
    /\ UNCHANGED <<queue, disk, net, counts>>

\* copy_to_remote starts scp ...
StartScp(p) ==
    /\ At(p, "scp")
    /\ scp' = scp \cup {job[p].host} /\ remote' = [remote EXCEPT ![job[p].host] = "partial"]
    /\ Goto(p, "scping")
    /\ UNCHANGED <<queue, disk, counts>>

\* ... which ends, whether or not its helper still lives ...
ScpEnds(h) ==
    /\ h \in scp
    /\ scp' = scp \ {h} /\ remote' = [remote EXCEPT ![h] = "whole"]
    /\ UNCHANGED <<cli, queue, job, disk, ok, counts>>

\* ... or is cut: by the network or by the helper's timeout.
ScpCut(h) ==
    /\ h \in scp /\ cuts < MaxCuts /\ cuts' = cuts + 1
    /\ scp' = scp \ {h}
    /\ UNCHANGED <<cli, queue, job, disk, remote, ok, reqs, crashes>>

\* It was successful or not; chmod follows.
ScpDone(p) ==
    /\ At(p, "scping") /\ job[p].host \notin scp
    /\ IF remote[job[p].host] = "whole" THEN Goto(p, "done") ELSE Fail(p)
    /\ UNCHANGED <<queue, disk, net, counts>>

Done(p) ==
    /\ At(p, "done")
    /\ Succeed(p)
    /\ UNCHANGED <<queue, disk, net, counts>>

TimeoutAtCopy(p) ==
    /\ p \in Served /\ At(p, "copying")
    /\ Fail(p) /\ inc' = Drop(inc, p) /\ loc' = Drop(loc, p)
    /\ UNCHANGED <<queue, net, counts>>

\* TOOL_BINARY_ENSURE_TIMEOUT: the manager kills the helper, but not the scp it started.
Timeout(p) ==
    /\ p \in Served
    /\ Fail(p) /\ inc' = Drop(inc, p) /\ loc' = Drop(loc, p)
    /\ UNCHANGED <<queue, net, counts>>

\* The manager's process dies and starts again; its helpers go on, with nobody waiting for them.
Crash ==
    /\ crashes < MaxCrashes /\ crashes' = crashes + 1
    /\ cli' = [c \in Clients |-> "idle"] /\ queue' = <<>>
    /\ job' = [p \in Helpers |-> [job[p] EXCEPT !.c = ""]]
    /\ UNCHANGED <<disk, net, ok, reqs, cuts>>

--------------------------------------------------------------------------------

Helper(p) ==
    \/ Asset(p) \/ Install(p) \/ Copy(p) \/ Copied(p) \/ Rename(p) \/ Check(p)
    \/ StartScp(p) \/ ScpDone(p) \/ Done(p)

Next ==
    \/ \E c \in Clients, h \in Hosts \cup {Local} : Ensure(c, h)
    \/ \E c \in Clients : GiveUp(c)
    \/ \E p \in Helpers : Serve(p) \/ Helper(p) \/ Timeout(p)
    \/ \E h \in Hosts : ScpEnds(h) \/ ScpCut(h)
    \/ Crash

Spec == Init /\ [][Next]_vars

\* The manager's thread runs and its timer passes; helpers run unless they may hang.
FairSpec ==
    /\ Spec
    /\ \A p \in Helpers : WF_vars(Timeout(p)) /\ (MayHang \/ WF_vars(Helper(p)))
    /\ WF_vars(\E p \in Helpers : Serve(p))

--------------------------------------------------------------------------------
(* Properties. *)

TypeOK ==
    /\ cli \in [Clients -> Hosts \cup {"idle", Local}]
    /\ \A p \in Helpers : job[p].c \in Clients \cup {""} /\ job[p].host \in Hosts \cup {"", Local}
    /\ {inc, loc} \subseteq SUBSET (Helpers \cup {"dead", "nofile"})
    /\ remote \in [Hosts -> {"none", "partial", "whole"}] /\ scp \subseteq Hosts /\ Cardinality(Served) <= 1

\* What a client was told to be ready, and what later requests find in the cache, is the whole binary: neither a
\* helper killed in a copy nor one that runs beside it leaves a part under the final name.
LocalIsWhole == loc = NoFile \/ loc = {}

\* The local binary is whole as long as the manager's process does not die over a helper that copies.
BinaryIsWhole == TypeOK /\ (MaxCrashes = 0 => LocalIsWhole)

\* A host whose binary was answered as ready has the whole binary.
RemoteIsWhole == \A h \in Hosts \cap ok : remote[h] = "whole"

\* Every request the manager took or has queued is answered or given up by its helper's end: the manager comes
\* back to its queue, whatever a helper does.
QueueIsServed == queue # <<>> ~> queue = <<>>

--------------------------------------------------------------------------------
(* Proof that the binary is whole. *)

Places == {"none", "asset", "install", "copy", "copying", "rename", "check", "scp", "scping", "done"}

Request == [c : Clients, host : Hosts \cup {Local}]

Job ==
    [pc : {"none"}, host : {""}, c : {""}]
      \cup {j \in [pc : Places \ {"none"}, host : Hosts \cup {Local}, c : Clients \cup {""}] :
              j.pc \in {"check", "scp", "scping"} => j.host \in Hosts}

\* The manager waits for one helper.
BinaryTypes ==
    /\ cli \in [Clients -> Hosts \cup {"idle", Local}]
    /\ queue \in Seq(Request)
    /\ job \in [Helpers -> Job]
    /\ inc \subseteq Helpers \cup {"dead", "nofile"} /\ loc \subseteq Helpers \cup {"dead", "nofile"}
    /\ remote \in [Hosts -> {"none", "partial", "whole"}] /\ scp \subseteq Hosts
    /\ \A p, q \in Served : p = q

\* Without crashes there is no helper but the one that is waited for, so that the file it renames is the one it
\* has finished.
CacheInv ==
    /\ crashes \in Nat
    /\ MaxCrashes = 0 =>
         /\ \A p \in Helpers : job[p].pc # "none" => job[p].c # ""
         /\ loc = NoFile \/ loc = {}
         /\ inc \in {NoFile, {}, {"dead"}} \/ \E p \in Helpers : inc = {p} /\ job[p].pc = "copying"
         /\ \A p \in Helpers : job[p].pc = "copying" => inc = {p}
         /\ \A p \in Helpers : job[p].pc = "rename" => inc = {}

LEMMA JobCases ==
    ASSUME NEW j \in Job
    PROVE  /\ j.pc = "none" => j \in [pc : {"none"}, host : {""}, c : {""}]
           /\ j.pc # "none" => /\ j \in [pc : Places \ {"none"}, host : Hosts \cup {Local}, c : Clients \cup {""}]
                               /\ j.pc \in Places \ {"none"} /\ j.host \in Hosts \cup {Local}
                               /\ j.pc \in {"check", "scp", "scping"} => j.host \in Hosts
           /\ j.c \in Clients \cup {""} /\ j.host \in Hosts \cup {"", Local}
<1>1. CASE j \in [pc : {"none"}, host : {""}, c : {""}]
  BY <1>1
<1>2. CASE j \in [pc : Places \ {"none"}, host : Hosts \cup {Local}, c : Clients \cup {""}] /\
           (j.pc \in {"check", "scp", "scping"} => j.host \in Hosts)
  BY <1>2
<1> QED
  BY <1>1, <1>2 DEF Job

\* One step of a helper changes its own job only.
LEMMA JobStep ==
    ASSUME BinaryTypes, NEW p \in Helpers, NEW j \in Job,
           job' = [job EXCEPT ![p] = j], j.c \in {job[p].c, ""} \/ Served = {}
    PROVE  /\ job' \in [Helpers -> Job]
           /\ \A q \in Helpers : job'[q] = IF q = p THEN j ELSE job[q]
           /\ \A q, r \in Served' : q = r
<1>1. job' \in [Helpers -> Job] /\ \A q \in Helpers : job'[q] = IF q = p THEN j ELSE job[q]
  BY DEF BinaryTypes
<1>2. CASE j.c \in {job[p].c, ""}
  <2>1. \A q \in Helpers : job'[q].c # "" => job[q].c # ""
    BY <1>1, <1>2
  <2>2. Served' \subseteq Served
    BY <2>1 DEF Served
  <2> QED
    BY <1>1, <2>2 DEF BinaryTypes
<1>3. CASE Served = {}
  <2>1. \A q \in Helpers : job[q].c = ""
    BY <1>3 DEF Served
  <2>2. Served' \subseteq {p}
    BY <1>1, <2>1 DEF Served
  <2> QED
    BY <1>1, <2>2
<1> QED
  BY <1>2, <1>3

\* A helper that goes on stays with its request.
LEMMA GotoJob ==
    ASSUME BinaryTypes, NEW p \in Helpers, NEW place \in Places \ {"none"}, job[p].pc # "none",
           place \in {"check", "scp", "scping"} => job[p].host \in Hosts, Goto(p, place)
    PROVE  /\ UNCHANGED <<cli, ok>>
           /\ job' \in [Helpers -> Job]
           /\ \A q \in Helpers : q # p => job'[q] = job[q]
           /\ job'[p].pc = place /\ job'[p].c = job[p].c
           /\ \A q, r \in Served' : q = r
<1> DEFINE j == [job[p] EXCEPT !.pc = place]
<1>1. job[p] \in [pc : Places \ {"none"}, host : Hosts \cup {Local}, c : Clients \cup {""}]
  BY JobCases DEF BinaryTypes
<1>2. j \in Job /\ j.pc = place /\ j.c = job[p].c
  BY <1>1 DEF Job
<1>3. job' = [job EXCEPT ![p] = j] /\ UNCHANGED <<cli, ok>>
  BY DEF Goto, BinaryTypes
<1> HIDE DEF j
<1> QED
  BY <1>2, <1>3, JobStep

\* A helper that ends answers the client that waits for it.
LEMMA EndJob ==
    ASSUME BinaryTypes, NEW p \in Helpers, Fail(p) \/ Succeed(p)
    PROVE  /\ cli' \in [Clients -> Hosts \cup {"idle", Local}]
           /\ job' \in [Helpers -> Job]
           /\ \A q \in Helpers : job'[q] = IF q = p THEN NoJob ELSE job[q]
           /\ \A q, r \in Served' : q = r
<1>1. Reply(p) /\ job' = [job EXCEPT ![p] = NoJob] /\ NoJob \in Job /\ NoJob.c = ""
  BY DEF Fail, Succeed, Job, NoJob
<1>2. cli' \in [Clients -> Hosts \cup {"idle", Local}]
  BY <1>1 DEF Reply, BinaryTypes
<1> HIDE DEF NoJob
<1> QED
  BY <1>1, <1>2, JobStep

\* What a step of a helper does to the jobs and the files.
HelperMoves(p) ==
    \/ \E place \in Places \ {"none"} :
         /\ job[p].pc # "none" /\ Goto(p, place)
         /\ place \in {"check", "scp", "scping"} => job[p].host \in Hosts
    \/ Fail(p) \/ Succeed(p)

LEMMA HelperJob ==
    ASSUME BinaryTypes, NEW p \in Helpers, Helper(p)
    PROVE  HelperMoves(p) /\ UNCHANGED queue
<1>1. /\ job[p].pc # "none" => job[p].host \in Hosts \cup {Local}
      /\ job[p].pc \in {"check", "scp", "scping"} => job[p].host \in Hosts
  BY JobCases DEF BinaryTypes
<1>2. CASE Asset(p) \/ Install(p) \/ Copy(p) \/ Copied(p)
  BY <1>1, <1>2 DEF Asset, Install, Copy, Copied, At, HelperMoves, Places
<1>3. CASE Rename(p)
  BY <1>1, <1>3 DEF Rename, At, HelperMoves, Places
<1>4. CASE Check(p) \/ StartScp(p) \/ ScpDone(p) \/ Done(p)
  BY <1>1, <1>4 DEF Check, StartScp, ScpDone, Done, At, HelperMoves, Places
<1> QED
  BY <1>2, <1>3, <1>4 DEF Helper

LEMMA HelperFiles ==
    ASSUME BinaryTypes, NEW p \in Helpers, Helper(p)
    PROVE  /\ inc' \subseteq Helpers \cup {"dead", "nofile"} /\ loc' \subseteq Helpers \cup {"dead", "nofile"}
           /\ remote' \in [Hosts -> {"none", "partial", "whole"}] /\ scp' \subseteq Hosts
<1>1. CASE StartScp(p)
  <2>1. job[p] \in Job /\ job[p].pc = "scp"
    BY <1>1 DEF StartScp, At, BinaryTypes
  <2>2. job[p].host \in Hosts
    BY <2>1, JobCases
  <2> QED
    BY <1>1, <2>2 DEF StartScp, disk, BinaryTypes
<1>2. CASE ~StartScp(p)
  <2>1. UNCHANGED <<remote, scp>>
    BY <1>2 DEF Helper, Asset, Install, Copy, Copied, Rename, Check, ScpDone, Done, net
  <2>2. inc' \subseteq Helpers \cup {"dead", "nofile"} /\ loc' \subseteq Helpers \cup {"dead", "nofile"}
    BY <1>2 DEF Helper, Asset, Install, Copy, Copied, Rename, Check, ScpDone, Done, disk, BinaryTypes, NoFile
  <2> QED
    BY <2>1, <2>2 DEF BinaryTypes
<1> QED
  BY <1>1, <1>2

LEMMA TypesStep ==
    ASSUME BinaryTypes, [Next]_vars
    PROVE  BinaryTypes'
<1>1. ASSUME NEW c \in Clients, NEW h \in Hosts \cup {Local}, Ensure(c, h) PROVE BinaryTypes'
  <2>1. [c |-> c, host |-> h] \in Request
    BY DEF Request
  <2>2. queue' \in Seq(Request)
    BY <1>1, <2>1, AppendProperties DEF Ensure, BinaryTypes
  <2> QED
    BY <1>1, <2>2 DEF Ensure, BinaryTypes, disk, net, Served
<1>2. ASSUME NEW c \in Clients, GiveUp(c) PROVE BinaryTypes'
  BY <1>2 DEF GiveUp, BinaryTypes, disk, net, Served
<1>3. ASSUME NEW p \in Helpers, Serve(p) PROVE BinaryTypes'
  <2> DEFINE j == [pc |-> "asset", host |-> Head(queue).host, c |-> Head(queue).c]
  <2>1. Head(queue) \in Request /\ queue' \in Seq(Request)
    BY <1>3, HeadTailProperties DEF Serve, BinaryTypes
  <2>2. j \in Job
    BY <2>1 DEF Request, Job, Places
  <2>3. job' = [job EXCEPT ![p] = j] /\ Served = {} /\ UNCHANGED <<cli, inc, loc, remote, scp>>
    BY <1>3 DEF Serve, disk, net
  <2> HIDE DEF j
  <2>4. job' \in [Helpers -> Job] /\ \A q, r \in Served' : q = r
    BY <2>2, <2>3, JobStep
  <2> QED
    BY <2>1, <2>3, <2>4 DEF BinaryTypes
<1>4. ASSUME NEW p \in Helpers, Helper(p) PROVE BinaryTypes'
  <2>1. /\ cli' \in [Clients -> Hosts \cup {"idle", Local}] /\ job' \in [Helpers -> Job]
        /\ \A q, r \in Served' : q = r
    <3>1. CASE Fail(p) \/ Succeed(p)
      BY <3>1, EndJob
    <3>2. CASE ~(Fail(p) \/ Succeed(p))
      <4>1. PICK place \in Places \ {"none"} :
               /\ job[p].pc # "none" /\ Goto(p, place)
               /\ place \in {"check", "scp", "scping"} => job[p].host \in Hosts
        BY <1>4, <3>2, HelperJob DEF HelperMoves
      <4>2. UNCHANGED cli /\ job' \in [Helpers -> Job] /\ \A q, r \in Served' : q = r
        BY <4>1, GotoJob
      <4> QED
        BY <4>2 DEF BinaryTypes
    <3> QED
      BY <3>1, <3>2
  <2>2. UNCHANGED queue
    BY <1>4, HelperJob
  <2> QED
    BY <1>4, <2>1, <2>2, HelperFiles DEF BinaryTypes
<1>5. ASSUME NEW p \in Helpers, Timeout(p) PROVE BinaryTypes'
  <2>1. Fail(p) /\ UNCHANGED <<queue, remote, scp>> /\ inc' = Drop(inc, p) /\ loc' = Drop(loc, p)
    BY <1>5 DEF Timeout, net
  <2>2. inc' \subseteq Helpers \cup {"dead", "nofile"} /\ loc' \subseteq Helpers \cup {"dead", "nofile"}
    BY <2>1 DEF Drop, BinaryTypes
  <2> QED
    BY <2>1, <2>2, EndJob DEF BinaryTypes
<1>6. ASSUME NEW h \in Hosts, ScpEnds(h) \/ ScpCut(h) PROVE BinaryTypes'
  BY <1>6 DEF ScpEnds, ScpCut, BinaryTypes, disk, Served
<1>7. CASE Crash
  <2>1. /\ cli' = [c \in Clients |-> "idle"] /\ queue' = <<>> /\ UNCHANGED <<inc, loc, remote, scp>>
        /\ job' = [p \in Helpers |-> [job[p] EXCEPT !.c = ""]]
    BY <1>7 DEF Crash, disk, net
  <2>2. \A p \in Helpers : [job[p] EXCEPT !.c = ""] \in Job /\ [job[p] EXCEPT !.c = ""].c = ""
    <3>1. SUFFICES ASSUME NEW j \in Job PROVE [j EXCEPT !.c = ""] \in Job /\ [j EXCEPT !.c = ""].c = ""
      BY DEF BinaryTypes
    <3>2. CASE j.pc = "none"
      <4>1. j \in [pc : {"none"}, host : {""}, c : {""}]
        BY <3>2, JobCases
      <4> QED
        BY <4>1 DEF Job
    <3>3. CASE j.pc # "none"
      <4>1. /\ j \in [pc : Places \ {"none"}, host : Hosts \cup {Local}, c : Clients \cup {""}]
            /\ j.pc \in {"check", "scp", "scping"} => j.host \in Hosts
        BY <3>3, JobCases
      <4> QED
        BY <4>1 DEF Job
    <3> QED
      BY <3>2, <3>3
  <2>3. job' \in [Helpers -> Job] /\ \A p \in Helpers : job'[p].c = ""
    BY <2>1, <2>2
  <2>4. Served' = {}
    BY <2>3 DEF Served
  <2>5. queue' \in Seq(Request)
    BY <2>1, EmptySeq
  <2> QED
    BY <2>1, <2>3, <2>4, <2>5 DEF BinaryTypes
<1>8. CASE UNCHANGED vars
  BY <1>8 DEF vars, BinaryTypes, Served
<1> QED
  BY <1>1, <1>2, <1>3, <1>4, <1>5, <1>6, <1>7, <1>8 DEF Next

LEMMA CacheStep ==
    ASSUME ToolBinaryAssumption, BinaryTypes, CacheInv, [Next]_vars
    PROVE  CacheInv'
<1>0. crashes \in Nat
  BY DEF CacheInv
<1>1. crashes' \in Nat
  <2>1. CASE Crash
    <3>1. crashes' = crashes + 1
      BY <2>1, Zenon DEF Crash
    <3> QED
      BY <1>0, <3>1
  <2>2. CASE ~Crash
    BY <1>0, <2>2 DEF Next, Ensure, GiveUp, Serve, Helper, Asset, Install, Copy, Copied, Rename, Check,
                StartScp, ScpDone, Done, Timeout, ScpEnds, ScpCut, vars, counts
  <2> QED
    BY <2>1, <2>2
<1>2. SUFFICES ASSUME MaxCrashes = 0 PROVE CacheInv'
  BY <1>1 DEF CacheInv
<1>3. /\ \A p \in Helpers : job[p].pc # "none" => job[p].c # ""
      /\ loc = NoFile \/ loc = {}
      /\ inc \in {NoFile, {}, {"dead"}} \/ \E p \in Helpers : inc = {p} /\ job[p].pc = "copying"
      /\ \A p \in Helpers : job[p].pc = "copying" => inc = {p}
      /\ \A p \in Helpers : job[p].pc = "rename" => inc = {}
  BY <1>2 DEF CacheInv
\* Only one helper is at work.
<1>4. \A p, q \in Helpers : job[p].pc # "none" /\ job[q].pc # "none" => p = q
  BY <1>3 DEF BinaryTypes, Served
<1>5. "dead" \notin Helpers /\ "nofile" \notin Helpers /\ "" \notin Clients
  BY DEF ToolBinaryAssumption
<1>6. CASE UNCHANGED <<job, inc, loc>>
  BY <1>1, <1>3, <1>6 DEF CacheInv
<1>7. ASSUME NEW p \in Helpers, Serve(p)
      PROVE  /\ UNCHANGED <<inc, loc>> /\ job'[p].pc = "asset" /\ job'[p].c # ""
             /\ \A q \in Helpers : q # p => job'[q] = job[q]
  <2>1. Head(queue) \in Request
    BY <1>7 DEF Serve, BinaryTypes
  <2> QED
    BY <1>5, <1>7, <2>1 DEF Serve, disk, BinaryTypes, Request
<1>8. ASSUME NEW p \in Helpers, Serve(p) PROVE CacheInv'
  <2>1. job[p].pc # "copying"
    BY <1>8 DEF Serve
  <2> QED
    BY <1>1, <1>3, <1>7, <1>8, <2>1 DEF CacheInv
\* A helper that ends leaves the files as they are, or cut.
<1>9. ASSUME NEW p \in Helpers, Fail(p) \/ Succeed(p), loc' = loc,
             inc' = inc \/ inc' = Drop(inc, p), job[p].pc = "copying" => inc' = Drop(inc, p)
      PROVE  CacheInv'
  <2>1. \A q \in Helpers : job'[q] = IF q = p THEN NoJob ELSE job[q]
    BY <1>9, EndJob
  <2>2. NoJob.pc = "none"
    BY DEF NoJob
  <2>3. CASE inc = {p}
    BY <1>1, <1>3, <1>5, <1>9, <2>1, <2>2, <2>3 DEF CacheInv, Drop, NoFile
  <2>4. CASE inc # {p}
    <3>1. inc' = inc
      BY <1>3, <1>5, <1>9, <2>4 DEF Drop, NoFile
    <3> QED
      BY <1>1, <1>3, <1>9, <2>1, <2>2, <2>4, <3>1 DEF CacheInv
  <2> QED
    BY <2>3, <2>4
<1>10. ASSUME NEW p \in Helpers, Timeout(p) PROVE CacheInv'
  <2>1. Fail(p) /\ inc' = Drop(inc, p) /\ loc' = Drop(loc, p)
    BY <1>10 DEF Timeout
  <2>2. loc' = loc
    BY <1>3, <1>5, <2>1 DEF Drop, NoFile
  <2> QED
    BY <1>9, <2>1, <2>2
\* A helper that goes on: the others are not at work.
<1>11. ASSUME NEW p \in Helpers, Helper(p), NEW place, Goto(p, place)
       PROVE  /\ job[p].pc # "none" /\ job'[p].c # "" /\ job'[p].pc = place
              /\ \A q \in Helpers \ {p} : job'[q] = job[q] /\ job[q].pc = "none"
  <2>1. job[p].pc # "none"
    BY <1>11 DEF Helper, Asset, Install, Copy, Copied, Rename, Check, StartScp, ScpDone, Done, At
  <2>2. job[p] \in [pc : Places \ {"none"}, host : Hosts \cup {Local}, c : Clients \cup {""}]
    BY <2>1, JobCases DEF BinaryTypes
  <2>3. job' = [job EXCEPT ![p].pc = place]
    BY <1>11 DEF Goto
  <2>4. job'[p].pc = place /\ job'[p].c = job[p].c
    BY <2>2, <2>3 DEF BinaryTypes
  <2>5. \A q \in Helpers \ {p} : job'[q] = job[q]
    BY <2>3 DEF BinaryTypes
  <2> QED
    BY <1>3, <1>4, <2>1, <2>4, <2>5
<1>12. ASSUME NEW p \in Helpers, Helper(p) PROVE CacheInv'
  <2>1. CASE Copy(p)
    <3>1. Goto(p, "copying") /\ job[p].pc = "copy" /\ loc' = loc /\ inc' = (inc \ {"nofile", "dead"}) \cup {p}
      BY <2>1 DEF Copy, At
    <3>2. inc \in {NoFile, {}, {"dead"}}
      BY <1>3, <1>4, <3>1
    <3>3. inc' = {p}
      BY <3>1, <3>2 DEF NoFile
    <3> QED
      BY <1>1, <1>3, <1>11, <1>12, <3>1, <3>3 DEF CacheInv
  <2>2. CASE Copied(p)
    <3>1. Goto(p, "rename") /\ job[p].pc = "copying" /\ loc' = loc \ {p} /\ inc' = inc \ {p}
      BY <2>2 DEF Copied, At
    <3>2. inc' = {} /\ loc' = loc
      BY <1>3, <1>5, <3>1 DEF NoFile
    <3>3. /\ \A q \in Helpers : job'[q].pc # "none" => job'[q].c # ""
          /\ \A q \in Helpers : job'[q].pc # "copying"
      <4>1. /\ job'[p].pc = "rename" /\ job'[p].c # ""
            /\ \A q \in Helpers \ {p} : job'[q] = job[q] /\ job[q].pc = "none"
        BY <1>11, <1>12, <3>1
      <4> QED
        BY <4>1
    <3> QED
      BY <1>1, <1>3, <3>2, <3>3 DEF CacheInv
  <2>3. CASE Rename(p) /\ inc # NoFile
    <3>1. /\ job[p].pc = "rename" /\ loc' = inc /\ inc' = NoFile
          /\ \E place \in {"done", "check"} : Goto(p, place)
      BY <2>3 DEF Rename, At
    <3>2. loc' = {}
      BY <1>3, <3>1
    <3>3. /\ \A q \in Helpers : job'[q].pc # "none" => job'[q].c # ""
          /\ \A q \in Helpers : job'[q].pc \notin {"copying", "rename"}
      BY <1>11, <1>12, <3>1
    <3> QED
      BY <1>1, <3>1, <3>2, <3>3 DEF CacheInv
  <2>4. CASE ~Copy(p) /\ ~Copied(p) /\ ~(Rename(p) /\ inc # NoFile)
    <3>1. /\ UNCHANGED <<inc, loc>> /\ job[p].pc # "copying"
          /\ \/ Fail(p) \/ Succeed(p)
             \/ \E place \in Places \ {"none", "copying", "rename"} : Goto(p, place)
      BY <1>12, <2>4 DEF Helper, Asset, Install, Rename, Check, StartScp, ScpDone, Done, At, disk, Places
    <3>2. CASE Fail(p) \/ Succeed(p)
      BY <1>9, <3>1, <3>2
    <3>3. CASE \E place \in Places \ {"none", "copying", "rename"} : Goto(p, place)
      BY <1>1, <1>3, <1>11, <1>12, <3>1, <3>3 DEF CacheInv
    <3> QED
      BY <3>1, <3>2, <3>3
  <2> QED
    BY <2>1, <2>2, <2>3, <2>4
<1>13. ~Crash
  <2>1. Crash => crashes < MaxCrashes
    BY Zenon DEF Crash
  <2> QED
    BY <1>0, <1>2, <2>1
<1> QED
  BY <1>6, <1>8, <1>10, <1>12, <1>13 DEF Next, Ensure, GiveUp, ScpEnds, ScpCut, vars, disk

\* The binary in the local cache is never a part of one, whichever helpers the manager killed, as long as its
\* own process lives on (install_local_binary renames a finished ".incoming").
THEOREM BinaryAlwaysWhole == ASSUME ToolBinaryAssumption PROVE Spec => []BinaryIsWhole
<1>1. Init => BinaryTypes /\ CacheInv
  <2>1. SUFFICES ASSUME Init PROVE BinaryTypes /\ CacheInv
    OBVIOUS
  <2>2. NoJob \in Job /\ NoJob.c = "" /\ NoJob.pc = "none"
    BY DEF NoJob, Job
  <2>3. /\ job = [p \in Helpers |-> NoJob] /\ cli = [c \in Clients |-> "idle"] /\ queue = <<>> /\ inc = NoFile
        /\ loc = NoFile /\ remote = [h \in Hosts |-> "none"] /\ scp = {} /\ crashes = 0
    BY <2>1 DEF Init
  <2>4. Served = {}
    BY <2>2, <2>3 DEF Served
  <2>5. BinaryTypes
    BY <2>2, <2>3, <2>4, EmptySeq DEF BinaryTypes, NoFile
  <2>6. CacheInv
    BY <2>2, <2>3 DEF CacheInv
  <2> QED
    BY <2>5, <2>6
<1>2. BinaryTypes /\ CacheInv /\ [Next]_vars => (BinaryTypes /\ CacheInv)'
  BY TypesStep, CacheStep
<1>3. BinaryTypes /\ CacheInv => BinaryIsWhole
  <2>1. SUFFICES ASSUME BinaryTypes, CacheInv PROVE BinaryIsWhole
    OBVIOUS
  <2>2. \A p \in Helpers : job[p].c \in Clients \cup {""} /\ job[p].host \in Hosts \cup {"", Local}
    BY <2>1, JobCases DEF BinaryTypes
  <2>3. Cardinality(Served) <= 1
    <3>1. CASE Served = {}
      BY <3>1, FS_EmptySet
    <3>2. CASE Served # {}
      <4>1. PICK p : Served = {p}
        <5>1. \A p, q \in Served : p = q
          BY <2>1 DEF BinaryTypes
        <5> QED
          BY <3>2, <5>1
      <4>2. Cardinality(Served) = 1
        BY <4>1, FS_Singleton
      <4> QED
        BY <4>2
    <3> QED
      BY <3>1, <3>2
  <2>4. TypeOK
    BY <2>1, <2>2, <2>3 DEF TypeOK, BinaryTypes
  <2> QED
    BY <2>1, <2>4 DEF BinaryIsWhole, LocalIsWhole, CacheInv
<1> QED
  BY <1>1, <1>2, <1>3, PTL DEF Spec

===============================================================================
