------------------------------- MODULE FsTool -------------------------------
(***************************************************************************)
(* apply_patch: the tool decides on which host a patch is applied and runs *)
(* stellaclaw-fs-tool there, which parses the patch, verifies all of its   *)
(* operations against the files as they are and then applies them one by   *)
(* one.  A text is a sequence of characters in which "n" ends a line.      *)
(* Symbolic links and paths that leave the workspace are refused and left  *)
(* out, and so is the unified format, which git applies.  Other calls and  *)
(* the user do not touch the files meanwhile: the tool is a serial one.    *)
(***************************************************************************)
EXTENDS Naturals, Sequences, SequencesExt

CONSTANTS
    Paths,     \* paths of the workspace, none below another
    Special,   \* those under .stellaclaw, which live on this host in a session
               \* that works on a fixed remote host
    Texts,     \* contents of files
    Hunks,     \* bodies of update sections: sequences of <<kind, line>>, @@ as a kind
    Modes,     \* remote modes of the session that are tried
    Flags,     \* flags of the call that are tried
    MaxOps,    \* bound: operations of a patch
    MaxFaults  \* bound: faults of the file system and of the connection

FsToolAssumption ==
    /\ Special \subseteq Paths /\ "stay" \notin Paths
    /\ Modes \subseteq {"fixed", "local", "remote"} /\ Flags \subseteq {"none", "check", "strip"}
    /\ {MaxOps, MaxFaults} \subseteq Nat

VARIABLES
    files,   \* files[host][path]: [there, text]
    before,  \* the files when the call came
    ops,     \* the operations of the patch
    flag,    \* "check" only, "strip" for strip and reverse, or "none"
    mode,    \* the session's remote mode: "fixed", or the host that the call
             \* selects in a selectable one
    pc, host,
    next,    \* the operation that is applied next
    result,  \* "none", "ok", "refused" (before anything is applied) or "failed"
    faults

vars == <<files, before, ops, flag, mode, pc, host, next, result, faults>>

Hosts == {"local", "remote"}
Gone == [there |-> FALSE, text |-> <<>>]
File(t) == [there |-> TRUE, text |-> t]

-----------------------------------------------------------------------------
(* The patch.                                                              *)

\* An added file has its + lines, each with its end; "stay" is no Move to.
Adds == [type : {"add"}, path : Paths, to : {"stay"}, lines : {<<>>},
         text : {t \in Texts \cup {<<>>} : t = <<>> \/ Last(t) = "n"}]
Deletes == [type : {"delete"}, path : Paths, to : {"stay"}, lines : {<<>>}, text : {<<>>}]
Updates == [type : {"update"}, path : Paths, to : Paths \cup {"stay"}, lines : Hunks, text : {<<>>}]
Operations == Adds \cup Deletes \cup Updates

Names(op) == {op.path, op.to} \ {"stay"}

\* parse_codex_patch: a context line belongs to both sides of a chunk.
Side(lines, kinds) ==
    LET own == SelectSeq(lines, LAMBDA l : l[1] \in kinds)
    IN FlattenSeq([i \in DOMAIN own |-> Append(own[i][2], "n")])

\* The chunks of an update section, between its @@ lines; empty ones are left
\* out by push_non_empty_chunk.
Chunks(lines) ==
    LET cuts == {0, Len(lines) + 1} \cup {i \in DOMAIN lines : lines[i][1] = "@@"}
        starts == SetToSortSeq(cuts \ {Len(lines) + 1}, <)
        end(c) == CHOOSE d \in cuts : d > c /\ \A x \in cuts : x > c => x >= d
        chunk(c) == LET ls == SubSeq(lines, c + 1, end(c) - 1)
                    IN [old |-> Side(ls, {" ", "-"}), new |-> Side(ls, {" ", "+"})]
    IN SelectSeq([i \in DOMAIN starts |-> chunk(starts[i])], LAMBDA ch : ch.old # <<>> \/ ch.new # <<>>)

\* What parse_codex_patch and the parser in front of it accept.
Parses(s) ==
    /\ s # <<>>
    /\ \A i \in DOMAIN s :
         /\ s[i].type = "add" => s[i].text # <<>>
         /\ s[i].type = "update" => s[i].to # "stay" \/ Chunks(s[i].lines) # <<>>

-----------------------------------------------------------------------------
(* Where it is applied.                                                    *)

TargetOfFirst(s) ==
    IF mode # "fixed" THEN mode ELSE IF s[1].path \in Special THEN "local" ELSE "remote"

\* execution_target and classify_patch_target_paths: on a fixed remote host a
\* patch that names paths of both hosts is refused; otherwise the call says.
Target(s) ==
    LET named == UNION {Names(s[i]) : i \in DOMAIN s}
    IN CASE mode # "fixed" -> mode
         [] mode = "fixed" /\ named \subseteq Special -> "local"
         [] mode = "fixed" /\ named \cap Special = {} -> "remote"
         [] OTHER -> "none"

-----------------------------------------------------------------------------
(* stellaclaw-fs-tool.                                                     *)

\* Where a chunk matches; matches() counts occurrences that do not overlap,
\* so that two overlapping ones count as one.
Places(text, old) ==
    {i \in 1..(Len(text) - Len(old) + 1) : SubSeq(text, i, i + Len(old) - 1) = old}

Count(text, old) ==
    LET step[i \in 1..(Len(text) + 1)] ==
            IF i \in Places(text, old) THEN 1 + step[i + Len(old)]
            ELSE IF i > Len(text) THEN 0 ELSE step[i + 1]
    IN step[1]

\* replacen(old, new, 1): nothing when there is no occurrence.
Replace(text, ch) ==
    LET ps == Places(text, ch.old)
    IN IF ps = {} THEN text
       ELSE LET p == CHOOSE i \in ps : \A j \in ps : i <= j
            IN SubSeq(text, 1, p - 1) \o ch.new \o SubSeq(text, p + Len(ch.old), Len(text))

\* The text before the n-th chunk is applied.
Before(text, chunks) ==
    LET after[n \in 0..Len(chunks)] == IF n = 0 THEN text ELSE Replace(after[n - 1], chunks[n])
    IN after

ChunksFound(text, chunks) ==
    \A n \in DOMAIN chunks :
        chunks[n].old # <<>> /\ Count(Before(text, chunks)[n - 1], chunks[n].old) >= 1

\* verify_chunks_match: each chunk has old lines and matches in one place.
ChunksMatch(text, chunks) ==
    \A n \in DOMAIN chunks :
        chunks[n].old # <<>> /\ Count(Before(text, chunks)[n - 1], chunks[n].old) = 1

\* verify_codex_patch_op.
Verified(fs, op) ==
    CASE op.type = "add" -> ~fs[op.path].there
      [] op.type = "delete" -> fs[op.path].there
      [] OTHER -> /\ fs[op.path].there
                  /\ op.to \in {"stay", op.path} \/ ~fs[op.to].there
                  /\ ChunksMatch(fs[op.path].text, Chunks(op.lines))

VerifiedFirst(fs, s) == Verified(fs, s[1])

AllVerified(fs, s) == \A i \in DOMAIN s : Verified(fs, s[i])

\* apply_codex_patch_op still wants a file to delete or to update.
Applies(fs, op) == op.type = "add" \/ fs[op.path].there

Output(op) == IF op.to = "stay" THEN op.path ELSE op.to

\* The text that is written for an operation.
Content(fs, op) ==
    IF op.type = "add" THEN op.text
    ELSE LET chunks == Chunks(op.lines) IN Before(fs[op.path].text, chunks)[Len(chunks)]

Written(fs, op) ==
    IF op.type = "delete" THEN [fs EXCEPT ![op.path] = Gone]
    ELSE [fs EXCEPT ![Output(op)] = File(Content(fs, op))]

Moves(op) == op.type = "update" /\ op.to \notin {"stay", op.path}

\* What the call reports; a call whose connection was lost has reported.
Done(r) == pc' = "done" /\ result' = IF result = "none" THEN r ELSE result

\* The host, and what cannot be applied at all.
Choose ==
    /\ pc = "target"
    /\ LET t == IF Parses(ops) /\ flag # "strip" THEN Target(ops) ELSE "none"
       IN IF t = "none" THEN Done("refused") /\ UNCHANGED host
          ELSE host' = t /\ pc' = "verify" /\ UNCHANGED result
    /\ UNCHANGED <<files, before, ops, flag, mode, next, faults>>

\* apply_codex_patch: all operations are verified before the first is applied.
Verify ==
    /\ pc = "verify"
    /\ IF ~AllVerified(files[host], ops) THEN Done("refused")
       ELSE IF flag = "check" THEN Done("ok")
       ELSE pc' = "apply" /\ UNCHANGED result
    /\ UNCHANGED <<files, before, ops, flag, mode, host, next, faults>>

NextOp == next' = next + 1 /\ IF next = Len(ops) THEN Done("ok") ELSE pc' = "apply" /\ UNCHANGED result

UnlinkFirst ==
    /\ pc = "apply"
    /\ LET op == ops[next]
       IN IF ~Applies(files[host], op)
          THEN Done("failed") /\ UNCHANGED <<files, next>>
          ELSE /\ files' = [files EXCEPT ![host] = IF Moves(op) THEN [@ EXCEPT ![op.path] = Gone] ELSE Written(@, op)]
               /\ IF Moves(op) THEN pc' = "unlink" /\ UNCHANGED <<next, result>> ELSE NextOp
    /\ UNCHANGED <<before, ops, flag, mode, host, faults>>

\* apply_codex_patch_op; a moved file is written before its source is removed.
Apply ==
    /\ pc = "apply"
    /\ LET op == ops[next]
       IN IF ~Applies(files[host], op)
          THEN Done("failed") /\ UNCHANGED <<files, next>>
          ELSE /\ files' = [files EXCEPT ![host] = Written(@, op)]
               /\ IF Moves(op) THEN pc' = "unlink" /\ UNCHANGED <<next, result>> ELSE NextOp
    /\ UNCHANGED <<before, ops, flag, mode, host, faults>>

Unlink ==
    /\ pc = "unlink"
    /\ files' = [files EXCEPT ![host][ops[next].path] = Gone]
    /\ NextOp
    /\ UNCHANGED <<before, ops, flag, mode, host, faults>>

\* An error of the file system, or the timeout, which kills the process: what
\* has been applied stays, and the file that is being written, which fs::write
\* has emptied first, may be cut anywhere.
Fault ==
    /\ pc \in {"verify", "apply", "unlink"} /\ faults < MaxFaults /\ faults' = faults + 1
    /\ Done("failed")
    /\ \/ UNCHANGED files
       \/ LET op == ops[next]
          IN /\ pc = "apply" /\ op.type # "delete" /\ Applies(files[host], op)
             /\ \E k \in 0 .. Len(Content(files[host], op)) :
                   files' = [files EXCEPT ![host][Output(op)] = File(SubSeq(Content(files[host], op), 1, k))]
    /\ UNCHANGED <<before, ops, flag, mode, host, next>>

\* The connection is lost, or the timeout kills ssh: the call reports so and
\* the tool on the remote host runs on.
Lost ==
    /\ pc \in {"verify", "apply", "unlink"} /\ host = "remote" /\ result = "none"
    /\ faults < MaxFaults /\ faults' = faults + 1
    /\ result' = "failed"
    /\ UNCHANGED <<files, before, ops, flag, mode, pc, host, next>>

\* The host on which a path lives, for the calls of this session.
Home(p) == IF mode # "fixed" THEN mode ELSE IF p \in Special THEN "local" ELSE "remote"

Init ==
    /\ mode \in Modes
    /\ before \in [Hosts -> [Paths -> {Gone} \cup {File(t) : t \in Texts}]]
    /\ \A p \in Paths, h \in Hosts : h # Home(p) => before[h][p] = Gone
    /\ files = before
    /\ ops \in SeqOf(Operations, MaxOps)
    /\ flag \in Flags
    /\ pc = "target" /\ host = "none" /\ next = 1 /\ result = "none" /\ faults = 0

Next == Choose \/ Verify \/ Apply \/ Unlink \/ Fault \/ Lost

Spec == Init /\ [][Next]_vars

-----------------------------------------------------------------------------
(* Properties.                                                             *)

TypeOK ==
    /\ files \in [Hosts -> [Paths -> [there : BOOLEAN, text : Seq(STRING)]]]
    /\ host \in Hosts \cup {"none"}
    /\ next \in 1..(MaxOps + 1)
    /\ result \in {"none", "ok", "refused", "failed"}

\* Operations that name different paths.
Disjoint == \A i, j \in DOMAIN ops : i # j => Names(ops[i]) \cap Names(ops[j]) = {}

\* A patch whose operations name different paths is applied as a whole or not
\* at all, unless the file system fails: what was verified still holds when
\* its turn comes.
AllOrNothing ==
    Disjoint /\ pc = "done" /\ faults = 0 /\ (result # "ok" \/ flag = "check") => files = before

\* What a text may become when each chunk in turn replaces lines that are its
\* old ones.
Meanings(text, chunks) ==
    LET starts(t) == {i \in DOMAIN t : i = 1 \/ t[i - 1] = "n"}
        once(t, ch) == {SubSeq(t, 1, i - 1) \o ch.new \o SubSeq(t, i + Len(ch.old), Len(t)) :
                            i \in {j \in starts(t) : j \in Places(t, ch.old)}}
        after[n \in 0..Len(chunks)] ==
            IF n = 0 THEN {text} ELSE UNION {once(t, chunks[n]) : t \in after[n - 1]}
    IN after[Len(chunks)]

\* Every operation of a patch that was applied, and that names paths of its
\* own, has left its file as the patch says, and an update could not have
\* meant another place.
AppliedAsMeant ==
    Disjoint /\ result = "ok" /\ flag = "none" =>
        \A i \in DOMAIN ops :
            LET op == ops[i]
                was == before[host][op.path]
                is == files[host]
            IN CASE op.type = "add" -> is[op.path] = File(op.text)
                 [] op.type = "delete" -> is[op.path] = Gone
                 [] OTHER -> /\ is[Output(op)].there
                             /\ Meanings(was.text, Chunks(op.lines)) = {is[Output(op)].text}
                             /\ Moves(op) => is[op.path] = Gone

\* A file changes on the host on which it lives: in a session on a fixed
\* remote host those under .stellaclaw on this host, all others on the remote.
EachOnItsHost ==
    \A p \in Paths, h \in Hosts : h # Home(p) => files[h][p] = before[h][p]

\* Wherever a patch is cut, a file that it moves is at one of its two paths,
\* and whole.
MovedIsThere ==
    Disjoint => \A i \in DOMAIN ops :
        Moves(ops[i]) /\ pc \in {"apply", "unlink", "done"} =>
            \A h \in Hosts : before[h][ops[i].path].there =>
                \/ files[h][ops[i].path] = before[h][ops[i].path]
                \/ files[h][ops[i].to] = File(Content(before[h], ops[i]))

=============================================================================
