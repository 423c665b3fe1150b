------------------------------- MODULE Memory -------------------------------
(***************************************************************************)
(* The long memory: one scope's store on disk, the requests of agents that *)
(* write, search, update and delete its entries, and the compaction of the *)
(* user scope.  The requests of a scope are served one at a time: those of *)
(* the user and public scopes by the manager thread of the workdir, those  *)
(* of a conversation by its memory service.  A request is a list of steps  *)
(* between which the process may crash.                                    *)
(*                                                                         *)
(* An entry has a subject (0: none) and a text, both numbers; a negative   *)
(* one is written without a letter, a digit or a Chinese character, so the *)
(* service finds no token in it.  Every entry renders to one byte; tags    *)
(* and the scores of a search are left open.                               *)
(***************************************************************************)
EXTENDS Integers, Sequences, FiniteSets, SequencesExt, FiniteSetsExt, TLC

CONSTANTS
    Scope,        \* "user", "public" or "conversation"
    Agents,       \* who asks
    Subjects, Texts,
    DedupeModel,  \* a model decides on writes, else the local rules
    CompactModel, \* a model compacts the user scope, else the local filter
    Soft, Hard,   \* user_soft_threshold_bytes, user_hard_threshold_bytes
    CandidateLimit, \* write_candidate_limit
    MaxActive,    \* MAX_ACTIVE_ENTRIES_PER_SCOPE
    MaxRequests,  \* bound: requests
    MaxCrashes,   \* bound: crashes
    MaxTicks      \* bound: days that pass

MemoryAssumption ==
    /\ Scope \in {"user", "public", "conversation"}
    /\ Subjects \subseteq Int /\ Texts \subseteq Int \ {0} /\ CandidateLimit \in Nat \ {0}
    /\ DedupeModel \in BOOLEAN /\ CompactModel \in BOOLEAN
    /\ Soft \in Nat /\ Hard \in Nat /\ Soft <= Hard
    /\ MaxActive \in Nat /\ MaxRequests \in Nat /\ MaxCrashes \in Nat /\ MaxTicks \in Nat

VARIABLES
    stored,    \* entries.jsonl: a sequence of [id, subject, text, live, born]
    manifest,  \* next_id of manifest.json or index.json; 0: no file
    status,    \* compaction.json: [state, attempts, retry, limit, soft]
    job,       \* the steps left of what is being done
    work,      \* what they work on: [agent, kind, id, born, subject, text, entries, answer, near]
    known,     \* per agent, the entries its searches returned: [id, born]
    births,    \* entries ever made
    fruitless, \* hard compactions in a row that did not shrink the memory as it is
    early,     \* a hard compaction was tried before its retry time
    requests, crashes, ticks

vars == <<stored, manifest, status, job, work, known, births, fruitless, early, requests, crashes, ticks>>

Idle == [state |-> "idle", attempts |-> 0, retry |-> "none", limit |-> 0, soft |-> FALSE]
NoWork == [agent |-> CHOOSE a \in Agents : TRUE, kind |-> "none", id |-> 0, born |-> 0, subject |-> 0, text |-> 0,
           entries |-> <<>>, before |-> <<>>, answer |-> "none", near |-> FALSE]

Live(es) == SelectSeq(es, LAMBDA x : x.live)
Ids(es) == {es[k].id : k \in DOMAIN es}

CountIds(es) == Len(Live(es)) + 1

\* next_id as write_entries_and_manifest computes it: over what it was given,
\* entries that have just been deleted included.
AfterIds(es) == IF es = <<>> THEN 1 ELSE Max(Ids(es)) + 1

Size(es) == Len(Live(es))

-----------------------------------------------------------------------------
(* Requests.                                                               *)

Maintain == IF Scope = "user" THEN <<"refresh", "promote", "hard", "soft">> ELSE <<>>

\* The manager maintains the user scope before and after each request.
Around == IF Scope = "conversation" THEN <<>> ELSE Maintain

Start(w) ==
    /\ job = <<>> /\ requests < MaxRequests
    /\ requests' = requests + 1
    /\ work' = [w EXCEPT !.before = stored]
    /\ job' = Around \o <<"act">> \o Around
    /\ UNCHANGED <<stored, manifest, status, known, births, fruitless, early, crashes, ticks>>

Write(a, s, t) == Start([NoWork EXCEPT !.agent = a, !.kind = "write", !.subject = s, !.text = t])

\* normalize_search_scopes: the user scope is not searched.
Search(a) == Scope # "user" /\ Start([NoWork EXCEPT !.agent = a, !.kind = "search"])

\* An agent names an entry that a search gave it.
Update(a, e, t) == Start([NoWork EXCEPT !.agent = a, !.kind = "update", !.id = e.id, !.born = e.born, !.text = t])
Delete(a, e) == Start([NoWork EXCEPT !.agent = a, !.kind = "delete", !.id = e.id, !.born = e.born])

Then(steps) == job' = steps \o Tail(job)
Committing == <<"commit", "manifest", "refresh", "hard", "reply">>

FailAfterCommit ==
    /\ work' = [work EXCEPT !.answer = "failure", !.entries = <<>>, !.kind = "reply"]
    /\ Then(<<"commit", "reply">>)

\* A failure is answered at once.
Fail == /\ work' = [work EXCEPT !.answer = "failure", !.kind = "reply"]
        /\ Then(<<"reply">>)

OverTheLimit(es) == Size(es) > MaxActive + 1

\* write_entries_and_manifest refuses a store that has grown too large.
TooLarge(es) == Size(es) > MaxActive

CommitAs(es, near) ==
    IF TooLarge(es) THEN Fail
    ELSE /\ work' = [work EXCEPT !.entries = es, !.near = near]
         /\ Then(Committing)

Commit(es) == CommitAs(es, FALSE)

First(ks) == CHOOSE k \in ks : \A j \in ks : k <= j

Insert(es) == Append(es, [id |-> IF manifest # 0 THEN manifest ELSE AfterIds(es), subject |-> work.subject,
                          text |-> work.text, live |-> TRUE, born |-> births + 1])

\* One action of a decision; ids are of candidates.
Apply(es, act) ==
    LET k == First({j \in DOMAIN es : es[j].id = act.id})
    IN CASE act.t = "touch" -> es
         [] act.t = "update" -> [es EXCEPT ![k].text = act.text, ![k].subject = work.subject]
         [] act.t = "delete" -> [es EXCEPT ![k].live = FALSE]
         [] act.t = "insert" -> Insert(es)

Act(t, id, text) == [t |-> t, id |-> id, text |-> text]

\* tokenize, normalize_for_hash: what the service compares.  All that has no
\* token is the same to it, and no subject at all.
Norm(x) == IF x < 0 THEN 0 ELSE x
Tokenless == Norm(work.subject) = 0 /\ Norm(work.text) = 0

\* The entries whose subject is that of the draft.
Same == {k \in DOMAIN stored : Norm(work.subject) # 0 /\ Norm(stored[k].subject) = Norm(work.subject)}

\* search_entries for a draft: up to a limit those that score, which entries of
\* its subject do; a draft without tokens is given the last ones touched.
WriteCandidates ==
    {c \in SUBSET DOMAIN stored :
        /\ Cardinality(c) <= CandidateLimit
        /\ Cardinality(c) < CandidateLimit => IF Tokenless THEN c = DOMAIN stored ELSE Same \subseteq c}

LocalInserts(c) == {<<Act("insert", 0, 0)>>}

\* local_consistency_decision: the newest entry of the subject is updated and
\* the others deleted.  For another subject the best candidate counts: from a
\* score of 0.9 it is touched, from 0.65 updated.  Without tokens its score is
\* 1; else it grows with the words the two share, and is left open.
LocalDecision(c) ==
    LET same == Same \cap c
    IN IF same # {}
       THEN {IF Norm(stored[k].text) = Norm(work.text) THEN <<Act("touch", stored[k].id, 0)>>
             ELSE <<Act("update", stored[k].id, work.text)>> \o
                  SetToSeq({Act("delete", stored[j].id, 0) : j \in same \ {k}}) : k \in same}
       ELSE {<<Act("touch", stored[k].id, 0)>> : k \in c} \cup
            (IF Tokenless /\ c # {} THEN {}
             ELSE {<<Act("update", stored[k].id, work.text)>> : k \in c} \cup {<<Act("insert", 0, 0)>>})

\* provider_consistency_decision: actions on any ids, known or not.
ModelDecision ==
    LET ids == Ids(stored) \union {99}
        one == {Act("insert", 0, 0)} \union {Act(t, i, work.text) : t \in {"touch", "update", "delete"}, i \in ids}
    IN {<<>>} \union {<<x>> : x \in one} \union {<<x, y>> : x \in one, y \in one}

\* validate_actions: the ids are of candidates.
Valid(acts, c) ==
    /\ acts # <<>>
    /\ Cardinality({k \in DOMAIN acts : acts[k].t = "insert"}) <= 1
    /\ \A k \in DOMAIN acts : acts[k].t # "insert" => acts[k].id \in {stored[j].id : j \in c}

SameText(x) == Norm(x.text) = Norm(work.text)

\* entry_hash of an entry that is there already.
SameEntry(x) == Norm(x.subject) = Norm(work.subject) /\ Norm(x.text) = Norm(work.text)

\* write: what a local decision does to no entry of the draft's subject is done
\* because its words are near those of another (near).
ActWrite ==
    /\ work.kind = "write"
    /\ IF \E k \in DOMAIN stored : SameEntry(stored[k]) THEN Commit(stored) /\ UNCHANGED births
       ELSE \/ /\ DedupeModel          \* the model fails, or says failure
               /\ Fail /\ UNCHANGED births
            \/ \E c \in WriteCandidates : \E acts \in IF DedupeModel THEN ModelDecision ELSE LocalDecision(c) :
                  LET near == ~DedupeModel /\ Same \cap c = {} /\ acts[1].t # "insert"
                  IN IF Valid(acts, c)
                     THEN /\ CommitAs(FoldLeft(Apply, stored, acts), near)
                          /\ births' = births + 1
                     ELSE Fail /\ UNCHANGED births
    /\ UNCHANGED known

\* search_entries, bm25_rank: which entries score, and how, is left open.
Candidates == SUBSET DOMAIN stored

\* dedupe_search_hits and render_search_results: of the entries found with one
\* text the best is returned, none without tokens, and none beyond the limits
\* on number and size.
Returned(found) ==
    {hits \in SUBSET {k \in found : Norm(stored[k].text) # 0} :
        \A j, k \in hits : j # k => Norm(stored[j].text) # Norm(stored[k].text)}

\* The entries returned are touched: the store is written, with its manifest.
ActSearch ==
    /\ work.kind = "search"
    /\ \E hits \in UNION {Returned(found) : found \in Candidates} :
          IF hits = {} THEN /\ work' = [work EXCEPT !.answer = "success"] /\ Then(<<"reply">>) /\ UNCHANGED known
          ELSE /\ work' = [work EXCEPT !.entries = stored]
               /\ Then(<<"commit", "manifest", "reply">>)
               /\ known' = [known EXCEPT ![work.agent] = {[id |-> stored[k].id, born |-> stored[k].born] : k \in hits}]
    /\ UNCHANGED births

ActOnEntry ==
    /\ work.kind \in {"update", "delete"}
    /\ LET ks == {k \in DOMAIN stored : stored[k].id = work.id}
       IN IF ks = {} THEN Fail
          ELSE Commit(IF work.kind = "update" THEN [stored EXCEPT ![First(ks)].text = work.text]
                      ELSE [stored EXCEPT ![First(ks)].live = FALSE])
    /\ known' = [known EXCEPT ![work.agent] = {e \in @ : work.kind = "update" \/ e.id # work.id}]
    /\ UNCHANGED births

DoAct ==
    /\ job # <<>> /\ Head(job) = "act"
    /\ ActWrite \/ ActSearch \/ ActOnEntry
    /\ UNCHANGED <<stored, manifest, status, fruitless, early, requests, crashes, ticks>>

CommitAll ==
    /\ job # <<>> /\ Head(job) = "commit"
    /\ stored' = work.entries
    /\ fruitless' = 0
    /\ Then(<<>>)
    /\ UNCHANGED <<manifest, status, work, known, births, early, requests, crashes, ticks>>

\* The temporary file takes the place of entries.jsonl; only live entries are
\* in it.
DoCommit ==
    /\ job # <<>> /\ Head(job) = "commit"
    /\ stored' = Live(work.entries)
    /\ fruitless' = IF Live(work.entries) = stored THEN fruitless ELSE 0
    /\ Then(<<>>)
    /\ UNCHANGED <<manifest, status, work, known, births, early, requests, crashes, ticks>>

DoManifest ==
    /\ job # <<>> /\ Head(job) = "manifest"
    /\ manifest' = AfterIds(work.entries)
    /\ Then(<<>>)
    /\ UNCHANGED <<stored, status, work, known, births, fruitless, early, requests, crashes, ticks>>

DoReply ==
    /\ job # <<>> /\ Head(job) = "reply"
    /\ work' = [work EXCEPT !.answer = IF @ = "none" THEN "success" ELSE @]
    /\ Then(<<>>)
    /\ UNCHANGED <<stored, manifest, status, known, births, fruitless, early, requests, crashes, ticks>>

-----------------------------------------------------------------------------
(* Compaction of the user scope.                                           *)

Threshold == IF status.limit = 0 THEN Hard ELSE status.limit

RefreshedKeepsRetry ==
    CASE status.state = "retry_waiting" /\ Size(stored) >= Threshold -> [status EXCEPT !.retry = "future"]
      [] status.state # "retry_waiting" /\ Size(stored) >= Threshold -> [status EXCEPT !.state = "hard_pending"]
      [] Size(stored) < Threshold /\ Size(stored) >= Soft -> [status EXCEPT !.state = "dirty"]
      [] OTHER -> [Idle EXCEPT !.soft = status.soft]

\* refresh_user_compaction_status, on the entries as they are.
Refreshed ==
    LET size == Size(stored)
    IN CASE status.state = "retry_waiting" /\ size >= Threshold /\ status.retry = "future" -> status
         [] ~(status.state = "retry_waiting" /\ status.retry = "future") /\ size >= Threshold ->
              [status EXCEPT !.state = "hard_pending"]
         [] size < Threshold /\ size >= Soft -> [status EXCEPT !.state = "dirty"]
         [] OTHER -> [Idle EXCEPT !.soft = status.soft]

DoRefresh ==
    /\ job # <<>> /\ Head(job) = "refresh"
    /\ status' = IF Scope = "user" THEN Refreshed ELSE status
    /\ Then(<<>>)
    /\ UNCHANGED <<stored, manifest, work, known, births, fruitless, early, requests, crashes, ticks>>

\* maintain_user_memory: a retry whose time has come.
Promoted ==
    IF status.state = "retry_waiting" /\ status.retry = "due"
    THEN [status EXCEPT !.state = "hard_pending", !.retry = "none"] ELSE status

DoPromote ==
    /\ job # <<>> /\ Head(job) = "promote"
    /\ status' = Promoted
    /\ Then(<<>>)
    /\ UNCHANGED <<stored, manifest, work, known, births, fruitless, early, requests, crashes, ticks>>

\* apply_user_compaction_failure.  Beyond 2 the number of attempts no longer
\* matters and is not counted.
Failed == [status EXCEPT !.state = "retry_waiting", !.attempts = Min({@ + 1, 2}), !.retry = "future"]

NoShrinkKeepsSize ==
    IF status.attempts = 0 THEN [status EXCEPT !.attempts = 1, !.retry = "none", !.state = "hard_pending"]
    ELSE [status EXCEPT !.attempts = Min({@ + 1, 2}), !.retry = "none", !.state = "idle", !.limit = Max({Size(stored), Hard})]

\* apply_user_compaction_no_shrink: the second time the threshold is raised.
NoShrink ==
    IF status.attempts = 0 THEN [status EXCEPT !.attempts = 1, !.retry = "none", !.state = "hard_pending"]
    ELSE [status EXCEPT !.attempts = Min({@ + 1, 2}), !.retry = "none", !.state = "idle", !.limit = Max({Size(stored) + 1, Hard})]

\* compact_user_memory_entries: the first of entries that are the same.
Distinct(es) ==
    LET dup(k) == \E j \in 1 .. k - 1 : Norm(es[j].subject) = Norm(es[k].subject) /\ Norm(es[j].text) = Norm(es[k].text)
    IN [i \in 1 .. Cardinality({k \in DOMAIN es : ~dup(k)}) |->
          es[CHOOSE k \in DOMAIN es : ~dup(k) /\ Cardinality({j \in 1 .. k : ~dup(j)}) = i]]

\* What a compaction may put in the place of the entries: a model's choice of
\* them, or the distinct ones.
Outputs ==
    IF CompactModel THEN {SelectSeq(stored, LAMBDA x : x.id \in keep) : keep \in SUBSET Ids(stored)}
    ELSE {Distinct(stored)}

\* run_provider_user_compaction, and the local filter, with a smaller result:
\* it is written with its manifest, then the success is recorded.
Replace(es) ==
    /\ work' = [work EXCEPT !.entries = es]
    /\ Then(<<"commit", "manifest", "compacted">>)
    /\ UNCHANGED <<status, fruitless>>

\* run_user_hard_compaction_if_pending; without a model a second try follows.
DoHard ==
    /\ job # <<>> /\ Head(job) = "hard"
    /\ early' = (early \/ (status.state = "hard_pending" /\ status.retry = "future"))
    /\ IF Scope # "user" \/ status.state # "hard_pending"
       THEN Then(<<>>) /\ UNCHANGED <<status, fruitless, work>>
       ELSE \/ /\ CompactModel
               /\ status' = Failed
               /\ Then(<<>>) /\ UNCHANGED <<fruitless, work>>
            \/ \E es \in Outputs :
                  IF Size(es) < Size(stored) THEN Replace(es)
                  ELSE /\ status' = NoShrink
                       /\ fruitless' = fruitless + 1
                       /\ Then(IF ~CompactModel /\ status.attempts = 0 THEN <<"hard">> ELSE <<>>)
                       /\ UNCHANGED work
    /\ UNCHANGED <<stored, manifest, known, births, requests, crashes, ticks>>

\* record_user_soft_compaction_failure, record_user_soft_compaction_no_shrink:
\* the memory stays dirty and the day's attempt is over.
SoftTried == [status EXCEPT !.soft = TRUE]

\* The daily soft compaction of a dirty memory.
DoSoft ==
    /\ job # <<>> /\ Head(job) = "soft"
    /\ IF status.state # "dirty" \/ ~CompactModel \/ status.soft
       THEN Then(<<>>) /\ UNCHANGED <<status, fruitless, work>>
       ELSE \/ /\ status' = SoftTried
               /\ Then(<<>>) /\ UNCHANGED <<fruitless, work>>
            \/ \E es \in Outputs : Size(es) < Size(stored) /\ Replace(es)
    /\ UNCHANGED <<stored, manifest, known, births, early, requests, crashes, ticks>>

\* apply_user_compaction_success.
DoCompacted ==
    /\ job # <<>> /\ Head(job) = "compacted"
    /\ status' = [Idle EXCEPT !.soft = TRUE]
    /\ Then(<<>>)
    /\ UNCHANGED <<stored, manifest, work, known, births, fruitless, early, requests, crashes, ticks>>

-----------------------------------------------------------------------------

\* The manager wakes after a minute without requests.
Wake ==
    /\ Scope = "user" /\ job = <<>>
    /\ job' = Maintain
    /\ work' = NoWork
    /\ UNCHANGED <<stored, manifest, status, known, births, fruitless, early, requests, crashes, ticks>>

\* The time of a retry comes; a day passes.
Time ==
    /\ \/ status.retry = "future" /\ status' = [status EXCEPT !.retry = "due"]
          /\ UNCHANGED ticks
       \/ ticks < MaxTicks /\ status.soft /\ status' = [status EXCEPT !.soft = FALSE]
          /\ ticks' = ticks + 1
    /\ UNCHANGED <<stored, manifest, job, work, known, births, fruitless, early, requests, crashes>>

\* A crash keeps what is on disk.  The file that was being written is the old
\* one, or for the manifest and the status unreadable: then it is computed or
\* begun anew.
Crash ==
    /\ job # <<>> /\ crashes < MaxCrashes
    /\ crashes' = crashes + 1
    /\ job' = <<>> /\ work' = NoWork
    /\ \/ UNCHANGED <<manifest, status>>
       \/ Head(job) = "manifest" /\ manifest' = 0 /\ UNCHANGED status
       \/ Head(job) \in {"refresh", "promote", "hard", "compacted"} /\ status' = Idle /\ UNCHANGED manifest
    /\ UNCHANGED <<stored, known, births, fruitless, early, requests, ticks>>

Init ==
    /\ stored = <<>> /\ manifest = 0
    /\ status = Idle
    /\ job = <<>> /\ work = NoWork
    /\ known = [a \in Agents |-> {}]
    /\ births = 0 /\ fruitless = 0 /\ early = FALSE
    /\ requests = 0 /\ crashes = 0 /\ ticks = 0

Steps == DoAct \/ DoCommit \/ DoManifest \/ DoReply \/ DoRefresh \/ DoPromote \/ DoHard \/ DoSoft \/ DoCompacted

Entries(a) == IF Scope = "user" THEN {[id |-> stored[k].id, born |-> stored[k].born] : k \in DOMAIN stored} ELSE known[a]

Next ==
    \/ \E a \in Agents : \/ \E s \in Subjects, t \in Texts : Write(a, s, t)
                         \/ Search(a)
                         \/ \E e \in Entries(a) : Delete(a, e) \/ \E t \in Texts : Update(a, e, t)
    \/ Steps \/ Wake \/ Time \/ Crash

Spec == Init /\ [][Next]_vars

\* The manager runs, wakes by its timeout, and time passes.
FairSpec == Spec /\ WF_vars(Steps) /\ WF_vars(Wake) /\ WF_vars(Time)

-----------------------------------------------------------------------------
(* Properties.                                                             *)

TypeOK ==
    /\ \A k \in DOMAIN stored : stored[k].id \in Nat /\ stored[k].live /\ stored[k].born \in 1 .. births
    /\ manifest \in Nat
    /\ status.state \in {"idle", "dirty", "hard_pending", "retry_waiting"}
    /\ status.retry \in {"none", "future", "due"}

Replied(kind) == job # <<>> /\ Head(job) = "reply" /\ work.kind = kind /\ work.answer = "none"

\* A write that is answered with success and was not taken for a variant of
\* some other entry has its subject and text in the memory at that moment, as
\* far as the service can tell them apart; the variant that is only touched is
\* the one way for a write to be acknowledged and not kept.
WriteIsStored ==
    Replied("write") =>
        \/ \E k \in DOMAIN stored :
              /\ Norm(stored[k].subject) = Norm(work.subject)
              /\ Norm(stored[k].text) = Norm(work.text)
        \/ work.near /\ stored = work.before

\* A request that is answered with failure has changed nothing, also when the
\* model's decision names unknown entries.
FailureChangesNothing == (work.answer = "failure" /\ Scope # "user") => stored = work.before

\* The local rules keep one entry per subject that has tokens, as long as all
\* entries can be candidates.
OneEntryPerSubject ==
    MaxActive <= CandidateLimit =>
        \A j, k \in DOMAIN stored : j # k => Norm(stored[j].subject) # Norm(stored[k].subject) \/ Norm(stored[j].subject) = 0

\* No write, update or compaction takes a scope past its limit.
WithinLimit == Len(stored) <= MaxActive

\* No two entries have the same id, so an id names at most one entry.
IdsAreUnique == \A j, k \in DOMAIN stored : j # k => stored[j].id # stored[k].id

\* A memory that is as it was is not compacted for its size a third time: two
\* results that are no smaller raise the threshold above it.
FruitlessIsBounded == fruitless <= 2

\* A failed hard compaction is tried again in the end.
RetryHappens == status.state = "retry_waiting" ~> status.state # "retry_waiting"

\* A failed hard compaction is not repeated before its time.
RetryWaits == ~early

\* An update or a deletion of an entry that a search returned changes that
\* entry and no other.
IdNamesEntry ==
    (Replied("update") \/ Replied("delete")) =>
        \A k \in DOMAIN work.before : work.before[k].born # work.born =>
            \E j \in DOMAIN stored : stored[j] = work.before[k]

\* A deletion that is answered with success leaves no entry of that id.
DeletedIsGone == Replied("delete") => work.id \notin Ids(stored)
=============================================================================
