----------------------------- MODULE CodexAuth -----------------------------
(***************************************************************************)
(* The tokens of the Codex backend: every provider worker keeps a copy of  *)
(* what auth.json held when it last looked, renews it before it expires or *)
(* when it is refused, and writes the new tokens back.  The server accepts *)
(* one refresh token, which it replaces with every renewal or never.  An   *)
(* answer may be lost or of no use, the file may not be read or written, a *)
(* worker may be killed; a login may have no refresh token at all.         *)
(***************************************************************************)
EXTENDS Naturals, FiniteSets

CONSTANTS
    Workers,    \* provider workers that share auth.json
    MaxTokens,  \* bound: tokens the server issues
    MaxFaults   \* bound: answers and writes that fail, and workers that are killed

CodexAuthAssumption == MaxTokens \in Nat /\ MaxFaults \in Nat

VARIABLES
    disk,     \* auth.json: [access, refresh]; access 0: it cannot be read, refresh 0: it has no refresh token
    cached,   \* of a worker: its tokens; access 0: none
    pc, used, \* of a worker: its step and the tokens it works with
    again,    \* of a worker: the request was already refused once
    issued,   \* access tokens the server has issued so far
    accepted, \* the refresh token the server accepts
    rotates,  \* it replaces that with every renewal
    expired,  \* access tokens up to this one have expired
    refused,  \* tokens the server no longer accepts before their time
    lost,     \* history: a renewal did not reach the file, or the file was torn
    faults

vars == <<disk, cached, pc, used, again, issued, accepted, rotates, expired, refused, lost, faults>>
server == <<issued, accepted, rotates, expired, refused>>

Tokens(n) == [access |-> n, refresh |-> n]
NoTokens == Tokens(0)
Put(f, w, v) == [f EXCEPT ![w] = v]

-----------------------------------------------------------------------------

\* should_refresh: the client reads the time of expiry in the token.
ShouldRefresh(t) == t.access <= expired

\* resolve: the copy while it is good, else what is on disk, renewed if that
\* has expired too and can be renewed.  A file that cannot be read is an error.
Resolve(w) ==
    /\ pc[w] = "idle"
    /\ IF cached[w].access # 0 /\ ~ShouldRefresh(cached[w])
       THEN pc' = Put(pc, w, "use") /\ used' = Put(used, w, cached[w]) /\ UNCHANGED cached
       ELSE /\ disk.access # 0
            /\ used' = Put(used, w, disk)
            /\ IF ShouldRefresh(disk) /\ disk.refresh # 0
               THEN pc' = Put(pc, w, "refresh") /\ UNCHANGED cached
               ELSE pc' = Put(pc, w, "use") /\ cached' = Put(cached, w, disk)
    /\ again' = Put(again, w, FALSE)
    /\ UNCHANGED <<disk, server, lost, faults>>

Accepted(t) == t.access > expired /\ t.access \notin refused

\* send_once, compact_history_once, codex_models: a refused token is renewed
\* and the request repeated once.
Use(w) ==
    /\ pc[w] = "use"
    /\ pc' = Put(pc, w, IF Accepted(used[w]) \/ again[w] THEN "idle" ELSE "refresh")
    /\ again' = Put(again, w, ~Accepted(used[w]))
    /\ UNCHANGED <<disk, cached, used, server, lost, faults>>

Fault == faults < MaxFaults /\ faults' = faults + 1

\* The answer is lost, not an answer or of another account.
Unusable(w) ==
    /\ Fault /\ lost' = (lost \/ rotates)
    /\ pc' = Put(pc, w, "idle") /\ UNCHANGED used

KeepsRefreshToken(w) ==
    /\ issued' = issued + 1
    /\ accepted' = IF rotates THEN issued + 1 ELSE accepted
    /\ \/ /\ used' = Put(used, w, [access |-> issued + 1, refresh |-> used[w].refresh])
          /\ pc' = Put(pc, w, "persist")
          /\ UNCHANGED <<lost, faults>>
       \/ Unusable(w)

\* request_chatgpt_token_refresh, when the server renews: the answer has a new
\* access token and, if the server replaced it, a new refresh token.
Renewed(w) ==
    /\ issued' = issued + 1
    /\ accepted' = IF rotates THEN issued + 1 ELSE accepted
    /\ \/ /\ used' = Put(used, w, [access |-> issued + 1, refresh |-> accepted'])
          /\ pc' = Put(pc, w, "persist")
          /\ UNCHANGED <<lost, faults>>
       \/ Unusable(w)

\* refresh_material up to the write: without a refresh token, and when the
\* server refuses it or is not reached, an error.
Refresh(w) ==
    /\ pc[w] = "refresh"
    /\ \/ used[w].refresh # 0 /\ used[w].refresh = accepted /\ issued < MaxTokens /\ Renewed(w)
       \/ pc' = Put(pc, w, "idle") /\ UNCHANGED <<issued, accepted, used, lost, faults>>
    /\ UNCHANGED <<disk, cached, again, rotates, expired, refused>>

\* persist_refreshed_auth_json reads the file again, replaces the tokens and
\* writes it; then the copy is replaced.  When the file cannot be read or
\* written the new tokens are gone, and the write may have torn the file.
Persist(w) ==
    /\ pc[w] = "persist"
    /\ \/ /\ disk.access # 0
          /\ disk' = used[w]
          /\ cached' = Put(cached, w, used[w])
          /\ pc' = Put(pc, w, "use")
          /\ UNCHANGED <<lost, faults>>
       \/ /\ disk.access = 0 \/ Fault
          /\ disk' \in {disk, NoTokens}
          /\ lost' = (lost \/ disk'.refresh # accepted)
          /\ pc' = Put(pc, w, "idle")
          /\ UNCHANGED cached /\ (disk.access = 0 => UNCHANGED faults)
    /\ UNCHANGED <<used, again, server>>

\* Time passes, and the server withdraws a token.
Expire ==
    /\ expired < issued
    /\ expired' = expired + 1
    /\ UNCHANGED <<disk, cached, pc, used, again, issued, accepted, rotates, refused, lost, faults>>

Withdraw ==
    /\ refused' = refused \cup {issued} /\ issued \notin refused
    /\ UNCHANGED <<disk, cached, pc, used, again, issued, accepted, rotates, expired, lost, faults>>

\* An abort kills the worker that serves the request, wherever it is, the
\* writing of the file included.
Kill(w) ==
    /\ pc[w] # "idle" /\ Fault
    /\ disk' \in (IF pc[w] = "persist" THEN {disk, NoTokens} ELSE {disk})
    /\ lost' = (lost \/ (pc[w] = "persist" /\ disk'.refresh # accepted))
    /\ pc' = Put(pc, w, "idle") /\ cached' = Put(cached, w, NoTokens) /\ used' = Put(used, w, NoTokens)
    /\ UNCHANGED <<again, server>>

Init ==
    /\ disk \in {Tokens(1), [access |-> 1, refresh |-> 0]} /\ accepted = 1 /\ rotates \in BOOLEAN
    /\ issued = 1 /\ expired = 0 /\ refused = {}
    /\ cached = [w \in Workers |-> NoTokens] /\ used = cached
    /\ pc = [w \in Workers |-> "idle"] /\ again = [w \in Workers |-> FALSE]
    /\ lost = FALSE /\ faults = 0

Next ==
    \/ \E w \in Workers : Resolve(w) \/ Use(w) \/ Refresh(w) \/ Persist(w) \/ Kill(w)
    \/ Expire \/ Withdraw

Spec == Init /\ [][Next]_vars

-----------------------------------------------------------------------------
(* Properties.                                                             *)

\* The login survives what workers do at the same time: while none is about to
\* write, and no renewal was lost to a fault on its way from the server into
\* the file, auth.json holds the refresh token the server accepts, if it ever
\* held one.
LoginSurvives == ~lost /\ (\A w \in Workers : pc[w] # "persist") => disk.refresh \in {0, accepted}

=============================================================================
