----------------------------- MODULE Transcript -----------------------------
(***************************************************************************)
(* What a session promises about its transcript (all_messages): a log that *)
(* only grows, is saved whole or not at all, and is shown to the host by   *)
(* position.  A position, once shown, keeps its message until the process  *)
(* is replaced; a new process starts from what was saved.                  *)
(***************************************************************************)
EXTENDS Integers, Sequences

VARIABLES
    log,      \* the transcript
    saved,    \* the copy a new process would read
    shown     \* the positions the host has been shown

logVars == <<log, saved, shown>>

IsExtensionOf(t, s) == Len(s) <= Len(t) /\ SubSeq(t, 1, Len(s)) = s

Init ==
    /\ log = saved
    /\ shown = {}

\* Messages are added, the whole log may be saved, and positions are shown.
Write ==
    /\ IsExtensionOf(log', log)
    /\ saved' \in {saved, log'}
    /\ shown \subseteq shown'
    /\ shown' \subseteq 1..Len(log')

\* The process is replaced.
Recover ==
    /\ log' = saved
    /\ saved' = saved
    /\ shown' = {}

Next == Write \/ Recover

Spec == Init /\ [][Next]_logVars

=============================================================================
