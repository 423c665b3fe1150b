------------------------------ MODULE Telegram ------------------------------
(***************************************************************************)
(* What a Telegram channel does with incoming updates: long polling with   *)
(* an offset, the first private user becoming the administrator, approval  *)
(* of chats, the conversation id of a chat, and the host's ingress loop    *)
(* that hands messages to conversations.  The process may stop at any      *)
(* point; the security state and the id store are files whose writes may   *)
(* fail and then leave what they held.                                     *)
(***************************************************************************)
EXTENDS Naturals, Sequences, FiniteSets

CONSTANTS
    Users,       \* users; a user's private chat has the user's id
    Groups,      \* group chats
    Configured,  \* the administrators of the configuration, if any
    MaxUpdates,  \* bound: updates sent
    MaxCrashes,  \* bound: stops of the process
    MaxSaveErrors,    \* bound: failing writes of the id store
    MaxSecurityErrors \* bound: failing writes of the security state

TelegramAssumption ==
    /\ Users \cap Groups = {} /\ Configured \subseteq Users
    /\ IsFiniteSet(Users) /\ IsFiniteSet(Groups)
    /\ MaxUpdates \in Nat /\ MaxCrashes \in Nat
    /\ MaxSaveErrors \in Nat /\ MaxSecurityErrors \in Nat

VARIABLES
    sent,       \* updates: [user, chat, text, of]
    confirmed,  \* updates the server has been told are done
    offset,     \* the poll's offset less one
    hand,       \* updates of the batch that are left
    pc,         \* where the polling thread is: "poll", "take", "bootsave", "bootnote", "route", "decide", "ident"
    admins, chats,          \* the security state
    diskAdmins, diskChats,  \* and its file
    bosses,     \* everyone who has been an administrator so far
    told,       \* who was told to be an administrator, which chats were told the decision that stands
    ids, next,  \* the id store: ids of chats and the next index
    diskIds, diskNext,      \* and its file
    queue,      \* the host's queue of incoming messages: [chat, id, update]
    conv,       \* chats whose messages a conversation has received
    handled,    \* updates handled or dropped with an error
    received,   \* updates conversations have received
    crashes, errs, secErrs

vars == <<sent, confirmed, offset, hand, pc, admins, chats, diskAdmins, diskChats, bosses, told,
          ids, next, diskIds, diskNext, queue, conv, handled, received, crashes, errs, secErrs>>

security == <<admins, chats, diskAdmins, diskChats, bosses, told, secErrs>>
idstore == <<ids, next, diskIds, diskNext, errs>>
world == <<sent, confirmed, offset, queue, conv, received, crashes>>

Chats == Users \cup Groups
Decisions == {"approve", "reject"}
Texts == {"text", "menu", "empty"} \cup Decisions
Undecided == "Pending"
NoId == 0
Empty == [c \in {} |-> 0]
Put(f, k, v) == [x \in DOMAIN f \cup {k} |-> IF x = k THEN v ELSE f[x]]

U == sent[Head(hand)]

\* is_admin_private_chat.
AdminPrivate == U.chat \in admins /\ U.chat = U.user

\* handle_callback_query takes an update the same way handle_message does, after
\* it was acknowledged, and dispatches it for its chat.
Incoming(id) == [chat |-> U.chat, id |-> id, update |-> Head(hand)]

\* The update is done with: it was handled, or an error was logged.
Done ==
    /\ handled' = handled \cup {Head(hand)}
    /\ hand' = Tail(hand)
    /\ pc' = IF Len(hand) = 1 THEN "poll" ELSE "take"

-----------------------------------------------------------------------------
(* Users and polling.                                                      *)

\* A decision names any chat, groups and users' private chats alike.  Commands
\* outside a private chat are texts.
Send ==
    /\ Len(sent) < MaxUpdates
    /\ \E u \in Users, c \in Chats, t \in Texts, of \in Chats :
         /\ c \in Groups \cup {u}
         /\ t \in Decisions => c = u
         /\ t \in Decisions \/ of = c
         /\ sent' = Append(sent, [user |-> u, chat |-> c, text |-> t, of |-> of])
    /\ UNCHANGED <<confirmed, offset, hand, pc, security, idstore, queue, conv, handled, received, crashes>>

PollConfirms ==
    /\ pc = "poll"
    /\ Len(sent) > confirmed
    /\ confirmed' = Len(sent)
    /\ hand' = [i \in 1..(Len(sent) - confirmed) |-> confirmed + i]
    /\ pc' = "take"
    /\ UNCHANGED <<sent, offset, security, idstore, queue, conv, handled, received, crashes>>

\* getUpdates: what is below the offset is confirmed, the rest is delivered.  A
\* failing poll is tried again.
Poll ==
    /\ pc = "poll"
    /\ LET done == IF offset > confirmed THEN offset ELSE confirmed
       IN /\ Len(sent) > done
          /\ confirmed' = done
          /\ hand' = [i \in 1..(Len(sent) - done) |-> done + i]
    /\ pc' = "take"
    /\ UNCHANGED <<sent, offset, security, idstore, queue, conv, handled, received, crashes>>

-----------------------------------------------------------------------------
(* handle_message and handle_callback_query.                               *)

TakeBootsAny ==
    /\ pc = "take"
    /\ offset' = Head(hand)
    /\ IF U.chat = U.user
       THEN /\ admins' = admins \cup {U.user}
            /\ chats' = Put(chats, U.chat, "Approved")
            /\ bosses' = bosses \cup {U.user}
            /\ pc' = "bootsave"
       ELSE pc' = "route" /\ UNCHANGED <<admins, chats, bosses>>
    /\ UNCHANGED <<sent, confirmed, hand, diskAdmins, diskChats, told, secErrs, idstore, queue, conv, handled, received, crashes>>

\* bootstrap_first_private_admin_in_memory.
Take ==
    /\ pc = "take"
    /\ offset' = Head(hand)
    /\ IF U.chat = U.user /\ admins = {}
       THEN /\ admins' = {U.user}
            /\ chats' = Put(chats, U.chat, "Approved")
            /\ bosses' = bosses \cup {U.user}
            /\ pc' = "bootsave"
       ELSE pc' = "route" /\ UNCHANGED <<admins, chats, bosses>>
    /\ UNCHANGED <<sent, confirmed, hand, diskAdmins, diskChats, told, secErrs, idstore, queue, conv, handled, received, crashes>>

BootNoteOnly ==
    /\ pc = "bootsave"
    /\ pc' = "bootnote"
    /\ UNCHANGED <<hand, security, idstore, handled, world>>

\* save_security_state fails: memory keeps what was to be saved, and the error
\* ends the handling of the update.
SaveFails ==
    /\ secErrs < MaxSecurityErrors
    /\ secErrs' = secErrs + 1
    /\ UNCHANGED <<diskAdmins, diskChats>>
    /\ Done

\* bootstrap_first_private_admin: save_security_state.
BootSave ==
    /\ pc = "bootsave"
    /\ \/ diskAdmins' = admins /\ diskChats' = chats /\ pc' = "bootnote" /\ UNCHANGED <<hand, handled, secErrs>>
       \/ SaveFails
    /\ UNCHANGED <<admins, chats, bosses, told, idstore, world>>

\* The user is told; when that fails the update is dropped.
BootNote ==
    /\ pc = "bootnote"
    /\ \/ told' = told \cup {<<"admin", U.user>>} /\ pc' = "route" /\ UNCHANGED <<hand, handled>>
       \/ Done /\ UNCHANGED told
    /\ UNCHANGED <<admins, chats, diskAdmins, diskChats, bosses, secErrs, idstore, world>>

\* update_chat_state, in memory: what the chat was told before stands no more.
AdminCommand ==
    /\ pc = "route"
    /\ AdminPrivate /\ U.text \in Decisions
    /\ chats' = Put(chats, U.of, IF U.text = "approve" THEN "Approved" ELSE "Rejected")
    /\ told' = {x \in told : x[1] = "admin" \/ x[2] # U.of}
    /\ pc' = "decide"
    /\ UNCHANGED <<hand, admins, diskAdmins, diskChats, bosses, secErrs, idstore, handled, world>>

\* The decision is saved and the chat is told, unless that fails.
Decide ==
    /\ pc = "decide"
    /\ \/ /\ diskAdmins' = admins /\ diskChats' = chats
          /\ told' \in {told, told \cup {<<chats[U.of], U.of>>}}
          /\ Done
          /\ UNCHANGED secErrs
       \/ SaveFails /\ UNCHANGED told
    /\ UNCHANGED <<admins, chats, bosses, idstore, world>>

\* authorize_chat: the entry is made, saved, and decides.  An administrator's
\* private chat needs none.
Entered == IF AdminPrivate \/ U.chat \in DOMAIN chats THEN chats ELSE Put(chats, U.chat, Undecided)

AllowedUnlessRejected == AdminPrivate \/ Entered[U.chat] # "Rejected"

Allowed == AdminPrivate \/ Entered[U.chat] = "Approved"

Route ==
    /\ pc = "route"
    /\ ~(AdminPrivate /\ U.text \in Decisions)
    /\ chats' = Entered
    /\ \/ /\ IF AdminPrivate
             THEN UNCHANGED <<diskAdmins, diskChats>>
             ELSE diskAdmins' = admins /\ diskChats' = Entered
          /\ IF Allowed /\ U.text # "menu"
             THEN pc' = "ident" /\ UNCHANGED <<hand, handled>>
             ELSE Done
          /\ UNCHANGED secErrs
       \/ ~AdminPrivate /\ SaveFails
    /\ UNCHANGED <<admins, bosses, told, idstore, world>>

IdentUnsaved ==
    /\ pc = "ident"
    /\ IF U.chat \in DOMAIN ids
       THEN UNCHANGED <<ids, next>>
       ELSE ids' = Put(ids, U.chat, next) /\ next' = next + 1
    /\ queue' = Append(queue, Incoming(ids'[U.chat]))
    /\ Done
    /\ UNCHANGED <<sent, confirmed, offset, conv, received, crashes, security, diskIds, diskNext, errs>>

IdentAlwaysNew ==
    /\ pc = "ident"
    /\ ids' = Put(ids, U.chat, next) /\ next' = next + 1
    /\ diskIds' = ids' /\ diskNext' = next'
    /\ queue' = Append(queue, Incoming(next))
    /\ Done
    /\ UNCHANGED <<sent, confirmed, offset, conv, received, crashes, security, errs>>

\* get_or_create, and the message is dispatched unless it is empty.  When the
\* store cannot be written the new id stays in memory and the update is dropped.
Ident ==
    /\ pc = "ident"
    /\ LET known == U.chat \in DOMAIN ids
           new == IF known THEN ids ELSE Put(ids, U.chat, next)
       IN /\ ids' = new
          /\ next' = IF known THEN next ELSE next + 1
          /\ \/ /\ IF known THEN UNCHANGED <<diskIds, diskNext>> ELSE diskIds' = new /\ diskNext' = next'
                /\ queue' = IF U.text = "empty" THEN queue
                            ELSE Append(queue, Incoming(new[U.chat]))
                /\ UNCHANGED errs
             \/ /\ ~known /\ errs < MaxSaveErrors
                /\ errs' = errs + 1
                /\ UNCHANGED <<diskIds, diskNext, queue>>
    /\ Done
    /\ UNCHANGED <<sent, confirmed, offset, conv, received, crashes, security>>

-----------------------------------------------------------------------------
(* The host's ingress loop, and stops.                                     *)

\* handle_incoming_message: the conversation's files are made, it is started,
\* and its channel gets the message.
Deliver ==
    /\ queue # <<>>
    /\ LET q == Head(queue)
       IN /\ conv' = Put(conv, q.id, (IF q.id \in DOMAIN conv THEN conv[q.id] ELSE {}) \cup {q.chat})
          /\ received' = received \cup {q.update}
    /\ queue' = Tail(queue)
    /\ UNCHANGED <<sent, confirmed, offset, hand, pc, security, idstore, handled, crashes>>

\* The process stops and starts again from its files.  The administrators of
\* the configuration are added and saved; a start that cannot do so is no start.
Crash ==
    /\ crashes < MaxCrashes
    /\ crashes' = crashes + 1
    /\ offset' = 0 /\ hand' = <<>> /\ pc' = "poll"
    /\ admins' = diskAdmins \cup Configured /\ diskAdmins' = admins' /\ chats' = diskChats
    /\ ids' = diskIds /\ next' = diskNext
    /\ queue' = <<>>
    /\ UNCHANGED <<sent, confirmed, diskChats, bosses, told, secErrs, diskIds, diskNext, conv, handled, received, errs>>

-----------------------------------------------------------------------------

Init ==
    /\ sent = <<>> /\ confirmed = 0 /\ offset = 0 /\ hand = <<>> /\ pc = "poll"
    /\ admins = Configured /\ chats = Empty /\ diskAdmins = Configured /\ diskChats = Empty
    /\ bosses = Configured /\ told = {} /\ secErrs = 0
    /\ ids = Empty /\ next = 1 /\ diskIds = Empty /\ diskNext = 1
    /\ queue = <<>> /\ conv = Empty /\ handled = {} /\ received = {} /\ crashes = 0 /\ errs = 0

Thread == Poll \/ Take \/ BootSave \/ BootNote \/ AdminCommand \/ Decide \/ Route \/ Ident

Next == Send \/ Thread \/ Deliver \/ Crash

Spec == Init /\ [][Next]_vars

\* The polling thread and the ingress loop run; polls succeed again and again.
FairSpec == Spec /\ WF_vars(Thread) /\ WF_vars(Deliver)

-----------------------------------------------------------------------------
(* Properties.                                                             *)

TypeOK ==
    /\ confirmed \in 0..Len(sent) /\ offset \in 0..Len(sent)
    /\ admins \subseteq Users /\ diskAdmins \subseteq Users
    /\ DOMAIN chats \subseteq Chats
    /\ pc \in {"poll", "take", "bootsave", "bootnote", "route", "decide", "ident"}
    /\ (pc = "poll") = (hand = <<>>)
    /\ next \in 1..(Cardinality(Chats) + 1)

\* What a user or a chat was told about its rights, and was not decided anew
\* since, is on disk: a restart does not take it back, whichever writes fail.
ToldIsDurable ==
    \A x \in told : IF x[1] = "admin" THEN x[2] \in diskAdmins ELSE x[2] \in DOMAIN diskChats /\ diskChats[x[2]] = x[1]

\* Only one user ever becomes administrator by writing first, restarts included,
\* and none when the configuration names one.
OneBootstrap ==
    /\ Cardinality({x \in told : x[1] = "admin"}) <= 1
    /\ Configured # {} => admins = Configured

\* Who may grant rights: an administrator who was saved as such or, when the
\* security state cannot always be written, anybody who was one.
Authority == IF MaxSecurityErrors = 0 THEN diskAdmins ELSE bosses

\* A message reaches a conversation only from the private chat of an
\* administrator or from a chat, private or a group, that one has approved,
\* restarts included.
ReceivedIsApproved ==
    \A i \in received :
        \/ sent[i].chat = sent[i].user /\ sent[i].user \in Authority
        \/ \E j \in DOMAIN sent : sent[j].text = "approve" /\ sent[j].of = sent[i].chat /\ sent[j].user \in Authority

\* An update is confirmed to the server only when it was handled.
ConfirmedIsHandled == 1..confirmed \subseteq handled

\* Two chats never share a conversation.
ConversationsSeparate == \A id \in DOMAIN conv : Cardinality(conv[id]) <= 1

\* What the Telegram channel takes in survives its restarts: what it told and
\* confirmed is done and saved, nobody unapproved gets through, and each chat
\* has a conversation of its own as long as its id can be saved.
IngressIsDurable ==
    /\ TypeOK
    /\ ToldIsDurable
    /\ OneBootstrap
    /\ ReceivedIsApproved
    /\ ConfirmedIsHandled
    /\ MaxSaveErrors = 0 => ConversationsSeparate

\* Every update is handled in the end, restarts included.
UpdatesHandled == \A i \in 1..MaxUpdates : Len(sent) >= i ~> i \in handled

=============================================================================
