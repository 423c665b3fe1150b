--------------------------- MODULE TelegramProofs ---------------------------
(***************************************************************************)
(* Theorems about Telegram, for any number of users, groups, updates,      *)
(* failing writes and restarts: an update is confirmed only when it was    *)
(* handled, rights that were told are saved, one user becomes the          *)
(* administrator, only approved messages get through, and chats do not     *)
(* share a conversation.                                                   *)
(***************************************************************************)
EXTENDS Telegram, SequenceTheorems, FiniteSetTheorems, TLAPS

Update == [user : Users, chat : Chats, text : Texts, of : Chats]

Handling == {"bootsave", "bootnote", "route", "decide", "ident"}

\* A private chat is that of its user.
SentInv ==
    /\ sent \in Seq(Update)
    /\ \A i \in 1..Len(sent) : sent[i].chat \in Groups \cup {sent[i].user}

\* The batch is a run of updates.  All before it were handled, and the offset
\* is that of the update in hand or, before it is taken, behind it.
HandInv ==
    /\ confirmed \in 0..Len(sent) /\ offset \in 0..Len(sent)
    /\ pc \in {"poll", "take"} \cup Handling
    /\ hand \in Seq(Nat)
    /\ pc = "poll" <=> hand = <<>>
    /\ \A i \in 1..Len(hand) : hand[i] = hand[1] + (i - 1) /\ hand[i] \in 1..Len(sent)
    /\ 1..confirmed \subseteq handled
    /\ pc = "poll" => 1..offset \subseteq handled
    /\ pc # "poll" => 1..(hand[1] - 1) \subseteq handled
    /\ pc = "take" => offset < hand[1]
    /\ pc \in Handling => offset = hand[1]

\* The chat is that of an administrator or one an administrator approved.
Granted(s, chat, A) ==
    chat \in A \/ \E j \in 1..Len(s) : s[j].text = "approve" /\ s[j].of = chat /\ s[j].user \in A

IsSecurity(s, A, f) ==
    /\ A \subseteq Users
    /\ f \in [DOMAIN f -> {"Approved", "Rejected", "Pending"}] /\ DOMAIN f \subseteq Chats
    /\ \A c \in DOMAIN f : f[c] = "Approved" => Granted(s, c, A)

\* Authority, for the rights in memory.
Power == IF MaxSecurityErrors = 0 THEN admins ELSE bosses

\* The administrators are the configured ones or one user.  Those on disk are
\* administrators and, when every write succeeds, all of them are on disk before
\* anything is done in their name.
SecurityInv ==
    /\ IsSecurity(sent, Power, chats) /\ IsSecurity(sent, Authority, diskChats)
    /\ admins \subseteq bosses /\ bosses \subseteq Users
    /\ Configured \subseteq diskAdmins /\ diskAdmins \subseteq admins
    /\ \A u, v \in admins : u = v \/ admins = Configured
    /\ Configured # {} => admins = Configured
    /\ secErrs \in Nat
    /\ MaxSecurityErrors = 0 /\ pc # "bootsave" => diskAdmins = admins
    /\ pc = "bootsave" => U.user \in admins
    /\ pc = "bootnote" => U.user \in diskAdmins
    /\ pc \in {"bootsave", "bootnote"} => Configured = {}

\* What was told is saved, and memory agrees.
ToldInv ==
    /\ told \subseteq ({"admin"} \X Users) \cup ({"Approved", "Rejected"} \X Chats)
    /\ \A u \in Users : <<"admin", u>> \in told => u \in diskAdmins /\ Configured = {}
    /\ \A d \in {"Approved", "Rejected"}, c \in Chats : <<d, c>> \in told =>
         /\ c \in DOMAIN diskChats /\ diskChats[c] = d
         /\ c \in DOMAIN chats /\ chats[c] = d
    /\ told # {} => diskAdmins # {}
    /\ pc = "decide" => U.of \in DOMAIN chats /\ chats[U.of] \in {"Approved", "Rejected"} /\ admins # {}

\* Whatever is on its way to a conversation was granted by such rights.
ReceivedInv ==
    /\ queue \in Seq([chat : Chats, id : Nat, update : Nat])
    /\ \A i \in received : i \in 1..Len(sent) /\ Granted(sent, sent[i].chat, Authority)
    /\ \A i \in 1..Len(queue) :
         queue[i].update \in 1..Len(sent) /\ Granted(sent, sent[queue[i].update].chat, Authority)
    /\ pc = "ident" => Granted(sent, U.chat, Authority)

\* An id table is one to one, and its next index is behind all its ids.
IsIdTable(f, n) ==
    /\ DOMAIN f \subseteq Chats
    /\ f \in [DOMAIN f -> Nat]
    /\ n = Cardinality(DOMAIN f) + 1
    /\ \A c \in DOMAIN f : f[c] < n
    /\ \A c, d \in DOMAIN f : f[c] = f[d] => c = d

IdInv == IsIdTable(ids, next) /\ IsIdTable(diskIds, diskNext)

\* With a table that can be saved, a conversation has the messages of the chat
\* the saved table names.
ConvInv ==
    /\ errs \in Nat
    /\ MaxSaveErrors = 0 =>
         /\ diskIds = ids /\ diskNext = next
         /\ \A i \in 1..Len(queue) : queue[i].chat \in DOMAIN ids /\ ids[queue[i].chat] = queue[i].id
         /\ \A id \in DOMAIN conv : \A c \in conv[id] : c \in DOMAIN ids /\ ids[c] = id

-----------------------------------------------------------------------------
(* Shared facts.                                                           *)

\* The update in hand was sent.
LEMMA InHand ==
    ASSUME SentInv, HandInv, pc # "poll"
    PROVE  /\ Head(hand) = hand[1] /\ hand[1] \in 1..Len(sent) /\ Len(hand) >= 1
           /\ U = sent[hand[1]] /\ U \in Update /\ U.chat \in Groups \cup {U.user}
<1>1. hand \in Seq(Nat) /\ hand # <<>>
  BY DEF HandInv
<1>2. Len(hand) >= 1 /\ Len(hand) \in Nat /\ Head(hand) = hand[1]
  BY <1>1, EmptySeq
<1>3. hand[1] \in 1..Len(sent)
  BY <1>2 DEF HandInv
<1>4. sent[hand[1]] \in Update /\ sent[hand[1]].chat \in Groups \cup {sent[hand[1]].user}
  BY <1>3 DEF SentInv
<1> QED
  BY <1>2, <1>3, <1>4 DEF U

\* It stays in hand as long as the batch does, also when more is sent.
LEMMA StaysInHand ==
    ASSUME SentInv, HandInv, pc # "poll", hand' = hand,
           sent' = sent \/ \E u : sent' = Append(sent, u)
    PROVE  U' = U
<1>1. Head(hand) = hand[1] /\ hand[1] \in 1..Len(sent)
  BY InHand
<1>2. sent'[hand[1]] = sent[hand[1]]
  BY <1>1, AppendProperties DEF SentInv
<1> QED
  BY <1>1, <1>2 DEF U

\* What a queue holds that was extended, or not.
LEMMA AppendCases ==
    ASSUME NEW S, NEW q \in Seq(S), NEW x \in S, NEW r, r = q \/ r = Append(q, x)
    PROVE  /\ r \in Seq(S)
           /\ \A i \in 1..Len(r) : (i \in 1..Len(q) /\ r[i] = q[i]) \/ r[i] = x
<1>1. CASE r = q
  BY <1>1
<1>2. CASE r = Append(q, x)
  <2>1. /\ r \in Seq(S) /\ Len(r) = Len(q) + 1 /\ Len(q) \in Nat
        /\ \A i \in 1..Len(q) : r[i] = q[i]
        /\ r[Len(q) + 1] = x
    BY <1>2, AppendProperties
  <2>2. \A i \in 1..Len(r) : i \in 1..Len(q) \/ i = Len(q) + 1
    BY <2>1
  <2> QED
    BY <2>1, <2>2
<1> QED
  BY <1>1, <1>2

-----------------------------------------------------------------------------
(* Updates.                                                                *)

LEMMA SentStep ==
    ASSUME TelegramAssumption, SentInv, [Next]_vars
    PROVE  /\ SentInv'
           /\ Len(sent) <= Len(sent') /\ Len(sent) \in Nat /\ Len(sent') \in Nat
           /\ \A i \in 1..Len(sent) : sent'[i] = sent[i]
           /\ ~Send => sent' = sent
<1>1. CASE Send
  <2>1. PICK u \in Users, c \in Chats, t \in Texts, g \in Chats :
           /\ c \in Groups \cup {u}
           /\ sent' = Append(sent, [user |-> u, chat |-> c, text |-> t, of |-> g])
    BY <1>1 DEF Send
  <2> DEFINE x == [user |-> u, chat |-> c, text |-> t, of |-> g]
  <2>2. x \in Update /\ x.chat \in Groups \cup {x.user}
    BY <2>1 DEF Update
  <2> HIDE DEF x
  <2>3. sent \in Seq(Update) /\ sent' = Append(sent, x)
    BY <2>1 DEF SentInv, x
  <2>4. /\ sent' \in Seq(Update) /\ Len(sent') = Len(sent) + 1 /\ Len(sent) \in Nat
        /\ \A i \in 1..Len(sent) : sent'[i] = sent[i]
        /\ sent'[Len(sent) + 1] = x
    BY <2>2, <2>3, AppendProperties
  <2>5. SentInv'
    BY <2>2, <2>4 DEF SentInv
  <2> QED
    BY <1>1, <2>4, <2>5
<1>2. CASE ~Send
  <2>1. sent' = sent
    BY <1>2 DEF Next, Thread, Poll, Take, BootSave, BootNote, AdminCommand, Decide, Route,
                Ident, Deliver, Crash, vars, world
  <2> QED
    BY <2>1 DEF SentInv
<1> QED
  BY <1>1, <1>2

\* An update that is done with was handled, and the next one follows it.
LEMMA DoneKeepsHand ==
    ASSUME SentInv, HandInv, pc \in Handling, Done, UNCHANGED <<sent, confirmed, offset>>
    PROVE  HandInv'
<1>1. hand \in Seq(Nat) /\ Head(hand) = hand[1] /\ hand[1] \in 1..Len(sent) /\ Len(hand) >= 1
  BY InHand DEF HandInv, Handling
<1>2. /\ Tail(hand) \in Seq(Nat) /\ Len(Tail(hand)) = Len(hand) - 1 /\ Len(hand) \in Nat
      /\ \A i \in 1..Len(Tail(hand)) : Tail(hand)[i] = hand[i + 1]
  BY <1>1, HeadTailProperties, EmptySeq
<1>3. hand' = Tail(hand) /\ handled' = handled \cup {hand[1]}
  BY <1>1 DEF Done
<1>4. Len(sent) \in Nat
  BY DEF SentInv
<1>5. \A i \in 1..Len(hand') : hand'[i] = hand'[1] + (i - 1) /\ hand'[i] \in 1..Len(sent)
  BY <1>1, <1>2, <1>3, <1>4 DEF HandInv
<1>6. 1..hand[1] \subseteq handled'
  BY <1>1, <1>3, <1>4 DEF HandInv, Handling
<1>7. CASE Len(hand) = 1
  <2>1. pc' = "poll" /\ hand' = <<>>
    BY <1>1, <1>2, <1>3, <1>7, EmptySeq DEF Done
  <2> QED
    BY <1>2, <1>3, <1>5, <1>6, <2>1 DEF HandInv, Handling
<1>8. CASE Len(hand) # 1
  <2>1. pc' = "take" /\ Len(hand') >= 1 /\ hand' # <<>>
    <3>1. pc' = "take"
      BY <1>8 DEF Done
    <3>2. Len(hand') >= 1
      BY <1>1, <1>2, <1>3, <1>8
    <3> QED
      BY <3>1, <3>2
  <2>2. hand'[1] = hand[1] + 1
    BY <1>1, <1>2, <1>3, <2>1 DEF HandInv
  <2> QED
    BY <1>1, <1>2, <1>3, <1>4, <1>5, <1>6, <2>1, <2>2 DEF HandInv, Handling
<1> QED
  BY <1>7, <1>8

LEMMA HandStep ==
    ASSUME TelegramAssumption, SentInv, HandInv, [Next]_vars
    PROVE  HandInv'
<1>1. Len(sent) <= Len(sent') /\ Len(sent) \in Nat /\ Len(sent') \in Nat /\ (~Send => sent' = sent)
  BY SentStep
<1>2. CASE Send \/ Deliver \/ UNCHANGED vars
  <2>1. UNCHANGED <<confirmed, offset, pc, hand, handled>>
    BY <1>2 DEF Send, Deliver, vars
  <2> QED
    BY <1>1, <2>1 DEF HandInv
<1>3. CASE Poll
  <2> DEFINE done == IF offset > confirmed THEN offset ELSE confirmed
             h == [i \in 1..(Len(sent) - done) |-> done + i]
  <2>1. /\ pc = "poll" /\ pc' = "take" /\ Len(sent) > done /\ confirmed' = done /\ hand' = h
        /\ UNCHANGED <<sent, offset, handled>>
    BY <1>3 DEF Poll
  <2>2. /\ done \in 0..Len(sent) /\ offset <= done /\ 1..done \subseteq handled
    BY <2>1 DEF HandInv
  <2> HIDE DEF done
  <2>3. h \in Seq(Nat) /\ Len(h) = Len(sent) - done /\ \A i \in 1..Len(h) : h[i] = done + i
    BY <1>1, <2>1, <2>2
  <2> HIDE DEF h
  <2>4. h # <<>> /\ h[1] = done + 1
    BY <1>1, <2>1, <2>2, <2>3
  <2> QED
    BY <1>1, <2>1, <2>2, <2>3, <2>4 DEF HandInv, Handling
<1>4. CASE Take
  <2>1. /\ pc = "take" /\ offset' = Head(hand) /\ UNCHANGED <<sent, hand, confirmed, handled>>
        /\ pc' \in {"bootsave", "route"}
    BY <1>4 DEF Take
  <2>2. Head(hand) = hand[1] /\ hand[1] \in 1..Len(sent)
    BY <2>1, InHand
  <2> QED
    BY <1>1, <2>1, <2>2 DEF HandInv, Handling
<1>5. CASE AdminCommand
  <2>1. /\ pc \in Handling /\ pc' \in Handling
        /\ UNCHANGED <<sent, hand, confirmed, offset, handled>>
    BY <1>5 DEF AdminCommand, world, Handling
  <2> QED
    BY <2>1 DEF HandInv, Handling
<1>6. CASE BootSave \/ BootNote \/ Decide \/ Route \/ Ident
  <2>1. /\ pc \in Handling /\ UNCHANGED <<sent, confirmed, offset>>
        /\ Done \/ (pc' \in Handling /\ UNCHANGED <<hand, handled>>)
    BY <1>6 DEF BootSave, SaveFails, BootNote, Decide, Route, Ident, world, Handling
  <2> QED
    BY <2>1, DoneKeepsHand DEF HandInv, Handling
<1>7. CASE Crash
  BY <1>7 DEF Crash, HandInv, Handling
<1> QED
  BY <1>2, <1>3, <1>4, <1>5, <1>6, <1>7 DEF Next, Thread

-----------------------------------------------------------------------------
(* Rights.                                                                 *)

\* What was granted stays granted when more is sent or somebody becomes
\* administrator.
LEMMA GrantStays ==
    ASSUME TelegramAssumption, SentInv, [Next]_vars, NEW A, NEW B, A \subseteq B, NEW c, Granted(sent, c, A)
    PROVE  Granted(sent', c, B)
<1>1. /\ Len(sent) <= Len(sent') /\ Len(sent) \in Nat /\ Len(sent') \in Nat
      /\ \A i \in 1..Len(sent) : sent'[i] = sent[i]
  BY SentStep
<1>2. CASE c \in A
  BY <1>2 DEF Granted
<1>3. CASE c \notin A
  <2>1. PICK j \in 1..Len(sent) : sent[j].text = "approve" /\ sent[j].of = c /\ sent[j].user \in A
    BY <1>3 DEF Granted
  <2>2. j \in 1..Len(sent') /\ sent'[j] = sent[j]
    BY <1>1, <2>1
  <2> QED
    BY <2>1, <2>2 DEF Granted
<1> QED
  BY <1>2, <1>3

\* A table of chats stays sound, with more administrators or more entries.
LEMMA SecurityStays ==
    ASSUME TelegramAssumption, SentInv, [Next]_vars,
           NEW A, NEW B, NEW f, IsSecurity(sent, A, f), A \subseteq B, B \subseteq Users
    PROVE  IsSecurity(sent', B, f)
<1>1. \A c \in DOMAIN f : f[c] = "Approved" => Granted(sent', c, B)
  BY GrantStays DEF IsSecurity
<1> QED
  BY <1>1 DEF IsSecurity

LEMMA SecurityPut ==
    ASSUME TelegramAssumption, SentInv, [Next]_vars,
           NEW A, NEW B, NEW f, IsSecurity(sent, A, f), A \subseteq B, B \subseteq Users,
           NEW k \in Chats, NEW d \in {"Approved", "Rejected", "Pending"},
           d = "Approved" => Granted(sent', k, B)
    PROVE  IsSecurity(sent', B, Put(f, k, d))
<1> DEFINE g == Put(f, k, d)
<1>1. /\ DOMAIN g = DOMAIN f \cup {k} /\ g[k] = d
      /\ \A x \in DOMAIN f : x # k => g[x] = f[x]
  BY DEF Put
<1>2. \A x \in DOMAIN g : g[x] \in {"Approved", "Rejected", "Pending"}
  BY <1>1 DEF IsSecurity
<1>3. g = [x \in DOMAIN g |-> g[x]]
  BY DEF Put
<1> HIDE DEF g
<1>4. DOMAIN g \subseteq Chats /\ g \in [DOMAIN g -> {"Approved", "Rejected", "Pending"}]
  BY <1>1, <1>2, <1>3 DEF IsSecurity
<1>5. \A c \in DOMAIN g : g[c] = "Approved" => Granted(sent', c, B)
  BY <1>1, GrantStays DEF IsSecurity
<1>6. IsSecurity(sent', B, g)
  BY <1>4, <1>5 DEF IsSecurity
<1> QED
  BY <1>6 DEF g

\* Who may grant rights, by what is in memory and what is on disk.
LEMMA Powers ==
    ASSUME SecurityInv
    PROVE  /\ Authority \subseteq Power /\ Power \subseteq Users /\ admins \subseteq Power
           /\ diskAdmins \subseteq Authority
           /\ pc # "bootsave" => Authority = Power
           /\ IsSecurity(sent, Power, chats) /\ IsSecurity(sent, Authority, diskChats)
BY DEF SecurityInv, Power, Authority

\* What is left of the invariant once the tables of chats are sound.
LEMMA SecurityKept ==
    ASSUME SecurityInv, UNCHANGED <<admins, bosses>>,
           IsSecurity(sent', Power', chats'), IsSecurity(sent', Authority', diskChats'),
           secErrs' \in Nat, diskAdmins' = diskAdmins \/ diskAdmins' = admins,
           MaxSecurityErrors = 0 /\ pc = "bootsave" /\ pc' # "bootsave" => diskAdmins' = admins,
           pc' = "bootsave" => pc = "bootsave" /\ U' = U,
           pc' = "bootnote" => U' = U /\ (pc = "bootnote" \/ (pc = "bootsave" /\ diskAdmins' = admins))
    PROVE  SecurityInv'
<1>1. /\ admins' \subseteq bosses' /\ bosses' \subseteq Users
      /\ Configured \subseteq diskAdmins' /\ diskAdmins' \subseteq admins'
      /\ \A u, v \in admins' : u = v \/ admins' = Configured
      /\ Configured # {} => admins' = Configured
  BY DEF SecurityInv
<1>2. MaxSecurityErrors = 0 /\ pc' # "bootsave" => diskAdmins' = admins'
  BY DEF SecurityInv
<1>3. /\ pc' = "bootsave" => U'.user \in admins'
      /\ pc' = "bootnote" => U'.user \in diskAdmins'
      /\ pc' \in {"bootsave", "bootnote"} => Configured = {}
  BY DEF SecurityInv
<1>4. QED
  BY <1>1, <1>2, <1>3 DEF SecurityInv

\* A failing write changes nothing but its count, and needs a bound on it.
LEMMA FailedSave ==
    ASSUME SecurityInv, SaveFails
    PROVE  /\ UNCHANGED <<diskAdmins, diskChats>> /\ secErrs' \in Nat /\ MaxSecurityErrors # 0
           /\ pc' \in {"poll", "take"}
BY DEF SecurityInv, SaveFails, Done

\* Every step keeps the rights in order.
LEMMA SecurityStep ==
    ASSUME TelegramAssumption, SentInv, HandInv, SecurityInv, [Next]_vars
    PROVE  SecurityInv'
<1>1. /\ Authority \subseteq Power /\ Power \subseteq Users /\ admins \subseteq Power
      /\ diskAdmins \subseteq Authority
      /\ pc # "bootsave" => Authority = Power
      /\ IsSecurity(sent, Power, chats) /\ IsSecurity(sent, Authority, diskChats)
  BY Powers
<1>2. secErrs \in Nat
  BY DEF SecurityInv
<1>3. CASE Send \/ Poll \/ BootNote \/ Ident \/ Deliver \/ UNCHANGED vars
  <2>1. UNCHANGED <<admins, chats, diskAdmins, diskChats, bosses, secErrs>>
    BY <1>3 DEF Send, Poll, BootNote, Ident, Deliver, vars, security
  <2>2. Power' = Power /\ Authority' = Authority
    BY <2>1 DEF Power, Authority
  <2>3. IsSecurity(sent', Power', chats') /\ IsSecurity(sent', Authority', diskChats')
    BY <1>1, <2>1, <2>2, SecurityStays
  <2>4. \/ pc' = pc /\ (pc \in {"bootsave", "bootnote"} => hand' = hand)
        \/ pc # "bootsave" /\ pc' \in {"take", "route", "poll"}
    BY <1>3 DEF Send, Poll, BootNote, Ident, Deliver, vars, Done
  <2>5. pc' \in {"bootsave", "bootnote"} => pc' = pc /\ U' = U
    <3>1. pc' \in {"bootsave", "bootnote"} => pc' = pc /\ pc # "poll" /\ hand' = hand
      BY <2>4
    <3>2. sent' = sent \/ \E u : sent' = Append(sent, u)
      BY SentStep DEF Send
    <3> QED
      BY <3>1, <3>2, StaysInHand
  <2>6. pc = "bootsave" => pc' = "bootsave"
    BY <2>4
  <2> QED
    BY <1>2, <2>1, <2>3, <2>5, <2>6, SecurityKept
<1>4. CASE Take
  <2>1. /\ pc = "take" /\ UNCHANGED <<sent, hand, diskAdmins, diskChats, secErrs>>
    BY <1>4 DEF Take
  <2>2. U' = U /\ U \in Update /\ U.chat \in Groups \cup {U.user}
    BY <2>1, InHand, StaysInHand
  <2>3. CASE U.chat = U.user /\ admins = {}
    <3>1. /\ admins' = {U.user} /\ chats' = Put(chats, U.chat, "Approved") /\ pc' = "bootsave"
          /\ bosses' = bosses \cup {U.user}
      BY <1>4, <2>3 DEF Take
    <3>2. U.user \in Users /\ U.chat \in Chats
      BY <2>2 DEF Update
    <3>3. Power \subseteq Power' /\ Power' \subseteq Users /\ U.user \in Power' /\ Authority \subseteq Authority'
          /\ Authority' \subseteq Users
      BY <1>1, <2>1, <2>3, <3>1, <3>2 DEF Power, Authority, SecurityInv
    <3>4. Granted(sent', U.chat, Power')
      BY <2>3, <3>3 DEF Granted
    <3>5. IsSecurity(sent', Power', Put(chats, U.chat, "Approved"))
      BY <1>1, <3>2, <3>3, <3>4, SecurityPut
    <3>6. IsSecurity(sent', Authority', diskChats')
      BY <1>1, <2>1, <3>3, SecurityStays
    <3>7. /\ admins' \subseteq bosses' /\ bosses' \subseteq Users
          /\ Configured \subseteq diskAdmins' /\ diskAdmins' \subseteq admins'
          /\ \A u, v \in admins' : u = v
          /\ Configured = {}
      BY <2>1, <2>3, <3>1, <3>2 DEF SecurityInv
    <3> QED
      BY <1>2, <2>1, <2>2, <3>1, <3>5, <3>6, <3>7 DEF SecurityInv
  <2>4. CASE ~(U.chat = U.user /\ admins = {})
    <3>1. pc' = "route" /\ UNCHANGED <<admins, chats, bosses>>
      BY <1>4, <2>4 DEF Take
    <3>2. Power' = Power /\ Authority' = Authority
      BY <2>1, <3>1 DEF Power, Authority
    <3>3. IsSecurity(sent', Power', chats') /\ IsSecurity(sent', Authority', diskChats')
      BY <1>1, <2>1, <3>1, <3>2, SecurityStays
    <3> QED
      BY <1>2, <2>1, <3>1, <3>3, SecurityKept
  <2> QED
    BY <2>3, <2>4
<1>5. CASE BootSave
  <2>1. pc = "bootsave" /\ UNCHANGED <<sent, admins, chats, bosses>>
    BY <1>5 DEF BootSave, world
  <2>2. Power' = Power
    BY <2>1 DEF Power
  <2>3. IsSecurity(sent', Power', chats')
    BY <1>1, <2>1, <2>2, SecurityStays
  <2>4. CASE diskAdmins' = admins /\ diskChats' = chats /\ pc' = "bootnote" /\ UNCHANGED <<hand, secErrs>>
    <3>1. Authority' = Power
      BY <2>1, <2>4 DEF Power, Authority
    <3>2. IsSecurity(sent', Authority', diskChats')
      BY <1>1, <2>1, <2>4, <3>1, SecurityStays
    <3>3. U' = U
      BY <2>1, <2>4, StaysInHand
    <3> QED
      BY <1>2, <2>1, <2>3, <2>4, <3>2, <3>3, SecurityKept
  <2>5. CASE SaveFails
    <3>1. /\ UNCHANGED <<diskAdmins, diskChats>> /\ secErrs' \in Nat /\ MaxSecurityErrors # 0
          /\ pc' \in {"poll", "take"}
      BY <2>5, FailedSave
    <3>2. Authority' = Authority
      BY <2>1, <3>1 DEF Authority
    <3>3. IsSecurity(sent', Authority', diskChats')
      BY <1>1, <2>1, <3>1, <3>2, SecurityStays
    <3> QED
      BY <2>1, <2>3, <3>1, <3>3, SecurityKept
  <2> QED
    BY <1>5, <2>4, <2>5 DEF BootSave
<1>6. CASE AdminCommand
  <2> DEFINE d == IF U.text = "approve" THEN "Approved" ELSE "Rejected"
  <2>1. /\ pc = "route" /\ pc' = "decide" /\ UNCHANGED <<sent, hand, admins, diskAdmins, diskChats, bosses, secErrs>>
        /\ U.chat \in admins /\ U.chat = U.user /\ chats' = Put(chats, U.of, d)
    BY <1>6 DEF AdminCommand, AdminPrivate, world
  <2>2. U \in Update /\ hand[1] \in 1..Len(sent) /\ U = sent[hand[1]]
    BY <2>1, InHand
  <2>3. U.of \in Chats
    BY <2>2 DEF Update
  <2>4. Power' = Power /\ Authority' = Authority
    BY <2>1 DEF Power, Authority
  <2>5. U.user \in Power'
    BY <1>1, <2>1, <2>4
  <2>6. d = "Approved" => Granted(sent', U.of, Power')
    BY <2>1, <2>2, <2>5 DEF Granted
  <2>7. d \in {"Approved", "Rejected", "Pending"}
    OBVIOUS
  <2> HIDE DEF d
  <2>8. IsSecurity(sent', Power', Put(chats, U.of, d))
    BY <1>1, <2>1, <2>3, <2>4, <2>6, <2>7, SecurityPut
  <2>9. IsSecurity(sent', Authority', diskChats')
    BY <1>1, <2>1, <2>4, SecurityStays
  <2> QED
    BY <1>2, <2>1, <2>8, <2>9, SecurityKept
<1>7. CASE Decide \/ Route
  <2>1. /\ pc # "bootsave" /\ pc' \notin {"bootsave", "bootnote"} /\ UNCHANGED <<sent, admins, bosses>>
        /\ chats' = chats \/ chats' = Entered
        /\ \/ diskAdmins' = admins /\ diskChats' = chats' /\ UNCHANGED secErrs
           \/ UNCHANGED <<diskAdmins, diskChats, secErrs>>
           \/ SaveFails
    BY <1>7 DEF Decide, Route, SaveFails, Done, world
  <2>2. U.chat \in Chats
    <3>1. pc # "poll"
      BY <1>7 DEF Decide, Route
    <3> QED
      BY <3>1, InHand DEF Update
  <2>3. Power' = Power /\ Authority' = Power
    <3>1. diskAdmins' = diskAdmins \/ diskAdmins' = admins
      BY <2>1, FailedSave
    <3>2. MaxSecurityErrors = 0 => diskAdmins = admins
      BY <2>1 DEF SecurityInv
    <3> QED
      BY <2>1, <3>1, <3>2 DEF Power, Authority
  <2>4. IsSecurity(sent', Power', chats')
    <3>1. IsSecurity(sent', Power', chats)
      BY <1>1, <2>3, SecurityStays
    <3>2. IsSecurity(sent', Power', Put(chats, U.chat, "Pending"))
      BY <1>1, <2>2, <2>3, SecurityPut
    <3>3. Entered = chats \/ Entered = Put(chats, U.chat, "Pending")
      BY DEF Entered, Undecided
    <3> QED
      BY <2>1, <3>1, <3>2, <3>3
  <2>5. IsSecurity(sent', Authority', diskChats')
    <3>1. IsSecurity(sent', Authority', diskChats)
      BY <1>1, <2>3, SecurityStays
    <3> QED
      BY <2>1, <2>3, <2>4, <3>1, FailedSave
  <2>6. secErrs' \in Nat /\ (diskAdmins' = diskAdmins \/ diskAdmins' = admins)
    BY <1>2, <2>1, FailedSave
  <2> QED
    BY <2>1, <2>4, <2>5, <2>6, SecurityKept
<1>8. CASE Crash
  <2>1. /\ pc' = "poll" /\ UNCHANGED <<diskChats, bosses, secErrs>>
        /\ admins' = diskAdmins \cup Configured /\ diskAdmins' = admins' /\ chats' = diskChats
    BY <1>8 DEF Crash
  <2>2. admins' = diskAdmins /\ diskAdmins' = diskAdmins
    BY <2>1 DEF SecurityInv
  <2>3. Authority' = Authority /\ Power' = Authority
    BY <2>1, <2>2 DEF Authority, Power
  <2>4. IsSecurity(sent', Power', chats') /\ IsSecurity(sent', Authority', diskChats')
    BY <1>1, <2>1, <2>3, SecurityStays
  <2>5. /\ admins' \subseteq bosses' /\ bosses' \subseteq Users
        /\ Configured \subseteq diskAdmins' /\ diskAdmins' \subseteq admins'
        /\ \A u, v \in admins' : u = v \/ admins' = Configured
        /\ Configured # {} => admins' = Configured
    BY <2>1, <2>2 DEF SecurityInv
  <2> QED
    BY <1>2, <2>1, <2>2, <2>4, <2>5 DEF SecurityInv
<1> QED
  BY <1>3, <1>4, <1>5, <1>6, <1>7, <1>8 DEF Next, Thread

\* Every step keeps what was told.
LEMMA ToldStep ==
    ASSUME TelegramAssumption, SentInv, HandInv, SecurityInv, ToldInv, [Next]_vars
    PROVE  ToldInv'
<1> DEFINE Decision == {"Approved", "Rejected"}
<1>1. \A d \in Decision, c \in Chats : <<d, c>> \in told =>
         c \in DOMAIN diskChats /\ diskChats[c] = d /\ c \in DOMAIN chats /\ chats[c] = d
  BY DEF ToldInv
<1>2. pc # "poll" => U \in Update /\ U.chat \in Chats
  BY InHand DEF Update
<1>3. diskAdmins \subseteq admins
  BY DEF SecurityInv
<1>4. CASE Send \/ Poll \/ Ident \/ Deliver \/ UNCHANGED vars
  <2>1. UNCHANGED <<told, chats, admins, diskAdmins, diskChats>>
    BY <1>4 DEF Send, Poll, Ident, Deliver, vars, security
  <2>2. (pc' = pc /\ hand' = hand) \/ (pc # "decide" /\ pc' # "decide")
    BY <1>4 DEF Send, Poll, Ident, Deliver, vars, Done
  <2>3. pc' = "decide" => pc = "decide" /\ U' = U
    <3>1. sent' = sent \/ \E u : sent' = Append(sent, u)
      BY SentStep DEF Send
    <3> QED
      BY <2>2, <3>1, StaysInHand
  <2> QED
    BY <2>1, <2>3 DEF ToldInv
<1>5. CASE Take
  <2>1. pc = "take" /\ pc' # "decide" /\ UNCHANGED <<told, diskAdmins, diskChats>>
    BY <1>5 DEF Take
  <2>2. chats' = chats \/ told = {}
    <3>1. chats' = chats \/ admins = {}
      BY <1>5 DEF Take
    <3> QED
      BY <1>3, <3>1 DEF ToldInv
  <2> QED
    BY <1>1, <2>1, <2>2 DEF ToldInv
<1>6. CASE BootSave
  <2>1. /\ pc = "bootsave" /\ pc' # "decide" /\ UNCHANGED <<told, chats>>
        /\ (diskAdmins' = admins /\ diskChats' = chats) \/ UNCHANGED <<diskAdmins, diskChats>>
    BY <1>6 DEF BootSave, SaveFails, Done
  <2> QED
    BY <1>1, <1>3, <2>1 DEF ToldInv
<1>7. CASE BootNote
  <2>1. /\ pc = "bootnote" /\ pc' # "decide" /\ UNCHANGED <<chats, diskAdmins, diskChats>>
        /\ told' = told \/ told' = told \cup {<<"admin", U.user>>}
    BY <1>7 DEF BootNote, Done
  <2>2. U.user \in diskAdmins /\ U.user \in Users /\ Configured = {}
    BY <1>2, <2>1 DEF SecurityInv, Update
  <2> QED
    BY <1>1, <2>1, <2>2 DEF ToldInv
<1>8. CASE AdminCommand
  <2>1. /\ pc = "route" /\ pc' = "decide" /\ UNCHANGED <<sent, hand, admins, diskAdmins, diskChats>>
        /\ \E d \in Decision : chats' = Put(chats, U.of, d)
        /\ told' = {x \in told : x[1] = "admin" \/ x[2] # U.of}
        /\ admins # {}
    BY <1>8 DEF AdminCommand, AdminPrivate, world
  <2>2. U' = U
    BY <2>1, StaysInHand
  <2>3. /\ DOMAIN chats' = DOMAIN chats \cup {U.of} /\ chats'[U.of] \in Decision
        /\ \A c \in DOMAIN chats : c # U.of => chats'[c] = chats[c]
    BY <2>1 DEF Put
  <2>4. told' \subseteq told /\ \A d \in Decision, c \in Chats : <<d, c>> \in told' => c # U.of
    BY <2>1
  <2>5. \A d \in Decision, c \in Chats : <<d, c>> \in told' =>
           c \in DOMAIN diskChats /\ diskChats[c] = d /\ c \in DOMAIN chats' /\ chats'[c] = d
    BY <1>1, <2>3, <2>4
  <2> QED
    BY <2>1, <2>2, <2>3, <2>4, <2>5 DEF ToldInv
<1>9. CASE Decide
  <2>1. pc = "decide" /\ pc' # "decide" /\ UNCHANGED chats
    BY <1>9 DEF Decide, SaveFails, Done
  <2>2. U.of \in Chats /\ U.of \in DOMAIN chats /\ chats[U.of] \in Decision /\ admins # {}
    BY <1>2, <2>1 DEF ToldInv, Update
  <2>3. CASE diskAdmins' = admins /\ diskChats' = chats /\ told' \in {told, told \cup {<<chats[U.of], U.of>>}}
    <3>1. told' \subseteq ({"admin"} \X Users) \cup (Decision \X Chats)
      BY <2>2, <2>3 DEF ToldInv
    <3>2. \A u \in Users : <<"admin", u>> \in told' => u \in diskAdmins' /\ Configured = {}
      BY <1>3, <2>2, <2>3 DEF ToldInv
    <3>3. \A d \in Decision, c \in Chats : <<d, c>> \in told' => c \in DOMAIN chats /\ chats[c] = d
      BY <1>1, <2>2, <2>3
    <3> QED
      BY <2>1, <2>2, <2>3, <3>1, <3>2, <3>3 DEF ToldInv
  <2>4. CASE UNCHANGED <<diskAdmins, diskChats, told>>
    BY <1>1, <2>1, <2>4 DEF ToldInv
  <2> QED
    BY <1>9, <2>3, <2>4 DEF Decide, SaveFails
<1>10. CASE Route
  <2>1. /\ pc = "route" /\ pc' # "decide" /\ UNCHANGED told /\ chats' = Entered
        /\ diskAdmins' = diskAdmins \/ diskAdmins' = admins
        /\ diskChats' = diskChats \/ diskChats' = Entered
    BY <1>10 DEF Route, SaveFails, Done
  <2>2. \A c \in DOMAIN chats : c \in DOMAIN Entered /\ Entered[c] = chats[c]
    BY DEF Entered, Put
  <2>3. \A d \in Decision, c \in Chats : <<d, c>> \in told' =>
           c \in DOMAIN diskChats' /\ diskChats'[c] = d /\ c \in DOMAIN chats' /\ chats'[c] = d
    BY <1>1, <2>1, <2>2
  <2>4. diskAdmins \subseteq diskAdmins'
    BY <1>3, <2>1
  <2> QED
    BY <2>1, <2>3, <2>4 DEF ToldInv
<1>11. CASE Crash
  <2>1. /\ pc' = "poll" /\ UNCHANGED <<told, diskChats>> /\ chats' = diskChats
        /\ diskAdmins \subseteq diskAdmins'
    BY <1>11 DEF Crash
  <2> QED
    BY <1>1, <2>1 DEF ToldInv
<1> QED
  BY <1>4, <1>5, <1>6, <1>7, <1>8, <1>9, <1>10, <1>11 DEF Next, Thread

-----------------------------------------------------------------------------
(* Conversation ids.                                                       *)

LEMMA FiniteChats ==
    ASSUME TelegramAssumption PROVE IsFiniteSet(Chats)
BY FS_Union DEF TelegramAssumption, Chats

\* The next index is a new id.
LEMMA NewId ==
    ASSUME TelegramAssumption, NEW f, NEW n, IsIdTable(f, n), NEW k \in Chats, k \notin DOMAIN f
    PROVE  IsIdTable(Put(f, k, n), n + 1)
<1>1. IsFiniteSet(DOMAIN f)
  BY FiniteChats, FS_Subset DEF IsIdTable
<1>2. Cardinality(DOMAIN f) \in Nat /\ n \in Nat
  BY <1>1, FS_CardinalityType DEF IsIdTable
<1>3. Cardinality(DOMAIN f \cup {k}) = Cardinality(DOMAIN f) + 1
  BY <1>1, FS_AddElement
<1> DEFINE g == Put(f, k, n)
<1>4. /\ DOMAIN g = DOMAIN f \cup {k} /\ g[k] = n
      /\ \A x \in DOMAIN f : g[x] = f[x]
      /\ g = [x \in DOMAIN g |-> g[x]]
  BY DEF Put
<1> HIDE DEF g
<1>5. \A x \in DOMAIN f : f[x] \in Nat /\ f[x] < n
  BY DEF IsIdTable
<1>6. g \in [DOMAIN g -> Nat] /\ DOMAIN g \subseteq Chats
  BY <1>2, <1>4, <1>5 DEF IsIdTable
<1>7. n + 1 = Cardinality(DOMAIN g) + 1
  BY <1>2, <1>3, <1>4 DEF IsIdTable
<1>8. \A c \in DOMAIN g : g[c] < n + 1
  BY <1>2, <1>4, <1>5
<1>9. \A c, d \in DOMAIN g : g[c] = g[d] => c = d
  BY <1>2, <1>4, <1>5 DEF IsIdTable
<1>10. IsIdTable(g, n + 1)
  BY <1>6, <1>7, <1>8, <1>9 DEF IsIdTable
<1> QED
  BY <1>10 DEF g

\* The chat of the update in hand has an id afterwards, and no other chat gets
\* another one; it is saved or the update is dropped.
LEMMA IdentGives ==
    ASSUME TelegramAssumption, SentInv, HandInv, IdInv, Ident
    PROVE  /\ IsIdTable(ids', next')
           /\ U.chat \in DOMAIN ids' /\ ids'[U.chat] \in Nat
           /\ \A c \in DOMAIN ids : c \in DOMAIN ids' /\ ids'[c] = ids[c]
           /\ queue' = queue \/ queue' = Append(queue, Incoming(ids'[U.chat]))
           /\ \/ diskIds' = ids' /\ diskNext' = next'
              \/ UNCHANGED <<diskIds, diskNext>> /\ (UNCHANGED <<ids, next>> \/ errs < MaxSaveErrors)
           /\ errs' \in {errs, errs + 1}
<1> DEFINE known == U.chat \in DOMAIN ids
           new == IF known THEN ids ELSE Put(ids, U.chat, next)
<1>1. pc = "ident" /\ U.chat \in Chats
  <2>1. pc = "ident"
    BY DEF Ident
  <2> QED
    BY <2>1, InHand DEF Update
<1>2. /\ ids' = new /\ next' = IF known THEN next ELSE next + 1
      /\ \/ /\ IF known THEN UNCHANGED <<diskIds, diskNext>> ELSE diskIds' = new /\ diskNext' = next'
            /\ queue' = IF U.text = "empty" THEN queue ELSE Append(queue, Incoming(new[U.chat]))
            /\ UNCHANGED errs
         \/ ~known /\ errs < MaxSaveErrors /\ errs' = errs + 1 /\ UNCHANGED <<diskIds, diskNext, queue>>
  BY DEF Ident
<1>3. IsIdTable(ids, next)
  BY DEF IdInv
<1>4. CASE known
  BY <1>2, <1>3, <1>4 DEF IsIdTable
<1>5. CASE ~known
  <2>1. IsIdTable(ids', next')
    BY <1>1, <1>2, <1>3, <1>5, NewId
  <2>2. U.chat \in DOMAIN ids' /\ \A c \in DOMAIN ids : c \in DOMAIN ids' /\ ids'[c] = ids[c]
    BY <1>2, <1>5 DEF Put
  <2>3. ids'[U.chat] \in Nat
    BY <2>1, <2>2 DEF IsIdTable
  <2> QED
    BY <1>2, <1>5, <2>1, <2>2, <2>3
<1> QED
  BY <1>4, <1>5

LEMMA IdStep ==
    ASSUME TelegramAssumption, SentInv, HandInv, IdInv, [Next]_vars
    PROVE  IdInv'
<1>1. CASE Ident
  BY <1>1, IdentGives DEF IdInv
<1>2. CASE ~Ident
  <2>1. UNCHANGED <<diskIds, diskNext>> /\ (UNCHANGED <<ids, next>> \/ (ids' = diskIds /\ next' = diskNext))
    BY <1>2 DEF Next, Thread, Send, Poll, Take, BootSave, BootNote, AdminCommand, Decide, Route,
                SaveFails, Deliver, Crash, vars, idstore
  <2> QED
    BY <2>1 DEF IdInv
<1> QED
  BY <1>1, <1>2

-----------------------------------------------------------------------------
(* Messages on their way to conversations.                                 *)

\* What an administrator's private chat and an approved chat may do is granted
\* by those who may grant it.
LEMMA AllowedIsGranted ==
    ASSUME TelegramAssumption, SentInv, HandInv, SecurityInv, pc = "route", Allowed
    PROVE  Granted(sent, U.chat, Authority)
<1>1. IsSecurity(sent, Power, chats) /\ Authority = Power /\ admins \subseteq Power
  BY Powers
<1>2. CASE AdminPrivate
  BY <1>1, <1>2 DEF AdminPrivate, Granted
<1>3. CASE ~AdminPrivate
  <2>1. Entered[U.chat] = "Approved"
    BY <1>3 DEF Allowed
  <2>2. U.chat \in DOMAIN chats /\ chats[U.chat] = "Approved"
    BY <1>3, <2>1 DEF Entered, Undecided, Put
  <2> QED
    BY <1>1, <2>2 DEF IsSecurity
<1> QED
  BY <1>2, <1>3

\* Rights are not taken back.
LEMMA AuthorityGrows ==
    ASSUME SecurityInv, [Next]_vars
    PROVE  Authority \subseteq Authority'
<1>1. diskAdmins' = diskAdmins \/ diskAdmins' = admins \/ diskAdmins' = diskAdmins \cup Configured
  BY DEF Next, Thread, Send, Poll, Take, BootSave, SaveFails, BootNote, AdminCommand, Decide, Route, Ident,
         Deliver, Crash, vars, security
<1>2. bosses \subseteq bosses'
  BY DEF Next, Thread, Send, Poll, Take, BootSave, BootNote, AdminCommand, Decide, Route, Ident,
         Deliver, Crash, vars, security
<1> QED
  BY <1>1, <1>2 DEF SecurityInv, Authority

LEMMA ReceivedStep ==
    ASSUME TelegramAssumption, SentInv, HandInv, SecurityInv, IdInv, ReceivedInv, [Next]_vars
    PROVE  ReceivedInv'
<1> DEFINE Ok(i) == i \in 1..Len(sent) /\ Granted(sent, sent[i].chat, Authority)
           OkNext(i) == i \in 1..Len(sent') /\ Granted(sent', sent'[i].chat, Authority')
           Q == [chat : Chats, id : Nat, update : Nat]
<1>1. ASSUME NEW i, Ok(i) PROVE OkNext(i)
  <2>1. i \in 1..Len(sent') /\ sent'[i] = sent[i]
    BY <1>1, SentStep
  <2> QED
    BY <1>1, <2>1, GrantStays, AuthorityGrows
<1>2. /\ queue \in Seq(Q) /\ \A i \in received : Ok(i)
      /\ \A i \in 1..Len(queue) : Ok(queue[i].update)
  BY DEF ReceivedInv
<1>3. pc # "poll" => U = sent[hand[1]] /\ hand[1] \in 1..Len(sent) /\ Head(hand) = hand[1] /\ U \in Update
  BY InHand
<1>4. pc = "ident" => Ok(hand[1])
  BY <1>3 DEF ReceivedInv
<1>5. pc' = "ident" => Granted(sent', U'.chat, Authority')
  <2>1. SUFFICES ASSUME pc' = "ident" PROVE Granted(sent', U'.chat, Authority')
    OBVIOUS
  <2>2. \/ pc = "ident"
        \/ pc = "route" /\ Allowed
    BY <2>1 DEF Next, Thread, Send, Poll, Take, BootSave, BootNote, AdminCommand, Decide, Route, Ident,
                Deliver, Crash, vars, SaveFails, Done
  <2>3. pc # "poll" /\ hand' = hand /\ (sent' = sent \/ \E u : sent' = Append(sent, u))
    BY <2>1, <2>2, SentStep DEF Next, Thread, Send, Poll, Take, BootSave, BootNote, AdminCommand, Decide,
                Route, Ident, Deliver, Crash, vars, SaveFails, Done
  <2>4. U' = U
    BY <2>3, StaysInHand
  <2>5. Granted(sent, U.chat, Authority)
    BY <2>2, AllowedIsGranted DEF ReceivedInv
  <2> QED
    BY <2>4, <2>5, GrantStays, AuthorityGrows
<1>6. CASE Ident
  <2>1. pc = "ident" /\ UNCHANGED received
    BY <1>6 DEF Ident
  <2>2. PICK id \in Nat : queue' = queue \/ queue' = Append(queue, Incoming(id))
    BY <1>6, IdentGives
  <2>3. Incoming(id) \in Q /\ Incoming(id).update = hand[1]
    BY <1>3, <2>1, <2>2 DEF Incoming, Update
  <2> DEFINE x == Incoming(id)
  <2> HIDE DEF x
  <2>4. /\ queue' \in Seq(Q)
        /\ \A i \in 1..Len(queue') : \/ i \in 1..Len(queue) /\ queue'[i] = queue[i]
                                     \/ queue'[i] = x
    <3>1. queue \in Seq(Q) /\ x \in Q /\ (queue' = queue \/ queue' = Append(queue, x))
      BY <1>2, <2>2, <2>3 DEF x
    <3> HIDE DEF Q
    <3> QED
      BY <3>1, AppendCases
  <2>5. \A i \in received' : OkNext(i)
    BY <1>1, <1>2, <2>1
  <2>6. OkNext(x.update)
    BY <1>1, <1>4, <2>1, <2>3 DEF x
  <2>7. \A i \in 1..Len(queue') : OkNext(queue'[i].update)
    BY <1>1, <1>2, <2>4, <2>6
  <2> QED
    BY <1>5, <2>4, <2>5, <2>7 DEF ReceivedInv
<1>7. CASE Deliver
  <2>1. /\ queue # <<>> /\ queue' = Tail(queue) /\ received' = received \cup {Head(queue).update}
    BY <1>7 DEF Deliver
  <2>2. /\ Head(queue) = queue[1] /\ Len(queue) >= 1 /\ queue' \in Seq(Q)
        /\ \A i \in 1..Len(queue') : i + 1 \in 1..Len(queue) /\ queue'[i] = queue[i + 1]
    BY <1>2, <2>1, HeadTailProperties, EmptySeq
  <2>3. \A i \in received' : OkNext(i)
    BY <1>1, <1>2, <2>1, <2>2
  <2>4. \A i \in 1..Len(queue') : OkNext(queue'[i].update)
    BY <1>1, <1>2, <2>2
  <2> QED
    BY <1>5, <2>2, <2>3, <2>4 DEF ReceivedInv
<1>8. CASE ~Ident /\ ~Deliver
  <2>1. UNCHANGED received /\ (queue' = queue \/ queue' = <<>>)
    BY <1>8 DEF Next, Thread, Send, Poll, Take, BootSave, BootNote, AdminCommand, Decide, Route,
                Crash, vars, world
  <2>2. \A i \in received' : OkNext(i)
    BY <1>1, <1>2, <2>1
  <2>3. \A i \in 1..Len(queue') : OkNext(queue'[i].update)
    <3>1. CASE queue' = queue
      BY <1>1, <1>2, <3>1
    <3>2. CASE queue' = <<>>
      <4>1. Len(queue') = 0
        BY <3>2, EmptySeq
      <4> HIDE DEF OkNext
      <4> QED
        BY <4>1
    <3> QED
      BY <2>1, <3>1, <3>2
  <2>4. queue' \in Seq(Q)
    <3>1. <<>> \in Seq(Q)
      BY EmptySeq
    <3> QED
      BY <1>2, <2>1, <3>1
  <2> QED
    BY <1>5, <2>2, <2>3, <2>4 DEF ReceivedInv
<1> QED
  BY <1>6, <1>7, <1>8

\* As long as the table can be saved a conversation belongs to one chat.
LEMMA ConvStep ==
    ASSUME TelegramAssumption, SentInv, HandInv, IdInv, ReceivedInv, ConvInv, [Next]_vars
    PROVE  ConvInv'
<1>1. errs' \in Nat
  BY DEF ConvInv, Next, Thread, Send, Poll, Take, BootSave, BootNote, AdminCommand, Decide, Route, Ident,
         Deliver, Crash, vars, idstore
<1>2. SUFFICES ASSUME MaxSaveErrors = 0
               PROVE  /\ diskIds' = ids' /\ diskNext' = next'
                      /\ \A i \in 1..Len(queue') :
                           queue'[i].chat \in DOMAIN ids' /\ ids'[queue'[i].chat] = queue'[i].id
                      /\ \A id \in DOMAIN conv' : \A c \in conv'[id] : c \in DOMAIN ids' /\ ids'[c] = id
  BY <1>1 DEF ConvInv
<1> DEFINE Named(c, id) == c \in DOMAIN ids /\ ids[c] = id
           NamedNext(c, id) == c \in DOMAIN ids' /\ ids'[c] = id
<1>3. /\ diskIds = ids /\ diskNext = next /\ errs \in Nat
      /\ \A i \in 1..Len(queue) : Named(queue[i].chat, queue[i].id)
      /\ \A id \in DOMAIN conv : \A c \in conv[id] : Named(c, id)
      /\ queue \in Seq([chat : Chats, id : Nat, update : Nat])
  BY <1>2 DEF ConvInv, ReceivedInv
<1>4. CASE Ident
  <2>1. UNCHANGED conv
    BY <1>4 DEF Ident
  <2>2. /\ diskIds' = ids' /\ diskNext' = next'
        /\ \A c \in DOMAIN ids : c \in DOMAIN ids' /\ ids'[c] = ids[c]
        /\ U.chat \in DOMAIN ids' /\ ids'[U.chat] \in Nat
        /\ queue' = queue \/ queue' = Append(queue, Incoming(ids'[U.chat]))
    BY <1>2, <1>3, <1>4, IdentGives
  <2> DEFINE x == Incoming(ids'[U.chat])
  <2>3. NamedNext(x.chat, x.id)
    BY <2>2 DEF Incoming
  <2>4. /\ queue' = queue \/ queue' = Append(queue, x)
        /\ x \in [chat : Chats, id : Nat, update : Nat]
    <3>1. pc # "poll"
      BY <1>4 DEF Ident
    <3> QED
      BY <2>2, <3>1, InHand DEF Incoming, Update
  <2> HIDE DEF x
  <2>5. \A i \in 1..Len(queue') : \/ i \in 1..Len(queue) /\ queue'[i] = queue[i]
                                  \/ queue'[i] = x
    <3> DEFINE Q == [chat : Chats, id : Nat, update : Nat]
    <3>1. queue \in Seq(Q) /\ x \in Q /\ (queue' = queue \/ queue' = Append(queue, x))
      BY <1>3, <2>4
    <3> HIDE DEF Q
    <3> QED
      BY <3>1, AppendCases
  <2>6. \A i \in 1..Len(queue') : NamedNext(queue'[i].chat, queue'[i].id)
    BY <1>3, <2>2, <2>3, <2>5
  <2>7. \A id \in DOMAIN conv' : \A c \in conv'[id] : NamedNext(c, id)
    BY <1>3, <2>1, <2>2
  <2> QED
    BY <2>2, <2>6, <2>7
<1>5. CASE Deliver
  <2> DEFINE q == Head(queue)
             S == (IF q.id \in DOMAIN conv THEN conv[q.id] ELSE {}) \cup {q.chat}
  <2>1. queue # <<>> /\ queue' = Tail(queue) /\ conv' = Put(conv, q.id, S) /\ UNCHANGED <<ids, next, diskIds, diskNext>>
    BY <1>5 DEF Deliver, idstore
  <2>2. /\ q = queue[1] /\ Len(queue) >= 1
        /\ \A i \in 1..Len(queue') : i + 1 \in 1..Len(queue) /\ queue'[i] = queue[i + 1]
    BY <1>3, <2>1, HeadTailProperties, EmptySeq
  <2>3. Named(q.chat, q.id)
    BY <1>3, <2>2
  <2>4. \A c \in S : Named(c, q.id)
    BY <1>3, <2>3
  <2> HIDE DEF S, q
  <2>5. \A id \in DOMAIN conv' : \A c \in conv'[id] : Named(c, id)
    BY <1>3, <2>1, <2>4 DEF Put
  <2>6. ASSUME NEW i \in 1..Len(queue') PROVE Named(queue'[i].chat, queue'[i].id)
    <3>1. i + 1 \in 1..Len(queue) /\ queue'[i] = queue[i + 1]
      BY <2>2
    <3>2. Named(queue[i + 1].chat, queue[i + 1].id)
      BY <1>3, <3>1
    <3> QED
      BY <3>1, <3>2
  <2> QED
    BY <1>3, <2>1, <2>5, <2>6
<1>6. CASE ~Ident /\ ~Deliver
  <2>1. /\ UNCHANGED <<conv, diskIds, diskNext>>
        /\ queue' = queue \/ queue' = <<>>
        /\ UNCHANGED <<ids, next>> \/ (ids' = diskIds /\ next' = diskNext)
    BY <1>6 DEF Next, Thread, Send, Poll, Take, BootSave, BootNote, AdminCommand, Decide, Route,
                Crash, vars, world, idstore
  <2>2. UNCHANGED <<ids, next, diskIds, diskNext>>
    BY <1>3, <2>1
  <2> QED
    BY <1>3, <2>1, <2>2
<1> QED
  BY <1>4, <1>5, <1>6

-----------------------------------------------------------------------------
(* The theorems.                                                           *)

\* The inductive invariant of the Telegram channel's ingress.
TelegramInv == SentInv /\ HandInv /\ SecurityInv /\ ToldInv /\ IdInv /\ ReceivedInv /\ ConvInv

LEMMA TelegramInit ==
    ASSUME TelegramAssumption, Init
    PROVE  TelegramInv
<1>1. /\ SentInv /\ HandInv
  BY EmptySeq DEF Init, SentInv, HandInv, Handling
<1>2. SecurityInv /\ ToldInv
  BY DEF Init, SecurityInv, ToldInv, IsSecurity, Empty, Power, Authority, TelegramAssumption
<1>3. IdInv
  BY FS_EmptySet DEF Init, IdInv, IsIdTable, Empty
<1>4. ReceivedInv /\ ConvInv
  BY EmptySeq DEF Init, ReceivedInv, ConvInv, Empty
<1> QED
  BY <1>1, <1>2, <1>3, <1>4 DEF TelegramInv

\* Every step of the polling thread, the ingress loop and a restart keeps it.
THEOREM TelegramInvariant == ASSUME TelegramAssumption PROVE Spec => []TelegramInv
<1>1. TelegramInv /\ [Next]_vars => TelegramInv'
  BY SentStep, HandStep, SecurityStep, ToldStep, IdStep, ReceivedStep, ConvStep DEF TelegramInv
<1> QED
  BY <1>1, TelegramInit, PTL DEF Spec

\* Whatever stops the Telegram channel and whichever writes fail: an update was
\* handled before the server is told so (run_loop's offset), a user or chat that
\* was told of its rights has them on disk (save_security_state), at most one
\* user becomes administrator by writing first, none beside those of the
\* configuration, nothing but administrators' private chats and chats, private
\* or not, that one approved reach a conversation (authorize_chat), and, as long
\* as the id store can be written, no two chats share one (get_or_create).
THEOREM IngressAlwaysDurable == ASSUME TelegramAssumption PROVE Spec => []IngressIsDurable
<1>1. ASSUME TelegramInv PROVE IngressIsDurable
  <2>1. SentInv /\ HandInv /\ SecurityInv /\ ToldInv /\ IdInv /\ ReceivedInv /\ ConvInv
    BY <1>1 DEF TelegramInv
  <2>2. TypeOK
    <3>1. next \in 1..(Cardinality(Chats) + 1)
      <4>1. /\ DOMAIN ids \subseteq Chats /\ next = Cardinality(DOMAIN ids) + 1
        BY <2>1 DEF IdInv, IsIdTable
      <4>2. /\ Cardinality(DOMAIN ids) \in Nat /\ Cardinality(Chats) \in Nat
            /\ Cardinality(DOMAIN ids) <= Cardinality(Chats)
        BY <4>1, FiniteChats, FS_Subset, FS_CardinalityType
      <4> QED
        BY <4>1, <4>2
    <3>2. (pc = "poll") = (hand = <<>>)
      BY <2>1 DEF HandInv
    <3> QED
      BY <2>1, <3>1, <3>2 DEF TypeOK, HandInv, Handling, SecurityInv, IsSecurity
  <2>3. ToldIsDurable
    BY <2>1 DEF ToldIsDurable, ToldInv
  <2>4. OneBootstrap
    <3> DEFINE T == {x \in told : x[1] = "admin"}
    <3>1. Configured # {} => admins = Configured
      BY <2>1 DEF SecurityInv
    <3>2. \A x, y \in T : x = y
      <4>1. \A x \in T : x = <<"admin", x[2]>> /\ x[2] \in diskAdmins /\ Configured = {}
        BY <2>1 DEF ToldInv
      <4>2. Configured = {} => \A u, v \in diskAdmins : u = v
        BY <2>1 DEF SecurityInv
      <4> QED
        BY <4>1, <4>2
    <3> HIDE DEF T
    <3>3. Cardinality(T) <= 1
      <4>1. CASE T = {}
        BY <4>1, FS_EmptySet
      <4>2. CASE T # {}
        <5>1. PICK x : T = {x}
          BY <3>2, <4>2
        <5> QED
          BY <5>1, FS_Singleton
      <4> QED
        BY <4>1, <4>2
    <3> QED
      BY <3>1, <3>3 DEF OneBootstrap, T
  <2>5. ReceivedIsApproved
    <3>1. SUFFICES ASSUME NEW i \in received
                   PROVE  \/ sent[i].chat = sent[i].user /\ sent[i].user \in Authority
                          \/ \E j \in DOMAIN sent : /\ sent[j].text = "approve"
                                                    /\ sent[j].of = sent[i].chat
                                                    /\ sent[j].user \in Authority
      BY DEF ReceivedIsApproved
    <3>2. /\ i \in 1..Len(sent) /\ Granted(sent, sent[i].chat, Authority)
          /\ DOMAIN sent = 1..Len(sent)
      BY <2>1 DEF ReceivedInv, SentInv
    <3>3. sent[i].chat \in Groups \cup {sent[i].user}
      BY <2>1, <3>2 DEF SentInv
    <3>4. sent[i].chat \in Authority => sent[i].chat = sent[i].user
      <4>1. Authority \subseteq Users
        BY <2>1, Powers
      <4> QED
        BY <3>3, <4>1 DEF TelegramAssumption
    <3> QED
      BY <3>2, <3>4 DEF Granted
  <2>6. ConfirmedIsHandled
    BY <2>1 DEF ConfirmedIsHandled, HandInv
  <2>7. ASSUME MaxSaveErrors = 0, NEW id \in DOMAIN conv PROVE Cardinality(conv[id]) <= 1
    <3>1. \A c, d \in conv[id] : c = d
      BY <2>1, <2>7 DEF ConvInv, IdInv, IsIdTable
    <3>2. CASE conv[id] = {}
      BY <3>2, FS_EmptySet
    <3>3. CASE conv[id] # {}
      <4>1. PICK c : conv[id] = {c}
        BY <3>1, <3>3
      <4>2. Cardinality(conv[id]) = 1
        BY <4>1, FS_Singleton
      <4> QED
        BY <4>2
    <3> QED
      BY <3>2, <3>3
  <2> QED
    BY <2>2, <2>3, <2>4, <2>5, <2>6, <2>7 DEF IngressIsDurable, ConversationsSeparate
<1> QED
  BY <1>1, TelegramInvariant, PTL

=============================================================================
