------------------------------ MODULE Roster_proofs ------------------------------
(***************************************************************************)
(* The local roster, the friends of the application and the server's       *)
(* roster: types, that the copies agree and presence is known when nothing *)
(* is under way, and that an edit keeps the other fields, for any finite   *)
(* set of contacts, any names and groups, any number of calls, sessions    *)
(* and remote changes.                                                     *)
(***************************************************************************)
EXTENDS Roster, SequenceTheorems, FiniteSetTheorems, WellFoundedInduction, TLAPS

Entry == Item \union {None}

\* The messages of q after position i hold no push for c.
NoMore(q, c, i) ==
  \A j \in DOMAIN q : j > i => ~(q[j].t = "push" /\ q[j].c = c)

\* The last that q says of c, in a push or with a whole roster, is e.
Says(m, c, e) == /\ m.t = "push" /\ m.c = c => m.item = e
                 /\ m.t = "result" => m.all[c] = e
Tells(q, c, e) == \A i \in DOMAIN q : NoMore(q, c, i) => Says(q[i], c, e)

\* No answer to a fill is under way.
Unfilled(q) == \A i \in DOMAIN q : q[i].t \notin {"result", "error"}
Asks(q)     == \E i \in DOMAIN q : q[i].t = "get"

-----------------------------------------------------------------------------
(* Sequences of messages.                                                  *)

LEMMA HeadAndTail ==
  ASSUME NEW S, NEW q \in Seq(S), q # <<>>
  PROVE  /\ Head(q) \in S /\ Tail(q) \in Seq(S) /\ Len(q) \in Nat /\ Len(q) > 0
         /\ DOMAIN q = 1..Len(q) /\ DOMAIN Tail(q) = 1..(Len(q) - 1) /\ Head(q) = q[1]
         /\ \A i \in 1..(Len(q) - 1) : Tail(q)[i] = q[i + 1]
<1>1. DOMAIN q = 1..Len(q) /\ Len(q) \in Nat
  BY LenProperties
<1>2. /\ Head(q) \in S /\ Tail(q) \in Seq(S) /\ Head(q) = q[1]
      /\ Len(Tail(q)) = Len(q) - 1 /\ \A i \in 1..Len(Tail(q)) : Tail(q)[i] = q[i + 1]
  BY HeadTailProperties
<1>3. Len(q) > 0
  BY EmptySeq
<1>4. DOMAIN Tail(q) = 1..(Len(q) - 1)
  BY <1>2, LenProperties
<1> QED
  BY <1>1, <1>2, <1>3, <1>4

LEMMA Concatenated ==
  ASSUME NEW S, NEW q \in Seq(S), NEW s \in Seq(S)
  PROVE  /\ q \o s \in Seq(S) /\ Len(q) \in Nat /\ Len(s) \in Nat
         /\ DOMAIN q = 1..Len(q) /\ DOMAIN s = 1..Len(s) /\ DOMAIN (q \o s) = 1..(Len(q) + Len(s))
         /\ \A i \in 1..Len(q) : (q \o s)[i] = q[i]
         /\ \A i \in 1..Len(s) : (q \o s)[Len(q) + i] = s[i]
<1>1. /\ DOMAIN q = 1..Len(q) /\ Len(q) \in Nat /\ DOMAIN s = 1..Len(s) /\ Len(s) \in Nat
  BY LenProperties
<1>2. /\ q \o s \in Seq(S) /\ Len(q \o s) = Len(q) + Len(s)
      /\ \A i \in 1..(Len(q) + Len(s)) : (q \o s)[i] = IF i <= Len(q) THEN q[i] ELSE s[i - Len(q)]
  BY ConcatProperties
<1>3. DOMAIN (q \o s) = 1..(Len(q) + Len(s))
  BY <1>2, LenProperties
<1>4. \A i \in 1..Len(s) : Len(q) + i \in 1..(Len(q) + Len(s)) /\ ~(Len(q) + i <= Len(q))
                           /\ (Len(q) + i) - Len(q) = i
  BY <1>1
<1> QED
  BY <1>1, <1>2, <1>3, <1>4

\* Taking the first message away.
LEMMA TailTells ==
  ASSUME NEW S, NEW q \in Seq(S), q # <<>>, NEW c, NEW e
  PROVE  /\ Tells(q, c, e) => Tells(Tail(q), c, e)
         /\ NoMore(q, c, 0) => NoMore(Tail(q), c, 0)
         /\ NoMore(Tail(q), c, 0) => NoMore(q, c, 1)
         /\ NoMore(Tail(q), c, 0) /\ ~(Head(q).t = "push" /\ Head(q).c = c) => NoMore(q, c, 0)
         /\ NoMore(Tail(q), c, 0) /\ Tells(q, c, e) => Says(Head(q), c, e)
<1>1. /\ Len(q) \in Nat /\ Len(q) > 0 /\ DOMAIN q = 1..Len(q)
      /\ DOMAIN Tail(q) = 1..(Len(q) - 1) /\ Head(q) = q[1]
      /\ \A i \in 1..(Len(q) - 1) : Tail(q)[i] = q[i + 1]
  BY HeadAndTail
<1>2. \A j \in DOMAIN q : j = 1 \/ (j - 1 \in DOMAIN Tail(q) /\ Tail(q)[j - 1] = q[j])
  BY <1>1
<1>3. \A j \in DOMAIN Tail(q) : j + 1 \in DOMAIN q /\ Tail(q)[j] = q[j + 1] /\ j \in Nat /\ j > 0
  BY <1>1
<1>4. NoMore(Tail(q), c, 0) => NoMore(q, c, 1)
  BY <1>1, <1>2 DEF NoMore
<1>5. NoMore(q, c, 0) => NoMore(Tail(q), c, 0)
  BY <1>3 DEF NoMore
<1>6. ASSUME NEW i \in DOMAIN Tail(q), NoMore(Tail(q), c, i)
      PROVE  NoMore(q, c, i + 1)
  <2> SUFFICES ASSUME NEW j \in DOMAIN q, j > i + 1
               PROVE  ~(q[j].t = "push" /\ q[j].c = c)
    BY DEF NoMore
  <2>1. j - 1 \in DOMAIN Tail(q) /\ j - 1 > i /\ Tail(q)[j - 1] = q[j]
    BY <1>1
  <2> QED
    BY <1>6, <2>1 DEF NoMore
<1>7. Tells(q, c, e) => Tells(Tail(q), c, e)
  BY <1>3, <1>6 DEF Tells
<1>8. NoMore(Tail(q), c, 0) /\ ~(Head(q).t = "push" /\ Head(q).c = c) => NoMore(q, c, 0)
  BY <1>1, <1>4 DEF NoMore
<1>9. NoMore(Tail(q), c, 0) /\ Tells(q, c, e) => Says(Head(q), c, e)
  BY <1>1, <1>4 DEF Tells
<1> QED
  BY <1>4, <1>5, <1>7, <1>8, <1>9

\* Messages that say nothing of c's item.
LEMMA QuietTells ==
  ASSUME NEW S, NEW q \in Seq(S), NEW s \in Seq(S), NEW c, NEW e,
         \A i \in DOMAIN s : s[i].t # "result" /\ ~(s[i].t = "push" /\ s[i].c = c)
  PROVE  /\ Tells(q, c, e) => Tells(q \o s, c, e)
         /\ NoMore(q, c, 0) <=> NoMore(q \o s, c, 0)
<1>1. /\ Len(q) \in Nat /\ Len(s) \in Nat
      /\ DOMAIN q = 1..Len(q) /\ DOMAIN s = 1..Len(s) /\ DOMAIN (q \o s) = 1..(Len(q) + Len(s))
      /\ \A i \in 1..Len(q) : (q \o s)[i] = q[i]
      /\ \A i \in 1..Len(s) : (q \o s)[Len(q) + i] = s[i]
  BY Concatenated
<1>2. \A i \in DOMAIN (q \o s) : \/ i \in DOMAIN q /\ (q \o s)[i] = q[i]
                                 \/ i - Len(q) \in DOMAIN s /\ (q \o s)[i] = s[i - Len(q)] /\ i \notin DOMAIN q
  BY <1>1
<1>3. \A i \in DOMAIN q : i \in DOMAIN (q \o s) /\ (q \o s)[i] = q[i]
  BY <1>1
<1>4. NoMore(q, c, 0) <=> NoMore(q \o s, c, 0)
  BY <1>2, <1>3 DEF NoMore
<1>5. \A i \in DOMAIN q : NoMore(q \o s, c, i) => NoMore(q, c, i)
  BY <1>3 DEF NoMore
<1>6. Tells(q, c, e) => Tells(q \o s, c, e)
  BY <1>2, <1>5 DEF Tells, Says
<1> QED
  BY <1>4, <1>6

\* One more message, about c's item.
LEMMA AppendTells ==
  ASSUME NEW S, NEW q \in Seq(S), NEW m \in S, NEW c, NEW e, Says(m, c, e)
  PROVE  /\ (m.t = "push" /\ m.c = c) \/ Tells(q, c, e) => Tells(Append(q, m), c, e)
         /\ m.t = "push" /\ m.c = c => ~NoMore(Append(q, m), c, 0)
         /\ ~(m.t = "push" /\ m.c = c) => (NoMore(q, c, 0) <=> NoMore(Append(q, m), c, 0))
<1>1. DOMAIN q = 1..Len(q) /\ Len(q) \in Nat
  BY LenProperties
<1>2. /\ Append(q, m) \in Seq(S) /\ Len(Append(q, m)) = Len(q) + 1
      /\ \A i \in 1..Len(q) : Append(q, m)[i] = q[i]
      /\ Append(q, m)[Len(q) + 1] = m
  BY AppendProperties
<1>3. DOMAIN Append(q, m) = 1..(Len(q) + 1)
  BY <1>2, LenProperties
<1>4. ~(m.t = "push" /\ m.c = c) => (NoMore(q, c, 0) <=> NoMore(Append(q, m), c, 0))
  BY <1>1, <1>2, <1>3 DEF NoMore
<1>5. m.t = "push" /\ m.c = c => ~NoMore(Append(q, m), c, 0)
  BY <1>1, <1>2, <1>3 DEF NoMore
<1>6. \A i \in DOMAIN q : NoMore(Append(q, m), c, i) =>
        NoMore(q, c, i) /\ ~(m.t = "push" /\ m.c = c)
  BY <1>1, <1>2, <1>3 DEF NoMore
<1>7. (m.t = "push" /\ m.c = c) \/ Tells(q, c, e) => Tells(Append(q, m), c, e)
  BY <1>1, <1>2, <1>3, <1>6 DEF Tells
<1> QED
  BY <1>4, <1>5, <1>7

\* A bounded set of positions has a last one.
LEMMA LastOf ==
  ASSUME NEW n \in Nat, NEW T, T \subseteq 1..n, T # {}
  PROVE  \E m \in T : \A j \in T : j <= m
<1> DEFINE U == {n - j : j \in T}
           R == OpToRel(<, Nat)
<1>1. \A j \in T : j \in Int /\ n - j \in Nat
  OBVIOUS
<1>2. U \subseteq Nat /\ U # {}
  BY <1>1
<1>3. IsWellFoundedOn(R, Nat)
  BY NatLessThanWellFounded
<1> HIDE DEF R
<1>4. PICK x \in U : \A y \in U : ~(<<y, x>> \in R)
  BY <1>2, <1>3, WFMin
<1>5. \A y \in U : ~(y < x)
  BY <1>2, <1>4 DEF R, OpToRel
<1>6. PICK m \in T : x = n - m
  OBVIOUS
<1>7. \A j \in T : n - j \in U
  OBVIOUS
<1>8. \A j \in T : ~(n - j < n - m)
  BY <1>5, <1>6, <1>7
<1> HIDE DEF U
<1> QED
  BY <1>1, <1>8

\* If q has pushes for c and tells e of it, the last one says e.
LEMMA LastPush ==
  ASSUME NEW S, NEW q \in Seq(S), NEW c, NEW e, Tells(q, c, e), ~NoMore(q, c, 0)
  PROVE  \E i \in DOMAIN q : q[i].t = "push" /\ q[i].c = c /\ q[i].item = e /\ NoMore(q, c, i)
<1> DEFINE T == {i \in DOMAIN q : q[i].t = "push" /\ q[i].c = c}
<1>1. DOMAIN q = 1..Len(q) /\ Len(q) \in Nat
  BY LenProperties
<1>2. T # {} /\ T \subseteq 1..Len(q)
  BY <1>1 DEF NoMore
<1>3. PICK m \in T : \A j \in T : j <= m
  BY <1>1, <1>2, LastOf
<1>4. NoMore(q, c, m)
  BY <1>1, <1>3 DEF NoMore
<1> QED
  BY <1>4 DEF Tells, Says

-----------------------------------------------------------------------------
(* Types: the messages.                                                    *)

LEMMA SpendType ==
  ASSUME TypeOK,
         Spend("call", MaxCalls) \/ Spend("remote", MaxRemote) \/ Spend("login", MaxLogins)
  PROVE  used' \in [call : 0..MaxCalls, remote : 0..MaxRemote, login : 0..MaxLogins]
<1>1. /\ used \in [call : 0..MaxCalls, remote : 0..MaxRemote, login : 0..MaxLogins]
      /\ MaxCalls \in Nat /\ MaxRemote \in Nat /\ MaxLogins \in Nat
  BY RosterAssumption DEF TypeOK
<1>2. CASE Spend("call", MaxCalls)
  BY <1>1, <1>2 DEF Spend
<1>3. CASE Spend("remote", MaxRemote)
  BY <1>1, <1>3 DEF Spend
<1>4. CASE Spend("login", MaxLogins)
  BY <1>1, <1>4 DEF Spend
<1> QED
  BY <1>2, <1>3, <1>4

LEMMA StanzaTypes ==
  ASSUME NEW c \in Contacts
  PROVE  /\ \A t \in {"remove", "subscribe", "subscribed", "unsubscribed"} : Stanza(t, c) \in Requests
         /\ \A t \in {"subscribe", "subscribed", "unsubscribe", "unsubscribed"} : Stanza(t, c) \in Stanzas
         /\ \A on \in BOOLEAN : PresenceOf(c, on) \in Stanzas
         /\ \A i \in Entry : Push(c, i) \in Stanzas
  BY DEF Stanza, Requests, Stanzas, PresenceOf, Push, Entry

LEMMA AddType ==
  ASSUME TypeOK, NEW c \in Contacts, NEW n \in Names, NEW gs \in SUBSET Groups,
         NEW what \in SUBSET Fields
  PROVE  Add(c, n, gs, what) \in Requests
<1>1. roster[c] \in Item \union {None}
  BY DEF TypeOK
<1> QED
  BY <1>1 DEF Add, Requests

LEMMA RequestType ==
  ASSUME TypeOK, NEW s \in Seq(Requests), Request(s)
  PROVE  toServer' \in Seq(Requests)
  BY Concatenated DEF Request, TypeOK

LEMMA DeliverType ==
  ASSUME TypeOK, NEW s \in Seq(Stanzas), Deliver(s)
  PROVE  toClient' \in Seq(Stanzas)
  BY Concatenated DEF Deliver, TypeOK

\* Sequences of one message and of two.
LEMMA ShortSeqs ==
  ASSUME NEW S, NEW m \in S
  PROVE  /\ <<>> \in Seq(S) /\ <<m>> \in Seq(S) /\ \A k \in S : <<m, k>> \in Seq(S)
         /\ DOMAIN <<m>> = {1} /\ <<m>>[1] = m
  OBVIOUS

LEMMA SetItemType ==
  ASSUME TypeOK, NEW c \in Contacts, NEW i \in Entry,
         NEW before \in Seq(Stanzas), NEW after \in Seq(Stanzas), SetItem(c, i, before, after)
  PROVE  /\ srv' \in [Contacts -> Item \union {None}] /\ toClient' \in Seq(Stanzas)
         /\ unseen' \subseteq Contacts /\ missed' \subseteq Contacts
<1>1. <<Push(c, i)>> \in Seq(Stanzas)
  BY StanzaTypes, ShortSeqs
<1>2. before \o <<Push(c, i)>> \o after \in Seq(Stanzas)
  BY <1>1, Concatenated
<1>3. toClient' \in Seq(Stanzas)
  BY <1>2, DeliverType DEF SetItem
<1>4. srv' \in [Contacts -> Item \union {None}]
  BY DEF SetItem, Entry, TypeOK
<1>5. unseen' \subseteq Contacts /\ missed' \subseteq Contacts
  BY DEF SetItem, TypeOK
<1> QED
  BY <1>3, <1>4, <1>5

\* The first message, taken from the connection.
LEMMA ReceivedType ==
  ASSUME TypeOK, NEW t, Receive(t)
  PROVE  /\ First \in Stanzas /\ First.t = t /\ toClient' \in Seq(Stanzas)
         /\ t = "push" => First.c \in Contacts /\ First.item \in Entry
         /\ t = "result" => First.all \in [Contacts -> Entry]
         /\ t \in {"presence", "subscribe", "unsubscribe", "unsubscribed"} => First.c \in Contacts
<1>1. First \in Stanzas /\ First.t = t /\ toClient' \in Seq(Stanzas)
  BY HeadAndTail DEF Receive, First, TypeOK
<1>2. t = "push" => First.c \in Contacts /\ First.item \in Entry
  BY <1>1 DEF Stanzas, Entry
<1>3. t = "result" => First.all \in [Contacts -> Entry]
  BY <1>1 DEF Stanzas, Entry
<1>4. t \in {"presence", "subscribe", "unsubscribe", "unsubscribed"} => First.c \in Contacts
  BY <1>1 DEF Stanzas
<1> QED
  BY <1>1, <1>2, <1>3, <1>4

LEMMA ServedType ==
  ASSUME TypeOK, NEW t, Serve(t)
  PROVE  /\ Head(toServer) \in Requests /\ Head(toServer).t = t /\ toServer' \in Seq(Requests)
         /\ t \notin {"get", "presence"} => Head(toServer).c \in Contacts
         /\ t = "set" => /\ Head(toServer).name \in Names /\ Head(toServer).groups \in SUBSET Groups
                         /\ Head(toServer).what \in SUBSET Fields /\ Head(toServer).of \in Entry
<1>1. Head(toServer) \in Requests /\ Head(toServer).t = t /\ toServer' \in Seq(Requests)
  BY HeadAndTail DEF Serve, TypeOK
<1>2. t \notin {"get", "presence"} => Head(toServer).c \in Contacts
  BY <1>1 DEF Requests
<1>3. t = "set" => /\ Head(toServer).name \in Names /\ Head(toServer).groups \in SUBSET Groups
                   /\ Head(toServer).what \in SUBSET Fields /\ Head(toServer).of \in Entry
  BY <1>1 DEF Requests, Entry
<1> QED
  BY <1>1, <1>2, <1>3

\* The sequences in which a finite set of messages may come.
LEMMA OrdersAreSeqs ==
  ASSUME NEW S, NEW M, M \subseteq S, IsFiniteSet(M), NEW s \in Orders(M)
  PROVE  s \in Seq(S) /\ \A k \in DOMAIN s : s[k] \in M
<1>1. Cardinality(M) \in Nat
  BY FS_CardinalityType
<1>2. s \in [1..Cardinality(M) -> M]
  BY DEF Orders
<1>3. s \in [1..Cardinality(M) -> S]
  BY <1>2
<1> QED
  BY <1>1, <1>2, <1>3

-----------------------------------------------------------------------------
(* Types: the steps.                                                       *)

LEMMA InitTypes == Init => TypeOK
<1> SUFFICES ASSUME Init PROVE TypeOK
  OBVIOUS
<1>1. toServer \in Seq(Requests) /\ toClient \in Seq(Stanzas)
  BY EmptySeq DEF Init
<1>2. used \in [call : 0..MaxCalls, remote : 0..MaxRemote, login : 0..MaxLogins]
  BY RosterAssumption DEF Init
<1>3. \A S \in {avail, pending, online, shown, asked, unseen, unfriended, missed} : S \subseteq Contacts
  BY DEF Init
<1> QED
  BY <1>1, <1>2, <1>3 DEF Init, TypeOK

LEMMA FillTypes ==
  ASSUME TypeOK, Fill
  PROVE  /\ roster' \in [Contacts -> Item \union {None}] /\ online' = {}
         /\ toServer' \in Seq(Requests)
<1>1. <<[t |-> "get"]>> \in Seq(Requests)
  BY ShortSeqs DEF Requests
<1> QED
  BY <1>1, RequestType DEF Fill

LEMMA SessionTypes == ASSUME TypeOK, Connected \/ GetRoster \/ Lost PROVE TypeOK'
<1>1. CASE Connected \/ GetRoster
  <2>1. /\ roster' \in [Contacts -> Item \union {None}] /\ online' = {}
        /\ toServer' \in Seq(Requests)
    BY <1>1, FillTypes DEF Connected, GetRoster
  <2>2. used' \in [call : 0..MaxCalls, remote : 0..MaxRemote, login : 0..MaxLogins]
    BY <1>1, SpendType DEF Connected, GetRoster, Call
  <2>3. up' \in BOOLEAN /\ refilled' \in BOOLEAN
    BY <1>1 DEF Connected, GetRoster, TypeOK
  <2>4. UNCHANGED <<server, mirror, toClient, noRoster, unseen, unfriended, missed>>
    BY <1>1 DEF Connected, GetRoster
  <2> QED
    BY <2>1, <2>2, <2>3, <2>4 DEF server, mirror, TypeOK
<1>2. CASE Lost
  <2>1. toServer' \in Seq(Requests) /\ toClient' \in Seq(Stanzas)
    BY <1>2, EmptySeq DEF Lost
  <2>2. \A i \in DOMAIN toClient : toClient[i] \in Stanzas
    BY LenProperties DEF TypeOK
  <2>3. unseen' \subseteq Contacts /\ missed' \subseteq Contacts
    <3>1. \A m \in Stanzas : m.t \in {"push", "presence"} => m.c \in Contacts
      BY DEF Stanzas
    <3> QED
      BY <1>2, <2>2, <3>1 DEF Lost, TypeOK
  <2>4. /\ {up', listening', active'} \subseteq BOOLEAN
        /\ UNCHANGED <<srv, avail, pending, roster, online, friends, shown, asked, used,
                       noRoster, refilled, unfriended>>
    BY <1>2 DEF Lost, mirror
  <2> QED
    BY <2>1, <2>3, <2>4 DEF TypeOK
<1> QED
  BY <1>1, <1>2

\* An edit's other field is that of the item it was made from.
Grounded(m) ==
  m.t = "set" => /\ "name" \notin m.what => m.of # None /\ m.name = m.of.name
                 /\ "groups" \notin m.what => m.of # None /\ m.groups = m.of.groups
GroundedSeqs == {s \in Seq(Requests) : \A i \in DOMAIN s : Grounded(s[i])}
PlainSeqs    == {s \in GroundedSeqs : \A i \in DOMAIN s : s[i].t \notin {"get", "presence"}}

LEMMA GroundedStanza ==
  ASSUME NEW c \in Contacts, NEW t \in {"remove", "subscribe", "subscribed", "unsubscribed"}
  PROVE  /\ Stanza(t, c) \in Requests /\ Grounded(Stanza(t, c)) /\ Stanza(t, c).t = t
         /\ <<Stanza(t, c)>> \in PlainSeqs
<1>1. Stanza(t, c) \in Requests
  BY StanzaTypes
<1>2. Grounded(Stanza(t, c)) /\ Stanza(t, c).t = t
  BY DEF Stanza, Grounded
<1> QED
  BY <1>1, <1>2, ShortSeqs DEF GroundedSeqs, PlainSeqs

LEMMA GroundedAdd ==
  ASSUME TypeOK, NEW c \in Contacts, NEW n \in Names, NEW gs \in SUBSET Groups,
         NEW what \in SUBSET Fields,
         "name" \notin what => roster[c] # None /\ n = roster[c].name,
         "groups" \notin what => roster[c] # None /\ gs = roster[c].groups
  PROVE  <<Add(c, n, gs, what)>> \in PlainSeqs
<1>1. Add(c, n, gs, what) \in Requests
  BY AddType
<1>2. Grounded(Add(c, n, gs, what)) /\ Add(c, n, gs, what).t = "set"
  BY DEF Add, Grounded
<1> QED
  BY <1>1, <1>2, ShortSeqs DEF GroundedSeqs, PlainSeqs

LEMMA GroundedConcat ==
  ASSUME NEW q \in GroundedSeqs, NEW s \in GroundedSeqs
  PROVE  /\ q \o s \in GroundedSeqs
         /\ q \in PlainSeqs /\ s \in PlainSeqs => q \o s \in PlainSeqs
<1>1. /\ q \o s \in Seq(Requests) /\ Len(q) \in Nat /\ Len(s) \in Nat
      /\ DOMAIN q = 1..Len(q) /\ DOMAIN s = 1..Len(s) /\ DOMAIN (q \o s) = 1..(Len(q) + Len(s))
      /\ \A i \in 1..Len(q) : (q \o s)[i] = q[i]
      /\ \A i \in 1..Len(s) : (q \o s)[Len(q) + i] = s[i]
  BY Concatenated DEF GroundedSeqs
<1>2. \A i \in DOMAIN (q \o s) : i \in 1..Len(q) \/ (i - Len(q) \in 1..Len(s) /\ (q \o s)[i] = s[i - Len(q)])
  BY <1>1
<1>3. q \o s \in GroundedSeqs
  BY <1>1, <1>2 DEF GroundedSeqs
<1> QED
  BY <1>1, <1>2, <1>3 DEF PlainSeqs

\* A call only spends, and sends a request or two.
LEMMA CallRequests ==
  ASSUME TypeOK, NEW c \in Contacts, Application(c)
  PROVE  /\ up /\ UNCHANGED <<server, stack, friends, shown, toClient, past>>
         /\ asked' \subseteq Contacts
         /\ used' \in [call : 0..MaxCalls, remote : 0..MaxRemote, login : 0..MaxLogins]
         /\ \E s \in PlainSeqs : Request(s)
<1>1. /\ Stanza("subscribed", c) \in Requests /\ Stanza("subscribe", c) \in Requests
      /\ Stanza("unsubscribed", c) \in Requests /\ Stanza("remove", c) \in Requests
      /\ Grounded(Stanza("subscribed", c)) /\ Grounded(Stanza("subscribe", c))
      /\ Grounded(Stanza("unsubscribed", c)) /\ Grounded(Stanza("remove", c))
      /\ Stanza("subscribed", c).t = "subscribed" /\ Stanza("subscribe", c).t = "subscribe"
      /\ Stanza("unsubscribed", c).t = "unsubscribed" /\ Stanza("remove", c).t = "remove"
      /\ <<Stanza("subscribe", c)>> \in PlainSeqs /\ <<Stanza("remove", c)>> \in PlainSeqs
  BY GroundedStanza
<1>3. CASE AnswerRequest(c)
  <2>1. PICK answer \in {Approve(c), Deny(c)}, n \in {1, 2} : Request(SubSeq(answer, 1, n))
    BY <1>3 DEF AnswerRequest
  <2>3. /\ answer \in Seq(Requests) /\ Len(answer) = 2 /\ Grounded(answer[1]) /\ Grounded(answer[2])
        /\ answer[1].t \notin {"get", "presence"} /\ answer[2].t \notin {"get", "presence"}
    <3>1. /\ Approve(c) \in Seq(Requests) /\ Len(Approve(c)) = 2
          /\ Grounded(Approve(c)[1]) /\ Grounded(Approve(c)[2])
          /\ Approve(c)[1].t \notin {"get", "presence"} /\ Approve(c)[2].t \notin {"get", "presence"}
      BY <1>1 DEF Approve
    <3>2. /\ Deny(c) \in Seq(Requests) /\ Len(Deny(c)) = 2 /\ Grounded(Deny(c)[1]) /\ Grounded(Deny(c)[2])
          /\ Deny(c)[1].t \notin {"get", "presence"} /\ Deny(c)[2].t \notin {"get", "presence"}
      BY <1>1 DEF Deny
    <3> QED
      BY <3>1, <3>2
  <2>4. SubSeq(answer, 1, n) \in PlainSeqs
    <3>1. \A i \in 1..n : /\ answer[i] \in Requests /\ Grounded(answer[i])
                           /\ answer[i].t \notin {"get", "presence"}
      <4>1. \A i \in 1..n : i \in {1, 2} /\ i \in DOMAIN answer
        BY <2>3, LenProperties
      <4>2. \A i \in DOMAIN answer : answer[i] \in Requests
        BY <2>3
      <4> QED
        BY <2>3, <4>1, <4>2
    <3>2. /\ SubSeq(answer, 1, n) \in Seq(Requests) /\ Len(SubSeq(answer, 1, n)) = n
          /\ \A i \in 1..n : SubSeq(answer, 1, n)[i] = answer[i]
      BY <2>3, <3>1, SubSeqProperties
    <3>3. DOMAIN SubSeq(answer, 1, n) = 1..n
      BY <3>2, LenProperties
    <3> QED
      BY <3>1, <3>2, <3>3 DEF PlainSeqs, GroundedSeqs
  <2>6. asked' \subseteq Contacts /\ up /\ UNCHANGED <<server, stack, friends, shown, toClient, used, past>>
    BY <1>3 DEF AnswerRequest, TypeOK
  <2> QED
    BY <2>1, <2>4, <2>6 DEF TypeOK
<1>4. CASE ~AnswerRequest(c)
  <2>1. Call /\ UNCHANGED <<server, stack, mirror, toClient, past>>
    BY <1>4 DEF Application, AddRosterItem, DeleteRosterItem, SubscribeRosterItem, MoveRosterItem,
                CopyRosterItem, RemoveRosterItemFromGroups, ChangeRosterItemName,
                UpdateRosterItem, Edit
  <2>2. roster[c] # None => roster[c].name \in Names /\ roster[c].groups \in SUBSET Groups
    BY DEF TypeOK, Item
  <2>3. \E s \in PlainSeqs : Request(s)
    <3>1. CASE AddRosterItem(c)
      <4>1. PICK n \in Names, gs \in SUBSET Groups, subscribe \in BOOLEAN :
              Request(<<Add(c, n, gs, Fields)>>
                        \o IF subscribe THEN <<Stanza("subscribe", c)>> ELSE <<>>)
        BY <3>1 DEF AddRosterItem
      <4>2. (IF subscribe THEN <<Stanza("subscribe", c)>> ELSE <<>>) \in PlainSeqs
        <5>1. <<>> \in PlainSeqs
          BY EmptySeq DEF PlainSeqs, GroundedSeqs
        <5> QED
          BY <1>1, <5>1
      <4>3. <<Add(c, n, gs, Fields)>> \in PlainSeqs
        BY GroundedAdd DEF Fields
      <4> QED
        BY <4>1, <4>2, <4>3, GroundedConcat DEF PlainSeqs
    <3>2. CASE DeleteRosterItem(c) \/ SubscribeRosterItem(c)
      BY <1>1, <3>2 DEF DeleteRosterItem, SubscribeRosterItem
    <3>3. CASE MoveRosterItem(c) \/ CopyRosterItem(c) \/ RemoveRosterItemFromGroups(c)
      <4>1. PICK gs \in SUBSET Groups : Request(<<Add(c, roster[c].name, gs, {"groups"})>>) /\ roster[c] # None
        BY <2>2, <3>3 DEF MoveRosterItem, CopyRosterItem, RemoveRosterItemFromGroups, Edit, Regroup
      <4>2. <<Add(c, roster[c].name, gs, {"groups"})>> \in PlainSeqs
        BY <2>2, <4>1, GroundedAdd DEF Fields
      <4> QED
        BY <4>1, <4>2
    <3>4. CASE ChangeRosterItemName(c)
      <4>1. PICK n \in Names : Request(<<Add(c, n, roster[c].groups, {"name"})>>) /\ roster[c] # None
        BY <3>4 DEF ChangeRosterItemName, Edit
      <4>2. <<Add(c, n, roster[c].groups, {"name"})>> \in PlainSeqs
        BY <2>2, <4>1, GroundedAdd DEF Fields
      <4> QED
        BY <4>1, <4>2
    <3>5. CASE UpdateRosterItem(c)
      <4>1. PICK n \in Names, gs \in SUBSET Groups : Request(<<Add(c, n, gs, Fields)>>)
        BY <3>5 DEF UpdateRosterItem
      <4> QED
        BY <4>1, GroundedAdd DEF Fields
    <3> QED
      BY <1>4, <3>1, <3>2, <3>3, <3>4, <3>5 DEF Application
  <2>5. used' \in [call : 0..MaxCalls, remote : 0..MaxRemote, login : 0..MaxLogins]
    BY <2>1, SpendType DEF Call
  <2>6. up
    BY <2>1 DEF Call
  <2> QED
    BY <2>1, <2>3, <2>5, <2>6 DEF mirror, TypeOK
<1> QED
  BY <1>3, <1>4

LEMMA CallTypes ==
  ASSUME TypeOK, NEW c \in Contacts, Application(c)
  PROVE  TypeOK'
<1>1. toServer' \in Seq(Requests)
  BY CallRequests, RequestType DEF GroundedSeqs, PlainSeqs
<1> QED
  BY <1>1, CallRequests DEF server, stack, past, TypeOK

LEMMA HandleRosterTypes == ASSUME TypeOK, HandleRoster PROVE TypeOK'
<1>1. First.all \in [Contacts -> Entry] /\ toClient' \in Seq(Stanzas)
  BY ReceivedType DEF HandleRoster
<1>2. PICK all : /\ all = [c \in Contacts |-> IF roster[c] # None THEN roster[c] ELSE First.all[c]]
                 /\ roster' = all
                 /\ friends' = [c \in Contacts |-> IF all[c] # None THEN all[c] ELSE friends[c]]
                 /\ unfriended' = {c \in unfriended : all[c] = None}
  BY DEF HandleRoster
<1>3. all \in [Contacts -> Item \union {None}] /\ \A c \in Contacts : roster[c] # None => all[c] # None
  BY <1>1, <1>2 DEF TypeOK, Entry
<1>4. /\ friends' \in [Contacts -> Item \union {None}]
      /\ \A c \in Contacts : friends[c] # None => friends'[c] # None
  BY <1>2, <1>3 DEF TypeOK
<1>5. unfriended' \subseteq Contacts
  BY <1>2 DEF TypeOK
<1>6. <<[t |-> "presence"]>> \in Seq(Requests)
  BY ShortSeqs DEF Requests
<1>7. toServer' \in Seq(Requests)
  BY <1>6, RequestType DEF HandleRoster
<1>8. noRoster' = FALSE /\ UNCHANGED <<server, up, online, shown, asked, used, refilled, unseen, missed>>
  BY DEF HandleRoster
<1>9. /\ \A c \in shown : friends'[c] # None
      /\ \A c \in online : roster'[c] # None
  BY <1>2, <1>3, <1>4 DEF TypeOK
<1>10. roster' \in [Contacts -> Item \union {None}]
  BY <1>2, <1>3
<1>11. /\ UNCHANGED <<srv, avail, pending, listening, active, up, online, shown, asked, used,
                      refilled, unseen, missed>>
       /\ noRoster' \in BOOLEAN
  BY <1>8 DEF server
<1> QED
  BY <1>1, <1>4, <1>5, <1>7, <1>9, <1>10, <1>11 DEF TypeOK

LEMMA MergePushTypes == ASSUME TypeOK, MergePush PROVE TypeOK'
<1>1. First.c \in Contacts /\ First.item \in Entry /\ toClient' \in Seq(Stanzas)
  BY ReceivedType DEF MergePush
<1>2. PICK c \in Contacts, i \in Entry : c = First.c /\ i = First.item
  BY <1>1
<1>3. /\ roster' = [roster EXCEPT ![c] = i] /\ online' = ResourcesAfter(c, i)
      /\ friends' = [friends EXCEPT ![c] = FriendAfter(c, i)]
      /\ shown' = {d \in shown : friends'[d] # None}
      /\ UNCHANGED <<server, up, asked, toServer, used, noRoster, refilled>>
  BY <1>2 DEF MergePush
<1>4. roster' \in [Contacts -> Item \union {None}]
  BY <1>3 DEF TypeOK, Entry
<1>5. friends' \in [Contacts -> Item \union {None}]
  BY <1>3 DEF FriendAfter, TypeOK, Entry
<1>6. /\ online' \subseteq Contacts /\ shown' \subseteq Contacts
      /\ \A d \in shown' : friends'[d] # None
      /\ \A d \in online' : roster'[d] # None
  BY <1>3 DEF ResourcesAfter, TypeOK
<1>7. unseen' \subseteq Contacts /\ missed' \subseteq Contacts /\ unfriended' \subseteq Contacts
  BY <1>1 DEF MergePush, TypeOK
<1> QED
  BY <1>1, <1>3, <1>4, <1>5, <1>6, <1>7 DEF server, TypeOK

LEMMA HandlePresenceTypes == ASSUME TypeOK, HandlePresence PROVE TypeOK'
<1>1. First.c \in Contacts /\ toClient' \in Seq(Stanzas)
  BY ReceivedType DEF HandlePresence
<1>2. PICK c \in Contacts : c = First.c
  BY <1>1
<1>3. /\ online' = IF roster[c] # None
                   THEN IF First.on THEN online \union {c} ELSE online \ {c} ELSE online
      /\ shown' = IF Showable(c) THEN IF First.on THEN shown \union {c} ELSE shown \ {c} ELSE shown
      /\ missed' = IF roster[c] # None THEN missed \ {c} ELSE missed \union {c}
      /\ UNCHANGED <<server, up, roster, friends, asked, toServer, used, noRoster, refilled, unseen,
                     unfriended>>
  BY <1>2 DEF HandlePresence
<1>4. /\ online' \subseteq Contacts /\ shown' \subseteq Contacts /\ missed' \subseteq Contacts
      /\ \A d \in shown' : friends[d] # None
      /\ \A d \in online' : roster[d] # None
  BY <1>3 DEF Showable, TypeOK
<1> QED
  BY <1>1, <1>3, <1>4 DEF server, TypeOK

\* The handlers of an error and of subscription stanzas.
LEMMA SubscriptionTypes ==
  ASSUME TypeOK,
         \/ HandleRosterError \/ HandleSubscribe \/ HandleSubscribed \/ HandleUnsubscribe
         \/ HandleUnsubscribed
  PROVE  TypeOK'
<1>1. CASE HandleRosterError
  <2>1. <<[t |-> "presence"]>> \in Seq(Requests)
    BY ShortSeqs DEF Requests
  <2>2. toServer' \in Seq(Requests) /\ toClient' \in Seq(Stanzas)
    BY <1>1, <2>1, RequestType, ReceivedType DEF HandleRosterError
  <2> QED
    BY <1>1, <2>2 DEF HandleRosterError, server, stack, mirror, TypeOK
<1>2. CASE HandleSubscribe
  <2>1. First.c \in Contacts /\ toClient' \in Seq(Stanzas)
    BY <1>2, ReceivedType DEF HandleSubscribe
  <2>2. Approve(First.c) \in Seq(Requests)
    <3>1. Stanza("subscribed", First.c) \in Requests /\ Stanza("subscribe", First.c) \in Requests
      BY <2>1, StanzaTypes
    <3> QED
      BY <3>1, ShortSeqs DEF Approve
  <2>3. toServer' \in Seq(Requests)
    BY <1>2, <2>2, RequestType DEF HandleSubscribe, TypeOK
  <2>4. asked' \subseteq Contacts
    BY <1>2, <2>1 DEF HandleSubscribe, TypeOK
  <2>5. UNCHANGED <<server, stack, friends, shown, used, past>>
    BY <1>2 DEF HandleSubscribe
  <2> QED
    BY <2>1, <2>3, <2>4, <2>5 DEF server, stack, past, TypeOK
<1>3. CASE HandleSubscribed
  <2>1. toClient' \in Seq(Stanzas)
    BY <1>3, ReceivedType DEF HandleSubscribed
  <2> QED
    BY <1>3, <2>1 DEF HandleSubscribed, server, stack, mirror, past, TypeOK
<1>4. CASE HandleUnsubscribe
  <2>1. First.c \in Contacts /\ toClient' \in Seq(Stanzas)
    BY <1>4, ReceivedType DEF HandleUnsubscribe
  <2>2. <<Stanza("unsubscribed", First.c)>> \in Seq(Requests)
    BY <2>1, StanzaTypes, ShortSeqs
  <2>3. toServer' \in Seq(Requests)
    BY <1>4, <2>2, RequestType DEF HandleUnsubscribe
  <2> QED
    BY <1>4, <2>1, <2>3 DEF HandleUnsubscribe, server, stack, mirror, past, TypeOK
<1>5. CASE HandleUnsubscribed
  <2>1. First.c \in Contacts /\ toClient' \in Seq(Stanzas)
    BY <1>5, ReceivedType DEF HandleUnsubscribed
  <2>2. /\ friends' \in [Contacts -> Item \union {None}] /\ shown' \subseteq Contacts
        /\ unfriended' \subseteq Contacts /\ \A d \in shown' : friends'[d] # None
    BY <1>5, <2>1 DEF HandleUnsubscribed, TypeOK
  <2>3. UNCHANGED <<server, stack, asked, toServer, used, noRoster, refilled, unseen, missed>>
    BY <1>5 DEF HandleUnsubscribed
  <2> QED
    BY <2>1, <2>2, <2>3 DEF server, stack, TypeOK
<1> QED
  BY <1>1, <1>2, <1>3, <1>4, <1>5

LEMMA ReceiverTypes == ASSUME TypeOK, Receiver PROVE TypeOK'
  BY HandleRosterTypes, MergePushTypes, HandlePresenceTypes, SubscriptionTypes DEF Receiver

LEMMA ServeGetTypes == ASSUME TypeOK, ServeGet PROVE TypeOK'
<1>1. toServer' \in Seq(Requests)
  BY ServedType DEF ServeGet
<1>2. [t |-> "result", all |-> srv] \in Stanzas /\ [t |-> "error"] \in Stanzas
  BY DEF Stanzas, TypeOK
<1>3. toClient' \in Seq(Stanzas)
  <2>1. PICK m \in Stanzas : toClient' = Append(toClient, m)
    BY <1>2 DEF ServeGet
  <2>2. toClient \in Seq(Stanzas)
    BY DEF TypeOK
  <2> QED
    BY <2>1, <2>2, AppendProperties
<1>4. used' \in [call : 0..MaxCalls, remote : 0..MaxRemote, login : 0..MaxLogins]
  BY SpendType DEF ServeGet, TypeOK
<1>5. listening' = TRUE /\ UNCHANGED <<srv, avail, pending, active, stack, mirror, past>>
  BY DEF ServeGet
<1> QED
  BY <1>1, <1>3, <1>4, <1>5 DEF stack, mirror, past, TypeOK

\* The image of a finite set is finite.
LEMMA ImageIsFinite ==
  ASSUME NEW S, IsFiniteSet(S), NEW f, f = [x \in S |-> f[x]]
  PROVE  IsFiniteSet({f[x] : x \in S})
<1> DEFINE T == {f[x] : x \in S}
<1>1. f \in [S -> T]
  OBVIOUS
<1>2. f \in Surjection(S, T)
  BY <1>1 DEF Surjection
<1> QED
  BY <1>2, FS_Surjection

\* The finite sets of presences and requests that a first presence brings.
LEMMA Welcome ==
  ASSUME TypeOK, NEW here \in Orders({PresenceOf(c, TRUE) : c \in {d \in Contacts : Visible(d)}}),
         NEW asks \in Orders({Stanza("subscribe", c) : c \in pending})
  PROVE  /\ here \o asks \in Seq(Stanzas)
         /\ \A i \in DOMAIN (here \o asks) : (here \o asks)[i].t \in {"presence", "subscribe"}
         /\ \A i \in DOMAIN (here \o asks) : (here \o asks)[i].t = "presence" =>
              \E c \in Contacts : Visible(c) /\ (here \o asks)[i] = PresenceOf(c, TRUE)
         /\ \A c \in Contacts : Visible(c) =>
              \E i \in DOMAIN (here \o asks) : (here \o asks)[i] = PresenceOf(c, TRUE)
<1> DEFINE H == {PresenceOf(c, TRUE) : c \in {d \in Contacts : Visible(d)}}
           A == {Stanza("subscribe", c) : c \in pending}
<1>1. IsFiniteSet({d \in Contacts : Visible(d)}) /\ IsFiniteSet(pending)
  BY RosterAssumption, FS_Subset DEF TypeOK
<1>2. IsFiniteSet(H) /\ IsFiniteSet(A)
  <2> DEFINE D == {d \in Contacts : Visible(d)}
             h == [c \in D |-> PresenceOf(c, TRUE)]
             a == [c \in pending |-> Stanza("subscribe", c)]
  <2>1. H = {h[c] : c \in D} /\ A = {a[c] : c \in pending}
    OBVIOUS
  <2>2. DOMAIN h = D /\ h = [c \in D |-> h[c]] /\ DOMAIN a = pending /\ a = [c \in pending |-> a[c]]
    OBVIOUS
  <2>3. IsFiniteSet(D)
    BY <1>1
  <2> HIDE DEF h, a, D, H, A
  <2>4. IsFiniteSet({h[c] : c \in D})
    BY <2>2, <2>3, ImageIsFinite
  <2>5. IsFiniteSet({a[c] : c \in pending})
    BY <1>1, <2>2, ImageIsFinite
  <2> QED
    BY <2>1, <2>4, <2>5
<1>3. H \subseteq Stanzas /\ A \subseteq Stanzas
  BY StanzaTypes DEF TypeOK
<1>4. /\ \A m \in H : m.t = "presence"
      /\ \A m \in A : m.t = "subscribe"
  BY DEF PresenceOf, Stanza
<1>5. /\ \A m \in H : \E c \in Contacts : Visible(c) /\ m = PresenceOf(c, TRUE)
      /\ \A c \in Contacts : Visible(c) => PresenceOf(c, TRUE) \in H
  OBVIOUS
<1>6. \A m \in H : \E i \in DOMAIN here : here[i] = m
  BY DEF Orders
<1>7. /\ here \in Seq(Stanzas) /\ asks \in Seq(Stanzas)
      /\ \A i \in DOMAIN here : here[i] \in H
      /\ \A i \in DOMAIN asks : asks[i] \in A
  BY <1>2, <1>3, OrdersAreSeqs
<1> HIDE DEF H, A
<1>8. /\ \A i \in DOMAIN here : here[i].t = "presence"
      /\ \A i \in DOMAIN asks : asks[i].t = "subscribe"
  BY <1>4, <1>7
<1>9. /\ here \o asks \in Seq(Stanzas) /\ Len(here) \in Nat /\ Len(asks) \in Nat
      /\ DOMAIN here = 1..Len(here) /\ DOMAIN asks = 1..Len(asks)
      /\ DOMAIN (here \o asks) = 1..(Len(here) + Len(asks))
      /\ \A i \in 1..Len(here) : (here \o asks)[i] = here[i]
      /\ \A i \in 1..Len(asks) : (here \o asks)[Len(here) + i] = asks[i]
  BY <1>7, Concatenated
<1>10. ASSUME NEW i \in DOMAIN (here \o asks)
      PROVE  (here \o asks)[i].t \in {"presence", "subscribe"}
  <2>1. CASE i \in 1..Len(here)
    BY <1>8, <1>9, <2>1
  <2>2. CASE i \notin 1..Len(here)
    <3>1. i - Len(here) \in 1..Len(asks) /\ Len(here) + (i - Len(here)) = i
      BY <1>9, <2>2
    <3>2. (here \o asks)[i] = asks[i - Len(here)]
      BY <1>9, <3>1
    <3> QED
      BY <1>8, <1>9, <3>1, <3>2
  <2> QED
    BY <2>1, <2>2
<1>11. ASSUME NEW i \in DOMAIN (here \o asks), (here \o asks)[i].t = "presence"
       PROVE  \E c \in Contacts : Visible(c) /\ (here \o asks)[i] = PresenceOf(c, TRUE)
  <2>1. CASE i \in 1..Len(here)
    BY <1>7, <1>9, <1>5, <2>1
  <2>2. CASE i \notin 1..Len(here)
    <3>1. i - Len(here) \in 1..Len(asks) /\ Len(here) + (i - Len(here)) = i
      BY <1>9, <2>2
    <3>2. (here \o asks)[i] = asks[i - Len(here)]
      BY <1>9, <3>1
    <3> QED
      BY <1>8, <1>9, <1>11, <3>1, <3>2
  <2> QED
    BY <2>1, <2>2
<1>12. ASSUME NEW c \in Contacts, Visible(c)
       PROVE  \E i \in DOMAIN (here \o asks) : (here \o asks)[i] = PresenceOf(c, TRUE)
  <2>1. PICK i \in DOMAIN here : here[i] = PresenceOf(c, TRUE)
    BY <1>5, <1>6, <1>12
  <2>2. i \in DOMAIN (here \o asks) /\ (here \o asks)[i] = here[i]
    BY <1>9
  <2> QED
    BY <2>1, <2>2
<1> QED
  BY <1>9, <1>10, <1>11, <1>12

\* What an item becomes on the server.
LEMMA ItemTypes ==
  ASSUME NEW i \in Entry
  PROVE  /\ \A n \in Names, gs \in SUBSET Groups :
              NewItem(n, gs) \in Item /\ (i # None => [i EXCEPT !.name = n, !.groups = gs] \in Item)
         /\ \A n \in Names :
              /\ [(IF i = None THEN NewItem(n, {}) ELSE i) EXCEPT !.to = "out"] \in Item
              /\ [(IF i = None THEN NewItem(n, {}) ELSE i) EXCEPT !.from = TRUE] \in Item
         /\ i # None => /\ [i EXCEPT !.to = "to"] \in Item /\ [i EXCEPT !.to = "none"] \in Item
                        /\ [i EXCEPT !.from = FALSE] \in Item
  BY DEF Entry, Item, NewItem

\* Messages that say nothing of an item, and are no answer to a fill.
QuietSeqs == {s \in Seq(Stanzas) : \A i \in DOMAIN s : s[i].t \notin {"push", "result", "error"}}

\* What the server, the contacts and the other devices do, but for the answer to a
\* fill: they set an item, or say something that is not about an item.
Moves ==
  /\ \/ \E c \in Contacts, i \in Entry, before \in QuietSeqs, after \in QuietSeqs :
           SetItem(c, i, before, after)
     \/ /\ UNCHANGED <<srv, unseen>> /\ missed' \subseteq Contacts
        /\ UNCHANGED toClient \/ \E s \in QuietSeqs : Deliver(s)
  /\ UNCHANGED toServer \/ \E t : t # "get" /\ Serve(t)
  /\ avail' \subseteq Contacts /\ pending' \subseteq Contacts /\ active' \in BOOLEAN
  /\ used' \in [call : 0..MaxCalls, remote : 0..MaxRemote, login : 0..MaxLogins]
  /\ UNCHANGED <<listening, up, roster, online, friends, shown, asked, noRoster, refilled, unfriended>>

LEMMA QuietShort ==
  /\ <<>> \in QuietSeqs
  /\ \A c \in Contacts, on \in BOOLEAN : <<PresenceOf(c, on)>> \in QuietSeqs
  /\ \A c \in Contacts, t \in {"subscribe", "subscribed", "unsubscribe", "unsubscribed"} :
       <<Stanza(t, c)>> \in QuietSeqs
  /\ \A c \in Contacts, on \in BOOLEAN : Seen(c, on) \in QuietSeqs
  /\ \A c \in Contacts, on \in BOOLEAN : Seen(c, on) \o <<Stanza("unsubscribed", c)>> \in QuietSeqs
<1>1. <<>> \in QuietSeqs
  BY EmptySeq DEF QuietSeqs
<1>2. ASSUME NEW c \in Contacts, NEW on \in BOOLEAN
      PROVE  <<PresenceOf(c, on)>> \in QuietSeqs
  <2>1. PresenceOf(c, on) \in Stanzas /\ PresenceOf(c, on).t = "presence"
    BY StanzaTypes DEF PresenceOf
  <2> QED
    BY <2>1, ShortSeqs DEF QuietSeqs
<1>3. ASSUME NEW c \in Contacts, NEW t \in {"subscribe", "subscribed", "unsubscribe", "unsubscribed"}
      PROVE  <<Stanza(t, c)>> \in QuietSeqs
  <2>1. Stanza(t, c) \in Stanzas /\ Stanza(t, c).t = t
    BY StanzaTypes DEF Stanza
  <2> QED
    BY <2>1, ShortSeqs DEF QuietSeqs
<1>4. ASSUME NEW c \in Contacts, NEW on \in BOOLEAN
      PROVE  Seen(c, on) \in QuietSeqs
  BY <1>1, <1>2 DEF Seen
<1>5. ASSUME NEW c \in Contacts, NEW on \in BOOLEAN
      PROVE  Seen(c, on) \o <<Stanza("unsubscribed", c)>> \in QuietSeqs
  <2>1. PICK q \in QuietSeqs, s \in QuietSeqs : q = Seen(c, on) /\ s = <<Stanza("unsubscribed", c)>>
    BY <1>3, <1>4
  <2>2. /\ q \o s \in Seq(Stanzas) /\ Len(q) \in Nat /\ Len(s) \in Nat
        /\ DOMAIN q = 1..Len(q) /\ DOMAIN s = 1..Len(s) /\ DOMAIN (q \o s) = 1..(Len(q) + Len(s))
        /\ \A i \in 1..Len(q) : (q \o s)[i] = q[i]
        /\ \A i \in 1..Len(s) : (q \o s)[Len(q) + i] = s[i]
    BY Concatenated DEF QuietSeqs
  <2>3. \A i \in DOMAIN (q \o s) : i \in 1..Len(q) \/ (i - Len(q) \in 1..Len(s) /\ (q \o s)[i] = s[i - Len(q)])
    BY <2>2
  <2>4. q \o s \in QuietSeqs
    BY <2>2, <2>3 DEF QuietSeqs
  <2> QED
    BY <2>1, <2>4
<1> QED
  BY <1>1, <1>2, <1>3, <1>4, <1>5

LEMMA ServeMoves ==
  ASSUME TypeOK,
         \/ ServeSet \/ ServeRemove \/ ServePresence \/ ServeSubscribe \/ ServeSubscribed
         \/ ServeUnsubscribed
  PROVE  Moves
<1>1. <<>> \in QuietSeqs
  BY QuietShort
<1>2. CASE ServePresence
  <2>1. UNCHANGED toClient \/ \E s \in QuietSeqs : Deliver(s)
    BY <1>2, Welcome DEF ServePresence, QuietSeqs
  <2> QED
    BY <1>2, <2>1 DEF Moves, ServePresence, stack, mirror, past, TypeOK
<1>3. CASE ServeSet \/ ServeRemove \/ ServeSubscribe \/ ServeSubscribed \/ ServeUnsubscribed
  <2>1. \E t : t # "get" /\ t # "presence" /\ Serve(t) /\ (ServeSet => t = "set")
    BY <1>3 DEF ServeSet, ServeRemove, ServeSubscribe, ServeSubscribed, ServeUnsubscribed
  <2>2. PICK c \in Contacts : c = Head(toServer).c
    BY <2>1, ServedType
  <2>3. srv[c] \in Entry /\ None \in Entry
    BY DEF TypeOK, Entry
  <2>4. \/ \E i \in Entry : SetItem(c, i, <<>>, <<>>)
        \/ Silent
    <3>1. CASE ServeSet
      <4>1. Head(toServer).name \in Names /\ Head(toServer).groups \in SUBSET Groups
        BY <3>1, ServedType DEF ServeSet
      <4> QED
        BY <2>2, <2>3, <3>1, <4>1, ItemTypes DEF ServeSet, Entry
    <3>2. CASE ServeRemove
      BY <2>2, <2>3, <3>2 DEF ServeRemove
    <3>3. CASE ServeSubscribe
      BY <2>2, <2>3, <3>3, ItemTypes DEF ServeSubscribe, Entry
    <3>4. CASE ServeSubscribed
      BY <2>2, <2>3, <3>4, ItemTypes DEF ServeSubscribed, Entry
    <3>5. CASE ServeUnsubscribed
      BY <2>2, <2>3, <3>5, ItemTypes DEF ServeUnsubscribed, Entry
    <3> QED
      BY <1>3, <3>1, <3>2, <3>3, <3>4, <3>5
  <2>5. /\ avail' \subseteq Contacts /\ pending' \subseteq Contacts /\ active' \in BOOLEAN
        /\ used' \in [call : 0..MaxCalls, remote : 0..MaxRemote, login : 0..MaxLogins]
    BY <1>3 DEF ServeSet, ServeRemove, ServeSubscribe, ServeSubscribed, ServeUnsubscribed, TypeOK
  <2>6. UNCHANGED <<listening, up, roster, online, friends, shown, asked, noRoster, refilled, unfriended>>
    BY <1>3 DEF ServeSet, ServeRemove, ServeSubscribe, ServeSubscribed, ServeUnsubscribed, stack, mirror
  <2> QED
    BY <1>1, <2>1, <2>4, <2>5, <2>6 DEF Moves, Silent, TypeOK
<1> QED
  BY <1>2, <1>3

LEMMA EnvironmentMoves ==
  ASSUME TypeOK, NEW c \in Contacts, Environment(c)
  PROVE  Moves
<1>1. /\ Spend("remote", MaxRemote)
      /\ UNCHANGED <<listening, active, stack, mirror, toServer, noRoster, refilled, unfriended>>
  BY DEF Environment, ContactAgrees, ContactRefuses, ContactAsks, ContactLeaves,
         ContactComesOrGoes, OtherDevice, Remote
<1>2. used' \in [call : 0..MaxCalls, remote : 0..MaxRemote, login : 0..MaxLogins]
  BY <1>1, SpendType
<1>3. avail' \subseteq Contacts /\ pending' \subseteq Contacts
  BY DEF Environment, ContactAgrees, ContactRefuses, ContactAsks, ContactLeaves,
         ContactComesOrGoes, OtherDevice, TypeOK
<1>4. srv[c] \in Entry /\ None \in Entry
  BY DEF TypeOK, Entry
<1>5. \/ \E i \in Entry, before \in QuietSeqs, after \in QuietSeqs : SetItem(c, i, before, after)
      \/ UNCHANGED <<srv, unseen>> /\ missed' \subseteq Contacts /\ \E s \in QuietSeqs : Deliver(s)
  <2>1. CASE ContactAgrees(c)
    BY <1>4, <2>1, ItemTypes, QuietShort DEF ContactAgrees, Entry
  <2>2. CASE ContactRefuses(c)
    <3>1. /\ (IF Visible(c) THEN Seen(c, FALSE) ELSE <<>>) \o <<Stanza("unsubscribed", c)>> \in QuietSeqs
          /\ <<>> \in QuietSeqs
      <4>1. Seen(c, FALSE) \o <<Stanza("unsubscribed", c)>> \in QuietSeqs /\ <<>> \in QuietSeqs
        BY QuietShort
      <4>2. <<>> \o <<Stanza("unsubscribed", c)>> \in QuietSeqs
        <5>1. <<Stanza("unsubscribed", c)>> \in QuietSeqs
          BY QuietShort
        <5>2. <<>> \o <<Stanza("unsubscribed", c)>> = <<Stanza("unsubscribed", c)>>
          BY <5>1, ConcatEmptySeq DEF QuietSeqs
        <5> QED
          BY <5>1, <5>2
      <4>3. CASE Visible(c)
        BY <4>1, <4>3
      <4>4. CASE ~Visible(c)
        BY <4>1, <4>2, <4>4
      <4> QED
        BY <4>3, <4>4
    <3>2. srv[c] # None /\ [srv[c] EXCEPT !.to = "none"] \in Entry
      BY <1>4, <2>2, ItemTypes DEF ContactRefuses, Entry
    <3> QED
      BY <2>2, <3>1, <3>2 DEF ContactRefuses
  <2>3. CASE ContactAsks(c)
    BY <2>3, QuietShort DEF ContactAsks, TypeOK
  <2>4. CASE ContactLeaves(c)
    BY <1>4, <2>4, ItemTypes, QuietShort DEF ContactLeaves, Entry
  <2>5. CASE ContactComesOrGoes(c)
    BY <2>5, QuietShort DEF ContactComesOrGoes, TypeOK
  <2>6. CASE OtherDevice(c)
    BY <1>4, <2>6, ItemTypes, QuietShort DEF OtherDevice, Entry
  <2> QED
    BY <2>1, <2>2, <2>3, <2>4, <2>5, <2>6 DEF Environment
<1> QED
  BY <1>1, <1>2, <1>3, <1>5 DEF Moves, stack, mirror, TypeOK

LEMMA MovesTypes == ASSUME TypeOK, Moves PROVE TypeOK'
<1>1. /\ srv' \in [Contacts -> Item \union {None}] /\ toClient' \in Seq(Stanzas)
      /\ unseen' \subseteq Contacts /\ missed' \subseteq Contacts
  BY SetItemType, DeliverType DEF Moves, QuietSeqs, TypeOK
<1>2. toServer' \in Seq(Requests)
  BY ServedType DEF Moves, TypeOK
<1> QED
  BY <1>1, <1>2 DEF Moves, TypeOK

LEMMA StepKeepsTypes == TypeOK /\ [Next]_vars => TypeOK'
<1> SUFFICES ASSUME TypeOK, [Next]_vars PROVE TypeOK'
  OBVIOUS
<1>1. CASE Server
  BY <1>1, ServeMoves, MovesTypes, ServeGetTypes DEF Server
<1>2. CASE \E c \in Contacts : Application(c) \/ Environment(c)
  BY <1>2, CallTypes, EnvironmentMoves, MovesTypes
<1>3. CASE UNCHANGED vars
  BY <1>3 DEF vars, server, stack, mirror, past, TypeOK
<1> QED
  BY <1>1, <1>2, <1>3, SessionTypes, ReceiverTypes DEF Next

\* The roster, the friends and all that travels keep their types; a friend who is
\* shown on line exists, and so does an item with a resource.
THEOREM RosterTypeCorrect == Spec => []TypeOK
  BY InitTypes, StepKeepsTypes, PTL DEF Spec

-----------------------------------------------------------------------------
(* Edits: what a request does not mean to change is taken from the item.   *)

LEMMA GroundedTail ==
  ASSUME NEW q \in GroundedSeqs, q # <<>>
  PROVE  Grounded(Head(q)) /\ Tail(q) \in GroundedSeqs
<1>1. /\ Tail(q) \in Seq(Requests) /\ Len(q) \in Nat /\ Len(q) > 0
      /\ DOMAIN q = 1..Len(q) /\ DOMAIN Tail(q) = 1..(Len(q) - 1) /\ Head(q) = q[1]
      /\ \A i \in 1..(Len(q) - 1) : Tail(q)[i] = q[i + 1]
  BY HeadAndTail DEF GroundedSeqs
<1>2. 1 \in DOMAIN q /\ \A i \in DOMAIN Tail(q) : i + 1 \in DOMAIN q
  BY <1>1
<1> QED
  BY <1>1, <1>2 DEF GroundedSeqs

LEMMA GroundedReplies ==
  /\ <<[t |-> "get"]>> \in GroundedSeqs /\ <<[t |-> "presence"]>> \in GroundedSeqs
  /\ \A c \in Contacts : Approve(c) \in PlainSeqs
<1>1. \A m \in Requests : Grounded(m) => <<m>> \in GroundedSeqs
  BY ShortSeqs DEF GroundedSeqs
<1>2. /\ [t |-> "get"] \in Requests /\ [t |-> "presence"] \in Requests
      /\ Grounded([t |-> "get"]) /\ Grounded([t |-> "presence"])
  BY DEF Requests, Grounded
<1>3. ASSUME NEW c \in Contacts
      PROVE  Approve(c) \in PlainSeqs
  <2>1. /\ Stanza("subscribed", c) \in Requests /\ Stanza("subscribe", c) \in Requests
        /\ Grounded(Stanza("subscribed", c)) /\ Grounded(Stanza("subscribe", c))
        /\ Stanza("subscribed", c).t = "subscribed" /\ Stanza("subscribe", c).t = "subscribe"
    BY GroundedStanza
  <2>2. /\ Approve(c) \in Seq(Requests) /\ DOMAIN Approve(c) = {1, 2}
        /\ Approve(c)[1] = Stanza("subscribed", c) /\ Approve(c)[2] = Stanza("subscribe", c)
    BY <2>1 DEF Approve
  <2> QED
    BY <2>1, <2>2 DEF GroundedSeqs, PlainSeqs
<1> QED
  BY <1>1, <1>2, <1>3

\* The receiver sends nothing, or an answer.
LEMMA ReceiverRequests ==
  ASSUME TypeOK, Receiver
  PROVE  /\ UNCHANGED <<srv, up, listening>>
         /\ UNCHANGED toServer \/ \E s \in GroundedSeqs : Request(s)
<1>1. CASE HandleRoster \/ HandleRosterError \/ MergePush \/ HandlePresence
  BY <1>1, GroundedReplies
     DEF HandleRoster, HandleRosterError, MergePush, HandlePresence, server, stack
<1>2. CASE HandleSubscribe
  <2>1. First.c \in Contacts
    BY <1>2, ReceivedType DEF HandleSubscribe
  <2> QED
    BY <1>2, <2>1, GroundedReplies DEF HandleSubscribe, server, stack, PlainSeqs
<1>3. CASE HandleUnsubscribe
  <2>1. First.c \in Contacts
    BY <1>3, ReceivedType DEF HandleUnsubscribe
  <2> QED
    BY <1>3, <2>1, GroundedStanza DEF HandleUnsubscribe, server, stack, PlainSeqs
<1>4. CASE HandleSubscribed \/ HandleUnsubscribed
  BY <1>4 DEF HandleSubscribed, HandleUnsubscribed, server, stack
<1> QED
  BY <1>1, <1>2, <1>3, <1>4 DEF Receiver

LEMMA StepKeepsGrounded ==
  TypeOK /\ toServer \in GroundedSeqs /\ [Next]_vars => (toServer \in GroundedSeqs)'
<1> SUFFICES ASSUME TypeOK, toServer \in GroundedSeqs, [Next]_vars
             PROVE  toServer' \in GroundedSeqs
  OBVIOUS
<1>1. ASSUME \E s \in GroundedSeqs : Request(s)
      PROVE  toServer' \in GroundedSeqs
  BY <1>1, GroundedConcat DEF Request
<1>2. ASSUME \E t : Serve(t)
      PROVE  toServer' \in GroundedSeqs
  BY <1>2, GroundedTail DEF Serve
<1>3. CASE Connected \/ GetRoster
  BY <1>1, <1>3, GroundedReplies DEF Connected, GetRoster, Fill
<1>4. CASE Lost
  BY <1>4, EmptySeq DEF Lost, GroundedSeqs
<1>5. CASE Receiver
  BY <1>1, <1>5, ReceiverRequests
<1>6. CASE ServeGet
  BY <1>2, <1>6 DEF ServeGet
<1>7. CASE Moves
  BY <1>2, <1>7 DEF Moves
<1>8. CASE \E c \in Contacts : Application(c)
  BY <1>1, <1>8, CallRequests DEF PlainSeqs
<1>9. CASE UNCHANGED vars
  BY <1>9 DEF vars
<1>10. CASE Server
  BY <1>6, <1>7, <1>10, ServeMoves DEF Server
<1>11. CASE \E c \in Contacts : Environment(c)
  BY <1>7, <1>11, EnvironmentMoves
<1> QED
  BY <1>3, <1>4, <1>5, <1>8, <1>9, <1>10, <1>11 DEF Next

\* A set request leaves the other field of an item alone, if the item is still
\* the one the call was made from.
THEOREM EditsKept == Spec => EditsKeepTheRest
<1>1. Init => toServer \in GroundedSeqs
  BY EmptySeq DEF Init, GroundedSeqs
<1>2. ASSUME TypeOK, toServer \in GroundedSeqs, NEW c \in Contacts, NEW field,
             ServeSet, Head(toServer).c = c, Head(toServer).of = srv[c], srv[c] # None,
             field \in Fields \ Head(toServer).what
      PROVE  srv'[c][field] = srv[c][field]
  <2>1. PICK m \in Requests : m = Head(toServer) /\ m.t = "set" /\ m.c = c /\ Grounded(m)
    BY <1>2, ServedType, GroundedTail DEF ServeSet, Serve
  <2>2. srv' = [srv EXCEPT ![c] = [srv[c] EXCEPT !.name = m.name, !.groups = m.groups]]
    BY <1>2, <2>1 DEF ServeSet, SetItem
  <2>3. srv \in [Contacts -> Item \union {None}] /\ srv[c] \in Item
    BY <1>2 DEF TypeOK
  <2>4. srv'[c] = [srv[c] EXCEPT !.name = m.name, !.groups = m.groups]
    BY <2>2, <2>3
  <2>5. srv'[c].name = m.name /\ srv'[c].groups = m.groups
    BY <2>3, <2>4 DEF Item
  <2>6. m.of = srv[c] /\ field \notin m.what
    BY <1>2, <2>1
  <2>7. CASE field = "name"
    BY <2>1, <2>5, <2>6, <2>7 DEF Grounded
  <2>8. CASE field = "groups"
    BY <2>1, <2>5, <2>6, <2>8 DEF Grounded
  <2> QED
    BY <1>2, <2>7, <2>8 DEF Fields
<1>3. TypeOK /\ toServer \in GroundedSeqs =>
        [\A c \in Contacts :
           (ServeSet /\ Head(toServer).c = c /\ Head(toServer).of = srv[c] /\ srv[c] # None) =>
             \A field \in Fields \ Head(toServer).what :
               srv'[c][field] = srv[c][field]]_vars
  BY <1>2
<1> QED
  BY <1>1, <1>3, RosterTypeCorrect, StepKeepsGrounded, PTL DEF Spec, EditsKeepTheRest

-----------------------------------------------------------------------------
(* The copies follow the server: the last that travels to the client of an *)
(* item is what the server holds, a copy is up to date when nothing of its *)
(* item travels, and what was never told is remembered.                    *)

Kept(c) ==
  NoMore(toClient, c, 0) =>
    /\ roster[c] \in {None, srv[c]}
    /\ Unfilled(toClient) /\ ~Asks(toServer) /\ ~noRoster => roster[c] = srv[c]

\* Before the server has this session's first request, nothing comes.
Deaf ==
  /\ ~listening => toClient = <<>>
  /\ up /\ ~listening => Asks(toServer) /\ \A c \in Contacts : roster[c] = None
  /\ ~up => ~listening /\ toServer = <<>>

Befriended(c) == roster[c] # None /\ c \notin unfriended => friends[c] = roster[c]
Ghost(c) == friends[c] # None /\ srv[c] = None => c \in unseen \/ ~NoMore(toClient, c, 0)

Follows ==
  /\ Deaf
  /\ \A c \in Contacts : Tells(toClient, c, srv[c]) /\ (up => Kept(c)) /\ Befriended(c) /\ Ghost(c)

LEMMA AsksMore ==
  ASSUME NEW S, NEW q \in Seq(S), NEW s \in Seq(S)
  PROVE  Asks(q) => Asks(q \o s)
<1>1. /\ DOMAIN q = 1..Len(q) /\ DOMAIN (q \o s) = 1..(Len(q) + Len(s))
      /\ Len(q) \in Nat /\ Len(s) \in Nat
      /\ \A i \in 1..Len(q) : (q \o s)[i] = q[i]
  BY Concatenated
<1>2. \A i \in DOMAIN q : i \in DOMAIN (q \o s) /\ (q \o s)[i] = q[i]
  BY <1>1
<1> QED
  BY <1>2 DEF Asks

LEMMA AsksTail ==
  ASSUME NEW S, NEW q \in Seq(S), q # <<>>
  PROVE  Asks(q) => Head(q).t = "get" \/ Asks(Tail(q))
<1>1. /\ Len(q) \in Nat /\ Len(q) > 0 /\ DOMAIN q = 1..Len(q)
      /\ DOMAIN Tail(q) = 1..(Len(q) - 1) /\ Head(q) = q[1]
      /\ \A i \in 1..(Len(q) - 1) : Tail(q)[i] = q[i + 1]
  BY HeadAndTail
<1>2. \A i \in DOMAIN q : i = 1 \/ (i - 1 \in DOMAIN Tail(q) /\ Tail(q)[i - 1] = q[i])
  BY <1>1
<1> QED
  BY <1>1, <1>2 DEF Asks

LEMMA UnfilledTail ==
  ASSUME NEW S, NEW q \in Seq(S), q # <<>>
  PROVE  Unfilled(Tail(q)) /\ Head(q).t \notin {"result", "error"} => Unfilled(q)
<1>1. /\ Len(q) \in Nat /\ Len(q) > 0 /\ DOMAIN q = 1..Len(q)
      /\ DOMAIN Tail(q) = 1..(Len(q) - 1) /\ Head(q) = q[1]
      /\ \A i \in 1..(Len(q) - 1) : Tail(q)[i] = q[i + 1]
  BY HeadAndTail
<1>2. \A i \in DOMAIN q : i = 1 \/ (i - 1 \in DOMAIN Tail(q) /\ Tail(q)[i - 1] = q[i])
  BY <1>1
<1> QED
  BY <1>1, <1>2 DEF Unfilled

LEMMA UnfilledMore ==
  ASSUME NEW S, NEW q \in Seq(S), NEW s \in Seq(S)
  PROVE  Unfilled(q \o s) => Unfilled(q)
<1>1. /\ DOMAIN q = 1..Len(q) /\ DOMAIN (q \o s) = 1..(Len(q) + Len(s))
      /\ Len(q) \in Nat /\ Len(s) \in Nat
      /\ \A i \in 1..Len(q) : (q \o s)[i] = q[i]
  BY Concatenated
<1>2. \A i \in DOMAIN q : i \in DOMAIN (q \o s) /\ (q \o s)[i] = q[i]
  BY <1>1
<1> QED
  BY <1>2 DEF Unfilled

\* Nothing under way.
LEMMA Empties ==
  /\ \A c : NoMore(<<>>, c, 0) /\ \A e : Tells(<<>>, c, e)
  /\ Unfilled(<<>>) /\ ~Asks(<<>>)
  BY DEF NoMore, Tells, Unfilled, Asks

LEMMA InitFollows == Init => Follows
<1> SUFFICES ASSUME Init PROVE Follows
  OBVIOUS
<1>1. /\ ~up /\ ~listening /\ toServer = <<>> /\ toClient = <<>>
      /\ \A c \in Contacts : roster[c] = None /\ friends[c] = None
  BY DEF Init
<1>2. \A c \in Contacts : Tells(toClient, c, srv[c])
  BY <1>1, Empties
<1> QED
  BY <1>1, <1>2 DEF Follows, Deaf, Befriended, Ghost

LEMMA FillFollows == ASSUME TypeOK, Follows, Connected \/ GetRoster PROVE Follows'
<1>1. /\ \A c \in Contacts : roster'[c] = None
      /\ toServer' = toServer \o <<[t |-> "get"]>> /\ up' = TRUE
      /\ UNCHANGED <<srv, toClient, friends, unfriended, unseen, noRoster, listening>>
  BY DEF Connected, GetRoster, Fill, Call, Request, server, stack, mirror
<1>2. Asks(toServer')
  <2>1. toServer \in Seq(Requests) /\ <<[t |-> "get"]>> \in Seq(Requests)
    BY GroundedReplies DEF TypeOK, GroundedSeqs
  <2>2. toServer' \in Seq(Requests) /\ Len(toServer) \in Nat
        /\ DOMAIN toServer' = 1..(Len(toServer) + 1) /\ toServer'[Len(toServer) + 1].t = "get"
    <3>1. PICK s \in Seq(Requests) : s = <<[t |-> "get"]>> /\ Len(s) = 1 /\ s[1].t = "get"
      BY <2>1
    <3> QED
      BY <1>1, <2>1, <3>1, Concatenated
  <2> QED
    BY <2>2 DEF Asks
<1>3. Deaf'
  BY <1>1, <1>2 DEF Follows, Deaf
<1> QED
  BY <1>1, <1>2, <1>3 DEF Follows, Kept, Befriended, Ghost

LEMMA LostFollows == ASSUME TypeOK, Follows, Lost PROVE Follows'
<1>1. /\ toServer' = <<>> /\ toClient' = <<>> /\ ~up' /\ ~listening'
      /\ UNCHANGED <<srv, roster, friends, unfriended, noRoster>>
  BY DEF Lost, mirror
<1>2. ASSUME NEW c \in Contacts, friends[c] # None, srv[c] = None
      PROVE  c \in unseen'
  <2>1. unseen \subseteq unseen'
    BY DEF Lost
  <2>2. CASE NoMore(toClient, c, 0)
    BY <1>2, <2>1, <2>2 DEF Follows, Ghost
  <2>3. CASE ~NoMore(toClient, c, 0)
    <3>1. PICK i \in DOMAIN toClient :
            toClient[i].t = "push" /\ toClient[i].c = c /\ toClient[i].item = None
      BY <1>2, <2>3, LastPush DEF Follows, TypeOK
    <3> QED
      BY <3>1 DEF Lost
  <2> QED
    BY <2>2, <2>3
<1>3. Deaf'
  BY <1>1 DEF Deaf
<1> QED
  BY <1>1, <1>2, <1>3, Empties DEF Follows, Befriended, Ghost

\* Steps that only send to the server.
LEMMA SaysFollows ==
  ASSUME TypeOK, Follows, up, NEW s \in Seq(Requests), Request(s),
         UNCHANGED <<srv, up, listening, roster, friends, unfriended, unseen, noRoster, toClient>>
  PROVE  Follows'
<1>1. Asks(toServer) => Asks(toServer')
  BY AsksMore DEF Request, TypeOK
<1>2. Deaf'
  BY <1>1 DEF Follows, Deaf
<1> QED
  BY <1>1, <1>2 DEF Follows, Kept, Befriended, Ghost

LEMMA CallFollows ==
  ASSUME TypeOK, Follows, NEW c \in Contacts, Application(c) PROVE Follows'
<1>1. up /\ UNCHANGED <<srv, up, listening, roster, friends, unfriended, unseen, noRoster, toClient>>
  BY CallRequests DEF server, stack, past
<1>2. PICK s \in Seq(Requests) : Request(s)
  BY CallRequests DEF GroundedSeqs, PlainSeqs
<1> QED
  BY <1>1, <1>2, SaysFollows

\* What every receiver's step does.
LEMMA Received ==
  ASSUME TypeOK, Follows, NEW t, Receive(t), Receiver
  PROVE  /\ toClient # <<>> /\ First.t = t /\ toClient' = Tail(toClient) /\ listening /\ up
         /\ UNCHANGED <<srv, up, listening>> /\ (Asks(toServer) => Asks(toServer'))
         /\ Deaf'
         /\ \A c \in Contacts : Tells(toClient', c, srv'[c])
<1>1. toClient # <<>> /\ First.t = t /\ toClient' = Tail(toClient) /\ listening /\ up
  BY DEF Receive, Follows, Deaf
<1>2. UNCHANGED <<srv, up, listening>>
  BY ReceiverRequests
<1>3. Asks(toServer) => Asks(toServer')
  <2>1. CASE UNCHANGED toServer
    BY <2>1
  <2>2. CASE \E s \in GroundedSeqs : Request(s)
    <3>1. PICK s \in Seq(Requests) : toServer' = toServer \o s
      BY <2>2 DEF Request, GroundedSeqs
    <3>2. toServer \in Seq(Requests)
      BY DEF TypeOK
    <3> QED
      BY <3>1, <3>2, AsksMore
  <2> QED
    BY <2>1, <2>2, ReceiverRequests
<1>4. Deaf'
  BY <1>1, <1>2 DEF Deaf
<1>5. \A c \in Contacts : Tells(toClient', c, srv'[c])
  BY <1>1, <1>2, TailTells DEF Follows, TypeOK
<1> QED
  BY <1>1, <1>2, <1>3, <1>4, <1>5

\* The answer to a fill: what the roster lacks is taken from it.
LEMMA HandleRosterFollows == ASSUME TypeOK, Follows, HandleRoster PROVE Follows'
<1>1. /\ toClient # <<>> /\ First.t = "result" /\ toClient' = Tail(toClient) /\ up
      /\ UNCHANGED <<srv, up>> /\ Deaf' /\ \A c \in Contacts : Tells(toClient', c, srv'[c])
  BY Received DEF HandleRoster, Receiver
<1>2. /\ \A c \in Contacts :
           /\ roster'[c] = IF roster[c] # None THEN roster[c] ELSE First.all[c]
           /\ friends'[c] = IF roster'[c] # None THEN roster'[c] ELSE friends[c]
      /\ UNCHANGED unseen
  BY DEF HandleRoster
<1>3. ASSUME NEW c \in Contacts
      PROVE  Kept(c)' /\ Befriended(c)' /\ Ghost(c)'
  <2>1. NoMore(toClient', c, 0) => NoMore(toClient, c, 0) /\ First.all[c] = srv[c]
    <3>1. toClient \in Seq(Stanzas) /\ Tells(toClient, c, srv[c])
      BY DEF TypeOK, Follows
    <3> QED
      BY <1>1, <3>1, TailTells DEF Says, First
  <2>2. Kept(c) /\ Ghost(c)
    BY <1>1 DEF Follows
  <2>3. NoMore(toClient', c, 0) => roster'[c] = srv[c]
    BY <1>2, <2>1, <2>2 DEF Kept
  <2>4. Kept(c)'
    BY <1>1, <2>3 DEF Kept
  <2>5. Befriended(c)'
    BY <1>2 DEF Befriended
  <2>6. Ghost(c)'
    BY <1>1, <1>2, <2>1, <2>2, <2>3 DEF Ghost
  <2> QED
    BY <2>4, <2>5, <2>6
<1> QED
  BY <1>1, <1>3 DEF Follows

LEMMA HandleErrorFollows == ASSUME TypeOK, Follows, HandleRosterError PROVE Follows'
<1>1. /\ toClient # <<>> /\ First.t = "error" /\ toClient' = Tail(toClient) /\ up
      /\ UNCHANGED <<srv, up>> /\ Deaf' /\ \A c \in Contacts : Tells(toClient', c, srv'[c])
  BY Received DEF HandleRosterError, Receiver
<1>2. noRoster' = TRUE /\ UNCHANGED <<roster, friends, unseen, unfriended>>
  BY DEF HandleRosterError, stack, mirror
<1>3. ASSUME NEW c \in Contacts
      PROVE  NoMore(toClient', c, 0) => NoMore(toClient, c, 0)
  <2>1. toClient \in Seq(Stanzas)
    BY DEF TypeOK
  <2> QED
    BY <1>1, <2>1, TailTells DEF First
<1> QED
  BY <1>1, <1>2, <1>3 DEF Follows, Kept, Befriended, Ghost

LEMMA MergePushFollows == ASSUME TypeOK, Follows, MergePush PROVE Follows'
<1>1. /\ toClient # <<>> /\ First.t = "push" /\ toClient' = Tail(toClient) /\ up
      /\ UNCHANGED <<srv, up>> /\ (Asks(toServer) => Asks(toServer'))
      /\ Deaf' /\ \A c \in Contacts : Tells(toClient', c, srv'[c])
  BY Received DEF MergePush, Receiver
<1>2. PICK c \in Contacts, i \in Entry : c = First.c /\ i = First.item
  BY ReceivedType DEF MergePush
<1>3. /\ roster' = [roster EXCEPT ![c] = i]
      /\ friends' = [friends EXCEPT ![c] = FriendAfter(c, i)]
      /\ unseen' = IF i = None /\ roster[c] = None THEN unseen \union {c}
                   ELSE IF i # None THEN unseen \ {c} ELSE unseen
      /\ unfriended' = IF i = None \/ roster[c] = None THEN unfriended \ {c} ELSE unfriended
      /\ UNCHANGED <<noRoster, toServer>>
  BY <1>2 DEF MergePush
<1>4. toClient \in Seq(Stanzas) /\ roster \in [Contacts -> Entry] /\ friends \in [Contacts -> Entry]
  BY DEF TypeOK, Entry
<1>5. ASSUME NEW d \in Contacts, d # c
      PROVE  Kept(d)' /\ Befriended(d)' /\ Ghost(d)'
  <2>1. NoMore(toClient', d, 0) <=> NoMore(toClient, d, 0)
    BY <1>1, <1>2, <1>4, <1>5, TailTells DEF First
  <2>2. roster'[d] = roster[d] /\ friends'[d] = friends[d]
    BY <1>3, <1>4, <1>5
  <2>3. (d \in unseen' <=> d \in unseen) /\ (d \in unfriended' <=> d \in unfriended)
    BY <1>3, <1>5
  <2>4. Unfilled(toClient') => Unfilled(toClient)
    BY <1>1, <1>4, UnfilledTail DEF First
  <2>5. Kept(d) /\ Befriended(d) /\ Ghost(d)
    BY <1>1 DEF Follows
  <2>6. Kept(d)'
    BY <1>1, <1>3, <2>1, <2>2, <2>4, <2>5 DEF Kept
  <2> QED
    BY <1>1, <2>1, <2>2, <2>3, <2>5, <2>6 DEF Befriended, Ghost
<1>6. Kept(c)' /\ Befriended(c)' /\ Ghost(c)'
  <2>1. NoMore(toClient', c, 0) => i = srv[c]
    <3>1. Tells(toClient, c, srv[c])
      BY DEF Follows
    <3> QED
      BY <1>1, <1>2, <1>4, <3>1, TailTells DEF Says, First
  <2>2. roster'[c] = i /\ friends'[c] = FriendAfter(c, i)
    BY <1>3, <1>4
  <2>3. Befriended(c)
    BY DEF Follows
  <2>4. Kept(c)'
    BY <1>1, <2>1, <2>2 DEF Kept
  <2>5. Befriended(c)'
    BY <1>3, <2>2, <2>3 DEF Befriended, FriendAfter
  <2>6. Ghost(c)'
    BY <1>1, <1>3, <2>1, <2>2 DEF Ghost, FriendAfter
  <2> QED
    BY <2>4, <2>5, <2>6
<1> QED
  BY <1>1, <1>5, <1>6 DEF Follows

\* Presence and subscription stanzas: an item that ceases to be a friend is
\* remembered as unfriended.
LEMMA QuietReceiptFollows ==
  ASSUME TypeOK, Follows,
         HandlePresence \/ HandleSubscribe \/ HandleSubscribed \/ HandleUnsubscribe \/ HandleUnsubscribed
  PROVE  Follows'
<1>1. PICK t \in {"presence", "subscribe", "subscribed", "unsubscribe", "unsubscribed"} : Receive(t)
  BY DEF HandlePresence, HandleSubscribe, HandleSubscribed, HandleUnsubscribe, HandleUnsubscribed
<1>2. /\ toClient # <<>> /\ First.t = t /\ toClient' = Tail(toClient) /\ up
      /\ UNCHANGED <<srv, up>> /\ (Asks(toServer) => Asks(toServer'))
      /\ Deaf' /\ \A c \in Contacts : Tells(toClient', c, srv'[c])
  BY <1>1, Received DEF Receiver
<1>3. UNCHANGED <<roster, noRoster, unseen>>
  BY DEF HandlePresence, HandleSubscribe, HandleSubscribed, HandleUnsubscribe, HandleUnsubscribed,
         stack, past
<1>4. ASSUME NEW c \in Contacts
      PROVE  \/ friends'[c] = friends[c] /\ (c \in unfriended => c \in unfriended')
             \/ friends'[c] = None /\ (roster[c] # None => c \in unfriended')
  <2>1. CASE HandleUnsubscribed
    BY <2>1, ReceivedType DEF HandleUnsubscribed, TypeOK
  <2>2. CASE ~HandleUnsubscribed
    BY <2>2 DEF HandlePresence, HandleSubscribe, HandleSubscribed, HandleUnsubscribe, mirror, past
  <2> QED
    BY <2>1, <2>2
<1>5. ASSUME NEW c \in Contacts
      PROVE  Kept(c)' /\ Befriended(c)' /\ Ghost(c)'
  <2>1. toClient \in Seq(Stanzas)
    BY DEF TypeOK
  <2>2. NoMore(toClient', c, 0) <=> NoMore(toClient, c, 0)
    BY <1>1, <1>2, <2>1, TailTells DEF First
  <2>3. Unfilled(toClient') => Unfilled(toClient)
    BY <1>1, <1>2, <2>1, UnfilledTail DEF First
  <2>4. Kept(c) /\ Befriended(c) /\ Ghost(c)
    BY <1>2 DEF Follows
  <2>5. Kept(c)'
    BY <1>2, <1>3, <2>2, <2>3, <2>4 DEF Kept
  <2>6. Befriended(c)'
    BY <1>3, <1>4, <2>4 DEF Befriended
  <2>7. Ghost(c)'
    BY <1>2, <1>3, <1>4, <2>2, <2>4 DEF Ghost
  <2> QED
    BY <2>5, <2>6, <2>7
<1> QED
  BY <1>2, <1>5 DEF Follows

LEMMA ServeGetFollows == ASSUME TypeOK, Follows, ServeGet PROVE Follows'
<1>1. /\ listening' = TRUE /\ UNCHANGED <<srv, up, roster, friends, unseen, unfriended, noRoster>>
      /\ toServer # <<>>
  BY DEF ServeGet, Serve, stack, mirror, past
<1>2. PICK m \in Stanzas : /\ toClient' = Append(toClient, m) /\ m.t \in {"result", "error"}
                           /\ m.t = "result" => m.all = srv
  <2>1. [t |-> "result", all |-> srv] \in Stanzas /\ [t |-> "error"] \in Stanzas
    BY DEF Stanzas, TypeOK
  <2> QED
    BY <2>1 DEF ServeGet
<1>3. toClient \in Seq(Stanzas) /\ up
  BY <1>1 DEF TypeOK, Follows, Deaf
<1>4. ~Unfilled(toClient')
  <2>1. Len(toClient) + 1 \in DOMAIN toClient' /\ toClient'[Len(toClient) + 1] = m
    <3>1. /\ Append(toClient, m) \in Seq(Stanzas) /\ Len(Append(toClient, m)) = Len(toClient) + 1
          /\ Append(toClient, m)[Len(toClient) + 1] = m /\ Len(toClient) \in Nat
      BY <1>3, AppendProperties, LenProperties
    <3>2. DOMAIN Append(toClient, m) = 1..(Len(toClient) + 1)
      BY <3>1, LenProperties
    <3> QED
      BY <1>2, <3>1, <3>2
  <2> QED
    BY <1>2, <2>1 DEF Unfilled
<1>5. ASSUME NEW c \in Contacts
      PROVE  /\ Tells(toClient', c, srv[c])
             /\ NoMore(toClient', c, 0) <=> NoMore(toClient, c, 0)
  <2>1. Says(m, c, srv[c])
    BY <1>2 DEF Says
  <2>2. Tells(toClient, c, srv[c])
    BY DEF Follows
  <2> QED
    BY <1>2, <1>3, <2>1, <2>2, AppendTells
<1>6. Deaf'
  BY <1>1, <1>3 DEF Deaf
<1> QED
  BY <1>1, <1>3, <1>4, <1>5, <1>6 DEF Follows, Kept, Befriended, Ghost

\* A push among messages that say nothing of items.
Around(s, k, c, i) ==
  /\ s \in Seq(Stanzas) /\ k \in DOMAIN s /\ s[k].t = "push" /\ s[k].c = c /\ s[k].item = i
  /\ \A j \in DOMAIN s : j # k => s[j].t \notin {"push", "result", "error"}

LEMMA PushAround ==
  ASSUME NEW before \in QuietSeqs, NEW after \in QuietSeqs, NEW c \in Contacts, NEW i \in Entry
  PROVE  \E k : Around(before \o <<Push(c, i)>> \o after, k, c, i)
<1>1. PICK p \in Seq(Stanzas) : p = <<Push(c, i)>> /\ Len(p) = 1 /\ p[1] = Push(c, i)
  BY StanzaTypes, ShortSeqs
<1>2. Push(c, i).t = "push" /\ Push(c, i).c = c /\ Push(c, i).item = i
  BY DEF Push
<1>3. before \in Seq(Stanzas) /\ after \in Seq(Stanzas)
  BY DEF QuietSeqs
<1>4. PICK b : b = before \o p
  OBVIOUS
<1>5. /\ b \in Seq(Stanzas) /\ Len(before) \in Nat
      /\ DOMAIN before = 1..Len(before) /\ DOMAIN p = 1..1
      /\ DOMAIN b = 1..(Len(before) + 1)
      /\ \A j \in 1..Len(before) : b[j] = before[j]
      /\ b[Len(before) + 1] = p[1]
  BY <1>1, <1>3, <1>4, Concatenated
<1>6. Len(b) = Len(before) + 1
  BY <1>5, LenProperties
<1>7. PICK s : s = b \o after
  OBVIOUS
<1>8. /\ s \in Seq(Stanzas) /\ Len(after) \in Nat
      /\ DOMAIN after = 1..Len(after) /\ DOMAIN s = 1..(Len(b) + Len(after))
      /\ \A j \in 1..Len(b) : s[j] = b[j]
      /\ \A j \in 1..Len(after) : s[Len(b) + j] = after[j]
  <2>1. b \in Seq(Stanzas) /\ after \in Seq(Stanzas)
    BY <1>3, <1>5
  <2> QED
    BY <1>7, <2>1, Concatenated
<1>9. PICK k \in Nat : k = Len(before) + 1
  BY <1>5
<1>10. k \in DOMAIN s /\ s[k] = Push(c, i)
  BY <1>1, <1>5, <1>6, <1>8, <1>9
<1>11. \A j \in DOMAIN s : j # k => s[j].t \notin {"push", "result", "error"}
  <2> SUFFICES ASSUME NEW j \in DOMAIN s, j # k PROVE s[j].t \notin {"push", "result", "error"}
    OBVIOUS
  <2>1. CASE j <= Len(before)
    <3>1. j \in 1..Len(before) /\ j \in 1..Len(b)
      BY <1>5, <1>6, <1>8, <2>1
    <3>2. s[j] = before[j]
      BY <1>5, <1>8, <3>1
    <3> QED
      BY <1>5, <3>1, <3>2 DEF QuietSeqs
  <2>2. CASE ~(j <= Len(before))
    <3>1. j - Len(b) \in 1..Len(after) /\ Len(b) + (j - Len(b)) = j
      BY <1>5, <1>6, <1>8, <1>9, <2>2
    <3>2. s[j] = after[j - Len(b)]
      BY <1>8, <3>1
    <3> QED
      BY <1>8, <3>1, <3>2 DEF QuietSeqs
  <2> QED
    BY <2>1, <2>2
<1>12. s = before \o <<Push(c, i)>> \o after
  BY <1>1, <1>4, <1>7
<1>13. Around(s, k, c, i)
  BY <1>2, <1>8, <1>10, <1>11 DEF Around
<1> QED
  BY <1>12, <1>13

LEMMA PushTells ==
  ASSUME NEW q \in Seq(Stanzas), NEW s, NEW k, NEW c \in Contacts, NEW i, Around(s, k, c, i)
  PROVE  /\ Tells(q \o s, c, i) /\ ~NoMore(q \o s, c, 0) /\ q \o s \in Seq(Stanzas)
         /\ \A d, e : d # c => /\ Tells(q, d, e) => Tells(q \o s, d, e)
                               /\ NoMore(q, d, 0) <=> NoMore(q \o s, d, 0)
<1>1. s \in Seq(Stanzas)
  BY DEF Around
<1>2. /\ q \o s \in Seq(Stanzas) /\ Len(q) \in Nat /\ Len(s) \in Nat
      /\ DOMAIN q = 1..Len(q) /\ DOMAIN s = 1..Len(s) /\ DOMAIN (q \o s) = 1..(Len(q) + Len(s))
      /\ \A j \in 1..Len(q) : (q \o s)[j] = q[j]
      /\ \A j \in 1..Len(s) : (q \o s)[Len(q) + j] = s[j]
  BY <1>1, Concatenated
<1>3. PICK z : z = q \o s
  OBVIOUS
<1>4. k \in 1..Len(s) /\ s[k].t = "push" /\ s[k].c = c /\ s[k].item = i
  BY <1>2 DEF Around
<1>5. Len(q) + k \in DOMAIN z /\ z[Len(q) + k] = s[k] /\ Len(q) + k > 0
  BY <1>2, <1>3, <1>4
<1>6. ~NoMore(z, c, 0)
  BY <1>4, <1>5 DEF NoMore
<1>7. Tells(z, c, i)
  <2> SUFFICES ASSUME NEW j \in DOMAIN z, NoMore(z, c, j) PROVE Says(z[j], c, i)
    BY DEF Tells
  <2>1. ~(Len(q) + k > j) /\ j \in 1..(Len(q) + Len(s))
    BY <1>2, <1>3, <1>4, <1>5 DEF NoMore
  <2>2. CASE j = Len(q) + k
    BY <1>4, <1>5, <2>2 DEF Says
  <2>3. CASE j # Len(q) + k
    <3>1. j - Len(q) \in 1..Len(s) /\ Len(q) + (j - Len(q)) = j /\ j - Len(q) # k
      BY <1>2, <1>4, <2>1, <2>3
    <3>2. z[j] = s[j - Len(q)]
      BY <1>2, <1>3, <3>1
    <3>3. z[j].t \notin {"push", "result", "error"}
      BY <1>2, <3>1, <3>2 DEF Around
    <3> QED
      BY <3>3 DEF Says
  <2> QED
    BY <2>2, <2>3
<1>8. ASSUME NEW d, NEW e, d # c
      PROVE  /\ Tells(q, d, e) => Tells(q \o s, d, e)
             /\ NoMore(q, d, 0) <=> NoMore(q \o s, d, 0)
  <2>1. \A j \in DOMAIN s : s[j].t # "result" /\ ~(s[j].t = "push" /\ s[j].c = d)
    BY <1>4, <1>8 DEF Around
  <2> QED
    BY <1>1, <2>1, QuietTells
<1> QED
  BY <1>2, <1>3, <1>6, <1>7, <1>8

LEMMA MovesFollows == ASSUME TypeOK, Follows, Moves PROVE Follows'
<1>1. UNCHANGED <<listening, up, roster, friends, noRoster, unfriended>>
  BY DEF Moves
<1>2. toClient \in Seq(Stanzas) /\ toServer \in Seq(Requests) /\ srv \in [Contacts -> Entry]
  BY DEF TypeOK, Entry
<1>3. /\ Asks(toServer) => Asks(toServer')
      /\ toServer = <<>> => toServer' = <<>>
  <2>1. CASE UNCHANGED toServer
    BY <2>1
  <2>2. CASE \E t : t # "get" /\ Serve(t)
    BY <1>2, <2>2, AsksTail DEF Serve
  <2> QED
    BY <2>1, <2>2 DEF Moves
<1>4. ~listening => UNCHANGED toClient
  BY DEF Moves, SetItem, Deliver
<1>5. Deaf'
  BY <1>1, <1>3, <1>4 DEF Follows, Deaf
<1>6. Unfilled(toClient') => Unfilled(toClient)
  <2>1. UNCHANGED toClient \/ \E s \in Seq(Stanzas) : toClient' = toClient \o s
    <3>1. ASSUME NEW c \in Contacts, NEW i \in Entry, NEW before \in QuietSeqs, NEW after \in QuietSeqs,
                 SetItem(c, i, before, after)
          PROVE  UNCHANGED toClient \/ \E s \in Seq(Stanzas) : toClient' = toClient \o s
      <4>1. <<Push(c, i)>> \in Seq(Stanzas) /\ before \in Seq(Stanzas) /\ after \in Seq(Stanzas)
        BY StanzaTypes, ShortSeqs DEF QuietSeqs
      <4>2. before \o <<Push(c, i)>> \o after \in Seq(Stanzas)
        BY <4>1, Concatenated
      <4> QED
        BY <3>1, <4>2 DEF SetItem, Deliver
    <3>2. ASSUME NEW s \in QuietSeqs, Deliver(s)
          PROVE  UNCHANGED toClient \/ \E z \in Seq(Stanzas) : toClient' = toClient \o z
      BY <3>2 DEF Deliver, QuietSeqs
    <3> QED
      BY <3>1, <3>2 DEF Moves
  <2> QED
    BY <1>2, <2>1, UnfilledMore
<1>7. ASSUME NEW c \in Contacts, NEW i \in Entry, NEW before \in QuietSeqs, NEW after \in QuietSeqs,
             SetItem(c, i, before, after), NEW d \in Contacts
      PROVE  Tells(toClient', d, srv'[d]) /\ (up' => Kept(d)') /\ Befriended(d)' /\ Ghost(d)'
  <2>1. Tells(toClient, d, srv[d]) /\ (up => Kept(d)) /\ Befriended(d) /\ Ghost(d)
    BY DEF Follows
  <2>2. Befriended(d)'
    BY <1>1, <2>1 DEF Befriended
  <2>3. CASE ~listening
    <3>1. toClient' = <<>> /\ toClient = <<>>
      BY <1>4, <2>3 DEF Follows, Deaf
    <3>2. Tells(toClient', d, srv'[d])
      BY <3>1, Empties
    <3>3. up' => Asks(toServer') /\ roster'[d] = None
      BY <1>1, <1>5, <2>3 DEF Deaf
    <3>4. Ghost(d)'
      <4>1. d = c \/ srv'[d] = srv[d]
        BY <1>2, <1>7 DEF SetItem
      <4>2. d # c => unseen' = unseen \/ unseen' = unseen \union {c}
        BY <1>7 DEF SetItem
      <4>3. srv'[c] = i /\ (i = None /\ srv[c] # None => c \in unseen') /\ unseen \subseteq unseen'
        BY <1>2, <1>7, <2>3 DEF SetItem
      <4> QED
        BY <1>1, <2>1, <3>1, <4>1, <4>2, <4>3 DEF Ghost
    <3> QED
      BY <2>2, <3>2, <3>3, <3>4 DEF Kept
  <2>4. CASE listening
    <3>1. toClient' = toClient \o (before \o <<Push(c, i)>> \o after) /\ srv'[c] = i
          /\ (d # c => srv'[d] = srv[d]) /\ unseen' = unseen
      BY <1>2, <1>7, <2>4 DEF SetItem, Deliver
    <3>2. /\ Tells(toClient', c, i) /\ ~NoMore(toClient', c, 0)
          /\ d # c => /\ Tells(toClient, d, srv[d]) => Tells(toClient', d, srv[d])
                      /\ NoMore(toClient, d, 0) <=> NoMore(toClient', d, 0)
      <4>1. PICK s, k : s = before \o <<Push(c, i)>> \o after /\ Around(s, k, c, i)
        BY PushAround
      <4>2. toClient' = toClient \o s
        BY <3>1, <4>1
      <4> QED
        BY <1>2, <4>1, <4>2, PushTells
    <3>3. CASE d = c
      BY <2>2, <3>1, <3>2, <3>3 DEF Kept, Ghost
    <3>4. CASE d # c
      BY <1>1, <1>3, <1>6, <2>1, <2>2, <3>1, <3>2, <3>4 DEF Kept, Ghost
    <3> QED
      BY <3>3, <3>4
  <2> QED
    BY <2>3, <2>4
<1>8. ASSUME UNCHANGED <<srv, unseen>>, UNCHANGED toClient \/ \E s \in QuietSeqs : Deliver(s),
             NEW d \in Contacts
      PROVE  Tells(toClient', d, srv'[d]) /\ (up' => Kept(d)') /\ Befriended(d)' /\ Ghost(d)'
  <2>1. Tells(toClient, d, srv[d]) /\ (up => Kept(d)) /\ Befriended(d) /\ Ghost(d)
    BY DEF Follows
  <2>2. /\ Tells(toClient, d, srv[d]) => Tells(toClient', d, srv[d])
        /\ NoMore(toClient, d, 0) <=> NoMore(toClient', d, 0)
    <3>1. CASE UNCHANGED toClient
      BY <3>1
    <3>2. ASSUME NEW s \in QuietSeqs, toClient' = toClient \o s
          PROVE  /\ Tells(toClient, d, srv[d]) => Tells(toClient', d, srv[d])
                 /\ NoMore(toClient, d, 0) <=> NoMore(toClient', d, 0)
      <4>1. s \in Seq(Stanzas) /\ \A j \in DOMAIN s : s[j].t # "result" /\ ~(s[j].t = "push" /\ s[j].c = d)
        BY DEF QuietSeqs
      <4> QED
        BY <1>2, <3>2, <4>1, QuietTells
    <3> QED
      BY <1>8, <3>1, <3>2 DEF Deliver
  <2> QED
    BY <1>1, <1>3, <1>6, <1>8, <2>1, <2>2 DEF Kept, Befriended, Ghost
<1> QED
  BY <1>5, <1>7, <1>8 DEF Moves, Follows

LEMMA StepKeepsFollows == TypeOK /\ Follows /\ [Next]_vars => Follows'
<1> SUFFICES ASSUME TypeOK, Follows, [Next]_vars PROVE Follows'
  OBVIOUS
<1>1. CASE Receiver
  BY <1>1, HandleRosterFollows, HandleErrorFollows, MergePushFollows, QuietReceiptFollows DEF Receiver
<1>2. CASE Server
  BY <1>2, ServeGetFollows, ServeMoves, MovesFollows DEF Server
<1>3. CASE \E c \in Contacts : Application(c) \/ Environment(c)
  BY <1>3, CallFollows, EnvironmentMoves, MovesFollows
<1>4. CASE UNCHANGED vars
  BY <1>4 DEF vars, server, stack, mirror, past, Follows, Deaf, Kept, Befriended, Ghost
<1> QED
  BY <1>1, <1>2, <1>3, <1>4, FillFollows, LostFollows DEF Next

LEMMA AlwaysFollows == Spec => [](TypeOK /\ Follows)
  BY InitTypes, StepKeepsTypes, InitFollows, StepKeepsFollows, PTL DEF Spec

\* Once nothing is under way the local roster is the server's, unless the last
\* answer to a roster request was an error.
THEOREM RosterMirrors == Spec => []Mirrors
<1>1. TypeOK /\ Follows => Mirrors
  <2> SUFFICES ASSUME TypeOK, Follows, up, toServer = <<>>, toClient = <<>>, ~noRoster
               PROVE  roster = srv
    BY DEF Mirrors, Settled
  <2>1. \A c \in Contacts : roster[c] = srv[c]
    BY Empties DEF Follows, Kept
  <2> QED
    BY <2>1 DEF TypeOK
<1> QED
  BY <1>1, AlwaysFollows, PTL

\* The friends of the application are then the items of the roster, but for those
\* who unsubscribed and for those whose removal no push has told.
THEOREM FriendsStayInStep == Spec => []FriendsAgree
<1>1. TypeOK /\ Follows => FriendsAgree
  <2> SUFFICES ASSUME TypeOK, Follows, up, toServer = <<>>, toClient = <<>>, NEW c \in Contacts
               PROVE  /\ roster[c] # None /\ c \notin unfriended => friends[c] = roster[c]
                      /\ roster[c] = None /\ friends[c] # None => noRoster \/ c \in unseen
    BY DEF FriendsAgree, Settled
  <2>1. Kept(c) /\ Befriended(c) /\ Ghost(c)
    BY DEF Follows
  <2> QED
    BY <2>1, Empties DEF Kept, Befriended, Ghost
<1> QED
  BY <1>1, AlwaysFollows, PTL


-----------------------------------------------------------------------------
(* Presence: what travels of it, and what has been heard.                  *)

\* What a message says of the presence of c: that it comes, that it goes, or that
\* the item, and its resources with it, is removed.
On(m, c)    == m.t = "presence" /\ m.c = c /\ m.on = TRUE
Drops(m, c) == m.t = "push" /\ m.c = c /\ m.item = None
Adds(m, c)  == m.t = "push" /\ m.c = c /\ m.item # None
Marks(m, c) == (m.t = "presence" /\ m.c = c) \/ Drops(m, c)

\* The messages of q after position i say nothing of the presence of c; the last
\* that q says of it is v.
Unmarked(q, c, i) == \A j \in DOMAIN q : j > i => ~Marks(q[j], c)
Shows(q, c, v)    == \A i \in DOMAIN q : Marks(q[i], c) /\ Unmarked(q, c, i) => (On(q[i], c) <=> v)

\* When the i-th message of q is handled there is an item for c, if there is one
\* now (known) or one comes before it, and none is removed for good.
KnownAt(q, c, i, known) ==
  /\ known \/ \E k \in DOMAIN q : k < i /\ Adds(q[k], c)
  /\ \A j \in DOMAIN q : j < i /\ Drops(q[j], c) => \E k \in DOMAIN q : j < k /\ k < i /\ Adds(q[k], c)

Greets(q) == \E i \in DOMAIN q : q[i].t = "presence"

\* A session is asked for presence once its roster has come, and there is one
\* request for the roster and one answer, unless getRoster() was called.
Early ==
  /\ active \/ Greets(toServer) => listening
  /\ ~active => ~Greets(toClient) /\ (up => online = {})
  /\ up /\ ~refilled =>
       /\ \A i, j \in DOMAIN toServer : toServer[i].t = "get" /\ toServer[j].t = "get" => i = j
       /\ \A i, j \in DOMAIN toClient :
            toClient[i].t \in {"result", "error"} /\ toClient[j].t \in {"result", "error"} => i = j
       /\ ~Unfilled(toClient) => ~Asks(toServer)
       /\ (Asks(toServer) \/ ~Unfilled(toClient)) => ~active /\ ~Greets(toServer)

\* The only fill of the session has been answered.
Sure == up /\ ~refilled /\ ~noRoster /\ Unfilled(toClient) /\ ~Asks(toServer)

Told     == active => \A c \in Contacts : Shows(toClient, c, Visible(c))
OnlineIs == Sure /\ active =>
  \A c \in Contacts : Unmarked(toClient, c, 0) => (c \in online <=> Visible(c))
KnownWhenOn == Sure =>
  \A c \in Contacts : \A i \in DOMAIN toClient :
    On(toClient[i], c) => KnownAt(toClient, c, i, roster[c] # None)
ShownIs == \A c \in shown \ missed : Unmarked(toClient, c, 0) => Visible(c)
OnlineShown == up /\ ~refilled => \A c \in online : friends[c] # None => c \in shown

Heard == Early /\ Told /\ OnlineIs /\ KnownWhenOn /\ ShownIs /\ OnlineShown

\* Taking the first message away.
LEMMA TailShows ==
  ASSUME NEW S, NEW q \in Seq(S), q # <<>>, NEW c, NEW v
  PROVE  /\ Shows(q, c, v) => Shows(Tail(q), c, v)
         /\ Unmarked(q, c, 0) => Unmarked(Tail(q), c, 0)
         /\ Unmarked(Tail(q), c, 0) /\ ~Marks(Head(q), c) => Unmarked(q, c, 0)
         /\ Unmarked(Tail(q), c, 0) /\ Shows(q, c, v) /\ Marks(Head(q), c) => (On(Head(q), c) <=> v)
<1>1. /\ Len(q) \in Nat /\ Len(q) > 0 /\ DOMAIN q = 1..Len(q)
      /\ DOMAIN Tail(q) = 1..(Len(q) - 1) /\ Head(q) = q[1]
      /\ \A i \in 1..(Len(q) - 1) : Tail(q)[i] = q[i + 1]
  BY HeadAndTail
<1>2. \A j \in DOMAIN q : j = 1 \/ (j - 1 \in DOMAIN Tail(q) /\ Tail(q)[j - 1] = q[j])
  BY <1>1
<1>3. \A j \in DOMAIN Tail(q) : j + 1 \in DOMAIN q /\ Tail(q)[j] = q[j + 1] /\ j \in Nat /\ j > 0
  BY <1>1
<1>4. Unmarked(Tail(q), c, 0) => Unmarked(q, c, 1)
  <2> SUFFICES ASSUME Unmarked(Tail(q), c, 0), NEW j \in DOMAIN q, j > 1 PROVE ~Marks(q[j], c)
    BY DEF Unmarked
  <2>1. j - 1 \in DOMAIN Tail(q) /\ j - 1 > 0 /\ Tail(q)[j - 1] = q[j]
    BY <1>1
  <2> QED
    BY <2>1 DEF Unmarked
<1>5. Unmarked(q, c, 0) => Unmarked(Tail(q), c, 0)
  <2> SUFFICES ASSUME Unmarked(q, c, 0), NEW j \in DOMAIN Tail(q) PROVE ~Marks(Tail(q)[j], c)
    BY DEF Unmarked
  <2>1. j + 1 \in DOMAIN q /\ j + 1 > 0 /\ Tail(q)[j] = q[j + 1]
    BY <1>3
  <2> QED
    BY <2>1 DEF Unmarked
<1>6. ASSUME NEW i \in DOMAIN Tail(q), Unmarked(Tail(q), c, i)
      PROVE  Unmarked(q, c, i + 1)
  <2> SUFFICES ASSUME NEW j \in DOMAIN q, j > i + 1 PROVE ~Marks(q[j], c)
    BY DEF Unmarked
  <2>1. j - 1 \in DOMAIN Tail(q) /\ j - 1 > i /\ Tail(q)[j - 1] = q[j]
    BY <1>1
  <2> QED
    BY <1>6, <2>1 DEF Unmarked
<1>7. Shows(q, c, v) => Shows(Tail(q), c, v)
  <2> SUFFICES ASSUME Shows(q, c, v), NEW i \in DOMAIN Tail(q), Marks(Tail(q)[i], c), Unmarked(Tail(q), c, i)
               PROVE  On(Tail(q)[i], c) <=> v
    BY DEF Shows
  <2>1. i + 1 \in DOMAIN q /\ Tail(q)[i] = q[i + 1] /\ Unmarked(q, c, i + 1)
    BY <1>3, <1>6
  <2> QED
    BY <2>1 DEF Shows
<1>8. Unmarked(Tail(q), c, 0) /\ ~Marks(Head(q), c) => Unmarked(q, c, 0)
  <2> SUFFICES ASSUME Unmarked(q, c, 1), ~Marks(Head(q), c), NEW j \in DOMAIN q
               PROVE  ~Marks(q[j], c)
    BY <1>4 DEF Unmarked
  <2>1. j = 1 \/ j > 1
    BY <1>1
  <2> QED
    BY <1>1, <2>1 DEF Unmarked
<1>9. Unmarked(Tail(q), c, 0) /\ Shows(q, c, v) /\ Marks(Head(q), c) => (On(Head(q), c) <=> v)
  <2>1. 1 \in DOMAIN q
    BY <1>1
  <2> QED
    BY <1>1, <1>4, <2>1 DEF Shows
<1> QED
  BY <1>5, <1>7, <1>8, <1>9

\* Messages that come behind.
LEMMA MoreShows ==
  ASSUME NEW S, NEW q \in Seq(S), NEW s \in Seq(S), NEW c, NEW v
  PROVE  /\ Unmarked(q \o s, c, 0) <=> Unmarked(q, c, 0) /\ Unmarked(s, c, 0)
         /\ ~Unmarked(s, c, 0) \/ Shows(q, c, v) =>
              ((\A j \in DOMAIN s : Marks(s[j], c) => (On(s[j], c) <=> v)) => Shows(q \o s, c, v))
<1>1. /\ Len(q) \in Nat /\ Len(s) \in Nat
      /\ DOMAIN q = 1..Len(q) /\ DOMAIN s = 1..Len(s) /\ DOMAIN (q \o s) = 1..(Len(q) + Len(s))
      /\ \A i \in 1..Len(q) : (q \o s)[i] = q[i]
      /\ \A i \in 1..Len(s) : (q \o s)[Len(q) + i] = s[i]
  BY Concatenated
<1>2. PICK z : z = q \o s
  OBVIOUS
<1>3. \A i \in DOMAIN z : \/ i \in DOMAIN q /\ z[i] = q[i] /\ i > 0
                          \/ i - Len(q) \in DOMAIN s /\ z[i] = s[i - Len(q)] /\ i > Len(q) /\ i - Len(q) > 0
  BY <1>1, <1>2
<1>4. /\ \A i \in DOMAIN q : i \in DOMAIN z /\ z[i] = q[i] /\ i > 0
      /\ \A i \in DOMAIN s : Len(q) + i \in DOMAIN z /\ z[Len(q) + i] = s[i] /\ i > 0 /\ Len(q) + i > 0
      /\ \A i \in DOMAIN q : \A j \in DOMAIN s : Len(q) + j > i
  BY <1>1, <1>2
<1>5. Unmarked(z, c, 0) <=> Unmarked(q, c, 0) /\ Unmarked(s, c, 0)
  BY <1>3, <1>4 DEF Unmarked
<1>6. ASSUME NEW i \in DOMAIN q, Unmarked(z, c, i)
      PROVE  Unmarked(q, c, i) /\ Unmarked(s, c, 0)
  BY <1>4, <1>6 DEF Unmarked
<1>7. ASSUME ~Unmarked(s, c, 0) \/ Shows(q, c, v),
             \A j \in DOMAIN s : Marks(s[j], c) => (On(s[j], c) <=> v),
             NEW i \in DOMAIN z, Marks(z[i], c), Unmarked(z, c, i)
      PROVE  On(z[i], c) <=> v
  BY <1>3, <1>6, <1>7 DEF Shows
<1>8. ~Unmarked(s, c, 0) \/ Shows(q, c, v) =>
        ((\A j \in DOMAIN s : Marks(s[j], c) => (On(s[j], c) <=> v)) => Shows(z, c, v))
  BY <1>7 DEF Shows
<1> QED
  BY <1>2, <1>5, <1>8

\* Taking away a message that does not remove c.
LEMMA TailKnown ==
  ASSUME NEW S, NEW q \in Seq(S), q # <<>>, NEW c, NEW i \in DOMAIN Tail(q), NEW known, NEW now,
         KnownAt(q, c, i + 1, known), Adds(Head(q), c) => now, known /\ ~Drops(Head(q), c) => now
  PROVE  KnownAt(Tail(q), c, i, now)
<1>1. /\ Len(q) \in Nat /\ Len(q) > 0 /\ DOMAIN q = 1..Len(q)
      /\ DOMAIN Tail(q) = 1..(Len(q) - 1) /\ Head(q) = q[1]
      /\ \A j \in 1..(Len(q) - 1) : Tail(q)[j] = q[j + 1]
  BY HeadAndTail
<1>2. \A j \in DOMAIN q : j = 1 \/ (j - 1 \in DOMAIN Tail(q) /\ Tail(q)[j - 1] = q[j])
  BY <1>1
<1>3. \A j \in DOMAIN Tail(q) : j + 1 \in DOMAIN q /\ Tail(q)[j] = q[j + 1]
  BY <1>1
<1>4. ASSUME NEW j \in Nat, NEW k \in DOMAIN q, j < k, k < i + 1, j > 0
      PROVE  k - 1 \in DOMAIN Tail(q) /\ Tail(q)[k - 1] = q[k] /\ j - 1 < k - 1 /\ k - 1 < i
  BY <1>1, <1>4
<1>5. ASSUME NEW j \in DOMAIN Tail(q), j < i, Drops(Tail(q)[j], c)
      PROVE  \E k \in DOMAIN Tail(q) : j < k /\ k < i /\ Adds(Tail(q)[k], c)
  <2>1. j + 1 \in DOMAIN q /\ j + 1 < i + 1 /\ Drops(q[j + 1], c) /\ j + 1 \in Nat /\ j + 1 > 0
    BY <1>1, <1>3, <1>5
  <2>2. PICK k \in DOMAIN q : j + 1 < k /\ k < i + 1 /\ Adds(q[k], c)
    BY <2>1 DEF KnownAt
  <2>3. k - 1 \in DOMAIN Tail(q) /\ Tail(q)[k - 1] = q[k] /\ j < k - 1 /\ k - 1 < i
    BY <1>1, <1>4, <2>1, <2>2
  <2> QED
    BY <2>2, <2>3
<1>6. now \/ \E k \in DOMAIN Tail(q) : k < i /\ Adds(Tail(q)[k], c)
  <2>1. CASE Drops(Head(q), c)
    <3>1. 1 \in DOMAIN q /\ 1 < i + 1 /\ Drops(q[1], c)
      BY <1>1, <2>1
    <3>2. PICK k \in DOMAIN q : 1 < k /\ k < i + 1 /\ Adds(q[k], c)
      BY <3>1 DEF KnownAt
    <3>3. k - 1 \in DOMAIN Tail(q) /\ Tail(q)[k - 1] = q[k] /\ k - 1 < i
      BY <1>4, <3>2
    <3> QED
      BY <3>2, <3>3
  <2>2. CASE ~Drops(Head(q), c) /\ ~now
    <3>1. PICK k \in DOMAIN q : k < i + 1 /\ Adds(q[k], c)
      BY <2>2 DEF KnownAt
    <3>2. k # 1
      BY <1>1, <2>2, <3>1
    <3>3. k - 1 \in DOMAIN Tail(q) /\ Tail(q)[k - 1] = q[k] /\ k - 1 < i
      BY <1>1, <1>2, <3>1, <3>2
    <3> QED
      BY <3>1, <3>3
  <2> QED
    BY <2>1, <2>2
<1> QED
  BY <1>5, <1>6 DEF KnownAt

LEMMA KnownKept ==
  ASSUME NEW S, NEW q \in Seq(S), NEW s \in Seq(S), NEW c, NEW known,
         \A i \in DOMAIN q : On(q[i], c) => KnownAt(q, c, i, known),
         \A i \in DOMAIN s : ~On(s[i], c)
  PROVE  \A i \in DOMAIN (q \o s) : On((q \o s)[i], c) => KnownAt(q \o s, c, i, known)
<1>1. /\ Len(q) \in Nat /\ Len(s) \in Nat
      /\ DOMAIN q = 1..Len(q) /\ DOMAIN s = 1..Len(s) /\ DOMAIN (q \o s) = 1..(Len(q) + Len(s))
      /\ \A i \in 1..Len(q) : (q \o s)[i] = q[i]
      /\ \A i \in 1..Len(s) : (q \o s)[Len(q) + i] = s[i]
  BY Concatenated
<1>2. PICK z : z = q \o s
  OBVIOUS
<1>3. \A i \in DOMAIN z : \/ i \in DOMAIN q /\ z[i] = q[i]
                          \/ i - Len(q) \in DOMAIN s /\ z[i] = s[i - Len(q)]
  BY <1>1, <1>2
<1>4. /\ \A i \in DOMAIN q : i \in DOMAIN z /\ z[i] = q[i]
      /\ \A i \in DOMAIN q : \A j \in DOMAIN z : j < i => j \in DOMAIN q
  BY <1>1, <1>2
<1>5. ASSUME NEW i \in DOMAIN z, On(z[i], c)
      PROVE  KnownAt(z, c, i, known)
  <2>1. i \in DOMAIN q /\ KnownAt(q, c, i, known)
    BY <1>3, <1>5
  <2>2. known \/ \E k \in DOMAIN z : k < i /\ Adds(z[k], c)
    BY <1>4, <2>1 DEF KnownAt
  <2>3. ASSUME NEW j \in DOMAIN z, j < i, Drops(z[j], c)
        PROVE  \E k \in DOMAIN z : j < k /\ k < i /\ Adds(z[k], c)
    <3>1. j \in DOMAIN q /\ z[j] = q[j]
      BY <1>4, <2>1, <2>3
    <3>2. PICK k \in DOMAIN q : j < k /\ k < i /\ Adds(q[k], c)
      BY <2>1, <2>3, <3>1 DEF KnownAt
    <3> QED
      BY <1>4, <3>2
  <2> QED
    BY <2>2, <2>3 DEF KnownAt
<1> QED
  BY <1>2, <1>5

LEMMA KnownMore ==
  ASSUME NEW q \in Seq(Stanzas), NEW s \in Seq(Stanzas), NEW c, NEW known, NEW e, e # None,
         Tells(q, c, e), NoMore(q, c, 0) => known,
         \A i \in DOMAIN q : On(q[i], c) => KnownAt(q, c, i, known),
         (\E i \in DOMAIN s : On(s[i], c)) => \A i \in DOMAIN s : ~Drops(s[i], c)
  PROVE  \A i \in DOMAIN (q \o s) : On((q \o s)[i], c) => KnownAt(q \o s, c, i, known)
<1>1. /\ Len(q) \in Nat /\ Len(s) \in Nat
      /\ DOMAIN q = 1..Len(q) /\ DOMAIN s = 1..Len(s) /\ DOMAIN (q \o s) = 1..(Len(q) + Len(s))
      /\ \A i \in 1..Len(q) : (q \o s)[i] = q[i]
      /\ \A i \in 1..Len(s) : (q \o s)[Len(q) + i] = s[i]
  BY Concatenated
<1>2. PICK z : z = q \o s
  OBVIOUS
<1>3. \A i \in DOMAIN z : \/ i \in DOMAIN q /\ z[i] = q[i]
                          \/ i - Len(q) \in DOMAIN s /\ z[i] = s[i - Len(q)] /\ i > Len(q)
  BY <1>1, <1>2
<1>4. /\ \A i \in DOMAIN q : i \in DOMAIN z /\ z[i] = q[i]
      /\ \A i \in DOMAIN q : \A j \in DOMAIN z : j > Len(q) => j > i /\ ~(j < i)
  BY <1>1, <1>2
<1>5. ASSUME NEW i \in DOMAIN q, On(q[i], c)
      PROVE  KnownAt(z, c, i, known)
  <2>1. KnownAt(q, c, i, known)
    BY <1>5
  <2>2. known \/ \E k \in DOMAIN z : k < i /\ Adds(z[k], c)
    BY <1>4, <2>1 DEF KnownAt
  <2>3. ASSUME NEW j \in DOMAIN z, j < i, Drops(z[j], c)
        PROVE  \E k \in DOMAIN z : j < k /\ k < i /\ Adds(z[k], c)
    <3>1. j \in DOMAIN q /\ z[j] = q[j]
      BY <1>3, <1>4, <2>3
    <3>2. PICK k \in DOMAIN q : j < k /\ k < i /\ Adds(q[k], c)
      BY <2>1, <2>3, <3>1 DEF KnownAt
    <3> QED
      BY <1>4, <3>2
  <2> QED
    BY <2>2, <2>3 DEF KnownAt
<1>6. ASSUME NEW i \in DOMAIN z, i > Len(q), On(z[i], c)
      PROVE  KnownAt(z, c, i, known)
  <2>1. \A j \in DOMAIN s : ~Drops(s[j], c)
    <3>1. i - Len(q) \in DOMAIN s /\ z[i] = s[i - Len(q)]
      BY <1>1, <1>2, <1>6
    <3> QED
      BY <1>6, <3>1
  <2>2. \A j \in DOMAIN z : Drops(z[j], c) => j \in DOMAIN q /\ z[j] = q[j]
    BY <1>3, <2>1
  <2>3. CASE NoMore(q, c, 0)
    <3>1. \A j \in DOMAIN q : ~Drops(q[j], c)
      BY <1>1, <2>3 DEF NoMore, Drops
    <3> QED
      BY <2>2, <2>3, <3>1 DEF KnownAt
  <2>4. CASE ~NoMore(q, c, 0)
    <3>1. PICK m \in DOMAIN q : q[m].t = "push" /\ q[m].c = c /\ q[m].item = e /\ NoMore(q, c, m)
      BY <2>4, LastPush
    <3>2. m \in DOMAIN z /\ Adds(z[m], c) /\ m < i
      BY <1>1, <1>4, <1>6, <3>1 DEF Adds
    <3>3. ASSUME NEW j \in DOMAIN q, Drops(q[j], c)
          PROVE  j < m
      <4>1. ~(j > m) /\ j # m
        BY <3>1, <3>3 DEF NoMore, Drops
      <4> QED
        BY <1>1, <4>1
    <3>4. \A j \in DOMAIN z : Drops(z[j], c) => j < m
      BY <2>2, <3>3
    <3> QED
      BY <3>2, <3>4 DEF KnownAt
  <2> QED
    BY <2>3, <2>4
<1>7. \A i \in DOMAIN z : i \in DOMAIN q \/ i > Len(q)
  BY <1>3
<1> QED
  BY <1>2, <1>4, <1>5, <1>6, <1>7

\* What the server says in a step, but for the answer to a fill: of presence, how
\* it is after the step; nothing when it is as it was; and of one who is on line
\* only while there is an item.  A session that has not asked is told nothing, and
\* what it does not hear is remembered.
Announces(s) ==
  /\ s \in Seq(Stanzas) /\ toClient' = IF listening THEN toClient \o s ELSE toClient
  /\ \A j \in DOMAIN s : s[j].t \notin {"result", "error"} /\ (s[j].t = "presence" => active')
  /\ \A c \in Contacts :
       /\ \A j \in DOMAIN s : active' /\ Marks(s[j], c) => (On(s[j], c) <=> Visible(c)')
       /\ (\E j \in DOMAIN s : On(s[j], c)) => srv[c] # None /\ \A j \in DOMAIN s : ~Drops(s[j], c)
       /\ Unmarked(s, c, 0) => /\ active => (Visible(c)' <=> Visible(c))
                               /\ ~active /\ active' => ~Visible(c)'
       /\ ~active /\ Visible(c) /\ ~Visible(c)' => c \in missed'

Speaks ==
  /\ \E s : Announces(s)
  /\ missed \subseteq missed'
  /\ active => active'
  /\ UNCHANGED toServer \/ \E t : t # "get" /\ Serve(t)
  /\ active' => active \/ Serve("presence")
  /\ UNCHANGED <<listening, up, roster, online, friends, shown, noRoster, refilled>>

LEMMA GreetsTail ==
  ASSUME NEW S, NEW q \in Seq(S), q # <<>>
  PROVE  /\ Greets(Tail(q)) => Greets(q)
         /\ Asks(Tail(q)) => Asks(q)
         /\ Unfilled(q) => Unfilled(Tail(q))
         /\ Head(q).t = "presence" => Greets(q)
         /\ Head(q).t = "get" => Asks(q)
         /\ Head(q).t \in {"result", "error"} => ~Unfilled(q)
         /\ \A T : (\A i, j \in DOMAIN q : q[i].t \in T /\ q[j].t \in T => i = j) =>
              /\ \A i, j \in DOMAIN Tail(q) : Tail(q)[i].t \in T /\ Tail(q)[j].t \in T => i = j
              /\ Head(q).t \in T => \A i \in DOMAIN Tail(q) : Tail(q)[i].t \notin T
<1>1. /\ Len(q) \in Nat /\ Len(q) > 0 /\ DOMAIN q = 1..Len(q)
      /\ DOMAIN Tail(q) = 1..(Len(q) - 1) /\ Head(q) = q[1]
      /\ \A i \in 1..(Len(q) - 1) : Tail(q)[i] = q[i + 1]
  BY HeadAndTail
<1>2. /\ \A i \in DOMAIN Tail(q) : i + 1 \in DOMAIN q /\ Tail(q)[i] = q[i + 1] /\ i + 1 # 1
      /\ \A i, j \in DOMAIN Tail(q) : i + 1 = j + 1 => i = j
      /\ 1 \in DOMAIN q
  BY <1>1
<1>3. ASSUME NEW T, \A i, j \in DOMAIN q : q[i].t \in T /\ q[j].t \in T => i = j
      PROVE  /\ \A i, j \in DOMAIN Tail(q) : Tail(q)[i].t \in T /\ Tail(q)[j].t \in T => i = j
             /\ Head(q).t \in T => \A i \in DOMAIN Tail(q) : Tail(q)[i].t \notin T
  <2>1. ASSUME NEW i \in DOMAIN Tail(q), NEW j \in DOMAIN Tail(q), Tail(q)[i].t \in T, Tail(q)[j].t \in T
        PROVE  i = j
    <3>1. i + 1 = j + 1
      BY <1>2, <1>3, <2>1
    <3> QED
      BY <1>2, <3>1
  <2>2. ASSUME Head(q).t \in T, NEW i \in DOMAIN Tail(q), Tail(q)[i].t \in T
        PROVE  FALSE
    BY <1>1, <1>2, <1>3, <2>2
  <2> QED
    BY <2>1, <2>2
<1>4. (Greets(Tail(q)) => Greets(q)) /\ (Asks(Tail(q)) => Asks(q))
  BY <1>2 DEF Greets, Asks
<1>5. Unfilled(q) => Unfilled(Tail(q))
  BY <1>2 DEF Unfilled
<1>6. /\ Head(q).t = "presence" => Greets(q)
      /\ Head(q).t = "get" => Asks(q)
      /\ Head(q).t \in {"result", "error"} => ~Unfilled(q)
  BY <1>1, <1>2 DEF Greets, Asks, Unfilled
<1> QED
  BY <1>3, <1>4, <1>5, <1>6

LEMMA QuietMore ==
  ASSUME NEW S, NEW q \in Seq(S), NEW s \in Seq(S)
  PROVE  /\ Greets(q \o s) <=> Greets(q) \/ Greets(s)
         /\ Asks(q \o s) <=> Asks(q) \/ Asks(s)
         /\ Unfilled(q \o s) <=> Unfilled(q) /\ Unfilled(s)
         /\ \A T : /\ \A i \in DOMAIN s : s[i].t \notin T
                   /\ \A i, j \in DOMAIN q : q[i].t \in T /\ q[j].t \in T => i = j
              => \A i, j \in DOMAIN (q \o s) : (q \o s)[i].t \in T /\ (q \o s)[j].t \in T => i = j
<1>1. /\ Len(q) \in Nat /\ Len(s) \in Nat
      /\ DOMAIN q = 1..Len(q) /\ DOMAIN s = 1..Len(s) /\ DOMAIN (q \o s) = 1..(Len(q) + Len(s))
      /\ \A i \in 1..Len(q) : (q \o s)[i] = q[i]
      /\ \A i \in 1..Len(s) : (q \o s)[Len(q) + i] = s[i]
  BY Concatenated
<1>2. PICK z : z = q \o s
  OBVIOUS
<1>3. \A i \in DOMAIN z : \/ i \in DOMAIN q /\ z[i] = q[i]
                          \/ i - Len(q) \in DOMAIN s /\ z[i] = s[i - Len(q)]
  BY <1>1, <1>2
<1>4. /\ \A i \in DOMAIN q : i \in DOMAIN z /\ z[i] = q[i]
      /\ \A i \in DOMAIN s : Len(q) + i \in DOMAIN z /\ z[Len(q) + i] = s[i]
  BY <1>1, <1>2
<1>5. (Greets(z) <=> Greets(q) \/ Greets(s)) /\ (Asks(z) <=> Asks(q) \/ Asks(s))
  BY <1>3, <1>4 DEF Greets, Asks
<1>6. Unfilled(z) <=> Unfilled(q) /\ Unfilled(s)
  BY <1>3, <1>4 DEF Unfilled
<1>7. ASSUME NEW T, \A i \in DOMAIN s : s[i].t \notin T,
             \A i, j \in DOMAIN q : q[i].t \in T /\ q[j].t \in T => i = j
      PROVE  \A i, j \in DOMAIN z : z[i].t \in T /\ z[j].t \in T => i = j
  BY <1>3, <1>7
<1> QED
  BY <1>2, <1>5, <1>6, <1>7

LEMMA SpeaksHeard ==
  ASSUME TypeOK, Follows, Heard, Speaks
  PROVE  Heard'
<1> USE DEF Heard
<1>1. PICK s : Announces(s)
  BY DEF Speaks
<1>2. /\ toClient \in Seq(Stanzas) /\ toServer \in Seq(Requests) /\ s \in Seq(Stanzas)
      /\ toClient' = IF listening THEN toClient \o s ELSE toClient
  BY <1>1 DEF TypeOK, Announces
<1>3. UNCHANGED <<listening, up, roster, online, friends, shown, noRoster, refilled>>
  BY DEF Speaks
<1>4. /\ toServer' = toServer \/ \E t : t # "get" /\ Serve(t)
      /\ active => active'
      /\ active' => active \/ Serve("presence")
      /\ missed \subseteq missed'
  BY DEF Speaks
<1>5. /\ Asks(toServer') <=> Asks(toServer)
      /\ Greets(toServer') => Greets(toServer)
      /\ (\A i, j \in DOMAIN toServer : toServer[i].t = "get" /\ toServer[j].t = "get" => i = j)
           => \A i, j \in DOMAIN toServer' : toServer'[i].t = "get" /\ toServer'[j].t = "get" => i = j
  <2>1. CASE toServer' = toServer
    BY <2>1
  <2>2. ASSUME NEW t, t # "get", Serve(t)
        PROVE  /\ Asks(toServer') <=> Asks(toServer)
               /\ Greets(toServer') => Greets(toServer)
               /\ (\A i, j \in DOMAIN toServer : toServer[i].t = "get" /\ toServer[j].t = "get" => i = j)
                    => \A i, j \in DOMAIN toServer' : toServer'[i].t = "get" /\ toServer'[j].t = "get" => i = j
    <3>1. toServer # <<>> /\ Head(toServer).t # "get" /\ toServer' = Tail(toServer)
      BY <2>2 DEF Serve
    <3>2. (Asks(toServer') <=> Asks(toServer)) /\ (Greets(toServer') => Greets(toServer))
      BY <1>2, <3>1, AsksTail, GreetsTail
    <3>3. (\A i, j \in DOMAIN toServer : toServer[i].t \in {"get"} /\ toServer[j].t \in {"get"} => i = j)
            => \A i, j \in DOMAIN Tail(toServer) :
                 Tail(toServer)[i].t \in {"get"} /\ Tail(toServer)[j].t \in {"get"} => i = j
      BY <1>2, <3>1, GreetsTail
    <3> QED
      BY <3>1, <3>2, <3>3
  <2> QED
    BY <1>4, <2>1, <2>2
<1>6. active' => active \/ Greets(toServer)
  <2>1. Serve("presence") => Greets(toServer)
    BY <1>2, GreetsTail DEF Serve
  <2> QED
    BY <1>4, <2>1
<1>7. active' => listening
  BY <1>6 DEF Early
<1>8. /\ \A j \in DOMAIN s : s[j].t \notin {"result", "error"} /\ (s[j].t = "presence" => active')
      /\ \A c \in Contacts :
           /\ \A j \in DOMAIN s : active' /\ Marks(s[j], c) => (On(s[j], c) <=> Visible(c)')
           /\ (\E j \in DOMAIN s : On(s[j], c)) => srv[c] # None /\ \A j \in DOMAIN s : ~Drops(s[j], c)
           /\ Unmarked(s, c, 0) => /\ active => (Visible(c)' <=> Visible(c))
                                   /\ ~active /\ active' => ~Visible(c)'
           /\ ~active /\ Visible(c) /\ ~Visible(c)' => c \in missed'
  BY <1>1 DEF Announces
<1>9. /\ Unfilled(toClient') <=> Unfilled(toClient)
      /\ ~active' /\ ~Greets(toClient) => ~Greets(toClient')
      /\ (\A i, j \in DOMAIN toClient :
            toClient[i].t \in {"result", "error"} /\ toClient[j].t \in {"result", "error"} => i = j)
           => \A i, j \in DOMAIN toClient' :
                toClient'[i].t \in {"result", "error"} /\ toClient'[j].t \in {"result", "error"} => i = j
  <2>1. CASE ~listening
    BY <1>2, <2>1
  <2>2. CASE listening
    <3>1. toClient' = toClient \o s /\ Unfilled(s) /\ (~active' => ~Greets(s))
      BY <1>2, <1>8, <2>2 DEF Unfilled, Greets
    <3>2. \A j \in DOMAIN s : s[j].t \notin {"result", "error"}
      BY <1>8
    <3>3. (\A i, j \in DOMAIN toClient :
             toClient[i].t \in {"result", "error"} /\ toClient[j].t \in {"result", "error"} => i = j)
            => \A i, j \in DOMAIN (toClient \o s) :
                 (toClient \o s)[i].t \in {"result", "error"} /\ (toClient \o s)[j].t \in {"result", "error"} => i = j
      BY <1>2, <3>2, QuietMore
    <3>4. (Unfilled(toClient \o s) <=> Unfilled(toClient) /\ Unfilled(s))
          /\ (Greets(toClient \o s) <=> Greets(toClient) \/ Greets(s))
      BY <1>2, QuietMore
    <3> QED
      BY <3>1, <3>3, <3>4
  <2> QED
    BY <2>1, <2>2
<1>10. Early'
  <2>1. (active' \/ Greets(toServer')) => listening'
    BY <1>3, <1>5, <1>6 DEF Early
  <2>2. ~active' => ~Greets(toClient') /\ (up' => online' = {})
    BY <1>3, <1>4, <1>9 DEF Early
  <2>3. up' /\ ~refilled' =>
          /\ \A i, j \in DOMAIN toServer' : toServer'[i].t = "get" /\ toServer'[j].t = "get" => i = j
          /\ \A i, j \in DOMAIN toClient' :
               toClient'[i].t \in {"result", "error"} /\ toClient'[j].t \in {"result", "error"} => i = j
          /\ ~Unfilled(toClient') => ~Asks(toServer')
          /\ (Asks(toServer') \/ ~Unfilled(toClient')) => ~active' /\ ~Greets(toServer')
    BY <1>3, <1>5, <1>6, <1>9 DEF Early
  <2> QED
    BY <2>1, <2>2, <2>3 DEF Early
<1>11. Sure' => Sure
  BY <1>3, <1>5, <1>9 DEF Sure
<1>12. Told'
  <2> SUFFICES ASSUME active', NEW c \in Contacts PROVE Shows(toClient', c, Visible(c)')
    BY DEF Told
  <2>1. toClient' = toClient \o s
    BY <1>2, <1>7
  <2>2. PICK v : v = Visible(c)' /\ v \in BOOLEAN
    BY DEF Visible
  <2>3. \A j \in DOMAIN s : Marks(s[j], c) => (On(s[j], c) <=> v)
    BY <1>8, <2>2
  <2>4. ~Unmarked(s, c, 0) \/ Shows(toClient, c, v)
    <3>1. CASE active /\ Unmarked(s, c, 0)
      <4>1. v = Visible(c)
        BY <1>8, <2>2, <3>1 DEF Visible
      <4> QED
        BY <3>1, <4>1 DEF Told
    <3>2. CASE ~active /\ Unmarked(s, c, 0)
      <4>1. ~v
        BY <1>8, <2>2, <3>2
      <4>2. \A i \in DOMAIN toClient : ~On(toClient[i], c)
        BY <3>2 DEF Early, Greets, On
      <4> QED
        BY <4>1, <4>2 DEF Shows
    <3> QED
      BY <3>1, <3>2
  <2>5. Shows(toClient \o s, c, v)
    BY <1>2, <2>3, <2>4, MoreShows
  <2> QED
    BY <2>1, <2>2, <2>5
<1>13. OnlineIs'
  <2> SUFFICES ASSUME Sure', active', NEW c \in Contacts, Unmarked(toClient', c, 0)
               PROVE  c \in online <=> Visible(c)'
    BY <1>3 DEF OnlineIs
  <2>1. toClient' = toClient \o s
    BY <1>2, <1>7
  <2>2. Unmarked(toClient, c, 0) /\ Unmarked(s, c, 0)
    <3>1. Unmarked(toClient \o s, c, 0) <=> Unmarked(toClient, c, 0) /\ Unmarked(s, c, 0)
      BY <1>2, MoreShows
    <3> QED
      BY <2>1, <3>1
  <2>3. CASE active
    BY <1>8, <1>11, <2>2, <2>3 DEF OnlineIs
  <2>4. CASE ~active
    <3>1. online = {}
      BY <1>11, <2>4 DEF Early, Sure
    <3> QED
      BY <1>8, <2>2, <2>4, <3>1
  <2> QED
    BY <2>3, <2>4
<1>14. KnownWhenOn'
  <2> SUFFICES ASSUME Sure', NEW c \in Contacts
               PROVE  \A i \in DOMAIN toClient' : On(toClient'[i], c) => KnownAt(toClient', c, i, roster[c] # None)
    BY <1>3 DEF KnownWhenOn
  <2>1. \A i \in DOMAIN toClient : On(toClient[i], c) => KnownAt(toClient, c, i, roster[c] # None)
    BY <1>11 DEF KnownWhenOn
  <2>2. CASE ~listening
    BY <1>2, <2>1, <2>2
  <2>3. CASE listening
    <3>1. toClient' = toClient \o s
      BY <1>2, <2>3
    <3>2. CASE \E j \in DOMAIN s : On(s[j], c)
      <4>1. srv[c] # None /\ \A j \in DOMAIN s : ~Drops(s[j], c)
        BY <1>8, <3>2
      <4>2. Tells(toClient, c, srv[c])
        BY DEF Follows
      <4>3. NoMore(toClient, c, 0) => roster[c] # None
        BY <1>11, <4>1 DEF Follows, Kept, Sure
      <4>4. \A i \in DOMAIN (toClient \o s) :
              On((toClient \o s)[i], c) => KnownAt(toClient \o s, c, i, roster[c] # None)
        BY <1>2, <2>1, <4>1, <4>2, <4>3, KnownMore
      <4> QED
        BY <3>1, <4>4
    <3>3. CASE \A j \in DOMAIN s : ~On(s[j], c)
      <4>1. \A i \in DOMAIN (toClient \o s) :
              On((toClient \o s)[i], c) => KnownAt(toClient \o s, c, i, roster[c] # None)
        BY <1>2, <2>1, <3>3, KnownKept
      <4> QED
        BY <3>1, <4>1
    <3> QED
      BY <3>2, <3>3
  <2> QED
    BY <2>2, <2>3
<1>15. ShownIs'
  <2> SUFFICES ASSUME NEW c \in shown, c \notin missed', Unmarked(toClient', c, 0)
               PROVE  Visible(c)'
    BY <1>3 DEF ShownIs
  <2>1. Unmarked(toClient, c, 0) /\ (listening => Unmarked(s, c, 0))
    BY <1>2, MoreShows
  <2>2. Visible(c) /\ c \in Contacts
    BY <1>4, <2>1 DEF ShownIs, TypeOK
  <2>3. CASE active
    BY <1>4, <1>7, <1>8, <2>1, <2>2, <2>3
  <2>4. CASE ~active
    BY <1>8, <2>2, <2>4
  <2> QED
    BY <2>3, <2>4
<1>16. OnlineShown'
  BY <1>3 DEF OnlineShown
<1> QED
  BY <1>10, <1>12, <1>13, <1>14, <1>15, <1>16

\* Messages around a push: the presence among them is that of c, and is v.
Speech(s, c, v) ==
  s \in QuietSeqs /\ \A j \in DOMAIN s : s[j].t = "presence" => active /\ s[j].c = c /\ s[j].on = v

LEMMA SpeechShort ==
  ASSUME NEW c \in Contacts, NEW v \in BOOLEAN
  PROVE  /\ Speech(<<>>, c, v) /\ ~Greets(<<>>)
         /\ \A t \in {"subscribe", "subscribed", "unsubscribe", "unsubscribed"} :
              Speech(<<Stanza(t, c)>>, c, v) /\ ~Greets(<<Stanza(t, c)>>)
         /\ Speech(Seen(c, v), c, v) /\ (Greets(Seen(c, v)) <=> active)
         /\ \A t \in {"subscribe", "subscribed", "unsubscribe", "unsubscribed"} :
              /\ Speech(Seen(c, v) \o <<Stanza(t, c)>>, c, v)
              /\ Greets(Seen(c, v) \o <<Stanza(t, c)>>) <=> active
<1>1. Speech(<<>>, c, v) /\ ~Greets(<<>>)
  BY QuietShort DEF Speech, Greets
<1>2. ASSUME NEW t \in {"subscribe", "subscribed", "unsubscribe", "unsubscribed"}
      PROVE  Speech(<<Stanza(t, c)>>, c, v) /\ ~Greets(<<Stanza(t, c)>>)
  <2>1. Stanza(t, c).t = t
    BY DEF Stanza
  <2>2. PICK s \in QuietSeqs : s = <<Stanza(t, c)>> /\ DOMAIN s = {1} /\ s[1] = Stanza(t, c)
    BY QuietShort, ShortSeqs
  <2>3. Speech(s, c, v) /\ ~Greets(s)
    BY <2>1, <2>2 DEF Speech, Greets
  <2> QED
    BY <2>2, <2>3
<1>3. Speech(Seen(c, v), c, v) /\ (Greets(Seen(c, v)) <=> active)
  <2>1. CASE active
    <3>1. PresenceOf(c, v).t = "presence" /\ PresenceOf(c, v).c = c /\ PresenceOf(c, v).on = v
      BY DEF PresenceOf
    <3>2. PICK s \in QuietSeqs : s = <<PresenceOf(c, v)>> /\ DOMAIN s = {1} /\ s[1] = PresenceOf(c, v)
      BY QuietShort, ShortSeqs
    <3>3. Speech(s, c, v) /\ Greets(s)
      BY <2>1, <3>1, <3>2 DEF Speech, Greets
    <3>4. Seen(c, v) = s
      BY <2>1, <3>2 DEF Seen
    <3> QED
      BY <2>1, <3>3, <3>4
  <2>2. CASE ~active
    BY <1>1, <2>2 DEF Seen
  <2> QED
    BY <2>1, <2>2
<1>4. ASSUME NEW t \in {"subscribe", "subscribed", "unsubscribe", "unsubscribed"}
      PROVE  /\ Speech(Seen(c, v) \o <<Stanza(t, c)>>, c, v)
             /\ Greets(Seen(c, v) \o <<Stanza(t, c)>>) <=> active
  <2>1. PICK q, s : q = Seen(c, v) /\ s = <<Stanza(t, c)>>
    OBVIOUS
  <2>2. /\ Speech(q, c, v) /\ Speech(s, c, v) /\ q \in Seq(Stanzas) /\ s \in Seq(Stanzas)
        /\ (Greets(q) <=> active) /\ ~Greets(s)
    BY <1>2, <1>3, <2>1 DEF Speech, QuietSeqs
  <2>3. /\ q \o s \in Seq(Stanzas) /\ Len(q) \in Nat /\ Len(s) \in Nat
        /\ DOMAIN q = 1..Len(q) /\ DOMAIN s = 1..Len(s) /\ DOMAIN (q \o s) = 1..(Len(q) + Len(s))
        /\ \A i \in 1..Len(q) : (q \o s)[i] = q[i]
        /\ \A i \in 1..Len(s) : (q \o s)[Len(q) + i] = s[i]
    BY <2>2, Concatenated
  <2>4. \A i \in DOMAIN (q \o s) : \/ i \in DOMAIN q /\ (q \o s)[i] = q[i]
                                   \/ i - Len(q) \in DOMAIN s /\ (q \o s)[i] = s[i - Len(q)]
    BY <2>3
  <2>5. Speech(q \o s, c, v)
    <3>1. PICK z : z = q \o s
      OBVIOUS
    <3>2. z \in QuietSeqs
      BY <2>2, <2>3, <2>4, <3>1 DEF Speech, QuietSeqs
    <3>3. ASSUME NEW i \in DOMAIN z, z[i].t = "presence"
          PROVE  active /\ z[i].c = c /\ z[i].on = v
      BY <2>2, <2>4, <3>1, <3>3, Zenon DEF Speech
    <3> QED
      BY <3>1, <3>2, <3>3, Zenon DEF Speech
  <2>6. Greets(q \o s) <=> active
    BY <2>2, QuietMore
  <2> QED
    BY <2>1, <2>5, <2>6
<1> QED
  BY <1>1, <1>2, <1>3, <1>4

\* A push, and what comes around it.
LEMMA SetAnnounces ==
  ASSUME TypeOK, NEW c \in Contacts, NEW i \in Entry, NEW before, NEW after, NEW v \in BOOLEAN,
         SetItem(c, i, before, after), UNCHANGED <<avail, active>>,
         v = (i # None /\ i.to = "to" /\ c \in avail), Speech(before, c, v), Speech(after, c, v),
         Greets(before) \/ Greets(after) => srv[c] # None /\ i # None,
         active /\ i # None => Greets(before) \/ Greets(after) \/ v = Visible(c)
  PROVE  (\E s : Announces(s)) /\ missed \subseteq missed'
<1>1. PICK s : s = before \o <<Push(c, i)>> \o after
  OBVIOUS
<1>2. /\ before \in Seq(Stanzas) /\ after \in Seq(Stanzas) /\ <<Push(c, i)>> \in Seq(Stanzas)
      /\ before \o <<Push(c, i)>> \in Seq(Stanzas) /\ s \in Seq(Stanzas)
      /\ toClient' = IF listening THEN toClient \o s ELSE toClient
  <2>1. before \in Seq(Stanzas) /\ after \in Seq(Stanzas) /\ <<Push(c, i)>> \in Seq(Stanzas)
    BY StanzaTypes, ShortSeqs DEF Speech, QuietSeqs
  <2>2. before \o <<Push(c, i)>> \in Seq(Stanzas)
    BY <2>1, Concatenated
  <2>3. s \in Seq(Stanzas)
    BY <1>1, <2>1, <2>2, Concatenated
  <2>4. toClient' = IF listening THEN toClient \o s ELSE toClient
    BY <1>1 DEF SetItem, Deliver
  <2> QED
    BY <2>1, <2>2, <2>3, <2>4
<1>3. /\ \A j \in DOMAIN s : \/ s[j] = Push(c, i)
                             \/ \E k \in DOMAIN before : s[j] = before[k]
                             \/ \E k \in DOMAIN after : s[j] = after[k]
      /\ \E j \in DOMAIN s : j > 0 /\ s[j] = Push(c, i)
      /\ \A k \in DOMAIN before : \E j \in DOMAIN s : s[j] = before[k]
      /\ \A k \in DOMAIN after : \E j \in DOMAIN s : s[j] = after[k]
  <2>1. PICK p \in Seq(Stanzas) : p = <<Push(c, i)>> /\ Len(p) = 1 /\ p[1] = Push(c, i)
    BY <1>2
  <2>2. PICK b \in Seq(Stanzas) : b = before \o p /\ s = b \o after
    BY <1>1, <1>2, <2>1
  <2>3. /\ Len(before) \in Nat /\ DOMAIN before = 1..Len(before) /\ DOMAIN p = 1..1
        /\ DOMAIN b = 1..(Len(before) + 1)
        /\ \A j \in 1..Len(before) : b[j] = before[j]
        /\ b[Len(before) + 1] = p[1]
    BY <1>2, <2>1, <2>2, Concatenated
  <2>4. Len(b) = Len(before) + 1
    BY <2>2, <2>3, LenProperties
  <2>5. /\ Len(after) \in Nat /\ DOMAIN after = 1..Len(after) /\ DOMAIN s = 1..(Len(b) + Len(after))
        /\ \A j \in 1..Len(b) : s[j] = b[j]
        /\ \A j \in 1..Len(after) : s[Len(b) + j] = after[j]
    BY <1>2, <2>2, Concatenated
  <2>6. ASSUME NEW j \in DOMAIN s
        PROVE  \/ s[j] = Push(c, i)
               \/ \E k \in DOMAIN before : s[j] = before[k]
               \/ \E k \in DOMAIN after : s[j] = after[k]
    <3>1. CASE j \in 1..Len(before)
      BY <2>3, <2>4, <2>5, <3>1
    <3>2. CASE j = Len(before) + 1
      BY <2>1, <2>3, <2>4, <2>5, <3>2
    <3>3. CASE ~(j <= Len(before) + 1)
      <4>1. j - Len(b) \in DOMAIN after /\ Len(b) + (j - Len(b)) = j
        BY <2>3, <2>4, <2>5, <3>3
      <4> QED
        BY <2>5, <4>1
    <3> QED
      BY <2>3, <2>4, <2>5, <3>1, <3>2, <3>3
  <2>7. Len(b) \in DOMAIN s /\ Len(b) > 0 /\ s[Len(b)] = Push(c, i)
    BY <2>1, <2>3, <2>4, <2>5
  <2>8. \A k \in DOMAIN before : k \in DOMAIN s /\ s[k] = before[k]
    BY <2>3, <2>4, <2>5
  <2>9. \A k \in DOMAIN after : Len(b) + k \in DOMAIN s /\ s[Len(b) + k] = after[k]
    <3>1. Len(b) \in Nat
      BY <2>3, <2>4
    <3> QED
      BY <2>5, <3>1
  <2> QED
    BY <2>6, <2>7, <2>8, <2>9
<1>4. Push(c, i).t = "push" /\ Push(c, i).c = c /\ Push(c, i).item = i
  BY DEF Push
<1>5. \A j \in DOMAIN s :
        \/ s[j].t = "push" /\ s[j].c = c /\ s[j].item = i
        \/ s[j].t = "presence" /\ active /\ s[j].c = c /\ s[j].on = v /\ srv[c] # None /\ i # None
        \/ s[j].t \notin {"push", "presence", "result", "error"}
  BY <1>3, <1>4 DEF Speech, QuietSeqs, Greets
<1>6. srv' = [srv EXCEPT ![c] = i] /\ srv \in [Contacts -> Entry] /\ missed \subseteq missed'
      /\ (Visible(c) /\ ~active /\ (i # None => i.to # "to") => c \in missed')
  BY DEF SetItem, TypeOK, Entry
<1>7. Visible(c)' = v /\ \A d \in Contacts : d # c => Visible(d)' = Visible(d)
  BY <1>6 DEF Visible
<1>8. ASSUME Unmarked(s, c, 0)
      PROVE  i # None /\ ~Greets(before) /\ ~Greets(after)
  <2>1. i # None
    BY <1>3, <1>4, <1>8 DEF Unmarked, Marks, Drops
  <2>2. \A j \in DOMAIN s : j > 0
    BY <1>2, LenProperties
  <2>3. \A j \in DOMAIN s : s[j].t # "presence"
    BY <1>5, <1>8, <2>2 DEF Unmarked, Marks
  <2>4. (\A k \in DOMAIN before : before[k].t # "presence") /\ \A k \in DOMAIN after : after[k].t # "presence"
    BY <1>3, <2>3
  <2> QED
    BY <2>1, <2>4 DEF Greets
<1>9. \A j \in DOMAIN s : s[j].t \notin {"result", "error"} /\ (s[j].t = "presence" => active')
  BY <1>5
<1>10. ASSUME NEW d \in Contacts, d # c
       PROVE  /\ \A j \in DOMAIN s : ~Marks(s[j], d) /\ ~On(s[j], d)
              /\ Visible(d)' = Visible(d)
  BY <1>5, <1>7, <1>10 DEF Marks, On, Drops
<1>11. /\ \A j \in DOMAIN s : Marks(s[j], c) => (On(s[j], c) <=> Visible(c)')
       /\ (\E j \in DOMAIN s : On(s[j], c)) => srv[c] # None /\ \A j \in DOMAIN s : ~Drops(s[j], c)
       /\ Unmarked(s, c, 0) /\ active => (Visible(c)' <=> Visible(c))
       /\ ~active /\ Visible(c) /\ ~Visible(c)' => c \in missed'
  <2>1. \A j \in DOMAIN s : Marks(s[j], c) => (On(s[j], c) <=> v)
    BY <1>5 DEF Marks, On, Drops
  <2>2. (\E j \in DOMAIN s : On(s[j], c)) => srv[c] # None /\ i # None
    BY <1>5 DEF On
  <2>3. i # None => \A j \in DOMAIN s : ~Drops(s[j], c)
    BY <1>5 DEF Drops
  <2>4. Unmarked(s, c, 0) /\ active => v = Visible(c)
    BY <1>8
  <2>5. ~active /\ Visible(c) /\ ~v => c \in missed'
    BY <1>6 DEF Visible
  <2> QED
    BY <1>7, <2>1, <2>2, <2>3, <2>4, <2>5
<1>12. Announces(s)
  BY <1>2, <1>9, <1>10, <1>11 DEF Announces
<1> QED
  BY <1>6, <1>12

\* What is said without a push.
LEMMA SaysAnnounces ==
  ASSUME TypeOK, NEW c \in Contacts, NEW s, NEW v \in BOOLEAN, Deliver(s), Speech(s, c, v),
         UNCHANGED <<srv, active>>, missed \subseteq missed',
         Visible(c)' = v, \A d \in Contacts : d # c => Visible(d)' = Visible(d),
         Greets(s) => srv[c] # None, active => Greets(s) \/ v = Visible(c),
         ~active /\ Visible(c) /\ ~v => c \in missed'
  PROVE  \E z : Announces(z)
<1>1. s \in Seq(Stanzas) /\ toClient' = IF listening THEN toClient \o s ELSE toClient
  BY DEF Speech, QuietSeqs, Deliver
<1>2. \A j \in DOMAIN s :
        \/ s[j].t = "presence" /\ active /\ s[j].c = c /\ s[j].on = v
        \/ s[j].t \notin {"push", "presence", "result", "error"}
  BY DEF Speech, QuietSeqs
<1>3. ASSUME NEW d \in Contacts, d # c
      PROVE  /\ \A j \in DOMAIN s : ~Marks(s[j], d) /\ ~On(s[j], d)
             /\ Visible(d)' = Visible(d)
  BY <1>2, <1>3 DEF Marks, On, Drops
<1>4. Unmarked(s, c, 0) => ~Greets(s)
  <2>1. \A j \in DOMAIN s : j > 0
    BY <1>1, LenProperties
  <2> QED
    BY <1>2, <2>1 DEF Unmarked, Marks, Greets
<1>5. /\ \A j \in DOMAIN s : Marks(s[j], c) => (On(s[j], c) <=> v)
      /\ (\E j \in DOMAIN s : On(s[j], c)) => srv[c] # None
      /\ \A j \in DOMAIN s : ~Drops(s[j], c)
  BY <1>2 DEF Marks, On, Drops, Greets
<1>6. \A j \in DOMAIN s : s[j].t \notin {"result", "error"} /\ (s[j].t = "presence" => active')
  BY <1>2
<1>7. Unmarked(s, c, 0) /\ active => v = Visible(c)
  BY <1>4
<1> QED
  BY <1>1, <1>3, <1>5, <1>6, <1>7 DEF Announces

LEMMA SilentAnnounces ==
  ASSUME TypeOK, UNCHANGED <<srv, avail, active, toClient, missed>>
  PROVE  \E z : Announces(z)
<1>1. <<>> \in Seq(Stanzas) /\ toClient \o <<>> = toClient
  BY EmptySeq, ConcatEmptySeq DEF TypeOK
<1>2. \A c \in Contacts : Visible(c)' = Visible(c)
  BY DEF Visible
<1>3. \A j : j \notin DOMAIN <<>>
  OBVIOUS
<1>4. Announces(<<>>)
  BY <1>1, <1>2, <1>3 DEF Announces
<1> QED
  BY <1>4

\* The first presence of a session is answered with that of every visible contact.
LEMMA WelcomeAnnounces ==
  ASSUME TypeOK, ServePresence
  PROVE  \E z : Announces(z)
<1>1. UNCHANGED <<srv, avail, missed>> /\ active'
  BY DEF ServePresence, past
<1>2. \A c \in Contacts : Visible(c)' = Visible(c)
  BY <1>1 DEF Visible
<1>3. CASE active
  BY <1>1, <1>3, SilentAnnounces DEF ServePresence, TypeOK
<1>4. CASE ~active
  <2>1. PICK here \in Orders({PresenceOf(c, TRUE) : c \in {d \in Contacts : Visible(d)}}),
             asks \in Orders({Stanza("subscribe", c) : c \in pending}) : Deliver(here \o asks)
    BY <1>4 DEF ServePresence
  <2>2. PICK s : s = here \o asks
    OBVIOUS
  <2>3. /\ s \in Seq(Stanzas) /\ \A i \in DOMAIN s : s[i].t \in {"presence", "subscribe"}
        /\ \A i \in DOMAIN s : s[i].t = "presence" =>
             \E c \in Contacts : Visible(c) /\ s[i] = PresenceOf(c, TRUE)
        /\ \A c \in Contacts : Visible(c) => \E i \in DOMAIN s : s[i] = PresenceOf(c, TRUE)
    BY <2>2, Welcome
  <2>4. \A c \in Contacts : PresenceOf(c, TRUE).t = "presence" /\ PresenceOf(c, TRUE).c = c
                             /\ PresenceOf(c, TRUE).on = TRUE
    BY DEF PresenceOf
  <2>5. ASSUME NEW c \in Contacts, NEW i \in DOMAIN s, Marks(s[i], c)
        PROVE  Visible(c) /\ On(s[i], c)
    <3>1. s[i].t = "presence" /\ s[i].c = c
      BY <2>3, <2>5 DEF Marks, Drops
    <3>2. PICK d \in Contacts : Visible(d) /\ s[i] = PresenceOf(d, TRUE)
      BY <2>3, <3>1
    <3> QED
      BY <2>4, <3>1, <3>2 DEF On
  <2>6. ASSUME NEW c \in Contacts, Unmarked(s, c, 0)
        PROVE  ~Visible(c)
    <3>1. \A i \in DOMAIN s : i > 0
      BY <2>3, LenProperties
    <3>2. ASSUME NEW i \in DOMAIN s, s[i] = PresenceOf(c, TRUE)
          PROVE  FALSE
      <4>1. Marks(s[i], c)
        BY <2>4, <3>2 DEF Marks
      <4> QED
        BY <2>6, <3>1, <4>1 DEF Unmarked
    <3> QED
      BY <2>3, <3>2
  <2>7. \A c \in Contacts : \A i \in DOMAIN s : (On(s[i], c) => srv[c] # None) /\ ~Drops(s[i], c)
    BY <2>3, <2>5 DEF Drops, On, Marks, Visible
  <2>8. \A i \in DOMAIN s : s[i].t \notin {"result", "error"}
    BY <2>3
  <2>9. toClient' = IF listening THEN toClient \o s ELSE toClient
    BY <2>1, <2>2 DEF Deliver
  <2> QED
    BY <1>1, <1>2, <1>4, <2>3, <2>5, <2>6, <2>7, <2>8, <2>9 DEF Announces
<1> QED
  BY <1>3, <1>4

LEMMA ServeSpeaks ==
  ASSUME TypeOK,
         \/ ServeSet \/ ServeRemove \/ ServePresence \/ ServeSubscribe \/ ServeSubscribed
         \/ ServeUnsubscribed
  PROVE  Speaks
<1>1. CASE ServePresence
  <2>1. \E z : Announces(z)
    BY <1>1, WelcomeAnnounces
  <2>2. missed \subseteq missed' /\ (active => active')
    BY <1>1 DEF ServePresence, past
  <2>3. \E t : t # "get" /\ Serve(t)
    BY <1>1 DEF ServePresence
  <2>4. Serve("presence")
    BY <1>1 DEF ServePresence
  <2>5. UNCHANGED <<listening, up, roster, online, friends, shown, noRoster, refilled>>
    BY <1>1 DEF ServePresence, stack, mirror, past
  <2> QED
    BY <2>1, <2>2, <2>3, <2>4, <2>5 DEF Speaks
<1>2. CASE ServeSet \/ ServeRemove \/ ServeSubscribe \/ ServeSubscribed \/ ServeUnsubscribed
  <2>1. \E t : t # "get" /\ t # "presence" /\ Serve(t)
    BY <1>2 DEF ServeSet, ServeRemove, ServeSubscribe, ServeSubscribed, ServeUnsubscribed
  <2>2. UNCHANGED <<avail, active>>
        /\ UNCHANGED <<listening, up, roster, online, friends, shown, noRoster, refilled>>
    BY <1>2 DEF ServeSet, ServeRemove, ServeSubscribe, ServeSubscribed, ServeUnsubscribed, stack, mirror
  <2>3. PICK c \in Contacts : c = Head(toServer).c
    BY <2>1, ServedType
  <2>4. srv[c] \in Entry
    BY DEF TypeOK, Entry
  <2>5. \/ \E i \in Entry : /\ SetItem(c, i, <<>>, <<>>)
                            /\ i # None => (i.to = "to" <=> srv[c] # None /\ srv[c].to = "to")
        \/ Silent
    <3>1. CASE ServeSet
      <4>1. PICK m : m = Head(toServer) /\ m.name \in Names /\ m.groups \in SUBSET Groups /\ m.c = c
        BY <2>3, <3>1, ServedType DEF ServeSet
      <4>2. SetItem(c, IF srv[c] = None THEN NewItem(m.name, m.groups)
                       ELSE [srv[c] EXCEPT !.name = m.name, !.groups = m.groups], <<>>, <<>>)
        BY <3>1, <4>1 DEF ServeSet
      <4>3. CASE srv[c] = None
        <5>1. NewItem(m.name, m.groups) \in Item /\ NewItem(m.name, m.groups).to = "none"
          BY <2>4, <4>1, ItemTypes DEF NewItem
        <5> QED
          BY <4>2, <4>3, <5>1 DEF Entry
      <4>4. CASE srv[c] # None
        <5>1. [srv[c] EXCEPT !.name = m.name, !.groups = m.groups] \in Item
          BY <2>4, <4>1, <4>4, ItemTypes
        <5>2. [srv[c] EXCEPT !.name = m.name, !.groups = m.groups].to = srv[c].to
          BY <2>4, <4>4 DEF Entry, Item
        <5> QED
          BY <4>2, <4>4, <5>1, <5>2 DEF Entry
      <4> QED
        BY <4>3, <4>4
    <3>2. CASE ServeRemove
      BY <2>3, <3>2 DEF ServeRemove, Entry
    <3>3. CASE ServeSubscribe
      <4>1. CASE srv[c] = None \/ srv[c].to = "none"
        <5>1. PICK n \in Names :
                SetItem(c, [(IF srv[c] = None THEN NewItem(n, {}) ELSE srv[c]) EXCEPT !.to = "out"], <<>>, <<>>)
          BY <2>3, <3>3, <4>1 DEF ServeSubscribe
        <5>2. PICK i : i = [(IF srv[c] = None THEN NewItem(n, {}) ELSE srv[c]) EXCEPT !.to = "out"]
          OBVIOUS
        <5>3. i \in Item
          BY <2>4, <5>2, ItemTypes
        <5>4. i.to = "out"
          BY <2>4, <5>2 DEF Entry, Item, NewItem
        <5> QED
          BY <4>1, <5>1, <5>2, <5>3, <5>4 DEF Entry
      <4> QED
        BY <2>3, <3>3, <4>1 DEF ServeSubscribe
    <3>4. CASE ServeSubscribed
      <4>1. CASE c \in pending
        <5>1. PICK n \in Names :
                SetItem(c, [(IF srv[c] = None THEN NewItem(n, {}) ELSE srv[c]) EXCEPT !.from = TRUE], <<>>, <<>>)
          BY <2>3, <3>4, <4>1 DEF ServeSubscribed
        <5>2. PICK i : i = [(IF srv[c] = None THEN NewItem(n, {}) ELSE srv[c]) EXCEPT !.from = TRUE]
          OBVIOUS
        <5>3. i \in Item
          BY <2>4, <5>2, ItemTypes
        <5>4. i.to = IF srv[c] = None THEN "none" ELSE srv[c].to
          BY <2>4, <5>2 DEF Entry, Item, NewItem
        <5>5. i \in Entry /\ (i.to = "to" <=> srv[c] # None /\ srv[c].to = "to")
          <6>1. CASE srv[c] = None
            BY <5>3, <5>4, <6>1 DEF Entry
          <6>2. CASE srv[c] # None
            BY <5>3, <5>4, <6>2 DEF Entry
          <6> QED
            BY <6>1, <6>2
        <5> QED
          BY <5>1, <5>2, <5>5
      <4> QED
        BY <2>3, <3>4, <4>1 DEF ServeSubscribed
    <3>5. CASE ServeUnsubscribed
      <4>1. CASE srv[c] # None /\ srv[c].from
        <5>1. SetItem(c, [srv[c] EXCEPT !.from = FALSE], <<>>, <<>>)
          BY <2>3, <3>5, <4>1 DEF ServeUnsubscribed
        <5>2. [srv[c] EXCEPT !.from = FALSE] \in Item
          BY <2>4, <4>1, ItemTypes
        <5>3. [srv[c] EXCEPT !.from = FALSE].to = srv[c].to
          BY <2>4, <4>1 DEF Entry, Item
        <5> QED
          BY <4>1, <5>1, <5>2, <5>3 DEF Entry
      <4> QED
        BY <2>3, <3>5, <4>1 DEF ServeUnsubscribed
    <3> QED
      BY <1>2, <3>1, <3>2, <3>3, <3>4, <3>5
  <2>6. CASE Silent
    <3>1. \E z : Announces(z)
      BY <2>2, <2>6, SilentAnnounces DEF Silent
    <3>2. missed \subseteq missed'
      BY <2>6 DEF Silent
    <3> QED
      BY <2>1, <2>2, <3>1, <3>2 DEF Speaks
  <2>7. ASSUME NEW i \in Entry, SetItem(c, i, <<>>, <<>>),
               i # None => (i.to = "to" <=> srv[c] # None /\ srv[c].to = "to")
        PROVE  Speaks
    <3>1. PICK v \in BOOLEAN : v = (i # None /\ i.to = "to" /\ c \in avail)
      OBVIOUS
    <3>2. Speech(<<>>, c, v) /\ ~Greets(<<>>)
      BY SpeechShort
    <3>3. i # None => v = Visible(c)
      BY <2>7, <3>1 DEF Visible
    <3>4. (\E s : Announces(s)) /\ missed \subseteq missed'
      BY <2>2, <2>7, <3>1, <3>2, <3>3, SetAnnounces
    <3> QED
      BY <2>1, <2>2, <3>4 DEF Speaks
  <2> QED
    BY <2>5, <2>6, <2>7
<1> QED
  BY <1>1, <1>2

LEMMA EnvironmentSpeaks ==
  ASSUME TypeOK, NEW c \in Contacts, Environment(c)
  PROVE  Speaks
<1>1. UNCHANGED <<listening, active, up, roster, online, friends, shown, toServer, noRoster, refilled>>
  BY DEF Environment, ContactAgrees, ContactRefuses, ContactAsks, ContactLeaves,
         ContactComesOrGoes, OtherDevice, Remote, stack, mirror
<1>2. srv[c] \in Entry
  BY DEF TypeOK, Entry
<1>3. \A v \in BOOLEAN : Speech(<<>>, c, v) /\ ~Greets(<<>>)
  BY SpeechShort
<1>4. CASE ContactAgrees(c)
  <2>1. PICK i : i = [srv[c] EXCEPT !.to = "to"]
    OBVIOUS
  <2>2. i \in Item /\ i.to = "to"
    BY <1>2, <1>4, <2>1, ItemTypes DEF ContactAgrees, Entry, Item
  <2>3. PICK v \in BOOLEAN : v = (c \in avail)
    <3>1. (c \in avail) \in BOOLEAN
      OBVIOUS
    <3> QED
      BY <3>1, Zenon
  <2>4. PICK after : after = IF v THEN Seen(c, v) ELSE <<>>
    OBVIOUS
  <2>5. after = IF c \in avail THEN Seen(c, TRUE) ELSE <<>>
    BY <2>3, <2>4
  <2>6. Speech(<<Stanza("subscribed", c)>>, c, v) /\ Speech(after, c, v)
        /\ (active /\ v => Greets(after)) /\ ~Greets(<<Stanza("subscribed", c)>>)
    BY <1>3, <2>4, SpeechShort
  <2>7. SetItem(c, i, <<Stanza("subscribed", c)>>, after) /\ UNCHANGED <<avail, active>> /\ srv[c] # None
        /\ srv[c].to = "out"
    BY <1>1, <1>4, <2>1, <2>5 DEF ContactAgrees
  <2>8. v = (i # None /\ i.to = "to" /\ c \in avail) /\ i \in Entry /\ i # None
    BY <2>2, <2>3, RosterAssumption DEF Entry, Item
  <2>9. ~v => v = Visible(c)
    BY <2>7 DEF Visible
  <2>10. (\E s : Announces(s)) /\ missed \subseteq missed'
    BY <2>6, <2>7, <2>8, <2>9, SetAnnounces
  <2> QED
    BY <1>1, <2>10 DEF Speaks
<1>5. CASE ContactRefuses(c)
  <2>1. PICK i : i = [srv[c] EXCEPT !.to = "none"]
    OBVIOUS
  <2>2. i \in Item /\ i.to = "none"
    BY <1>2, <1>5, <2>1, ItemTypes DEF ContactRefuses, Entry, Item
  <2>3. PICK before : before = (IF Visible(c) THEN Seen(c, FALSE) ELSE <<>>) \o <<Stanza("unsubscribed", c)>>
    OBVIOUS
  <2>4. Speech(before, c, FALSE) /\ (active /\ Visible(c) => Greets(before))
    <3>1. CASE Visible(c)
      BY <2>3, <3>1, SpeechShort
    <3>2. CASE ~Visible(c)
      <4>1. <<>> \o <<Stanza("unsubscribed", c)>> = <<Stanza("unsubscribed", c)>>
        <5>1. <<Stanza("unsubscribed", c)>> \in Seq(Stanzas)
          BY SpeechShort DEF Speech, QuietSeqs
        <5> QED
          BY <5>1, ConcatEmptySeq
      <4> QED
        BY <2>3, <3>2, <4>1, SpeechShort
    <3> QED
      BY <3>1, <3>2
  <2>5. SetItem(c, i, before, <<>>) /\ UNCHANGED <<avail, active>> /\ srv[c] # None
    BY <1>1, <1>5, <2>1, <2>3 DEF ContactRefuses
  <2>6. i # None /\ i \in Entry
    BY <2>2, RosterAssumption DEF Entry, Item
  <2>7. FALSE = (i # None /\ i.to = "to" /\ c \in avail)
    BY <2>2
  <2>8. active => Greets(before) \/ FALSE = Visible(c)
    BY <2>4
  <2>9. (\E s : Announces(s)) /\ missed \subseteq missed'
    BY <1>3, <2>4, <2>5, <2>6, <2>7, <2>8, SetAnnounces
  <2> QED
    BY <1>1, <2>9 DEF Speaks
<1>6. CASE ContactAsks(c)
  <2>1. UNCHANGED <<srv, avail, missed>>
    BY <1>6 DEF ContactAsks
  <2>2. PICK v \in BOOLEAN : v = Visible(c)
    BY DEF Visible
  <2>3. PICK s : s = IF active THEN <<Stanza("subscribe", c)>> ELSE <<>>
    OBVIOUS
  <2>4. Deliver(s) /\ Speech(s, c, v) /\ ~Greets(s)
    BY <1>3, <1>6, <2>3, SpeechShort DEF ContactAsks
  <2>5. \A d \in Contacts : Visible(d)' = Visible(d)
    BY <2>1 DEF Visible
  <2>6. \E z : Announces(z)
    BY <1>1, <2>1, <2>2, <2>4, <2>5, SaysAnnounces
  <2> QED
    BY <1>1, <2>1, <2>6 DEF Speaks
<1>7. CASE ContactLeaves(c)
  <2>1. PICK i : i = [srv[c] EXCEPT !.from = FALSE]
    OBVIOUS
  <2>2. i \in Item /\ i.to = srv[c].to
    BY <1>2, <1>7, <2>1, ItemTypes DEF ContactLeaves, Entry, Item
  <2>3. i # None /\ i \in Entry
    BY <2>2, RosterAssumption DEF Entry, Item
  <2>4. PICK v \in BOOLEAN : v = (i # None /\ i.to = "to" /\ c \in avail)
    OBVIOUS
  <2>5. SetItem(c, i, <<Stanza("unsubscribe", c)>>, <<>>) /\ UNCHANGED <<avail, active>> /\ srv[c] # None
    BY <1>1, <1>7, <2>1 DEF ContactLeaves
  <2>6. Speech(<<Stanza("unsubscribe", c)>>, c, v) /\ ~Greets(<<Stanza("unsubscribe", c)>>)
    BY SpeechShort
  <2>7. v = Visible(c)
    BY <2>2, <2>3, <2>4, <2>5 DEF Visible
  <2>8. (\E s : Announces(s)) /\ missed \subseteq missed'
    BY <1>3, <2>3, <2>4, <2>5, <2>6, <2>7, SetAnnounces
  <2> QED
    BY <1>1, <2>8 DEF Speaks
<1>8. CASE ContactComesOrGoes(c)
  <2>1. UNCHANGED srv /\ missed \subseteq missed'
    BY <1>8 DEF ContactComesOrGoes
  <2>2. \A d \in Contacts : d # c => Visible(d)' = Visible(d)
    BY <1>8, <2>1 DEF ContactComesOrGoes, Visible
  <2>3. PICK heard \in BOOLEAN : heard = (srv[c] # None /\ srv[c].to = "to")
    OBVIOUS
  <2>4. PICK w \in BOOLEAN : w = (c \notin avail)
    OBVIOUS
  <2>5. /\ Deliver(IF heard THEN Seen(c, w) ELSE <<>>)
        /\ missed' = IF heard /\ ~active THEN missed \union {c} ELSE missed
    BY <1>8, <2>3, <2>4 DEF ContactComesOrGoes
  <2>6. PICK v \in BOOLEAN : v = (heard /\ w)
    OBVIOUS
  <2>7. Visible(c)' = v /\ Visible(c) = (heard /\ ~w)
    BY <1>8, <2>1, <2>3, <2>4, <2>6 DEF ContactComesOrGoes, Visible
  <2>8. PICK s : s = IF heard THEN Seen(c, w) ELSE <<>>
    OBVIOUS
  <2>9. Deliver(s) /\ Speech(s, c, v) /\ (Greets(s) => srv[c] # None) /\ (active /\ heard => Greets(s))
    <3>1. CASE heard
      <4>1. v = w /\ s = Seen(c, v) /\ srv[c] # None
        BY <2>3, <2>6, <2>8, <3>1
      <4> QED
        BY <2>5, <2>8, <4>1, SpeechShort
    <3>2. CASE ~heard
      BY <1>3, <2>5, <2>8, <3>2
    <3> QED
      BY <3>1, <3>2
  <2>10. active => Greets(s) \/ v = Visible(c)
    BY <2>6, <2>7, <2>9
  <2>11. ~active /\ Visible(c) /\ ~v => c \in missed'
    BY <2>5, <2>7
  <2>12. \E z : Announces(z)
    BY <1>1, <2>1, <2>2, <2>7, <2>9, <2>10, <2>11, SaysAnnounces
  <2> QED
    BY <1>1, <2>1, <2>12 DEF Speaks
<1>9. CASE OtherDevice(c)
  <2>1. UNCHANGED avail
    BY <1>9 DEF OtherDevice
  <2>2. PICK i \in Entry : /\ SetItem(c, i, <<>>, <<>>)
                           /\ i # None => (i.to = "to" <=> srv[c] # None /\ srv[c].to = "to")
    <3>1. CASE \E n \in Names, gs \in SUBSET Groups :
                 SetItem(c, IF srv[c] = None THEN NewItem(n, gs)
                            ELSE [srv[c] EXCEPT !.name = n, !.groups = gs], <<>>, <<>>)
      <4>1. PICK n \in Names, gs \in SUBSET Groups :
              SetItem(c, IF srv[c] = None THEN NewItem(n, gs)
                         ELSE [srv[c] EXCEPT !.name = n, !.groups = gs], <<>>, <<>>)
        BY <3>1
      <4>2. CASE srv[c] = None
        <5>1. NewItem(n, gs) \in Item /\ NewItem(n, gs).to = "none"
          BY <1>2, ItemTypes DEF NewItem
        <5> QED
          BY <4>1, <4>2, <5>1 DEF Entry
      <4>3. CASE srv[c] # None
        <5>1. [srv[c] EXCEPT !.name = n, !.groups = gs] \in Item
          BY <1>2, <4>3, ItemTypes
        <5>2. [srv[c] EXCEPT !.name = n, !.groups = gs].to = srv[c].to
          BY <1>2, <4>3 DEF Entry, Item
        <5> QED
          BY <4>1, <4>3, <5>1, <5>2 DEF Entry
      <4> QED
        BY <4>2, <4>3
    <3>2. CASE SetItem(c, None, <<>>, <<>>)
      BY <3>2 DEF Entry
    <3> QED
      BY <1>9, <3>1, <3>2 DEF OtherDevice
  <2>3. PICK v \in BOOLEAN : v = (i # None /\ i.to = "to" /\ c \in avail)
    OBVIOUS
  <2>4. i # None => v = Visible(c)
    BY <2>2, <2>3 DEF Visible
  <2>5. (\E s : Announces(s)) /\ missed \subseteq missed'
    BY <1>1, <1>3, <2>1, <2>2, <2>3, <2>4, SetAnnounces
  <2> QED
    BY <1>1, <2>5 DEF Speaks
<1> QED
  BY <1>4, <1>5, <1>6, <1>7, <1>8, <1>9 DEF Environment

-----------------------------------------------------------------------------
(* What has been heard is kept by the other steps.                         *)

LEMMA InitHeard == Init => Heard
<1> SUFFICES ASSUME Init PROVE Heard
  OBVIOUS
<1>1. ~up /\ ~active /\ toServer = <<>> /\ toClient = <<>> /\ shown = {}
  BY DEF Init
<1>2. ~Greets(<<>>)
  BY DEF Greets
<1> QED
  BY <1>1, <1>2 DEF Heard, Early, Told, OnlineIs, KnownWhenOn, ShownIs, OnlineShown, Sure

LEMMA PlainMore ==
  ASSUME TypeOK, NEW s \in PlainSeqs, Request(s)
  PROVE  /\ Asks(toServer') <=> Asks(toServer)
         /\ Greets(toServer') <=> Greets(toServer)
         /\ (\A i, j \in DOMAIN toServer : toServer[i].t = "get" /\ toServer[j].t = "get" => i = j)
              => \A i, j \in DOMAIN toServer' : toServer'[i].t = "get" /\ toServer'[j].t = "get" => i = j
<1>1. s \in Seq(Requests) /\ toServer \in Seq(Requests) /\ toServer' = toServer \o s
  BY DEF PlainSeqs, GroundedSeqs, Request, TypeOK
<1>2. ~Asks(s) /\ ~Greets(s) /\ \A i \in DOMAIN s : s[i].t \notin {"get"}
  BY DEF PlainSeqs, Asks, Greets
<1>3. (\A i, j \in DOMAIN toServer : toServer[i].t \in {"get"} /\ toServer[j].t \in {"get"} => i = j)
        => \A i, j \in DOMAIN (toServer \o s) :
             (toServer \o s)[i].t \in {"get"} /\ (toServer \o s)[j].t \in {"get"} => i = j
  BY <1>1, <1>2, QuietMore
<1>4. (Asks(toServer \o s) <=> Asks(toServer)) /\ (Greets(toServer \o s) <=> Greets(toServer))
  BY <1>1, <1>2, QuietMore
<1> QED
  BY <1>1, <1>3, <1>4

\* A call of the application only sends a request about items.
LEMMA CallHeard ==
  ASSUME TypeOK, Heard, NEW c \in Contacts, Application(c)
  PROVE  Heard'
<1>1. UNCHANGED <<server, stack, friends, shown, toClient, past>>
  BY CallRequests
<1>2. /\ Asks(toServer') <=> Asks(toServer)
      /\ Greets(toServer') <=> Greets(toServer)
      /\ (\A i, j \in DOMAIN toServer : toServer[i].t = "get" /\ toServer[j].t = "get" => i = j)
           => \A i, j \in DOMAIN toServer' : toServer'[i].t = "get" /\ toServer'[j].t = "get" => i = j
  BY CallRequests, PlainMore
<1>3. \A d \in Contacts : Visible(d)' = Visible(d)
  BY <1>1 DEF server, Visible
<1>4. UNCHANGED <<active, listening, up, online, roster, friends, shown, toClient, noRoster, refilled, missed>>
  BY <1>1 DEF server, stack, past
<1>5. Early'
  BY <1>2, <1>4 DEF Heard, Early
<1>6. Sure' <=> Sure
  BY <1>2, <1>4 DEF Sure
<1>7. Told' /\ OnlineIs' /\ KnownWhenOn'
  BY <1>3, <1>4, <1>6 DEF Heard, Told, OnlineIs, KnownWhenOn
<1>8. ShownIs'
  <2>1. shown \subseteq Contacts
    BY DEF TypeOK
  <2> QED
    BY <1>3, <1>4, <2>1 DEF Heard, ShownIs
<1>9. OnlineShown'
  BY <1>4 DEF Heard, OnlineShown
<1> QED
  BY <1>5, <1>7, <1>8, <1>9 DEF Heard

\* A new fill, of a new session or in this one.
LEMMA ConnectedHeard ==
  ASSUME TypeOK, Follows, Heard, Connected
  PROVE  Heard'
<1>1. /\ ~up /\ online' = {} /\ refilled' = FALSE
      /\ toServer' = toServer \o <<[t |-> "get"]>>
      /\ UNCHANGED <<server, friends, shown, toClient, missed>>
  BY DEF Connected, Fill, Request, mirror
<1>2. ~listening /\ toServer = <<>> /\ toClient = <<>>
  BY <1>1 DEF Follows, Deaf
<1>3. ~active /\ UNCHANGED <<active, listening, srv, avail>>
  BY <1>1, <1>2 DEF Heard, Early, server
<1>4. PICK s \in Seq(Requests) : s = <<[t |-> "get"]>> /\ DOMAIN s = {1} /\ s[1].t = "get"
  BY GroundedReplies, ShortSeqs DEF GroundedSeqs
<1>5. toServer' = s
  BY <1>1, <1>2, <1>4, ConcatEmptySeq
<1>6. /\ \A i, j \in DOMAIN toServer' : toServer'[i].t = "get" /\ toServer'[j].t = "get" => i = j
      /\ Asks(toServer') /\ ~Greets(toServer')
  BY <1>4, <1>5 DEF Asks, Greets
<1>7. /\ \A i, j \in DOMAIN toClient' : i = j
      /\ Unfilled(toClient') /\ ~Greets(toClient')
  BY <1>1, <1>2 DEF Unfilled, Greets
<1>8. Early'
  BY <1>1, <1>3, <1>6, <1>7 DEF Early
<1>9. ~Sure' /\ Told'
  BY <1>3, <1>6 DEF Sure, Told
<1>10. ShownIs'
  <2>1. \A c \in Contacts : Visible(c)' = Visible(c)
    BY <1>3 DEF Visible
  <2>2. shown \subseteq Contacts
    BY DEF TypeOK
  <2> QED
    BY <1>1, <2>1, <2>2 DEF Heard, ShownIs
<1>11. OnlineShown'
  BY <1>1 DEF OnlineShown
<1> QED
  BY <1>8, <1>9, <1>10, <1>11 DEF Heard, OnlineIs, KnownWhenOn

LEMMA GetRosterHeard ==
  ASSUME TypeOK, Heard, GetRoster
  PROVE  Heard'
<1>1. /\ online' = {} /\ refilled' = TRUE
      /\ toServer' = toServer \o <<[t |-> "get"]>>
      /\ UNCHANGED <<server, friends, shown, toClient, missed>>
  BY DEF GetRoster, Fill, Request, mirror
<1>2. UNCHANGED <<active, listening, srv, avail>>
  BY <1>1 DEF server
<1>3. PICK s \in Seq(Requests) : s = <<[t |-> "get"]>> /\ DOMAIN s = {1} /\ s[1].t = "get"
  BY GroundedReplies, ShortSeqs DEF GroundedSeqs
<1>4. Greets(toServer') <=> Greets(toServer)
  <2>1. ~Greets(s)
    BY <1>3 DEF Greets
  <2>2. Greets(toServer \o s) <=> Greets(toServer)
    <3>1. toServer \in Seq(Requests)
      BY DEF TypeOK
    <3> QED
      BY <1>3, <2>1, <3>1, QuietMore
  <2> QED
    BY <1>1, <1>3, <2>2
<1>5. Early'
  BY <1>1, <1>2, <1>4 DEF Heard, Early
<1>6. ~Sure'
  BY <1>1 DEF Sure
<1>7. \A c \in Contacts : Visible(c)' = Visible(c)
  BY <1>2 DEF Visible
<1>8. Told'
  BY <1>1, <1>2, <1>7 DEF Heard, Told
<1>9. ShownIs'
  <2>1. shown \subseteq Contacts
    BY DEF TypeOK
  <2> QED
    BY <1>1, <1>7, <2>1 DEF Heard, ShownIs
<1>10. OnlineShown'
  BY <1>1 DEF OnlineShown
<1> QED
  BY <1>5, <1>6, <1>8, <1>9, <1>10 DEF Heard, OnlineIs, KnownWhenOn

\* What is cut off is remembered as missed.
LEMMA LostHeard ==
  ASSUME TypeOK, Heard, Lost
  PROVE  Heard'
<1>1. /\ ~up' /\ ~active' /\ toServer' = <<>> /\ toClient' = <<>>
      /\ UNCHANGED <<srv, avail, shown>>
  BY DEF Lost, mirror
<1>2. \A c \in Contacts : Visible(c)' = Visible(c)
  BY <1>1 DEF Visible
<1>3. /\ missed \subseteq missed'
      /\ \A i \in DOMAIN toClient : toClient[i].t \in {"presence", "push"} => toClient[i].c \in missed'
  BY DEF Lost
<1>4. ShownIs'
  <2> SUFFICES ASSUME NEW c \in shown, c \notin missed' PROVE Visible(c)
    BY <1>1, <1>2 DEF ShownIs, TypeOK
  <2>1. Unmarked(toClient, c, 0)
    BY <1>3 DEF Unmarked, Marks, Drops
  <2> QED
    BY <1>3, <2>1 DEF Heard, ShownIs
<1>5. Early'
  BY <1>1 DEF Early, Greets
<1>6. ~Sure' /\ Told' /\ OnlineShown'
  BY <1>1 DEF Sure, Told, OnlineShown
<1> QED
  BY <1>4, <1>5, <1>6 DEF Heard, OnlineIs, KnownWhenOn

\* The answer to a fill.
LEMMA ServeGetHeard ==
  ASSUME TypeOK, Follows, Heard, ServeGet
  PROVE  Heard'
<1>1. /\ toServer # <<>> /\ Head(toServer).t = "get" /\ toServer' = Tail(toServer) /\ listening'
      /\ UNCHANGED <<srv, avail, active, up, roster, online, friends, shown, noRoster, refilled, missed>>
      /\ toServer \in Seq(Requests) /\ toClient \in Seq(Stanzas)
  BY DEF ServeGet, Serve, stack, mirror, past, TypeOK
<1>2. PICK m \in Stanzas : toClient' = Append(toClient, m) /\ m.t \in {"result", "error"}
  <2>1. [t |-> "result", all |-> srv] \in Stanzas /\ [t |-> "error"] \in Stanzas
    BY DEF Stanzas, TypeOK
  <2> QED
    BY <2>1 DEF ServeGet
<1>3. PICK s \in Seq(Stanzas) : s = <<m>> /\ DOMAIN s = {1} /\ s[1] = m
  BY ShortSeqs
<1>4. toClient' = toClient \o s
  BY <1>1, <1>2, <1>3, AppendIsConcat
<1>5. /\ Greets(toServer') => Greets(toServer)
      /\ Asks(toServer)
      /\ (\A i, j \in DOMAIN toServer : toServer[i].t \in {"get"} /\ toServer[j].t \in {"get"} => i = j)
           => /\ \A i, j \in DOMAIN toServer' : toServer'[i].t \in {"get"} /\ toServer'[j].t \in {"get"} => i = j
              /\ \A i \in DOMAIN toServer' : toServer'[i].t \notin {"get"}
  BY <1>1, GreetsTail
<1>6. /\ ~Greets(s) /\ ~Unfilled(s)
      /\ \A c : Unmarked(s, c, 0) /\ \A j \in DOMAIN s : ~Marks(s[j], c)
  BY <1>2, <1>3 DEF Greets, Unfilled, Unmarked, Marks, Drops
<1>7. /\ Greets(toClient \o s) <=> Greets(toClient) \/ Greets(s)
      /\ Unfilled(toClient \o s) <=> Unfilled(toClient) /\ Unfilled(s)
  BY <1>1, <1>3, QuietMore
<1>8. (Greets(toClient') <=> Greets(toClient)) /\ ~Unfilled(toClient')
  BY <1>4, <1>6, <1>7
<1>9. ASSUME up, ~refilled
      PROVE  /\ \A i, j \in DOMAIN toServer' : toServer'[i].t = "get" /\ toServer'[j].t = "get" => i = j
             /\ \A i, j \in DOMAIN toClient' :
                  toClient'[i].t \in {"result", "error"} /\ toClient'[j].t \in {"result", "error"} => i = j
             /\ ~Asks(toServer') /\ ~active /\ ~Greets(toServer')
  <2>1. /\ \A i, j \in DOMAIN toServer : toServer[i].t = "get" /\ toServer[j].t = "get" => i = j
        /\ Unfilled(toClient) /\ ~active /\ ~Greets(toServer)
    BY <1>5, <1>9 DEF Heard, Early
  <2>2. /\ \A i, j \in DOMAIN toServer' : toServer'[i].t = "get" /\ toServer'[j].t = "get" => i = j
        /\ ~Asks(toServer')
    BY <1>5, <2>1 DEF Asks
  <2>3. /\ Len(toClient) \in Nat /\ DOMAIN toClient = 1..Len(toClient)
        /\ DOMAIN toClient' = 1..(Len(toClient) + 1)
        /\ \A i \in 1..Len(toClient) : toClient'[i] = toClient[i]
    BY <1>1, <1>2, AppendProperties, LenProperties
  <2>4. \A i \in DOMAIN toClient' : toClient'[i].t \in {"result", "error"} => i = Len(toClient) + 1
    BY <2>1, <2>3 DEF Unfilled
  <2> QED
    BY <1>5, <2>1, <2>2, <2>4
<1>10. Early'
  <2>1. ~active' => ~Greets(toClient') /\ (up' => online' = {})
    BY <1>1, <1>8 DEF Heard, Early
  <2> QED
    BY <1>1, <1>8, <1>9, <2>1 DEF Early
<1>11. \A c \in Contacts : Visible(c)' = Visible(c)
  BY <1>1 DEF Visible
<1>12. Told'
  <2> SUFFICES ASSUME active, NEW c \in Contacts PROVE Shows(toClient', c, Visible(c))
    BY <1>1, <1>11 DEF Told
  <2>1. PICK v : v = Visible(c)
    OBVIOUS
  <2>2. Shows(toClient, c, v)
    BY <2>1 DEF Heard, Told
  <2>3. Shows(toClient \o s, c, v)
    BY <1>1, <1>3, <1>6, <2>2, MoreShows
  <2> QED
    BY <1>4, <2>1, <2>3
<1>13. ~Sure'
  BY <1>8 DEF Sure
<1>14. ShownIs'
  <2> SUFFICES ASSUME NEW c \in shown \ missed, Unmarked(toClient', c, 0) PROVE Visible(c)
    BY <1>1, <1>11 DEF ShownIs, TypeOK
  <2>1. Unmarked(toClient \o s, c, 0) <=> Unmarked(toClient, c, 0) /\ Unmarked(s, c, 0)
    BY <1>1, <1>3, MoreShows
  <2> QED
    BY <1>4, <2>1 DEF Heard, ShownIs
<1>15. OnlineShown'
  BY <1>1 DEF Heard, OnlineShown
<1> QED
  BY <1>10, <1>12, <1>13, <1>14, <1>15 DEF Heard, OnlineIs, KnownWhenOn

\* What every receiver's step keeps.
LEMMA ReceivedHeard ==
  ASSUME TypeOK, Follows, Heard, NEW t, Receive(t), Receiver
  PROVE  /\ toClient # <<>> /\ First = Head(toClient) /\ First.t = t /\ toClient' = Tail(toClient)
         /\ toClient \in Seq(Stanzas) /\ up /\ listening
         /\ UNCHANGED <<srv, avail, active, listening, up, refilled>>
         /\ \A c \in Contacts : Visible(c)' = Visible(c)
         /\ Told'
         /\ (\A i, j \in DOMAIN toClient :
               toClient[i].t \in {"result", "error"} /\ toClient[j].t \in {"result", "error"} => i = j)
              => /\ \A i, j \in DOMAIN toClient' :
                      toClient'[i].t \in {"result", "error"} /\ toClient'[j].t \in {"result", "error"} => i = j
                 /\ t \in {"result", "error"} => Unfilled(toClient')
         /\ Greets(toClient') => Greets(toClient)
         /\ Unfilled(toClient) => Unfilled(toClient')
         /\ t \notin {"result", "error"} /\ Unfilled(toClient') => Unfilled(toClient)
         /\ t = "presence" => active
         /\ t \in {"result", "error"} => ~Unfilled(toClient)
<1>1. /\ toClient # <<>> /\ First = Head(toClient) /\ First.t = t /\ toClient' = Tail(toClient)
      /\ toClient \in Seq(Stanzas) /\ up /\ listening
  BY Received DEF First, TypeOK
<1>2. UNCHANGED <<srv, avail, active, listening, up, refilled>>
  BY DEF Receiver, HandleRoster, HandleRosterError, MergePush, HandlePresence, HandleSubscribe,
         HandleSubscribed, HandleUnsubscribe, HandleUnsubscribed, server, stack, past
<1>3. \A c \in Contacts : Visible(c)' = Visible(c)
  BY <1>2 DEF Visible
<1>4. Told'
  <2> SUFFICES ASSUME active, NEW c \in Contacts PROVE Shows(toClient', c, Visible(c))
    BY <1>2, <1>3 DEF Told
  <2>1. Shows(toClient, c, Visible(c))
    BY DEF Heard, Told
  <2> QED
    BY <1>1, <2>1, TailShows
<1>5. /\ Greets(toClient') => Greets(toClient)
      /\ Unfilled(toClient) => Unfilled(toClient')
      /\ t \notin {"result", "error"} /\ Unfilled(toClient') => Unfilled(toClient)
      /\ t = "presence" => Greets(toClient)
      /\ t \in {"result", "error"} => ~Unfilled(toClient)
  BY <1>1, GreetsTail, UnfilledTail
<1>6. ASSUME \A i, j \in DOMAIN toClient :
               toClient[i].t \in {"result", "error"} /\ toClient[j].t \in {"result", "error"} => i = j
      PROVE  /\ \A i, j \in DOMAIN toClient' :
                  toClient'[i].t \in {"result", "error"} /\ toClient'[j].t \in {"result", "error"} => i = j
             /\ t \in {"result", "error"} => Unfilled(toClient')
  BY <1>1, <1>6, GreetsTail DEF Unfilled
<1>7. t = "presence" => active
  BY <1>5 DEF Heard, Early
<1> QED
  BY <1>1, <1>2, <1>3, <1>4, <1>5, <1>6, <1>7

\* The answer to a fill is the first of a session that sends its presence then; with
\* getRoster() there is nothing to say.
LEMMA FilledHeard ==
  ASSUME TypeOK, Follows, Heard, HandleRoster \/ HandleRosterError
  PROVE  Heard'
<1>1. PICK t \in {"result", "error"} : Receive(t)
  BY DEF HandleRoster, HandleRosterError
<1>2. Receiver
  BY DEF Receiver
<1>3. /\ toClient # <<>> /\ First = Head(toClient) /\ First.t = t /\ toClient' = Tail(toClient)
      /\ toClient \in Seq(Stanzas) /\ up /\ listening
      /\ UNCHANGED <<srv, avail, active, listening, up, refilled>>
      /\ \A c \in Contacts : Visible(c)' = Visible(c)
      /\ Told' /\ ~Unfilled(toClient)
      /\ Greets(toClient') => Greets(toClient)
  BY <1>1, <1>2, ReceivedHeard
<1>4. UNCHANGED <<online, shown, missed>> /\ toServer' = toServer \o <<[t |-> "presence"]>>
  BY DEF HandleRoster, HandleRosterError, stack, mirror, Request
<1>5. ASSUME NEW c \in Contacts, Unmarked(toClient', c, 0)
      PROVE  Unmarked(toClient, c, 0)
  <2>1. ~Marks(First, c)
    BY <1>3, <1>1 DEF Marks, Drops
  <2> QED
    BY <1>3, <1>5, <2>1, TailShows
<1>6. ShownIs'
  <2>1. shown \subseteq Contacts
    BY DEF TypeOK
  <2> QED
    BY <1>3, <1>4, <1>5, <2>1 DEF Heard, ShownIs
<1>7. CASE refilled
  BY <1>3, <1>4, <1>6, <1>7 DEF Heard, Early, OnlineIs, KnownWhenOn, OnlineShown, Sure
<1>8. CASE ~refilled
  <2>1. /\ ~active /\ ~Asks(toServer) /\ online = {}
        /\ \A i, j \in DOMAIN toClient' :
             toClient'[i].t \in {"result", "error"} /\ toClient'[j].t \in {"result", "error"} => i = j
        /\ Unfilled(toClient')
    <3>1. /\ ~active /\ ~Asks(toServer) /\ online = {}
          /\ \A i, j \in DOMAIN toClient :
               toClient[i].t \in {"result", "error"} /\ toClient[j].t \in {"result", "error"} => i = j
      BY <1>3, <1>8 DEF Heard, Early
    <3> QED
      BY <1>1, <1>2, <3>1, ReceivedHeard
  <2>2. ~Greets(toClient')
    BY <1>3, <2>1 DEF Heard, Early
  <2>3. ~Asks(toServer')
    <3>1. PICK s \in Seq(Requests) : s = <<[t |-> "presence"]>> /\ DOMAIN s = {1} /\ s[1].t = "presence"
      BY GroundedReplies, ShortSeqs DEF GroundedSeqs
    <3>2. ~Asks(s)
      BY <3>1 DEF Asks
    <3>3. PICK q \in Seq(Requests) : q = toServer
      BY DEF TypeOK
    <3>4. Asks(q \o s) <=> Asks(q) \/ Asks(s)
      BY QuietMore
    <3> QED
      BY <1>4, <2>1, <3>1, <3>2, <3>3, <3>4
  <2>4. Early'
    BY <1>3, <1>4, <2>1, <2>2, <2>3 DEF Early, Asks
  <2>5. OnlineIs' /\ OnlineShown'
    BY <1>3, <1>4, <2>1 DEF OnlineIs, OnlineShown
  <2>6. KnownWhenOn'
    BY <2>2 DEF KnownWhenOn, Greets, On
  <2> QED
    BY <1>3, <1>6, <2>4, <2>5, <2>6 DEF Heard
<1> QED
  BY <1>7, <1>8

\* The other receipts send nothing, or an answer to a request.
LEMMA ReplyHeard ==
  ASSUME TypeOK, Follows, Heard, NEW t, t \notin {"result", "error"}, Receive(t), Receiver,
         UNCHANGED toServer \/ \E s \in PlainSeqs : Request(s), UNCHANGED noRoster,
         ~active => online' \subseteq online
  PROVE  Early' /\ (Sure' => Sure)
<1>1. /\ Asks(toServer') <=> Asks(toServer)
      /\ Greets(toServer') <=> Greets(toServer)
      /\ (\A i, j \in DOMAIN toServer : toServer[i].t = "get" /\ toServer[j].t = "get" => i = j)
           => \A i, j \in DOMAIN toServer' : toServer'[i].t = "get" /\ toServer'[j].t = "get" => i = j
  <2>1. CASE UNCHANGED toServer
    BY <2>1
  <2>2. CASE \E s \in PlainSeqs : Request(s)
    BY <2>2, PlainMore
  <2> QED
    BY <2>1, <2>2
<1>2. /\ up /\ listening /\ UNCHANGED <<active, listening, up, refilled>>
      /\ (\A i, j \in DOMAIN toClient :
            toClient[i].t \in {"result", "error"} /\ toClient[j].t \in {"result", "error"} => i = j)
           => \A i, j \in DOMAIN toClient' :
                toClient'[i].t \in {"result", "error"} /\ toClient'[j].t \in {"result", "error"} => i = j
      /\ Greets(toClient') => Greets(toClient)
      /\ Unfilled(toClient') <=> Unfilled(toClient)
  BY ReceivedHeard
<1>3. Early'
  <2>1. (active' \/ Greets(toServer')) => listening'
    BY <1>2
  <2>2. ~active' => ~Greets(toClient') /\ (up' => online' = {})
    BY <1>2 DEF Heard, Early
  <2>3. ~refilled =>
          /\ \A i, j \in DOMAIN toServer : toServer[i].t = "get" /\ toServer[j].t = "get" => i = j
          /\ \A i, j \in DOMAIN toClient :
               toClient[i].t \in {"result", "error"} /\ toClient[j].t \in {"result", "error"} => i = j
          /\ ~Unfilled(toClient) => ~Asks(toServer)
          /\ (Asks(toServer) \/ ~Unfilled(toClient)) => ~active /\ ~Greets(toServer)
    BY <1>2 DEF Heard, Early
  <2>4. ~refilled' =>
          /\ \A i, j \in DOMAIN toServer' : toServer'[i].t = "get" /\ toServer'[j].t = "get" => i = j
          /\ \A i, j \in DOMAIN toClient' :
               toClient'[i].t \in {"result", "error"} /\ toClient'[j].t \in {"result", "error"} => i = j
          /\ ~Unfilled(toClient') => ~Asks(toServer')
          /\ (Asks(toServer') \/ ~Unfilled(toClient')) => ~active' /\ ~Greets(toServer')
    BY <1>1, <1>2, <2>3
  <2> QED
    BY <2>1, <2>2, <2>4 DEF Early
<1>4. Sure' => Sure
  BY <1>1, <1>2 DEF Sure
<1> QED
  BY <1>3, <1>4

\* A message that is taken keeps what the ones behind it find.
LEMMA KnownBehind ==
  ASSUME TypeOK, Heard, toClient # <<>>, toClient' = Tail(toClient), Sure' => Sure,
         \A c \in Contacts : /\ Adds(Head(toClient), c) => roster'[c] # None
                             /\ roster[c] # None /\ ~Drops(Head(toClient), c) => roster'[c] # None
  PROVE  KnownWhenOn'
<1> SUFFICES ASSUME Sure', NEW c \in Contacts, NEW i \in DOMAIN toClient', On(toClient'[i], c)
             PROVE  KnownAt(toClient', c, i, (roster[c] # None)')
  BY DEF KnownWhenOn
<1>1. toClient \in Seq(Stanzas)
  BY DEF TypeOK
<1>2. i + 1 \in DOMAIN toClient /\ toClient'[i] = toClient[i + 1]
  BY <1>1, HeadAndTail
<1>3. PICK known, now : known = (roster[c] # None) /\ now = (roster'[c] # None)
  OBVIOUS
<1>4. KnownAt(toClient, c, i + 1, known)
  BY <1>2, <1>3 DEF Heard, KnownWhenOn
<1>5. (Adds(Head(toClient), c) => now) /\ (known /\ ~Drops(Head(toClient), c) => now)
  BY <1>3
<1>6. i \in DOMAIN Tail(toClient)
  OBVIOUS
<1>7. KnownAt(Tail(toClient), c, i, now)
  BY <1>1, <1>4, <1>5, <1>6, TailKnown
<1> QED
  BY <1>3, <1>7

LEMMA SubscriptionHeard ==
  ASSUME TypeOK, Follows, Heard,
         HandleSubscribe \/ HandleSubscribed \/ HandleUnsubscribe \/ HandleUnsubscribed
  PROVE  Heard'
<1>1. PICK t \in {"subscribe", "subscribed", "unsubscribe", "unsubscribed"} : Receive(t)
  BY DEF HandleSubscribe, HandleSubscribed, HandleUnsubscribe, HandleUnsubscribed
<1>2. Receiver
  BY DEF Receiver
<1>3. /\ toClient # <<>> /\ First = Head(toClient) /\ First.t = t /\ toClient' = Tail(toClient)
      /\ toClient \in Seq(Stanzas) /\ up
      /\ UNCHANGED <<active, up, refilled>>
      /\ \A c \in Contacts : Visible(c)' = Visible(c)
      /\ Told'
  BY <1>1, <1>2, ReceivedHeard
<1>4. UNCHANGED <<roster, online, noRoster, missed>>
  BY DEF HandleSubscribe, HandleSubscribed, HandleUnsubscribe, HandleUnsubscribed, stack, past
<1>5. First.c \in Contacts
  <2>1. t # "subscribed" => First.c \in Contacts
    BY <1>1, ReceivedType
  <2>2. t = "subscribed" => First.c \in Contacts
    BY <1>1, <1>3, ReceivedType DEF Stanzas
  <2> QED
    BY <2>1, <2>2
<1>6. /\ shown' \subseteq shown
      /\ \A c \in shown : c \in Contacts /\ (friends'[c] # None => c \in shown')
      /\ \A c \in Contacts : friends'[c] # None => friends'[c] = friends[c]
  <2>1. CASE HandleUnsubscribed
    BY <1>5, <2>1 DEF HandleUnsubscribed, TypeOK
  <2>2. CASE ~HandleUnsubscribed
    BY <2>2 DEF HandleSubscribe, HandleSubscribed, HandleUnsubscribe, mirror, TypeOK
  <2> QED
    BY <2>1, <2>2
<1>7. UNCHANGED toServer \/ \E s \in PlainSeqs : Request(s)
  <2>1. CASE HandleSubscribe
    BY <1>5, <2>1, GroundedReplies DEF HandleSubscribe
  <2>2. CASE HandleUnsubscribe
    BY <1>5, <2>2, GroundedStanza DEF HandleUnsubscribe
  <2>3. CASE HandleSubscribed \/ HandleUnsubscribed
    BY <2>3 DEF HandleSubscribed, HandleUnsubscribed
  <2> QED
    BY <2>1, <2>2, <2>3
<1>8. Early' /\ (Sure' => Sure)
  BY <1>1, <1>2, <1>4, <1>7, ReplyHeard
<1>9. ASSUME NEW c
      PROVE  ~Marks(First, c) /\ ~Adds(First, c) /\ ~Drops(First, c)
  BY <1>3, <1>1 DEF Marks, Adds, Drops
<1>10. \A c : Unmarked(toClient', c, 0) => Unmarked(toClient, c, 0)
  BY <1>3, <1>9, TailShows
<1>11. OnlineIs'
  BY <1>3, <1>4, <1>8, <1>10 DEF Heard, OnlineIs
<1>12. KnownWhenOn'
  BY <1>3, <1>4, <1>8, <1>9, KnownBehind
<1>13. ShownIs'
  BY <1>3, <1>4, <1>6, <1>10 DEF Heard, ShownIs
<1>14. OnlineShown'
  <2>1. online \subseteq Contacts
    BY DEF TypeOK
  <2> QED
    BY <1>3, <1>4, <1>6, <2>1 DEF Heard, OnlineShown
<1> QED
  BY <1>3, <1>8, <1>11, <1>12, <1>13, <1>14 DEF Heard

\* Presence is kept for an item, and for its friend: on line at the first message
\* of a contact means that there is an item for it.
LEMMA PresenceHeard ==
  ASSUME TypeOK, Follows, Heard, HandlePresence
  PROVE  Heard'
<1>1. Receive("presence") /\ Receiver
  BY DEF HandlePresence, Receiver
<1>2. /\ toClient # <<>> /\ First = Head(toClient) /\ First.t = "presence" /\ toClient' = Tail(toClient)
      /\ toClient \in Seq(Stanzas) /\ up /\ active
      /\ UNCHANGED <<active, up, refilled>>
      /\ \A d \in Contacts : Visible(d)' = Visible(d)
      /\ Told'
  BY <1>1, ReceivedHeard
<1>3. PICK c \in Contacts, on \in BOOLEAN : c = First.c /\ on = First.on
  <2>1. First \in Stanzas
    BY <1>1, ReceivedType
  <2> QED
    BY <1>2, <2>1 DEF Stanzas
<1>4. /\ online' = IF roster[c] # None THEN IF on THEN online \union {c} ELSE online \ {c} ELSE online
      /\ shown' = IF roster[c] # None /\ friends[c] # None
                    THEN IF on THEN shown \union {c} ELSE shown \ {c} ELSE shown
      /\ missed' = IF roster[c] # None THEN missed \ {c} ELSE missed \union {c}
      /\ UNCHANGED <<roster, friends, toServer, noRoster>>
  BY <1>3 DEF HandlePresence, Showable
<1>5. /\ \A d \in shown : friends[d] # None /\ d \in Contacts
      /\ \A d \in online : roster[d] # None /\ d \in Contacts
  BY DEF TypeOK
<1>6. Early' /\ (Sure' => Sure)
  BY <1>1, <1>2, <1>4, ReplyHeard
<1>7. /\ \A d : d # c => ~Marks(First, d)
      /\ \A d : ~Adds(First, d) /\ ~Drops(First, d)
      /\ Marks(First, c) /\ (On(First, c) <=> on)
  BY <1>2, <1>3 DEF Marks, Adds, Drops, On
<1>8. \A d : d # c /\ Unmarked(toClient', d, 0) => Unmarked(toClient, d, 0)
  BY <1>2, <1>7, TailShows
<1>9. Unmarked(toClient', c, 0) => (on <=> Visible(c))
  <2>1. PICK v : v = Visible(c)
    OBVIOUS
  <2>2. Shows(toClient, c, v)
    BY <1>2, <2>1 DEF Heard, Told
  <2>3. Unmarked(Tail(toClient), c, 0) => (On(Head(toClient), c) <=> v)
    BY <1>2, <1>7, <2>2, TailShows
  <2> QED
    BY <1>2, <1>7, <2>1, <2>3
<1>10. Sure /\ on => roster[c] # None
  <2>1. 1 \in DOMAIN toClient /\ toClient[1] = First /\ \A k \in DOMAIN toClient : ~(k < 1)
    BY <1>2, HeadAndTail
  <2>2. Sure /\ on => KnownAt(toClient, c, 1, roster[c] # None)
    BY <1>7, <2>1 DEF Heard, KnownWhenOn
  <2> QED
    BY <2>1, <2>2 DEF KnownAt
<1>11. OnlineIs'
  <2> SUFFICES ASSUME Sure, NEW d \in Contacts, Unmarked(toClient', d, 0)
               PROVE  d \in online' <=> Visible(d)
    BY <1>2, <1>6 DEF OnlineIs
  <2>1. CASE d # c
    <3>1. d \in online <=> Visible(d)
      BY <1>2, <1>8, <2>1 DEF Heard, OnlineIs
    <3> QED
      BY <1>4, <2>1, <3>1
  <2>2. CASE d = c
    BY <1>4, <1>5, <1>9, <1>10, <2>2
  <2> QED
    BY <2>1, <2>2
<1>12. KnownWhenOn'
  BY <1>2, <1>4, <1>6, <1>7, KnownBehind
<1>13. ShownIs'
  <2> SUFFICES ASSUME NEW d \in shown', d \notin missed', Unmarked(toClient', d, 0)
               PROVE  Visible(d)
    BY <1>2, <1>4, <1>5 DEF ShownIs
  <2>1. CASE d # c
    BY <1>4, <1>8, <2>1 DEF Heard, ShownIs
  <2>2. CASE d = c
    BY <1>4, <1>5, <1>9, <2>2
  <2> QED
    BY <2>1, <2>2
<1>14. OnlineShown'
  <2> SUFFICES ASSUME ~refilled, NEW d \in online', friends[d] # None PROVE d \in shown'
    BY <1>2, <1>4 DEF OnlineShown
  <2>1. d \in online => d \in shown
    BY <1>2 DEF Heard, OnlineShown
  <2>2. CASE d # c
    BY <1>4, <2>1, <2>2
  <2>3. CASE d = c
    BY <1>4, <1>5, <2>1, <2>3
  <2> QED
    BY <2>2, <2>3
<1> QED
  BY <1>2, <1>6, <1>11, <1>12, <1>13, <1>14 DEF Heard

\* A push takes the resources of an item that goes.  One that goes unknown is missed.
LEMMA MergePushHeard ==
  ASSUME TypeOK, Follows, Heard, MergePush
  PROVE  Heard'
<1>1. Receive("push") /\ Receiver
  BY DEF MergePush, Receiver
<1>2. /\ toClient # <<>> /\ First = Head(toClient) /\ First.t = "push" /\ toClient' = Tail(toClient)
      /\ toClient \in Seq(Stanzas) /\ up
      /\ UNCHANGED <<active, up, refilled>>
      /\ \A d \in Contacts : Visible(d)' = Visible(d)
      /\ Told'
  BY <1>1, ReceivedHeard
<1>3. PICK c \in Contacts, i \in Entry : c = First.c /\ i = First.item
  BY <1>1, ReceivedType
<1>4. /\ roster' = [roster EXCEPT ![c] = i]
      /\ online' = IF i = None THEN online \ {c} ELSE online
      /\ friends' = [friends EXCEPT ![c] = FriendAfter(c, i)]
      /\ shown' = {d \in shown : friends'[d] # None}
      /\ missed' = IF i = None /\ roster[c] = None THEN missed \union {c} ELSE missed
      /\ UNCHANGED <<toServer, noRoster>>
  BY <1>3 DEF MergePush, ResourcesAfter
<1>5. /\ roster \in [Contacts -> Entry] /\ friends \in [Contacts -> Entry]
      /\ \A d \in shown : friends[d] # None /\ d \in Contacts
      /\ \A d \in online : roster[d] # None /\ d \in Contacts
  BY DEF TypeOK, Entry
<1>6. Early' /\ (Sure' => Sure)
  BY <1>1, <1>2, <1>4, ReplyHeard
<1>7. /\ \A d : d # c => ~Marks(First, d) /\ ~Adds(First, d) /\ ~Drops(First, d)
      /\ ~On(First, c)
      /\ Drops(First, c) <=> i = None
      /\ Adds(First, c) <=> i # None
      /\ Marks(First, c) <=> i = None
  BY <1>2, <1>3 DEF Marks, Adds, Drops, On
<1>8. \A d : d # c \/ i # None => (Unmarked(toClient', d, 0) => Unmarked(toClient, d, 0))
  BY <1>2, <1>7, TailShows
<1>9. active /\ i = None /\ Unmarked(toClient', c, 0) => ~Visible(c)
  <2>1. PICK v : v = Visible(c)
    OBVIOUS
  <2>2. active => Shows(toClient, c, v)
    BY <2>1 DEF Heard, Told
  <2>3. active /\ i = None /\ Unmarked(Tail(toClient), c, 0) => (On(Head(toClient), c) <=> v)
    BY <1>2, <1>7, <2>2, TailShows
  <2> QED
    BY <1>2, <1>7, <2>1, <2>3
<1>10. \A d \in Contacts : d # c => roster'[d] = roster[d] /\ friends'[d] = friends[d]
  BY <1>4, <1>5
<1>11. roster'[c] = i /\ friends'[c] = FriendAfter(c, i)
  BY <1>4, <1>5
<1>12. OnlineIs'
  <2> SUFFICES ASSUME Sure, active, NEW d \in Contacts, Unmarked(toClient', d, 0)
               PROVE  d \in online' <=> Visible(d)
    BY <1>2, <1>6 DEF OnlineIs
  <2>1. CASE d # c \/ i # None
    <3>1. d \in online <=> Visible(d)
      BY <1>8, <2>1 DEF Heard, OnlineIs
    <3> QED
      BY <1>4, <2>1, <3>1
  <2>2. CASE d = c /\ i = None
    BY <1>4, <1>9, <2>2
  <2> QED
    BY <2>1, <2>2
<1>13. KnownWhenOn'
  <2>1. \A d \in Contacts : /\ Adds(First, d) => roster'[d] # None
                            /\ roster[d] # None /\ ~Drops(First, d) => roster'[d] # None
    BY <1>7, <1>10, <1>11
  <2> QED
    BY <1>2, <1>6, <2>1, KnownBehind
<1>14. ShownIs'
  <2> SUFFICES ASSUME NEW d \in shown', d \notin missed', Unmarked(toClient', d, 0)
               PROVE  Visible(d)
    BY <1>2, <1>4, <1>5 DEF ShownIs
  <2>1. d \in shown /\ d \notin missed /\ friends'[d] # None
    BY <1>4
  <2>2. CASE d # c \/ i # None
    BY <1>8, <2>1, <2>2 DEF Heard, ShownIs
  <2>3. CASE d = c /\ i = None
    <3>1. roster[c] # None
      BY <1>4, <2>3
    <3> QED
      BY <1>11, <2>1, <2>3, <3>1 DEF FriendAfter
  <2> QED
    BY <2>2, <2>3
<1>15. OnlineShown'
  <2> SUFFICES ASSUME ~refilled, NEW d \in online', friends'[d] # None PROVE d \in shown'
    BY <1>2 DEF OnlineShown
  <2>1. d \in online /\ roster[d] # None /\ d \in Contacts
    BY <1>4, <1>5
  <2>2. friends[d] # None
    BY <1>10, <1>11, <2>1 DEF FriendAfter
  <2>3. d \in shown
    BY <1>2, <2>1, <2>2 DEF Heard, OnlineShown
  <2> QED
    BY <1>4, <2>3
<1> QED
  BY <1>2, <1>6, <1>12, <1>13, <1>14, <1>15 DEF Heard

LEMMA StepKeepsHeard == TypeOK /\ Follows /\ Heard /\ [Next]_vars => Heard'
<1> SUFFICES ASSUME TypeOK, Follows, Heard, [Next]_vars PROVE Heard'
  OBVIOUS
<1>1. CASE Receiver
  BY <1>1, FilledHeard, MergePushHeard, PresenceHeard, SubscriptionHeard DEF Receiver
<1>2. CASE Server
  BY <1>2, ServeGetHeard, ServeSpeaks, SpeaksHeard DEF Server
<1>3. CASE \E c \in Contacts : Application(c) \/ Environment(c)
  BY <1>3, CallHeard, EnvironmentSpeaks, SpeaksHeard
<1>4. CASE UNCHANGED vars
  BY <1>4 DEF vars, server, stack, mirror, past, Heard, Early, Told, OnlineIs, KnownWhenOn, ShownIs,
              OnlineShown, Sure, Visible
<1> QED
  BY <1>1, <1>2, <1>3, <1>4, ConnectedHeard, GetRosterHeard, LostHeard DEF Next

LEMMA AlwaysHeard == Spec => [](TypeOK /\ Follows /\ Heard)
  BY InitTypes, StepKeepsTypes, InitFollows, StepKeepsFollows, InitHeard, StepKeepsHeard, PTL DEF Spec

\* Once nothing is under way the stack knows who is on line, unless getRoster() was
\* called in the session or the server refused the roster: a friend who is on line is
\* shown so, and one who is shown so and is not has left when nobody heard it.
THEOREM PresenceIsKnown == Spec => []PresenceKnown
<1>1. TypeOK /\ Follows /\ Heard => PresenceKnown
  <2> SUFFICES ASSUME TypeOK, Follows, Heard, up, toServer = <<>>, toClient = <<>>, active, ~refilled,
                      ~noRoster, NEW c \in Contacts
               PROVE  /\ c \in online <=> Visible(c) /\ roster[c] # None
                      /\ friends[c] # None /\ Visible(c) => c \in shown
                      /\ c \in shown => Visible(c) \/ c \in missed
    BY DEF PresenceKnown, Settled
  <2>1. Sure /\ Unmarked(toClient, c, 0)
    BY Empties DEF Sure, Unmarked
  <2>2. c \in online <=> Visible(c)
    BY <2>1 DEF Heard, OnlineIs
  <2>3. c \in online => roster[c] # None
    BY DEF TypeOK
  <2>4. c \in online /\ friends[c] # None => c \in shown
    BY DEF Heard, OnlineShown
  <2>5. c \in shown => Visible(c) \/ c \in missed
    BY <2>1 DEF Heard, ShownIs
  <2> QED
    BY <2>2, <2>3, <2>4, <2>5
<1> QED
  BY <1>1, AlwaysHeard, PTL

=============================================================================
