------------------------------ MODULE MucRooms_proofs ------------------------------
(***************************************************************************)
(* The chat rooms: types, that the listener hears each answer once, and    *)
(* that what the room objects believe of their stay agrees with the        *)
(* service, for any rooms and any number of objects, calls and ends of a   *)
(* stay.                                                                   *)
(***************************************************************************)
EXTENDS MucRooms, SequenceTheorems, FiniteSetTheorems, WellFoundedInduction, TLAPS

\* A request to enter r or for a nickname in it, or the answer to one.
About(m, r) == m.t \in {"join", "nick", "new", "self", "refused"} /\ m.room = r

Has(q, r)      == \E i \in DOMAIN q : About(q[i], r)
Once(q, r)     == \A i, j \in DOMAIN q : About(q[i], r) /\ About(q[j], r) => i = j
Holds(q, t, r) == \E i \in DOMAIN q : q[i].t = t /\ q[i].room = r

\* Whether the service, with this client in the rooms of occ, will have it in r when
\* it has read q and refused nothing.
Stays(q, r, occ) ==
  \/ \E i \in DOMAIN q : /\ q[i].t = "join" /\ q[i].room = r
                         /\ \A j \in DOMAIN q : q[j].t = "leave" /\ q[j].room = r => j < i
  \/ r \in occ /\ ~Holds(q, "leave", r)

Bound(r) == Stays(toServer, r, occupant)

\* The object that may count itself as in r.
Of(r) == IF pc # 0 /\ roomOf[pc] = r THEN pc ELSE map[r]

\* A room with no crossing: at most one answer is to come, one object is concerned,
\* it knows by m_newNick what a refusal refuses, and it is joined exactly when this
\* client is or will be in the room, but for a refusal that is still to come.
Single(r) == /\ Once(toServer, r) /\ Once(toClient, r)
             /\ ~(Has(toServer, r) /\ Has(toClient, r))
             /\ Listeners(r) \subseteq {Of(r)}
Refusable(r) ==
  /\ Holds(toServer, "join", r) => Listeners(r) \intersect newNick = {}
  /\ Holds(toServer, "nick", r) => Listeners(r) \subseteq newNick
  /\ Holds(toClient, "refused", r) =>
       \/ Listeners(r) \subseteq newNick
       \/ ~Bound(r) /\ Listeners(r) \intersect newNick = {}
Agrees(r) ==
  /\ Bound(r) => Listeners(r) # {}
  /\ r \notin stale /\ Listeners(r) # {} =>
       Bound(r) \/ (Holds(toClient, "refused", r) /\ Listeners(r) \intersect newNick = {})

Down == ~up => toServer = <<>> /\ toClient = <<>> /\ occupant = {} /\ stale = Rooms

\* m_mUCRoomMap files objects under their room.
Filed == \A r \in Rooms : map[r] # 0 => roomOf[map[r]] = r

RoomInv(r) == Single(r) /\ Refusable(r) /\ Agrees(r)
IInv == TypeOK /\ Down /\ Filed /\ \A r \in Rooms \ crossed : RoomInv(r)

-----------------------------------------------------------------------------
(* Sequences of stanzas.                                                   *)

LEMMA HeadAndTail ==
  ASSUME NEW S, NEW q \in Seq(S), q # <<>>
  PROVE  /\ Head(q) \in S /\ Tail(q) \in Seq(S) /\ Len(q) \in Nat /\ Len(q) > 0
         /\ DOMAIN q = 1..Len(q) /\ DOMAIN Tail(q) = 1..(Len(q) - 1) /\ Head(q) = q[1]
         /\ \A i \in 1..(Len(q) - 1) : Tail(q)[i] = q[i + 1]
<1>1. DOMAIN q = 1..Len(q) /\ Len(q) \in Nat
  BY LenProperties
<1>2. /\ Head(q) \in S /\ Tail(q) \in Seq(S) /\ Head(q) = q[1]
      /\ Len(Tail(q)) = Len(q) - 1 /\ \A i \in 1..Len(Tail(q)) : Tail(q)[i] = q[i + 1]
  BY HeadTailProperties
<1>3. Len(q) > 0
  BY EmptySeq
<1>4. DOMAIN Tail(q) = 1..(Len(q) - 1)
  BY <1>2, LenProperties
<1> QED
  BY <1>1, <1>2, <1>3, <1>4

LEMMA Appended ==
  ASSUME NEW S, NEW q \in Seq(S), NEW m \in S
  PROVE  /\ Append(q, m) \in Seq(S) /\ Len(q) \in Nat
         /\ DOMAIN q = 1..Len(q) /\ DOMAIN Append(q, m) = 1..(Len(q) + 1)
         /\ \A i \in 1..Len(q) : Append(q, m)[i] = q[i]
         /\ Append(q, m)[Len(q) + 1] = m
<1>1. DOMAIN q = 1..Len(q) /\ Len(q) \in Nat
  BY LenProperties
<1>2. /\ Append(q, m) \in Seq(S) /\ Len(Append(q, m)) = Len(q) + 1
      /\ \A i \in 1..Len(q) : Append(q, m)[i] = q[i]
      /\ Append(q, m)[Len(q) + 1] = m
  BY AppendProperties
<1>3. DOMAIN Append(q, m) = 1..(Len(q) + 1)
  BY <1>2, LenProperties
<1> QED
  BY <1>1, <1>2, <1>3

\* Replies are appended one at a time.
LEMMA Replied ==
  ASSUME NEW S, NEW q \in Seq(S), NEW m \in S, NEW n \in S
  PROVE  /\ q \o <<>> = q /\ q \o <<m>> = Append(q, m)
         /\ q \o (<<m>> \o <<n>>) = Append(Append(q, m), n)
<1>1. <<m>> \in Seq(S) /\ <<n>> \in Seq(S)
  OBVIOUS
<1>2. q \o <<>> = q
  BY ConcatEmptySeq
<1>3. \A s \in Seq(S), e \in S : s \o <<e>> = Append(s, e)
  BY AppendIsConcat
<1>4. q \o (<<m>> \o <<n>>) = (q \o <<m>>) \o <<n>>
  BY <1>1, ConcatAssociative
<1>5. Append(q, m) \in Seq(S)
  BY Appended
<1> QED
  BY <1>2, <1>3, <1>4, <1>5

\* One more stanza under way.
LEMMA AppendFacts ==
  ASSUME NEW S, NEW q \in Seq(S), NEW m \in S, NEW r
  PROVE  /\ Has(Append(q, m), r) <=> Has(q, r) \/ About(m, r)
         /\ Once(q, r) /\ ~(Has(q, r) /\ About(m, r)) => Once(Append(q, m), r)
         /\ \A t : Holds(Append(q, m), t, r) <=> Holds(q, t, r) \/ (m.t = t /\ m.room = r)
<1>1. /\ Len(q) \in Nat /\ DOMAIN q = 1..Len(q) /\ DOMAIN Append(q, m) = 1..(Len(q) + 1)
      /\ \A i \in 1..Len(q) : Append(q, m)[i] = q[i]
      /\ Append(q, m)[Len(q) + 1] = m
  BY Appended
<1>2. \A i \in DOMAIN q : i \in DOMAIN Append(q, m) /\ Append(q, m)[i] = q[i]
  BY <1>1
<1>3. \A i \in DOMAIN Append(q, m) : \/ i \in DOMAIN q /\ Append(q, m)[i] = q[i]
                                     \/ i = Len(q) + 1 /\ Append(q, m)[i] = m
  BY <1>1
<1>4. Len(q) + 1 \in DOMAIN Append(q, m)
  BY <1>1
<1>5. Has(Append(q, m), r) <=> Has(q, r) \/ About(m, r)
  BY <1>1, <1>2, <1>3, <1>4 DEF Has
<1>6. Once(q, r) /\ ~(Has(q, r) /\ About(m, r)) => Once(Append(q, m), r)
  BY <1>3 DEF Once, Has
<1>7. \A t : Holds(Append(q, m), t, r) <=> Holds(q, t, r) \/ (m.t = t /\ m.room = r)
  BY <1>1, <1>2, <1>3, <1>4 DEF Holds
<1> QED
  BY <1>5, <1>6, <1>7

\* The first stanza is taken.
LEMMA TailFacts ==
  ASSUME NEW S, NEW q \in Seq(S), q # <<>>, NEW r
  PROVE  /\ Has(q, r) <=> Has(Tail(q), r) \/ About(Head(q), r)
         /\ Once(q, r) => Once(Tail(q), r) /\ ~(Has(Tail(q), r) /\ About(Head(q), r))
         /\ \A t : Holds(q, t, r) <=> Holds(Tail(q), t, r) \/ (Head(q).t = t /\ Head(q).room = r)
<1>1. /\ Len(q) \in Nat /\ Len(q) > 0 /\ DOMAIN q = 1..Len(q)
      /\ DOMAIN Tail(q) = 1..(Len(q) - 1) /\ Head(q) = q[1]
      /\ \A i \in 1..(Len(q) - 1) : Tail(q)[i] = q[i + 1]
  BY HeadAndTail
<1>2. \A i \in DOMAIN Tail(q) : /\ i + 1 \in DOMAIN q /\ Tail(q)[i] = q[i + 1]
                                /\ i + 1 # 1 /\ i \in Nat
  BY <1>1
<1>3. \A j \in DOMAIN q : j = 1 \/ (j - 1 \in DOMAIN Tail(q) /\ Tail(q)[j - 1] = q[j])
  BY <1>1
<1>4. 1 \in DOMAIN q
  BY <1>1
<1>5. Has(q, r) <=> Has(Tail(q), r) \/ About(Head(q), r)
  BY <1>1, <1>2, <1>3, <1>4 DEF Has
<1>6. ASSUME Once(q, r) PROVE Once(Tail(q), r) /\ ~(Has(Tail(q), r) /\ About(Head(q), r))
  <2>1. \A i, j \in DOMAIN Tail(q) : i + 1 = j + 1 => i = j
    BY <1>1
  <2>2. Once(Tail(q), r)
    BY <1>2, <1>6, <2>1 DEF Once
  <2>3. ~(Has(Tail(q), r) /\ About(Head(q), r))
    BY <1>1, <1>2, <1>4, <1>6 DEF Once, Has
  <2> QED
    BY <2>2, <2>3
<1>7. ASSUME NEW t
      PROVE  Holds(q, t, r) <=> Holds(Tail(q), t, r) \/ (Head(q).t = t /\ Head(q).room = r)
  <2>1. Holds(Tail(q), t, r) => Holds(q, t, r)
    BY <1>2 DEF Holds
  <2>2. Head(q).t = t /\ Head(q).room = r => Holds(q, t, r)
    BY <1>1, <1>4 DEF Holds
  <2>3. Holds(q, t, r) => Holds(Tail(q), t, r) \/ (Head(q).t = t /\ Head(q).room = r)
    BY <1>1, <1>3 DEF Holds
  <2> QED
    BY <2>1, <2>2, <2>3
<1> QED
  BY <1>5, <1>6, <1>7

\* What a request that is sent changes of the stay, ...
LEMMA AppendStays ==
  ASSUME NEW S, NEW q \in Seq(S), NEW m \in S, NEW r, NEW occ
  PROVE  /\ m.t = "join" /\ m.room = r => Stays(Append(q, m), r, occ)
         /\ m.t = "leave" /\ m.room = r => ~Stays(Append(q, m), r, occ)
         /\ ~(m.t \in {"join", "leave"} /\ m.room = r) => (Stays(Append(q, m), r, occ) <=> Stays(q, r, occ))
<1>1. /\ Len(q) \in Nat /\ DOMAIN q = 1..Len(q) /\ DOMAIN Append(q, m) = 1..(Len(q) + 1)
      /\ \A i \in 1..Len(q) : Append(q, m)[i] = q[i]
      /\ Append(q, m)[Len(q) + 1] = m
  BY Appended
<1>2. \A i \in DOMAIN q : /\ i \in DOMAIN Append(q, m) /\ Append(q, m)[i] = q[i]
                          /\ i < Len(q) + 1 /\ ~(Len(q) + 1 < i)
  BY <1>1
<1>3. \A i \in DOMAIN Append(q, m) : \/ i \in DOMAIN q /\ Append(q, m)[i] = q[i]
                                     \/ i = Len(q) + 1 /\ Append(q, m)[i] = m
  BY <1>1
<1>4. Len(q) + 1 \in DOMAIN Append(q, m) /\ ~(Len(q) + 1 < Len(q) + 1)
  BY <1>1
<1>5. Holds(Append(q, m), "leave", r) <=> Holds(q, "leave", r) \/ (m.t = "leave" /\ m.room = r)
  BY AppendFacts
<1>6. ASSUME m.t = "join", m.room = r PROVE Stays(Append(q, m), r, occ)
  BY <1>1, <1>2, <1>3, <1>4, <1>6 DEF Stays
<1>7. ASSUME m.t = "leave", m.room = r PROVE ~Stays(Append(q, m), r, occ)
  BY <1>1, <1>2, <1>3, <1>4, <1>5, <1>7 DEF Stays
<1>8. ASSUME ~(m.t \in {"join", "leave"} /\ m.room = r)
      PROVE  Stays(Append(q, m), r, occ) <=> Stays(q, r, occ)
  <2>1. ASSUME NEW i \in DOMAIN q
        PROVE  (\A j \in DOMAIN q : q[j].t = "leave" /\ q[j].room = r => j < i)
               <=> (\A j \in DOMAIN Append(q, m) :
                      Append(q, m)[j].t = "leave" /\ Append(q, m)[j].room = r => j < i)
    BY <1>1, <1>2, <1>3, <1>8
  <2> QED
    BY <1>1, <1>2, <1>3, <1>5, <1>8, <2>1 DEF Stays
<1> QED
  BY <1>6, <1>7, <1>8

\* ... and one that is read: it is as if it had been obeyed.
LEMMA TailStays ==
  ASSUME NEW S, NEW q \in Seq(S), q # <<>>, NEW r, NEW occ
  PROVE  /\ Head(q).t = "join" /\ Head(q).room = r => (Stays(q, r, occ) <=> Stays(Tail(q), r, occ \union {r}))
         /\ Head(q).t = "leave" /\ Head(q).room = r => (Stays(q, r, occ) <=> Stays(Tail(q), r, occ \ {r}))
         /\ ~(Head(q).t \in {"join", "leave"} /\ Head(q).room = r) =>
              (Stays(q, r, occ) <=> Stays(Tail(q), r, occ))
<1>1. /\ Len(q) \in Nat /\ Len(q) > 0 /\ DOMAIN q = 1..Len(q)
      /\ DOMAIN Tail(q) = 1..(Len(q) - 1) /\ Head(q) = q[1]
      /\ \A i \in 1..(Len(q) - 1) : Tail(q)[i] = q[i + 1]
  BY HeadAndTail
<1> DEFINE Latest(s, i) == /\ s[i].t = "join" /\ s[i].room = r
                         /\ \A j \in DOMAIN s : s[j].t = "leave" /\ s[j].room = r => j < i
<1>2. \A i \in DOMAIN Tail(q) : i + 1 \in DOMAIN q /\ Tail(q)[i] = q[i + 1] /\ 1 < i + 1 /\ i \in Nat
  BY <1>1
<1>3. \A j \in DOMAIN q : \/ j = 1
                          \/ j - 1 \in DOMAIN Tail(q) /\ Tail(q)[j - 1] = q[j] /\ (j - 1) + 1 = j
  BY <1>1
<1>4. \A i, j \in DOMAIN Tail(q) : i < j <=> i + 1 < j + 1
  BY <1>1
<1>5. ASSUME NEW i \in DOMAIN Tail(q) PROVE Latest(Tail(q), i) <=> Latest(q, i + 1)
  <2>1. ASSUME Latest(Tail(q), i), NEW j \in DOMAIN q, q[j].t = "leave", q[j].room = r
        PROVE  j < i + 1
    <3>1. CASE j = 1
      BY <1>2, <3>1
    <3>2. CASE j # 1
      <4>1. j - 1 \in DOMAIN Tail(q) /\ Tail(q)[j - 1] = q[j] /\ (j - 1) + 1 = j
        BY <1>3, <3>2
      <4> QED
        BY <1>4, <2>1, <4>1
    <3> QED
      BY <3>1, <3>2
  <2>2. ASSUME Latest(q, i + 1), NEW j \in DOMAIN Tail(q), Tail(q)[j].t = "leave", Tail(q)[j].room = r
        PROVE  j < i
    BY <1>2, <1>4, <2>2
  <2> QED
    BY <1>2, <2>1, <2>2
<1>6. Latest(q, 1) <=> Head(q).t = "join" /\ Head(q).room = r /\ ~Holds(Tail(q), "leave", r)
  <2>1. ASSUME Latest(q, 1) PROVE ~Holds(Tail(q), "leave", r)
    <3> SUFFICES ASSUME NEW j \in DOMAIN Tail(q), Tail(q)[j].t = "leave", Tail(q)[j].room = r
                 PROVE  FALSE
      BY DEF Holds
    <3>1. j + 1 \in DOMAIN q /\ q[j + 1].t = "leave" /\ q[j + 1].room = r /\ 1 < j + 1 /\ j \in Nat
      BY <1>2
    <3>2. j + 1 < 1
      BY <2>1, <3>1
    <3> QED
      BY <3>1, <3>2
  <2>2. ASSUME Head(q).t = "join", Head(q).room = r, ~Holds(Tail(q), "leave", r),
               NEW j \in DOMAIN q, q[j].t = "leave", q[j].room = r
        PROVE  FALSE
    BY <1>1, <1>3, <2>2 DEF Holds
  <2> QED
    BY <1>1, <2>1, <2>2
<1>7. Holds(q, "leave", r) <=> Holds(Tail(q), "leave", r) \/ (Head(q).t = "leave" /\ Head(q).room = r)
  BY TailFacts
<1>8. (\E i \in DOMAIN q : Latest(q, i)) <=> Latest(q, 1) \/ \E i \in DOMAIN Tail(q) : Latest(Tail(q), i)
  <2>1. 1 \in DOMAIN q
    BY <1>1
  <2>2. ASSUME NEW i \in DOMAIN q, Latest(q, i), i # 1
        PROVE  \E k \in DOMAIN Tail(q) : Latest(Tail(q), k)
    <3>1. i - 1 \in DOMAIN Tail(q) /\ (i - 1) + 1 = i
      BY <1>3, <2>2
    <3>2. Latest(Tail(q), i - 1) <=> Latest(q, (i - 1) + 1)
      BY <1>5, <3>1
    <3> QED
      BY <2>2, <3>1, <3>2
  <2>3. ASSUME NEW i \in DOMAIN Tail(q), Latest(Tail(q), i)
        PROVE  \E k \in DOMAIN q : Latest(q, k)
    BY <1>2, <1>5, <2>3
  <2> QED
    BY <2>1, <2>2, <2>3
<1>9. \A o : /\ Stays(q, r, o) <=> (\E i \in DOMAIN q : Latest(q, i)) \/ (r \in o /\ ~Holds(q, "leave", r))
             /\ Stays(Tail(q), r, o) <=>
                  (\E i \in DOMAIN Tail(q) : Latest(Tail(q), i)) \/ (r \in o /\ ~Holds(Tail(q), "leave", r))
  BY DEF Stays
<1> HIDE DEF Latest
<1> QED
  BY <1>6, <1>7, <1>8, <1>9

\* Who is not in the room and asks no more for it will not be in it.
LEMMA NoStay ==
  ASSUME NEW q, NEW r, NEW occ, ~Holds(q, "join", r), r \notin occ
  PROVE  ~Stays(q, r, occ)
BY DEF Stays, Holds

\* Who is in fewer rooms stays in fewer.
LEMMA StaysLess ==
  ASSUME NEW q, NEW r, NEW occ, NEW less, r \in less => r \in occ, Stays(q, r, less)
  PROVE  Stays(q, r, occ)
BY DEF Stays

\* What is in a queue about r is a request of r, or an answer.
LEMMA HoldsHas ==
  ASSUME NEW q, NEW r, NEW t \in {"join", "nick", "new", "self", "refused"}, Holds(q, t, r)
  PROVE  Has(q, r)
BY DEF Holds, Has, About

LEMMA NothingUnderWay ==
  ASSUME NEW r
  PROVE  /\ ~Has(<<>>, r) /\ Once(<<>>, r) /\ \A t : ~Holds(<<>>, t, r)
BY DEF Has, Once, Holds

-----------------------------------------------------------------------------
(* Types.                                                                  *)

\* The smallest of some objects is one of them.
LEMMA MinOfObjs ==
  ASSUME NEW H, H \subseteq Nat, H # {}
  PROVE  Min(H) \in H
<1>1. PICK x \in H : \A y \in H : ~ (<<y, x>> \in OpToRel(<, Nat))
  BY NatLessThanWellFounded, WFMin
<1>2. \A y \in H : x <= y
  <2> SUFFICES ASSUME NEW y \in H, ~(x <= y) PROVE FALSE
    OBVIOUS
  <2>1. x \in Nat /\ y \in Nat /\ y < x
    OBVIOUS
  <2> QED
    BY <1>1, <2>1 DEF OpToRel
<1> QED
  BY <1>2 DEF Min

LEMMA RequestParts ==
  ASSUME NEW m \in Requests
  PROVE  m.room \in Rooms /\ (m.t \in Ops => m.obj \in Objs)
BY DEF Requests, Ops

LEMMA StanzaParts ==
  ASSUME NEW m \in Stanzas
  PROVE  /\ m.t \in Presences => m.room \in Rooms
         /\ m.t = "iq" => m.op \in Ops /\ m.obj \in Objs /\ m.ok \in BOOLEAN
BY DEF Stanzas, Presences

LEMMA RoomRequests ==
  ASSUME NEW r \in Rooms
  PROVE  /\ [t |-> "join", room |-> r] \in Requests
         /\ [t |-> "leave", room |-> r] \in Requests
         /\ [t |-> "nick", room |-> r] \in Requests
BY DEF Requests

LEMMA ObjRequests ==
  ASSUME NEW r \in Rooms, NEW o \in Objs, NEW op \in Ops
  PROVE  [t |-> op, room |-> r, obj |-> o] \in Requests
BY DEF Requests

LEMMA PresenceStanzas ==
  ASSUME NEW r \in Rooms, NEW t \in Presences
  PROVE  [t |-> t, room |-> r] \in Stanzas
BY DEF Stanzas

LEMMA IqStanzas ==
  ASSUME NEW op \in Ops, NEW o \in Objs, NEW ok \in BOOLEAN
  PROVE  [t |-> "iq", op |-> op, obj |-> o, ok |-> ok] \in Stanzas
BY DEF Stanzas

LEMMA RoomsOfObjs ==
  ASSUME TypeOK
  PROVE  /\ DOMAIN roomOf = 1..Len(roomOf) /\ Len(roomOf) \in Nat /\ DOMAIN roomOf \subseteq Objs
         /\ \A o \in DOMAIN roomOf : roomOf[o] \in Rooms /\ o # 0 /\ o \in Nat
         /\ \A r : Listeners(r) \subseteq DOMAIN roomOf
<1>1. DOMAIN roomOf = 1..Len(roomOf) /\ Len(roomOf) \in Nat
  BY LenProperties DEF TypeOK
<1>2. \A o \in DOMAIN roomOf : roomOf[o] \in Rooms
  BY <1>1, ElementOfSeq DEF TypeOK
<1> QED
  BY <1>1, <1>2, RoomsAssumption DEF TypeOK, Objs, Listeners

\* A room object is made.
LEMMA NewObject ==
  ASSUME TypeOK, NEW r \in Rooms, roomOf' = Append(roomOf, r), Len(roomOf) < MaxObjs
  PROVE  /\ roomOf' \in Seq(Rooms) /\ Len(roomOf') = Len(roomOf) + 1 /\ Len(roomOf') <= MaxObjs
         /\ DOMAIN roomOf' = DOMAIN roomOf \union {Len(roomOf) + 1}
         /\ Len(roomOf) + 1 \notin DOMAIN roomOf /\ Len(roomOf) + 1 # 0
         /\ \A o \in DOMAIN roomOf : roomOf'[o] = roomOf[o]
         /\ roomOf'[Len(roomOf) + 1] = r
<1>1. DOMAIN roomOf = 1..Len(roomOf) /\ Len(roomOf) \in Nat
  BY RoomsOfObjs
<1>2. /\ roomOf' \in Seq(Rooms) /\ DOMAIN roomOf' = 1..(Len(roomOf) + 1)
      /\ \A o \in 1..Len(roomOf) : roomOf'[o] = roomOf[o]
      /\ roomOf'[Len(roomOf) + 1] = r
  BY Appended DEF TypeOK
<1>3. Len(roomOf') = Len(roomOf) + 1
  BY AppendProperties DEF TypeOK
<1> QED
  BY <1>1, <1>2, <1>3, RoomsAssumption

LEMMA SendTyped ==
  ASSUME TypeOK, NEW m \in Requests, Send(m)
  PROVE  /\ toServer' \in Seq(Requests) /\ up' = up /\ toClient' = toClient
         /\ up => toServer' = Append(toServer, m)
         /\ ~up => toServer' = toServer
BY Appended DEF TypeOK, Send

LEMMA ArrivesTyped ==
  ASSUME TypeOK, NEW m \in Stanzas, Arrives(m)
  PROVE  toClient' \in Seq(Stanzas)
BY HeadAndTail DEF TypeOK, Arrives

LEMMA ReadsTyped ==
  ASSUME TypeOK, NEW m \in Requests, Reads(m)
  PROVE  toServer' \in Seq(Requests) /\ up' = up /\ ends' = ends
BY HeadAndTail DEF TypeOK, Reads

LEMMA ToldCount ==
  ASSUME NEW op \in Ops, NEW ok \in BOOLEAN
  PROVE  /\ Told(op, ok) \in Nat
         /\ Told(op, ok) = IF HasCallback(op, ok) THEN 1 ELSE 0
<1> DEFINE T == {c \in {"kl", "base"} : IF c = "kl" THEN KlTells(op, ok) ELSE BaseTells(op, ok)}
<1>1. CASE ~HasCallback(op, ok)
  BY <1>1 DEF Told
<1>2. CASE HasCallback(op, ok)
  <2>1. T = {"kl"} \/ T = {"base"}
    BY <1>2 DEF KlTells, BaseTells, HasCallback, Ops
  <2>2. Cardinality(T) = 1
    BY <2>1, FS_Singleton
  <2> QED
    BY <1>2, <2>2 DEF Told
<1> QED
  BY <1>1, <1>2

LEMMA InitTyped == Init => TypeOK
<1> SUFFICES ASSUME Init PROVE TypeOK
  OBVIOUS
<1>1. /\ <<>> \in Seq(Rooms) /\ <<>> \in Seq(Requests) /\ <<>> \in Seq(Stanzas)
      /\ Len(<<>>) = 0 /\ DOMAIN <<>> = {}
  OBVIOUS
<1> QED
  BY <1>1, RoomsAssumption DEF Init, TypeOK

LEMMA ApplicationTyped ==
  ASSUME TypeOK, NEW r \in Rooms,
         CreateRoom(r) \/ EnterKnown(r) \/ EnterNew(r) \/ ExitRoom(r) \/ Request(r) \/ ChangeNick(r)
  PROVE  TypeOK'
<1> USE DEF maps, service, history, net, objects, app
<1>1. [t |-> "join", room |-> r] \in Requests /\ [t |-> "leave", room |-> r] \in Requests
      /\ [t |-> "nick", room |-> r] \in Requests
  BY RoomRequests
<1>2. ASSUME Call PROVE calls' \in 0..MaxCalls
  BY <1>2, RoomsAssumption DEF Call, TypeOK
<1>3. ASSUME Crosses(r, TRUE) \/ Crosses(r, FALSE) PROVE crossed' \subseteq Rooms
  BY <1>3 DEF Crosses, TypeOK
<1>4. CASE CreateRoom(r)
  <2>1. Len(roomOf) < MaxObjs /\ roomOf' = Append(roomOf, r) /\ calls' \in 0..MaxCalls
    BY <1>2, <1>4 DEF CreateRoom
  <2>2. /\ roomOf' \in Seq(Rooms) /\ Len(roomOf') <= MaxObjs
        /\ DOMAIN roomOf' = DOMAIN roomOf \union {Len(roomOf) + 1}
    BY <2>1, NewObject
  <2>3. toServer' \in Seq(Requests) /\ up' = up /\ toClient' = toClient
    BY <1>1, <1>4, SendTyped DEF CreateRoom
  <2>4. crossed' \subseteq Rooms /\ want' \subseteq Rooms
    BY <1>4 DEF CreateRoom, Enters, Crosses, TypeOK
  <2>5. own' \union joined' \union newNick' \subseteq DOMAIN roomOf' /\ pc' \in DOMAIN roomOf' \union {0}
        /\ map' \in [Rooms -> DOMAIN roomOf' \union {0}]
    BY <1>4, <2>2 DEF CreateRoom, TypeOK
  <2> QED
    BY <1>4, <2>1, <2>2, <2>3, <2>4, <2>5 DEF CreateRoom, TypeOK
<1>5. CASE EnterKnown(r)
  <2>1. toServer' \in Seq(Requests) /\ up' = up /\ toClient' = toClient
    BY <1>1, <1>5, SendTyped DEF EnterKnown, TypeOK
  <2>2. crossed' \subseteq Rooms /\ want' \subseteq Rooms
    BY <1>5 DEF EnterKnown, Enters, Crosses, TypeOK
  <2>3. own' \union joined' \union newNick' \subseteq DOMAIN roomOf'
    BY <1>5 DEF EnterKnown, TypeOK
  <2> QED
    BY <1>2, <1>5, <2>1, <2>2, <2>3 DEF EnterKnown, TypeOK, Call
<1>6. CASE EnterNew(r)
  <2>1. Len(roomOf) < MaxObjs /\ roomOf' = Append(roomOf, r) /\ calls' \in 0..MaxCalls
    BY <1>2, <1>6 DEF EnterNew
  <2>2. /\ roomOf' \in Seq(Rooms) /\ Len(roomOf') <= MaxObjs
        /\ DOMAIN roomOf' = DOMAIN roomOf \union {Len(roomOf) + 1}
    BY <2>1, NewObject
  <2>3. toServer' \in Seq(Requests) /\ up' = up /\ toClient' = toClient
    BY <1>1, <1>6, SendTyped DEF EnterNew
  <2>4. crossed' \subseteq Rooms /\ want' \subseteq Rooms
    BY <1>6 DEF EnterNew, Enters, Crosses, TypeOK
  <2>5. own' \union joined' \union newNick' \subseteq DOMAIN roomOf' /\ pc' \in DOMAIN roomOf' \union {0}
        /\ map' \in [Rooms -> DOMAIN roomOf' \union {0}]
    BY <1>6, <2>2 DEF EnterNew, TypeOK
  <2> QED
    BY <1>6, <2>1, <2>2, <2>3, <2>4, <2>5 DEF EnterNew, TypeOK
<1>7. CASE ExitRoom(r)
  <2>1. toServer' \in Seq(Requests) /\ up' = up /\ toClient' = toClient
    BY <1>1, <1>7, SendTyped DEF ExitRoom
  <2> QED
    BY <1>2, <1>7, <2>1 DEF ExitRoom, TypeOK, Call
<1>8. CASE Request(r)
  <2>1. map[r] \in Objs
    BY <1>8, RoomsOfObjs DEF Request, TypeOK
  <2>2. PICK op \in NeedsJoined \union {"destroy"} : Send([t |-> op, room |-> r, obj |-> map[r]])
    BY <1>8 DEF Request
  <2>3. [t |-> op, room |-> r, obj |-> map[r]] \in Requests
    <3>1. op \in Ops
      BY DEF Ops, NeedsJoined
    <3> QED
      BY <2>1, <3>1, ObjRequests
  <2>4. toServer' \in Seq(Requests) /\ up' = up /\ toClient' = toClient
    BY <2>2, <2>3, SendTyped
  <2> QED
    BY <1>2, <1>8, <2>4 DEF Request, TypeOK, Call
<1>9. CASE ChangeNick(r)
  <2>1. toServer' \in Seq(Requests) /\ up' = up /\ toClient' = toClient
    BY <1>1, <1>9, SendTyped DEF ChangeNick
  <2>2. crossed' \subseteq Rooms
    BY <1>3, <1>9 DEF ChangeNick
  <2> QED
    BY <1>2, <1>9, <2>1, <2>2 DEF ChangeNick, TypeOK, Call
<1> QED
  BY <1>4, <1>5, <1>6, <1>7, <1>8, <1>9

LEMMA ReceiverTyped ==
  ASSUME TypeOK, NEW m \in Stanzas,
         HandleRefused(m) \/ HandleNew(m) \/ HandlePresence(m) \/ HandleIq(m)
  PROVE  TypeOK'
<1> USE DEF maps, service, history, net, objects, app
<1>1. toClient' \in Seq(Stanzas)
  BY ArrivesTyped DEF HandleRefused, HandleNew, HandlePresence, HandleIq
<1>2. CASE HandleRefused(m)
  BY <1>1, <1>2 DEF HandleRefused, TypeOK
<1>3. CASE HandleNew(m)
  <2>1. m.room \in Rooms
    BY <1>3, StanzaParts DEF HandleNew, Presences
  <2>2. ASSUME Listeners(m.room) # {}
        PROVE  [t |-> "config", room |-> m.room, obj |-> Min(Listeners(m.room))] \in Requests
    <3>1. Listeners(m.room) \subseteq Objs /\ Listeners(m.room) \subseteq Nat
      BY RoomsOfObjs
    <3>2. Min(Listeners(m.room)) \in Objs
      BY <2>2, <3>1, MinOfObjs
    <3> QED
      BY <2>1, <3>2, ObjRequests DEF Ops
  <2>3. toServer' \in Seq(Requests)
    <3> DEFINE c == [t |-> "config", room |-> m.room, obj |-> Min(Listeners(m.room))]
    <3>1. toServer' = toServer \/ (Listeners(m.room) # {} /\ toServer' = Append(toServer, c))
      BY <1>3 DEF HandleNew
    <3>2. toServer \in Seq(Requests)
      BY DEF TypeOK
    <3> QED
      BY <2>2, <3>1, <3>2, Appended
  <2>4. form' \subseteq Rooms /\ excused' \subseteq Rooms /\ raced' \subseteq Rooms
    BY <1>3, <2>1 DEF HandleNew, TypeOK
  <2> QED
    BY <1>1, <1>3, <2>3, <2>4 DEF HandleNew, TypeOK
<1>4. CASE HandlePresence(m)
  BY <1>1, <1>4 DEF HandlePresence, TypeOK
<1>5. CASE HandleIq(m)
  <2>1. m.op \in Ops /\ m.ok \in BOOLEAN
    BY <1>5, StanzaParts DEF HandleIq
  <2>2. Told(m.op, m.ok) \in Nat
    BY <2>1, ToldCount
  <2>3. answered' \in [Ops -> Nat] /\ told' \in [Ops -> Nat]
    <3>1. answered \in [Ops -> Nat] /\ told \in [Ops -> Nat]
      BY DEF TypeOK
    <3> DEFINE k == IF HasCallback(m.op, m.ok) THEN 1 ELSE 0
    <3>2. answered[m.op] + k \in Nat /\ told[m.op] + Told(m.op, m.ok) \in Nat
      <4>1. k \in Nat
        OBVIOUS
      <4> HIDE DEF k
      <4> QED
        BY <2>1, <2>2, <3>1, <4>1
    <3>3. \/ /\ answered' = [answered EXCEPT ![m.op] = answered[m.op] + k]
             /\ told' = [told EXCEPT ![m.op] = told[m.op] + Told(m.op, m.ok)]
          \/ answered' = answered /\ told' = told
      BY <1>5 DEF HandleIq
    <3> HIDE DEF k
    <3> QED
      BY <3>1, <3>2, <3>3
  <2> QED
    BY <1>1, <1>5, <2>3 DEF HandleIq, TypeOK
<1> QED
  BY <1>2, <1>3, <1>4, <1>5

LEMMA ReplyTyped ==
  ASSUME TypeOK, NEW s \in Seq(Stanzas), Reply(s)
  PROVE  toClient' \in Seq(Stanzas)
BY ConcatProperties DEF TypeOK, Reply

LEMMA RacedTyped == TypeOK /\ Settles => raced' \subseteq Rooms
BY DEF TypeOK, Settles

LEMMA ServerTyped ==
  ASSUME TypeOK, NEW m \in Requests,
         ServeJoin(m) \/ ServeLeave(m) \/ ServeNick(m) \/ ServeIq(m)
  PROVE  TypeOK'
<1> USE DEF maps, service, history, net, objects, app
<1>1. toServer' \in Seq(Requests) /\ up' = up /\ ends' = ends /\ m.room \in Rooms
  BY ReadsTyped, RequestParts DEF ServeJoin, ServeLeave, ServeNick, ServeIq
<1>2. \A t \in Presences : <<[t |-> t, room |-> m.room]>> \in Seq(Stanzas)
  <2> SUFFICES ASSUME NEW t \in Presences PROVE <<[t |-> t, room |-> m.room]>> \in Seq(Stanzas)
    OBVIOUS
  <2>1. [t |-> t, room |-> m.room] \in Stanzas
    BY <1>1, PresenceStanzas
  <2> QED
    BY <2>1
<1>3. <<>> \in Seq(Stanzas)
  OBVIOUS
<1>4. CASE ServeJoin(m)
  <2>1. toClient' \in Seq(Stanzas)
    BY <1>2, <1>4, ReplyTyped DEF ServeJoin, Presences
  <2>2. srv' \in [Rooms -> {"none", "locked", "open"}] /\ occupant' \subseteq Rooms
    BY <1>1, <1>4 DEF ServeJoin, TypeOK
  <2> QED
    BY <1>1, <1>4, <2>1, <2>2 DEF ServeJoin, TypeOK
<1>5. CASE ServeLeave(m)
  <2>1. toClient' \in Seq(Stanzas)
    BY <1>2, <1>3, <1>5, ReplyTyped DEF ServeLeave, Presences
  <2>2. srv' \in [Rooms -> {"none", "locked", "open"}] /\ occupant' \subseteq Rooms
    BY <1>1, <1>5 DEF ServeLeave, Vacated, TypeOK
  <2> QED
    BY <1>1, <1>5, <2>1, <2>2, RacedTyped DEF ServeLeave, TypeOK
<1>6. CASE ServeNick(m)
  <2>1. toClient' \in Seq(Stanzas)
    BY <1>2, <1>6, ReplyTyped DEF ServeNick, Presences
  <2> QED
    BY <1>1, <1>6, <2>1 DEF ServeNick, TypeOK
<1>7. CASE ServeIq(m)
  <2>1. PICK ok \in BOOLEAN :
          /\ LET gone == ok /\ m.t = "destroy" /\ m.room \in occupant
                 ans  == <<[t |-> "iq", op |-> m.t, obj |-> m.obj, ok |-> ok]>>
             IN /\ Reply(IF gone THEN <<[t |-> "gone", room |-> m.room]>> \o ans ELSE ans)
                /\ stale' = IF gone THEN stale \union {m.room} ELSE stale
          /\ CASE ok /\ m.t = "destroy" -> /\ srv' = [srv EXCEPT ![m.room] = "none"]
                                           /\ occupant' = occupant \ {m.room}
               [] ok /\ m.t = "config"  -> /\ srv' = [srv EXCEPT ![m.room] = "open"]
                                           /\ UNCHANGED occupant
               [] OTHER                 -> UNCHANGED <<srv, occupant>>
          /\ excused' = IF ~ok /\ m.t = "config" THEN excused \union {m.room} ELSE excused
    BY <1>7 DEF ServeIq
  <2> DEFINE ans == <<[t |-> "iq", op |-> m.t, obj |-> m.obj, ok |-> ok]>>
  <2>2. m.t \in Ops /\ m.obj \in Objs
    BY <1>7, RequestParts DEF ServeIq
  <2>3. ans \in Seq(Stanzas)
    BY <2>2, IqStanzas
  <2>4. <<[t |-> "gone", room |-> m.room]>> \in Seq(Stanzas)
    BY <1>2 DEF Presences
  <2>5. <<[t |-> "gone", room |-> m.room]>> \o ans \in Seq(Stanzas)
    <3> HIDE DEF ans
    <3> QED
      BY <2>3, <2>4, ConcatProperties
  <2>6. toClient' \in Seq(Stanzas)
    <3>1. Reply(<<[t |-> "gone", room |-> m.room]>> \o ans) \/ Reply(ans)
      BY <2>1
    <3> HIDE DEF ans
    <3> QED
      BY <2>3, <2>5, <3>1, ReplyTyped
  <2>7. /\ srv' \in [Rooms -> {"none", "locked", "open"}] /\ occupant' \subseteq Rooms
        /\ stale' \subseteq Rooms /\ excused' \subseteq Rooms
    BY <1>1, <2>1 DEF TypeOK
  <2> QED
    BY <1>1, <1>7, <2>6, <2>7, RacedTyped DEF ServeIq, TypeOK
<1> QED
  BY <1>4, <1>5, <1>6, <1>7

LEMMA NetworkTyped ==
  ASSUME TypeOK, FileRoom \/ Kick \/ Drop \/ Reconnect
  PROVE  TypeOK'
<1> USE DEF maps, service, history, net, objects, app
<1>1. CASE FileRoom
  <2>1. roomOf[pc] \in Rooms /\ pc \in DOMAIN roomOf
    BY <1>1, RoomsOfObjs DEF FileRoom, TypeOK
  <2> QED
    BY <1>1, <2>1 DEF FileRoom, TypeOK
<1>2. CASE Kick
  <2>1. PICK r \in occupant : /\ occupant' = occupant \ {r}
                              /\ srv' = [srv EXCEPT ![r] = Vacated(r)]
                              /\ toClient' = Append(toClient, [t |-> "gone", room |-> r])
                              /\ stale' = stale \union {r}
    BY <1>2 DEF Kick
  <2>2. r \in Rooms
    BY DEF TypeOK
  <2>3. [t |-> "gone", room |-> r] \in Stanzas
    BY <2>2, PresenceStanzas DEF Presences
  <2>4. toClient' \in Seq(Stanzas)
    BY <2>1, <2>3, Appended DEF TypeOK
  <2>5. ends' \in 0..MaxEnds
    BY <1>2, RoomsAssumption DEF Kick, TypeOK
  <2> QED
    BY <1>2, <2>1, <2>2, <2>4, <2>5, RacedTyped DEF Kick, TypeOK, Vacated
<1>3. CASE Drop
  <2>1. ends' \in 0..MaxEnds
    BY <1>3, RoomsAssumption DEF Drop, TypeOK
  <2>2. toServer' \in Seq(Requests) /\ toClient' \in Seq(Stanzas)
    BY <1>3 DEF Drop
  <2> QED
    BY <1>3, <2>1, <2>2, RacedTyped DEF Drop, TypeOK, Vacated
<1>4. CASE Reconnect
  BY <1>4 DEF Reconnect, TypeOK
<1> QED
  BY <1>1, <1>2, <1>3, <1>4

LEMMA UnderWay ==
  ASSUME TypeOK
  PROVE  Range(toServer) \subseteq Requests /\ Range(toClient) \subseteq Stanzas
BY DEF TypeOK, Range

LEMMA StepTyped == TypeOK /\ [Next]_vars => TypeOK'
<1> SUFFICES ASSUME TypeOK, [Next]_vars PROVE TypeOK'
  OBVIOUS
<1>1. CASE UNCHANGED vars
  BY <1>1 DEF vars, app, objects, maps, net, service, history, TypeOK
<1>2. CASE Finished
  BY <1>2 DEF Finished, vars, app, objects, maps, net, service, history, TypeOK
<1> QED
  BY <1>1, <1>2, UnderWay, ApplicationTyped, ReceiverTyped, ServerTyped, NetworkTyped
     DEF Next, Application, Receiver, Server

\* The state has its type at every moment, whatever the rooms and the bounds.
THEOREM RoomsTyped == Spec => []TypeOK
BY InitTyped, StepTyped, PTL DEF Spec

-----------------------------------------------------------------------------
(* Answers.                                                                *)

\* Each answer that kl::MUCRoom gets passes two handleIqID() methods, and the
\* listener hears it once, whatever the order and number of the requests.
THEOREM AnsweredOnce == Spec => []ToldOnce
<1>1. Init => ToldOnce
  BY DEF Init, ToldOnce
<1>2. TypeOK /\ ToldOnce /\ [Next]_vars => ToldOnce'
  <2> SUFFICES ASSUME TypeOK, ToldOnce, [Next]_vars PROVE ToldOnce'
    OBVIOUS
  <2>1. CASE UNCHANGED <<answered, told>>
    BY <2>1 DEF ToldOnce
  <2>2. ASSUME NEW m \in Stanzas, HandleIq(m) PROVE ToldOnce'
    <3>1. m.op \in Ops /\ m.ok \in BOOLEAN
      BY <2>2, StanzaParts DEF HandleIq
    <3> DEFINE k == IF HasCallback(m.op, m.ok) THEN 1 ELSE 0
    <3>2. Told(m.op, m.ok) = k /\ k \in Nat
      BY <3>1, ToldCount
    <3>3. answered \in [Ops -> Nat] /\ told \in [Ops -> Nat]
      BY DEF TypeOK
    <3>4. \/ /\ answered' = [answered EXCEPT ![m.op] = answered[m.op] + k]
             /\ told' = [told EXCEPT ![m.op] = told[m.op] + k]
          \/ answered' = answered /\ told' = told
      BY <2>2, <3>2 DEF HandleIq
    <3> HIDE DEF k
    <3>5. ASSUME NEW op \in Ops PROVE told'[op] = answered'[op]
      BY <3>1, <3>2, <3>3, <3>4 DEF ToldOnce
    <3> QED
      BY <3>5 DEF ToldOnce
  <2>3. UNCHANGED <<answered, told>> \/ \E m \in Stanzas : HandleIq(m)
    <3>1. CASE Receiver
      BY <3>1, UnderWay DEF Receiver, HandleRefused, HandleNew, HandlePresence
    <3>2. CASE ~Receiver
      BY <3>2 DEF Next, vars, history, Application, CreateRoom, EnterKnown, EnterNew, ExitRoom,
                  Request, ChangeNick, FileRoom, Server, ServeJoin, ServeLeave, ServeNick,
                  ServeIq, Kick, Drop, Reconnect, Finished
    <3> QED
      BY <3>1, <3>2
  <2> QED
    BY <2>1, <2>2, <2>3
<1> QED
  BY <1>1, <1>2, RoomsTyped, PTL DEF Spec

-----------------------------------------------------------------------------
(* One room: what a step may change.                                       *)

LEMMA RequestKinds ==
  ASSUME NEW m \in Requests, NEW r
  PROVE  About(m, r) <=> m.t \in {"join", "nick"} /\ m.room = r
BY DEF Requests, Ops, About

LEMMA StanzaKinds ==
  ASSUME NEW m \in Stanzas, NEW r
  PROVE  About(m, r) <=> m.t \in Presences \ {"gone"} /\ m.room = r
BY DEF Stanzas, Presences, About

LEMMA PendingIs ==
  ASSUME TypeOK, NEW r
  PROVE  Pending(r) <=> Has(toServer, r) \/ Has(toClient, r)
<1>1. \A i \in DOMAIN toServer : toServer[i] \in Requests
  BY ElementOfSeq, LenProperties DEF TypeOK
<1>2. \A i \in DOMAIN toClient : toClient[i] \in Stanzas
  BY ElementOfSeq, LenProperties DEF TypeOK
<1>3. (\E m \in Range(toServer) : m.t \in {"join", "nick"} /\ m.room = r) <=> Has(toServer, r)
  <2>1. \A i \in DOMAIN toServer : About(toServer[i], r) <=>
          toServer[i].t \in {"join", "nick"} /\ toServer[i].room = r
    BY <1>1, RequestKinds
  <2> QED
    BY <2>1 DEF Range, Has
<1>4. (\E m \in Range(toClient) : m.t \in Presences \ {"gone"} /\ m.room = r) <=> Has(toClient, r)
  <2>1. \A i \in DOMAIN toClient : About(toClient[i], r) <=>
          toClient[i].t \in Presences \ {"gone"} /\ toClient[i].room = r
    BY <1>2, StanzaKinds
  <2> QED
    BY <2>1 DEF Range, Has
<1> QED
  BY <1>3, <1>4 DEF Pending

\* The step is of no concern to r, or ends the stay in it.
LEMMA Untouched ==
  ASSUME NEW r, RoomInv(r),
         Once(toServer', r), Has(toServer', r) => Has(toServer, r),
         \A t : Holds(toServer', t, r) => Holds(toServer, t, r) \/ t \in Ops,
         Once(toClient', r), Has(toClient', r) => Has(toClient, r),
         Holds(toClient', "refused", r) <=> Holds(toClient, "refused", r),
         Stays(toServer', r, occupant') => Bound(r),
         Bound(r) => Stays(toServer', r, occupant') \/ r \in stale',
         Listeners(r)' = Listeners(r), Listeners(r) \intersect newNick' = Listeners(r) \intersect newNick,
         Listeners(r) # {} => Of(r)' = Of(r), stale \subseteq stale'
  PROVE  RoomInv(r)'
<1>1. "join" \notin Ops /\ "nick" \notin Ops
  BY DEF Ops
<1>2. Bound(r)' <=> Stays(toServer', r, occupant')
  BY DEF Bound
<1>3. Single(r)'
  BY DEF RoomInv, Single
<1>4. Listeners(r) \subseteq newNick <=> Listeners(r) \subseteq newNick'
  OBVIOUS
<1>5. Refusable(r)'
  BY <1>1, <1>2, <1>4 DEF RoomInv, Refusable
<1>6. Agrees(r)'
  BY <1>2 DEF RoomInv, Agrees
<1> QED
  BY <1>3, <1>5, <1>6 DEF RoomInv

\* Nothing is under way, and nobody is anywhere.
LEMMA DownRoom ==
  ASSUME NEW r \in Rooms, toServer' = <<>>, toClient' = <<>>, occupant' = {}, stale' = Rooms,
         Listeners(r)' \subseteq {Of(r)'}
  PROVE  RoomInv(r)'
<1>1. ~Has(<<>>, r) /\ Once(<<>>, r) /\ \A t : ~Holds(<<>>, t, r)
  BY NothingUnderWay
<1>2. ~Bound(r)'
  BY DEF Bound, Stays
<1> QED
  BY <1>1, <1>2 DEF RoomInv, Single, Refusable, Agrees

\* One object asks to enter r, for which nothing is under way.
LEMMA Entered ==
  ASSUME TypeOK, NEW r \in Rooms, NEW o, RoomInv(r), up, Send([t |-> "join", room |-> r]),
         ~Has(toServer, r), ~Has(toClient, r), UNCHANGED occupant,
         Listeners(r)' = {o}, o \notin newNick', Of(r)' = o
  PROVE  RoomInv(r)'
<1> DEFINE m == [t |-> "join", room |-> r]
<1>1. m \in Requests /\ About(m, r) /\ m.t = "join" /\ m.room = r
  BY RoomRequests DEF About
<1>2. toServer' = Append(toServer, m) /\ toClient' = toClient /\ toServer \in Seq(Requests)
  BY <1>1 DEF Send, TypeOK
<1> HIDE DEF m
<1>3. /\ Has(toServer', r) /\ Once(toServer', r)
      /\ Holds(toServer', "nick", r) <=> Holds(toServer, "nick", r)
  BY <1>1, <1>2, AppendFacts DEF RoomInv, Single
<1>4. ~Holds(toServer, "nick", r) /\ ~Holds(toClient, "refused", r)
  BY HoldsHas
<1>5. Bound(r)'
  <2>1. Stays(Append(toServer, m), r, occupant)
    BY <1>1, <1>2, AppendStays
  <2> QED
    BY <1>2, <2>1 DEF Bound
<1> QED
  BY <1>2, <1>3, <1>4, <1>5 DEF RoomInv, Single, Refusable, Agrees

\* A request that is sent changes nothing else of r.
LEMMA SentFacts ==
  ASSUME TypeOK, NEW m \in Requests, Send(m), up, NEW r, Once(toServer, r),
         ~(m.t \in {"join", "nick"} /\ m.room = r)
  PROVE  /\ Once(toServer', r) /\ (Has(toServer', r) <=> Has(toServer, r)) /\ toClient' = toClient
         /\ \A t : Holds(toServer', t, r) <=> Holds(toServer, t, r) \/ (m.t = t /\ m.room = r)
         /\ ~(m.t = "leave" /\ m.room = r) =>
              (Stays(toServer', r, occupant) <=> Bound(r))
         /\ m.t = "leave" /\ m.room = r => ~Stays(toServer', r, occupant)
<1>1. ~About(m, r)
  BY RequestKinds
<1>2. toServer' = Append(toServer, m) /\ toClient' = toClient /\ toServer \in Seq(Requests)
  BY DEF Send, TypeOK
<1>4. /\ m.t = "leave" /\ m.room = r => ~Stays(Append(toServer, m), r, occupant)
      /\ ~(m.t \in {"join", "leave"} /\ m.room = r) =>
           (Stays(Append(toServer, m), r, occupant) <=> Stays(toServer, r, occupant))
  BY <1>2, AppendStays
<1>5. /\ Has(Append(toServer, m), r) <=> Has(toServer, r) \/ About(m, r)
      /\ Once(toServer, r) /\ ~(Has(toServer, r) /\ About(m, r)) => Once(Append(toServer, m), r)
      /\ \A t : Holds(Append(toServer, m), t, r) <=> Holds(toServer, t, r) \/ (m.t = t /\ m.room = r)
  BY <1>2, AppendFacts
<1> QED
  BY <1>1, <1>2, <1>4, <1>5 DEF Bound

\* A stanza that arrives.
LEMMA ArrivedFacts ==
  ASSUME TypeOK, NEW m \in Stanzas, Arrives(m), NEW r, Once(toClient, r)
  PROVE  /\ Once(toClient', r) /\ (Has(toClient', r) => Has(toClient, r))
         /\ Has(toClient, r) <=> Has(toClient', r) \/ About(m, r)
         /\ About(m, r) => ~Has(toClient', r)
         /\ Holds(toClient, "refused", r) <=>
              Holds(toClient', "refused", r) \/ (m.t = "refused" /\ m.room = r)
<1>1. toClient \in Seq(Stanzas) /\ toClient # <<>> /\ m = Head(toClient) /\ toClient' = Tail(toClient)
  BY DEF TypeOK, Arrives
<1>2. /\ Has(toClient, r) <=> Has(Tail(toClient), r) \/ About(Head(toClient), r)
      /\ Once(toClient, r) => Once(Tail(toClient), r) /\ ~(Has(Tail(toClient), r) /\ About(Head(toClient), r))
      /\ \A t : Holds(toClient, t, r) <=>
                  Holds(Tail(toClient), t, r) \/ (Head(toClient).t = t /\ Head(toClient).room = r)
  BY <1>1, TailFacts
<1> QED
  BY <1>1, <1>2

\* A request that is read.
LEMMA ReadFacts ==
  ASSUME TypeOK, NEW m \in Requests, Reads(m), NEW r, Once(toServer, r)
  PROVE  /\ Once(toServer', r) /\ (Has(toServer', r) => Has(toServer, r))
         /\ About(m, r) => Has(toServer, r) /\ ~Has(toServer', r)
         /\ \A t : Holds(toServer', t, r) => Holds(toServer, t, r)
         /\ m.room = r => Holds(toServer, m.t, r)
         /\ m.t = "join" /\ m.room = r => (Bound(r) <=> Stays(toServer', r, occupant \union {r}))
         /\ m.t = "leave" /\ m.room = r => (Bound(r) <=> Stays(toServer', r, occupant \ {r}))
         /\ ~(m.t \in {"join", "leave"} /\ m.room = r) =>
              (Bound(r) <=> Stays(toServer', r, occupant))
<1>1. toServer \in Seq(Requests) /\ toServer # <<>> /\ m = Head(toServer) /\ toServer' = Tail(toServer)
  BY DEF TypeOK, Reads
<1>2. /\ Has(toServer, r) <=> Has(Tail(toServer), r) \/ About(Head(toServer), r)
      /\ Once(toServer, r) => Once(Tail(toServer), r) /\ ~(Has(Tail(toServer), r) /\ About(Head(toServer), r))
      /\ \A t : Holds(toServer, t, r) <=>
                  Holds(Tail(toServer), t, r) \/ (Head(toServer).t = t /\ Head(toServer).room = r)
  BY <1>1, TailFacts
<1>4. /\ m.t = "join" /\ m.room = r => (Bound(r) <=> Stays(Tail(toServer), r, occupant \union {r}))
      /\ m.t = "leave" /\ m.room = r => (Bound(r) <=> Stays(Tail(toServer), r, occupant \ {r}))
      /\ ~(m.t \in {"join", "leave"} /\ m.room = r) =>
           (Bound(r) <=> Stays(Tail(toServer), r, occupant))
  BY <1>1, TailStays DEF Bound
<1> QED
  BY <1>1, <1>2, <1>4

\* A reply of one stanza.
LEMMA ReplyFacts ==
  ASSUME TypeOK, NEW m \in Stanzas, toClient' = Append(toClient, m), NEW r, Once(toClient, r),
         ~(Has(toClient, r) /\ About(m, r))
  PROVE  /\ Once(toClient', r) /\ (Has(toClient', r) <=> Has(toClient, r) \/ About(m, r))
         /\ Holds(toClient', "refused", r) <=>
              Holds(toClient, "refused", r) \/ (m.t = "refused" /\ m.room = r)
<1>1. toClient \in Seq(Stanzas)
  BY DEF TypeOK
<1> QED
  BY <1>1, AppendFacts

-----------------------------------------------------------------------------
(* Every step keeps every uncrossed room right.                            *)

\* The objects concerned by a call of the application.
LEMMA CallListeners ==
  ASSUME TypeOK, Filed, NEW r \in Rooms, NEW s \in Rooms, Listeners(s) \subseteq {Of(s)},
         s \notin crossed',
         CreateRoom(r) \/ EnterKnown(r) \/ EnterNew(r) \/ ExitRoom(r) \/ Request(r) \/ ChangeNick(r)
  PROVE  /\ s # r => Listeners(s)' = Listeners(s) /\ (Listeners(s) # {} => Of(s)' = Of(s))
         /\ Listeners(s)' \subseteq {Of(s)'}
<1>1. /\ pc = 0 /\ Of(s) = map[s] /\ (map[r] # 0 => roomOf[map[r]] = r)
      /\ \A o \in joined : o \in DOMAIN roomOf /\ o # 0
  BY RoomsOfObjs DEF Filed, Of, CreateRoom, EnterKnown, EnterNew, ExitRoom, Request, ChangeNick, Call, TypeOK
<1> DEFINE o == Len(roomOf) + 1
<1>2. ASSUME roomOf' = Append(roomOf, r), Len(roomOf) < MaxObjs, joined' = joined \union {o}
      PROVE  /\ o # 0 /\ roomOf'[o] = r /\ \A x \in joined : roomOf'[x] = roomOf[x]
             /\ s # r => Listeners(s)' = Listeners(s)
             /\ Listeners(r)' = Listeners(r) \union {o}
  <2>1. /\ o # 0 /\ roomOf'[o] = r /\ o \notin DOMAIN roomOf
        /\ \A x \in DOMAIN roomOf : roomOf'[x] = roomOf[x]
    BY <1>2, NewObject
  <2> HIDE DEF o
  <2>2. joined' = joined \union {o} /\ \A x \in joined : roomOf'[x] = roomOf[x]
    BY <1>1, <1>2, <2>1
  <2> QED
    BY <2>1, <2>2 DEF Listeners
<1>3. CASE CreateRoom(r)
  <2>1. roomOf' = Append(roomOf, r) /\ Len(roomOf) < MaxObjs /\ joined' = joined \union {o}
        /\ pc' = o /\ map' = map /\ (s = r => ~Joined(r))
    BY <1>3 DEF CreateRoom, maps, Enters, Crosses
  <2>2. /\ o # 0 /\ roomOf'[o] = r /\ (s # r => Listeners(s)' = Listeners(s))
        /\ Listeners(r)' = Listeners(r) \union {o}
    BY <1>2, <2>1
  <2> HIDE DEF o
  <2>3. s # r => Of(s)' = Of(s)
    BY <1>1, <2>1, <2>2 DEF Of
  <2>4. s = r => Of(s)' = o /\ Listeners(r) = {}
    BY <2>1, <2>2 DEF Of, Joined, Listeners
  <2> QED
    BY <2>2, <2>3, <2>4
<1>4. CASE EnterNew(r)
  <2>1. roomOf' = Append(roomOf, r) /\ Len(roomOf) < MaxObjs /\ joined' = joined \union {o}
        /\ pc' = 0 /\ map' = [map EXCEPT ![r] = o] /\ map[r] = 0
    BY <1>1, <1>4 DEF EnterNew
  <2>2. /\ o # 0 /\ roomOf'[o] = r /\ (s # r => Listeners(s)' = Listeners(s))
        /\ Listeners(r)' = Listeners(r) \union {o}
    BY <1>2, <2>1
  <2> HIDE DEF o
  <2>3. s # r => Of(s)' = Of(s)
    BY <1>1, <2>1 DEF Of, TypeOK
  <2>4. s = r => Of(s)' = o /\ Listeners(r) = {}
    BY <1>1, <2>1 DEF Of, Listeners, TypeOK
  <2> QED
    BY <2>2, <2>3, <2>4
<1>5. CASE EnterKnown(r)
  <2>1. /\ joined' = joined \union {map[r]} /\ map[r] # 0 /\ pc' = 0 /\ map' = map
        /\ roomOf' = roomOf
    BY <1>1, <1>5 DEF EnterKnown, maps
  <2>2. Of(s)' = Of(s)
    BY <1>1, <2>1 DEF Of
  <2>3. s # r => Listeners(s)' = Listeners(s)
    BY <1>1, <2>1 DEF Listeners
  <2>4. s = r => Listeners(s)' \subseteq Listeners(s) \union {map[r]}
    BY <2>1 DEF Listeners
  <2> QED
    BY <1>1, <2>2, <2>3, <2>4
<1>6. CASE ExitRoom(r) \/ Request(r) \/ ChangeNick(r)
  <2>1. /\ joined' = joined \/ (joined' = joined \ {map[r]} /\ map[r] \in joined)
        /\ pc' = pc /\ map' = map /\ roomOf' = roomOf
    BY <1>6 DEF ExitRoom, Request, ChangeNick, maps, objects
  <2>2. Of(s)' = Of(s)
    BY <2>1 DEF Of
  <2>3. s # r => Listeners(s)' = Listeners(s)
    BY <1>1, <2>1 DEF Listeners
  <2>4. Listeners(s)' \subseteq Listeners(s)
    BY <2>1 DEF Listeners
  <2> QED
    BY <2>2, <2>3, <2>4
<1> QED
  BY <1>3, <1>4, <1>5, <1>6

LEMMA ApplicationRooms ==
  ASSUME IInv, NEW r \in Rooms, NEW s \in Rooms, s \notin crossed',
         CreateRoom(r) \/ EnterKnown(r) \/ EnterNew(r) \/ ExitRoom(r) \/ Request(r) \/ ChangeNick(r)
  PROVE  RoomInv(s)'
<1>1. TypeOK /\ Filed /\ Down
  BY DEF IInv
<1>2. RoomInv(s) /\ UNCHANGED occupant /\ UNCHANGED stale
  BY DEF IInv, CreateRoom, EnterKnown, EnterNew, ExitRoom, Request, ChangeNick, Enters, Crosses,
         service, history
<1>3. Once(toServer, s) /\ Once(toClient, s) /\ Listeners(s) \subseteq {Of(s)}
  BY <1>2 DEF RoomInv, Single
<1>4. /\ s # r => Listeners(s)' = Listeners(s) /\ (Listeners(s) # {} => Of(s)' = Of(s))
      /\ Listeners(s)' \subseteq {Of(s)'}
  BY <1>1, <1>3, CallListeners
<1>5. \A o \in joined : o \in DOMAIN roomOf /\ o # 0
  BY <1>1, RoomsOfObjs DEF TypeOK
<1>6. CASE ~up
  <2>1. toServer' = toServer /\ toClient' = toClient
    BY <1>6 DEF CreateRoom, EnterKnown, EnterNew, ExitRoom, Request, ChangeNick, Send, net
  <2> QED
    BY <1>1, <1>2, <1>4, <1>6, <2>1, DownRoom DEF Down
<1>7. CASE up /\ (CreateRoom(r) \/ EnterNew(r) \/ (EnterKnown(r) /\ map[r] \notin joined))
  <2>1. Send([t |-> "join", room |-> r])
    BY <1>7 DEF CreateRoom, EnterNew, EnterKnown
  <2>2. CASE s # r
    <3> DEFINE m == [t |-> "join", room |-> r]
    <3>1. m \in Requests /\ m.room # s
      BY <2>2, RoomRequests
    <3>2. Send(m)
      BY <2>1
    <3> HIDE DEF m
    <3>3. /\ Once(toServer', s) /\ (Has(toServer', s) <=> Has(toServer, s)) /\ toClient' = toClient
          /\ \A t : Holds(toServer', t, s) <=> Holds(toServer, t, s)
          /\ Stays(toServer', s, occupant) <=> Bound(s)
      BY <1>1, <1>3, <1>7, <3>1, <3>2, SentFacts
    <3>4. newNick' = newNick
      BY <1>7 DEF CreateRoom, EnterNew, EnterKnown
    <3> QED
      BY <1>2, <1>3, <1>4, <2>2, <3>3, <3>4, Untouched
  <2>3. CASE s = r
    <3>1. ~Pending(r)
      BY <1>7, <2>3 DEF CreateRoom, EnterNew, EnterKnown, Enters, Crosses
    <3>2. ~Has(toServer, r) /\ ~Has(toClient, r)
      BY <1>1, <3>1, PendingIs
    <3>3. Listeners(r)' = {Of(r)'} /\ Of(r)' \notin newNick'
      <4>1. CASE CreateRoom(r)
        <5>1. /\ roomOf' = Append(roomOf, r) /\ Len(roomOf) < MaxObjs
              /\ pc' = Len(roomOf) + 1 /\ joined' = joined \union {Len(roomOf) + 1}
              /\ newNick' = newNick
          BY <4>1 DEF CreateRoom
        <5>2. /\ Len(roomOf) + 1 # 0 /\ roomOf'[Len(roomOf) + 1] = r
              /\ Len(roomOf) + 1 \notin DOMAIN roomOf
          BY <1>1, <5>1, NewObject
        <5>3. Of(r)' = Len(roomOf) + 1
          BY <5>1, <5>2 DEF Of
        <5>4. Len(roomOf) + 1 \in Listeners(r)' /\ Len(roomOf) + 1 \notin newNick
          BY <1>1, <5>1, <5>2 DEF Listeners, TypeOK
        <5> QED
          BY <1>4, <2>3, <5>1, <5>3, <5>4
      <4>2. CASE EnterNew(r)
        <5>1. /\ roomOf' = Append(roomOf, r) /\ Len(roomOf) < MaxObjs /\ pc' = 0
              /\ map' = [map EXCEPT ![r] = Len(roomOf) + 1]
              /\ joined' = joined \union {Len(roomOf) + 1} /\ newNick' = newNick
          BY <4>2 DEF EnterNew, Call
        <5>2. /\ roomOf'[Len(roomOf) + 1] = r /\ Len(roomOf) + 1 \notin DOMAIN roomOf
          BY <1>1, <5>1, NewObject
        <5>3. Of(r)' = Len(roomOf) + 1
          BY <1>1, <5>1 DEF Of, TypeOK
        <5>4. Len(roomOf) + 1 \in Listeners(r)' /\ Len(roomOf) + 1 \notin newNick
          BY <1>1, <5>1, <5>2 DEF Listeners, TypeOK
        <5> QED
          BY <1>4, <2>3, <5>1, <5>3, <5>4
      <4>3. CASE EnterKnown(r)
        <5>1. /\ roomOf' = roomOf /\ pc' = 0 /\ map' = map /\ joined' = joined \union {map[r]}
              /\ newNick' = newNick /\ map[r] # 0
          BY <4>3 DEF EnterKnown, Call, maps
        <5>2. map[r] \notin newNick
          BY <2>3, <4>3 DEF EnterKnown, Enters, Crosses
        <5>3. Of(r)' = map[r] /\ map[r] \in Listeners(r)'
          BY <1>1, <5>1 DEF Of, Listeners, Filed
        <5> QED
          BY <1>4, <2>3, <5>1, <5>2, <5>3
      <4> QED
        BY <1>7, <4>1, <4>2, <4>3
    <3>4. RoomInv(r)
      BY <1>2, <2>3
    <3> QED
      BY <1>1, <1>2, <1>7, <2>1, <2>3, <3>2, <3>3, <3>4, Entered
  <2> QED
    BY <2>2, <2>3
<1>8. CASE EnterKnown(r) /\ map[r] \in joined
  <2>1. UNCHANGED <<toServer, toClient, newNick, joined, roomOf, pc, map>>
    BY <1>8 DEF EnterKnown, net, maps, Call
  <2>2. Listeners(s)' = Listeners(s) /\ Of(s)' = Of(s)
    BY <2>1 DEF Listeners, Of
  <2> QED
    BY <1>2, <1>3, <2>1, <2>2, Untouched DEF Bound
<1>9. CASE up /\ ExitRoom(r)
  <2> DEFINE m == [t |-> "leave", room |-> r]
  <2>1. m \in Requests /\ m.t = "leave" /\ m.room = r
    BY RoomRequests
  <2>2. Send(m) /\ newNick' = newNick /\ joined' = joined \ {map[r]} /\ pc = 0 /\ roomOf' = roomOf
    BY <1>9 DEF ExitRoom, Call
  <2> HIDE DEF m
  <2>3. /\ Once(toServer', s) /\ (Has(toServer', s) <=> Has(toServer, s)) /\ toClient' = toClient
        /\ \A t : Holds(toServer', t, s) <=> Holds(toServer, t, s) \/ (m.t = t /\ m.room = s)
        /\ s # r => (Stays(toServer', s, occupant) <=> Bound(s))
        /\ s = r => ~Stays(toServer', s, occupant)
    BY <1>1, <1>3, <1>9, <2>1, <2>2, SentFacts
  <2>4. CASE s # r
    <3>1. \A t : Holds(toServer', t, s) <=> Holds(toServer, t, s)
      BY <2>1, <2>3, <2>4
    <3> QED
      BY <1>2, <1>3, <1>4, <2>2, <2>3, <2>4, <3>1, Untouched
  <2>5. CASE s = r
    <3>1. Of(s) = map[r]
      BY <2>2, <2>5 DEF Of
    <3>2. Listeners(s)' = {}
      BY <1>3, <2>2, <3>1 DEF Listeners
    <3>3. ~Bound(s)'
      BY <1>2, <2>3, <2>5 DEF Bound
    <3>4. Single(s)'
      BY <1>2, <1>3, <2>3, <3>2 DEF RoomInv, Single
    <3> QED
      BY <3>2, <3>3, <3>4 DEF RoomInv, Refusable, Agrees
  <2> QED
    BY <2>4, <2>5
<1>10. CASE up /\ Request(r)
  <2>1. PICK op \in NeedsJoined \union {"destroy"} : Send([t |-> op, room |-> r, obj |-> map[r]])
    BY <1>10 DEF Request
  <2> DEFINE m == [t |-> op, room |-> r, obj |-> map[r]]
  <2>2. op \in Ops /\ map[r] \in Objs
    BY <1>1, <1>10, RoomsOfObjs DEF Request, TypeOK, Ops, NeedsJoined
  <2>3. m \in Requests /\ m.t \in Ops /\ m.t \notin {"join", "nick", "leave"}
    BY <2>2, ObjRequests DEF Ops
  <2>4. Send(m)
    BY <2>1
  <2> HIDE DEF m
  <2>5. /\ Once(toServer', s) /\ (Has(toServer', s) <=> Has(toServer, s)) /\ toClient' = toClient
        /\ \A t : Holds(toServer', t, s) => Holds(toServer, t, s) \/ t \in Ops
        /\ Stays(toServer', s, occupant) <=> Bound(s)
    BY <1>1, <1>3, <1>10, <2>3, <2>4, SentFacts
  <2>6. Listeners(s)' = Listeners(s) /\ Of(s)' = Of(s) /\ newNick' = newNick
    BY <1>10 DEF Request, objects, maps, Listeners, Of
  <2> QED
    BY <1>2, <1>3, <2>5, <2>6, Untouched
<1>11. CASE up /\ ChangeNick(r)
  <2> DEFINE m == [t |-> "nick", room |-> r]
  <2>1. m \in Requests /\ m.t = "nick" /\ m.room = r
    BY RoomRequests
  <2>2. /\ Send(m) /\ newNick' = newNick \union {map[r]} /\ pc = 0 /\ pc' = 0 /\ map' = map
        /\ joined' = joined /\ roomOf' = roomOf /\ map[r] \in joined
    BY <1>11 DEF ChangeNick, Call, maps
  <2> HIDE DEF m
  <2>3. Listeners(s)' = Listeners(s) /\ Of(s)' = Of(s) /\ Of(s) = map[s]
    BY <2>2 DEF Listeners, Of
  <2>4. CASE s # r
    <3>1. /\ Once(toServer', s) /\ (Has(toServer', s) <=> Has(toServer, s)) /\ toClient' = toClient
          /\ \A t : Holds(toServer', t, s) <=> Holds(toServer, t, s)
          /\ Stays(toServer', s, occupant) <=> Bound(s)
      BY <1>1, <1>3, <1>11, <2>1, <2>2, <2>4, SentFacts
    <3>2. map[r] \notin Listeners(s)
      BY <1>1, <1>5, <2>2, <2>4 DEF Listeners, Filed
    <3>3. Listeners(s) \intersect newNick' = Listeners(s) \intersect newNick
      BY <2>2, <3>2
    <3> QED
      BY <1>2, <1>3, <2>3, <3>1, <3>3, Untouched
  <2>5. CASE s = r
    <3>1. ~Pending(r)
      BY <1>11, <2>5 DEF ChangeNick, Crosses
    <3>2. ~Has(toServer, s) /\ ~Has(toClient, s)
      BY <1>1, <2>5, <3>1, PendingIs
    <3>3. toServer' = Append(toServer, m) /\ toClient' = toClient /\ toServer \in Seq(Requests)
      BY <1>1, <1>11, <2>2 DEF Send, TypeOK
    <3>4. /\ Once(toServer', s) /\ (Holds(toServer', "join", s) <=> Holds(toServer, "join", s))
          /\ Stays(toServer', s, occupant) <=> Bound(s)
      <4>1. /\ Once(toServer, s) /\ ~(Has(toServer, s) /\ About(m, s)) => Once(Append(toServer, m), s)
            /\ \A t : Holds(Append(toServer, m), t, s) <=> Holds(toServer, t, s) \/ (m.t = t /\ m.room = s)
        BY <2>1, <3>3, AppendFacts
      <4>2. Stays(Append(toServer, m), s, occupant) <=> Stays(toServer, s, occupant)
        BY <2>1, <3>3, AppendStays
      <4> QED
        BY <1>3, <2>1, <3>2, <3>3, <4>1, <4>2 DEF Bound
    <3>5. ~Holds(toServer, "join", s) /\ ~Holds(toClient, "refused", s)
      BY <3>2, HoldsHas
    <3>6. Listeners(s) \subseteq newNick'
      BY <1>3, <2>2, <2>3, <2>5
    <3>7. Bound(s)' <=> Bound(s)
      BY <1>2, <3>4 DEF Bound
    <3>8. Single(s)' /\ Refusable(s)'
      BY <1>3, <1>4, <2>3, <3>2, <3>3, <3>4, <3>5, <3>6 DEF Single, Refusable
    <3>9. Agrees(s)'
      BY <1>2, <2>3, <3>5, <3>7 DEF RoomInv, Agrees
    <3> QED
      BY <3>8, <3>9 DEF RoomInv
  <2> QED
    BY <2>4, <2>5
<1> QED
  BY <1>6, <1>7, <1>8, <1>9, <1>10, <1>11

LEMMA ReceiverRooms ==
  ASSUME IInv, NEW m \in Stanzas, NEW s \in Rooms, s \notin crossed',
         HandleRefused(m) \/ HandleNew(m) \/ HandlePresence(m) \/ HandleIq(m)
  PROVE  RoomInv(s)'
<1>1. TypeOK /\ Arrives(m)
  BY DEF IInv, HandleRefused, HandleNew, HandlePresence, HandleIq
<1>2. RoomInv(s) /\ UNCHANGED occupant /\ UNCHANGED stale
  BY DEF IInv, HandleRefused, HandleNew, HandlePresence, HandleIq, service, history
<1>3. Once(toServer, s) /\ Once(toClient, s) /\ Listeners(s) \subseteq {Of(s)}
  BY <1>2 DEF RoomInv, Single
<1>4. /\ Once(toClient', s) /\ (Has(toClient', s) => Has(toClient, s))
      /\ Has(toClient, s) <=> Has(toClient', s) \/ About(m, s)
      /\ About(m, s) => ~Has(toClient', s)
      /\ Holds(toClient, "refused", s) <=>
           Holds(toClient', "refused", s) \/ (m.t = "refused" /\ m.room = s)
  BY <1>1, <1>3, ArrivedFacts
<1>5. Of(s)' = Of(s) /\ roomOf' = roomOf
  BY DEF Of, HandleRefused, HandleNew, HandlePresence, HandleIq, app, maps, objects
<1>6. CASE HandleRefused(m)
  <2>1. /\ m.t = "refused" /\ toServer' = toServer
        /\ joined' = joined \ (Listeners(m.room) \ newNick)
        /\ newNick' = newNick \ Listeners(m.room)
    BY <1>6 DEF HandleRefused
  <2>2. Bound(s)' <=> Bound(s)
    BY <1>2, <2>1 DEF Bound
  <2>3. CASE m.room = s
    <3>1. About(m, s) /\ Holds(toClient, "refused", s)
      BY <1>4, <2>1, <2>3 DEF About
    <3>2. ~Has(toServer, s) /\ ~Has(toClient', s)
      BY <1>2, <1>4, <3>1 DEF RoomInv, Single
    <3>3. ~Holds(toServer, "join", s) /\ ~Holds(toServer, "nick", s) /\ ~Holds(toClient', "refused", s)
      BY <3>2, HoldsHas
    <3>4. Listeners(s)' = Listeners(s) \intersect newNick
      BY <1>5, <2>1, <2>3 DEF Listeners
    <3>5. Single(s)' /\ Refusable(s)'
      BY <1>3, <1>4, <1>5, <2>1, <3>2, <3>3, <3>4 DEF Single, Refusable
    <3>6. Agrees(s)'
      BY <1>2, <2>2, <3>1, <3>4 DEF RoomInv, Refusable, Agrees
    <3> QED
      BY <3>5, <3>6 DEF RoomInv
  <2>4. CASE m.room # s
    <3>1. Listeners(s) \intersect Listeners(m.room) = {}
      BY <2>4 DEF Listeners
    <3>2. Listeners(s)' = Listeners(s)
      BY <1>5, <2>1, <2>4 DEF Listeners
    <3>3. Listeners(s) \intersect newNick' = Listeners(s) \intersect newNick
      BY <2>1, <3>1
    <3>4. Stays(toServer', s, occupant') <=> Bound(s)
      BY <2>2 DEF Bound
    <3> QED
      BY <1>2, <1>3, <1>4, <1>5, <2>1, <2>4, <3>2, <3>3, <3>4, Untouched
  <2> QED
    BY <2>3, <2>4
<1>7. CASE HandleNew(m) \/ HandlePresence(m) \/ HandleIq(m)
  <2>1. /\ joined' = joined /\ newNick' = newNick /\ m.t # "refused"
        /\ \/ toServer' = toServer
           \/ /\ Listeners(m.room) # {} /\ m.room \in Rooms
              /\ toServer' = Append(toServer, [t |-> "config", room |-> m.room,
                                               obj |-> Min(Listeners(m.room))])
    <3>1. CASE HandleNew(m)
      <4>1. m.room \in Rooms
        BY <3>1, StanzaParts DEF HandleNew, Presences
      <4> QED
        BY <3>1, <4>1 DEF HandleNew, objects
    <3>2. CASE HandlePresence(m)
      BY <3>2 DEF HandlePresence, objects
    <3>3. CASE HandleIq(m)
      BY <3>3 DEF HandleIq, objects
    <3> QED
      BY <1>7, <3>1, <3>2, <3>3
  <2>2. Listeners(s)' = Listeners(s)
    BY <1>5, <2>1 DEF Listeners
  <2>3. CASE toServer' = toServer
    BY <1>2, <1>3, <1>4, <1>5, <2>1, <2>2, <2>3, Untouched DEF Bound
  <2>4. CASE toServer' # toServer
    <3> DEFINE o == Min(Listeners(m.room))
               c == [t |-> "config", room |-> m.room, obj |-> o]
    <3>1. Listeners(m.room) \subseteq Objs /\ Listeners(m.room) \subseteq Nat
      BY <1>1, RoomsOfObjs
    <3>2. o \in Objs
      BY <2>1, <2>4, <3>1, MinOfObjs
    <3>3. toServer' = Append(toServer, c) /\ m.room \in Rooms
      BY <2>1, <2>4
    <3> HIDE DEF o
    <3>4. c \in Requests /\ c.t = "config"
      BY <3>2, <3>3, ObjRequests DEF Ops
    <3> HIDE DEF c
    <3>5. ~About(c, s) /\ toServer \in Seq(Requests)
      BY <1>1, <3>4 DEF About, TypeOK
    <3>6. /\ Has(Append(toServer, c), s) <=> Has(toServer, s) \/ About(c, s)
          /\ Once(toServer, s) /\ ~(Has(toServer, s) /\ About(c, s)) => Once(Append(toServer, c), s)
          /\ \A t : Holds(Append(toServer, c), t, s) <=> Holds(toServer, t, s) \/ (c.t = t /\ c.room = s)
      BY <3>4, <3>5, AppendFacts
    <3>7. Stays(Append(toServer, c), s, occupant) <=> Stays(toServer, s, occupant)
      BY <3>4, <3>5, AppendStays
    <3>8. \A t : Holds(toServer', t, s) => Holds(toServer, t, s) \/ t \in Ops
      BY <3>3, <3>4, <3>6 DEF Ops
    <3> QED
      BY <1>2, <1>3, <1>4, <1>5, <2>1, <2>2, <3>3, <3>5, <3>6, <3>7, <3>8, Untouched DEF Bound
  <2> QED
    BY <2>3, <2>4
<1> QED
  BY <1>6, <1>7

LEMMA ServerRooms ==
  ASSUME IInv, NEW m \in Requests, NEW s \in Rooms, s \notin crossed',
         ServeJoin(m) \/ ServeLeave(m) \/ ServeNick(m) \/ ServeIq(m)
  PROVE  RoomInv(s)'
<1>1. TypeOK /\ Reads(m) /\ m.room \in Rooms /\ toClient \in Seq(Stanzas)
  BY RequestParts DEF IInv, TypeOK, ServeJoin, ServeLeave, ServeNick, ServeIq
<1>2. RoomInv(s) /\ stale \subseteq stale'
  <2>1. RoomInv(s)
    BY DEF IInv, ServeJoin, ServeLeave, ServeNick, ServeIq, history
  <2>2. stale \subseteq stale'
    BY DEF ServeJoin, ServeLeave, ServeNick, ServeIq, history
  <2> QED
    BY <2>1, <2>2
<1>3. Once(toServer, s) /\ Once(toClient, s) /\ Listeners(s) \subseteq {Of(s)}
  BY <1>2 DEF RoomInv, Single
<1>4. /\ Once(toServer', s) /\ (Has(toServer', s) => Has(toServer, s))
      /\ About(m, s) => Has(toServer, s) /\ ~Has(toServer', s)
      /\ \A t : Holds(toServer', t, s) => Holds(toServer, t, s)
      /\ m.room = s => Holds(toServer, m.t, s)
      /\ m.t = "join" /\ m.room = s => (Bound(s) <=> Stays(toServer', s, occupant \union {s}))
      /\ m.t = "leave" /\ m.room = s => (Bound(s) <=> Stays(toServer', s, occupant \ {s}))
      /\ ~(m.t \in {"join", "leave"} /\ m.room = s) => (Bound(s) <=> Stays(toServer', s, occupant))
  BY <1>1, <1>3, ReadFacts
<1>5. UNCHANGED <<app, objects, maps>>
  BY DEF ServeJoin, ServeLeave, ServeNick, ServeIq
<1>6. Of(s)' = Of(s) /\ Listeners(s)' = Listeners(s) /\ newNick' = newNick
  BY <1>5 DEF app, objects, maps, Of, Listeners
\* An answer about s: nothing else is under way for s any more.
<1>7. ASSUME NEW n \in Stanzas, toClient' = Append(toClient, n), About(m, s)
      PROVE  /\ Single(s)' /\ ~Has(toServer', s) /\ ~Holds(toServer', "join", s) /\ ~Holds(toServer', "nick", s)
             /\ ~Holds(toClient, "refused", s)
             /\ Holds(toClient', "refused", s) <=> n.t = "refused" /\ n.room = s
  <2>1. ~Has(toClient, s) /\ ~Has(toServer', s)
    BY <1>2, <1>4, <1>7 DEF RoomInv, Single
  <2>2. /\ Once(toClient', s)
        /\ Holds(toClient', "refused", s) <=>
             Holds(toClient, "refused", s) \/ (n.t = "refused" /\ n.room = s)
    BY <1>1, <1>3, <1>7, <2>1, ReplyFacts
  <2>3. ~Holds(toClient, "refused", s) /\ ~Holds(toServer', "join", s) /\ ~Holds(toServer', "nick", s)
    BY <2>1, HoldsHas
  <2>4. Single(s)'
    BY <1>3, <1>4, <1>6, <2>1, <2>2 DEF Single
  <2> QED
    BY <2>1, <2>2, <2>3, <2>4
\* An answer that is not about s.
<1>8. ASSUME NEW n \in Stanzas, toClient' = Append(toClient, n), ~About(n, s)
      PROVE  /\ Once(toClient', s) /\ (Has(toClient', s) <=> Has(toClient, s))
             /\ Holds(toClient', "refused", s) <=> Holds(toClient, "refused", s)
  BY <1>1, <1>3, <1>8, ReplyFacts DEF About
<1>9. CASE ServeJoin(m)
  <2>1. PICK t \in Presences :
          /\ toClient' = Append(toClient, [t |-> t, room |-> m.room])
          /\ \/ occupant' = occupant \union {m.room} /\ t # "refused"
             \/ t = "refused" /\ m.room \notin occupant /\ occupant' = occupant
    <3>1. \A t \in Presences : toClient \o <<[t |-> t, room |-> m.room]>>
                               = Append(toClient, [t |-> t, room |-> m.room])
      BY <1>1, PresenceStanzas, Replied
    <3> QED
      BY <1>9, <3>1 DEF ServeJoin, Reply, Presences
  <2> DEFINE n == [t |-> t, room |-> m.room]
  <2>2. n \in Stanzas /\ n.t = t /\ n.room = m.room
    BY <1>1, PresenceStanzas
  <2>3. toClient' = Append(toClient, n) /\ m.t = "join"
    BY <1>9, <2>1 DEF ServeJoin
  <2> HIDE DEF n
  <2>4. CASE m.room # s
    <3>1. ~About(n, s)
      BY <2>2, <2>4 DEF About
    <3>2. Stays(toServer', s, occupant') <=> Stays(toServer', s, occupant)
      BY <2>1, <2>4 DEF Stays
    <3> QED
      BY <1>2, <1>4, <1>6, <1>8, <2>2, <2>3, <2>4, <3>1, <3>2, Untouched
  <2>5. CASE m.room = s
    <3>1. About(m, s)
      BY <2>3, <2>5 DEF About
    <3>2. /\ Single(s)' /\ ~Holds(toServer', "join", s) /\ ~Holds(toServer', "nick", s)
          /\ ~Holds(toClient, "refused", s)
          /\ Holds(toClient', "refused", s) <=> t = "refused"
      BY <1>7, <2>2, <2>3, <2>5, <3>1
    <3>3. CASE t = "refused"
      <4>1. Listeners(s) \intersect newNick = {}
        BY <1>2, <1>4, <2>3, <2>5 DEF RoomInv, Refusable
      <4>2. ~Bound(s)'
        BY <2>1, <2>5, <3>2, <3>3, NoStay DEF Bound
      <4> QED
        BY <1>6, <3>2, <3>3, <4>1, <4>2 DEF RoomInv, Refusable, Agrees
    <3>4. CASE t # "refused"
      <4>1. Bound(s)' <=> Bound(s)
        BY <1>4, <2>1, <2>3, <2>5, <3>4 DEF Bound
      <4>2. stale' = stale
        BY <1>9 DEF ServeJoin, history
      <4> QED
        BY <1>2, <1>6, <3>2, <3>4, <4>1, <4>2 DEF RoomInv, Refusable, Agrees
    <3> QED
      BY <3>3, <3>4
  <2> QED
    BY <2>4, <2>5
<1>10. CASE ServeLeave(m)
  <2> DEFINE n == [t |-> "gone", room |-> m.room]
  <2>1. n \in Stanzas /\ n.t = "gone"
    BY <1>1, PresenceStanzas DEF Presences
  <2>2. toClient' = toClient \/ toClient' = Append(toClient, n)
    BY <1>1, <1>10, <2>1, Replied DEF ServeLeave, Reply
  <2> HIDE DEF n
  <2>3. /\ Once(toClient', s) /\ (Has(toClient', s) <=> Has(toClient, s))
        /\ Holds(toClient', "refused", s) <=> Holds(toClient, "refused", s)
    BY <1>3, <1>8, <2>1, <2>2 DEF About
  <2>4. m.t = "leave" /\ occupant' = occupant \ {m.room}
    BY <1>10 DEF ServeLeave
  <2>5. Stays(toServer', s, occupant') <=> Bound(s)
    <3>1. CASE m.room = s
      BY <1>4, <2>4, <3>1
    <3>2. CASE m.room # s
      <4>1. Stays(toServer', s, occupant') <=> Stays(toServer', s, occupant)
        BY <2>4, <3>2 DEF Stays
      <4> QED
        BY <1>4, <3>2, <4>1
    <3> QED
      BY <3>1, <3>2
  <2> QED
    BY <1>2, <1>4, <1>6, <2>3, <2>5, Untouched
<1>11. CASE ServeNick(m)
  <2>1. PICK t \in {"nick", "refused"} : toClient' = Append(toClient, [t |-> t, room |-> m.room])
    <3>1. \A t \in {"nick", "refused"} : toClient \o <<[t |-> t, room |-> m.room]>>
                                         = Append(toClient, [t |-> t, room |-> m.room])
      BY <1>1, PresenceStanzas, Replied DEF Presences
    <3> QED
      BY <1>11, <3>1 DEF ServeNick, Reply
  <2> DEFINE n == [t |-> t, room |-> m.room]
  <2>2. n \in Stanzas /\ n.t = t /\ n.room = m.room
    BY <1>1, PresenceStanzas DEF Presences
  <2>3. toClient' = Append(toClient, n) /\ m.t = "nick" /\ occupant' = occupant /\ stale' = stale
    BY <1>11, <2>1 DEF ServeNick, history
  <2> HIDE DEF n
  <2>4. Stays(toServer', s, occupant') <=> Bound(s)
    BY <1>4, <2>3
  <2>5. CASE m.room # s
    <3>1. ~About(n, s)
      BY <2>2, <2>5 DEF About
    <3> QED
      BY <1>2, <1>4, <1>6, <1>8, <2>2, <2>3, <2>4, <3>1, Untouched
  <2>6. CASE m.room = s
    <3>1. About(m, s)
      BY <2>3, <2>6 DEF About
    <3>2. /\ Single(s)' /\ ~Holds(toServer', "join", s) /\ ~Holds(toServer', "nick", s)
          /\ ~Holds(toClient, "refused", s)
      BY <1>7, <2>2, <2>3, <3>1
    <3>3. Listeners(s) \subseteq newNick
      BY <1>2, <1>4, <2>3, <2>6 DEF RoomInv, Refusable
    <3>4. Bound(s)' <=> Bound(s)
      BY <2>4 DEF Bound
    <3> QED
      BY <1>2, <1>6, <2>3, <3>2, <3>3, <3>4 DEF RoomInv, Refusable, Agrees
  <2> QED
    BY <2>5, <2>6
<1>12. CASE ServeIq(m)
  <2>1. PICK ok \in BOOLEAN :
          /\ LET gone == ok /\ m.t = "destroy" /\ m.room \in occupant
                 ans  == <<[t |-> "iq", op |-> m.t, obj |-> m.obj, ok |-> ok]>>
             IN /\ Reply(IF gone THEN <<[t |-> "gone", room |-> m.room]>> \o ans ELSE ans)
                /\ stale' = IF gone THEN stale \union {m.room} ELSE stale
          /\ occupant' = IF ok /\ m.t = "destroy" THEN occupant \ {m.room} ELSE occupant
    BY <1>12 DEF ServeIq
  <2> DEFINE a == [t |-> "iq", op |-> m.t, obj |-> m.obj, ok |-> ok]
             n == [t |-> "gone", room |-> m.room]
  <2>2. m.t \in Ops /\ m.obj \in Objs
    BY <1>12, RequestParts DEF ServeIq
  <2>3. /\ a \in Stanzas /\ a.t = "iq" /\ n \in Stanzas /\ n.t = "gone"
    BY <1>1, <2>2, IqStanzas, PresenceStanzas DEF Presences
  <2>4. Reply(<<n>> \o <<a>>) \/ Reply(<<a>>)
    BY <2>1
  <2> HIDE DEF a, n
  <2>5. toClient' = Append(toClient, a) \/ toClient' = Append(Append(toClient, n), a)
    BY <1>1, <2>3, <2>4, Replied DEF Reply
  <2>6. /\ Once(toClient', s) /\ (Has(toClient', s) <=> Has(toClient, s))
        /\ Holds(toClient', "refused", s) <=> Holds(toClient, "refused", s)
    <3>1. ~About(a, s) /\ ~About(n, s)
      BY <2>3 DEF About
    <3>2. CASE toClient' = Append(toClient, a)
      BY <1>8, <2>3, <3>1, <3>2
    <3>3. CASE toClient' = Append(Append(toClient, n), a)
      <4> DEFINE q == Append(toClient, n)
      <4>1. q \in Seq(Stanzas)
        BY <1>1, <2>3, Appended
      <4>2. /\ Once(q, s) /\ (Has(q, s) <=> Has(toClient, s))
            /\ Holds(q, "refused", s) <=> Holds(toClient, "refused", s)
        BY <1>1, <1>3, <2>3, <3>1, AppendFacts
      <4>3. toClient' = Append(q, a)
        BY <3>3
      <4> HIDE DEF q
      <4> QED
        BY <2>3, <3>1, <4>1, <4>2, <4>3, AppendFacts
    <3> QED
      BY <2>5, <3>2, <3>3
  <2>7. Bound(s) <=> Stays(toServer', s, occupant)
    BY <1>4, <2>2 DEF Ops
  <2>8. Stays(toServer', s, occupant') => Bound(s)
    BY <2>1, <2>7, StaysLess
  <2>9. Bound(s) => Stays(toServer', s, occupant') \/ s \in stale'
    <3>1. CASE s \in occupant' <=> s \in occupant
      BY <2>7, <3>1 DEF Stays
    <3>2. CASE ~(s \in occupant' <=> s \in occupant)
      BY <2>1, <3>2
    <3> QED
      BY <3>1, <3>2
  <2> QED
    BY <1>2, <1>4, <1>6, <2>6, <2>8, <2>9, Untouched
<1> QED
  BY <1>9, <1>10, <1>11, <1>12

LEMMA NetworkRooms ==
  ASSUME IInv, NEW s \in Rooms, s \notin crossed', FileRoom \/ Kick \/ Drop \/ Reconnect
  PROVE  RoomInv(s)'
<1>1. TypeOK /\ toClient \in Seq(Stanzas)
  BY DEF IInv, TypeOK
<1>2. RoomInv(s)
  BY DEF IInv, FileRoom, Kick, Drop, Reconnect, history
<1>3. Once(toServer, s) /\ Once(toClient, s) /\ Listeners(s) \subseteq {Of(s)}
  BY <1>2 DEF RoomInv, Single
<1>4. UNCHANGED objects /\ Listeners(s)' = Listeners(s) /\ newNick' = newNick /\ roomOf' = roomOf
  BY DEF FileRoom, Kick, Drop, Reconnect, objects, Listeners
<1>5. Of(s)' = Of(s)
  <2>1. CASE FileRoom
    <3>1. pc # 0 /\ pc' = 0 /\ map' = [map EXCEPT ![roomOf[pc]] = pc]
      BY <2>1 DEF FileRoom
    <3> QED
      BY <1>1, <1>4, <3>1 DEF Of, TypeOK
  <2>2. CASE Kick \/ Drop \/ Reconnect
    BY <1>4, <2>2 DEF Kick, Drop, Reconnect, Of, app, maps
  <2> QED
    BY <2>1, <2>2
<1>6. CASE FileRoom \/ Reconnect
  <2>1. toServer' = toServer /\ toClient' = toClient /\ occupant' = occupant /\ stale' = stale
    BY <1>6 DEF FileRoom, Reconnect, net, service, history
  <2> QED
    BY <1>2, <1>3, <1>4, <1>5, <2>1, Untouched DEF Bound
<1>7. CASE Drop
  BY <1>3, <1>4, <1>5, <1>7, DownRoom DEF Drop
<1>8. CASE Kick
  <2>1. PICK r \in occupant : /\ occupant' = occupant \ {r} /\ stale' = stale \union {r}
                              /\ toClient' = Append(toClient, [t |-> "gone", room |-> r])
    BY <1>8 DEF Kick
  <2> DEFINE n == [t |-> "gone", room |-> r]
  <2>2. n \in Stanzas /\ n.t = "gone"
    BY <1>1, PresenceStanzas DEF TypeOK, Presences
  <2>3. toClient' = Append(toClient, n) /\ toServer' = toServer
    BY <1>8, <2>1 DEF Kick
  <2> HIDE DEF n
  <2>4. ~About(n, s)
    BY <2>2 DEF About
  <2>5. /\ Once(toClient', s) /\ (Has(toClient', s) <=> Has(toClient, s))
        /\ Holds(toClient', "refused", s) <=> Holds(toClient, "refused", s)
    BY <1>1, <1>3, <2>2, <2>3, <2>4, ReplyFacts
  <2>6. Stays(toServer', s, occupant') => Bound(s)
    BY <2>1, <2>3, StaysLess DEF Bound
  <2>7. Bound(s) => Stays(toServer', s, occupant') \/ s \in stale'
    BY <2>1, <2>3 DEF Bound, Stays
  <2> QED
    BY <1>2, <1>3, <1>4, <1>5, <2>1, <2>3, <2>5, <2>6, <2>7, Untouched
<1> QED
  BY <1>6, <1>7, <1>8

\* Without a connection nothing is under way.
LEMMA StepDown == IInv /\ [Next]_vars => Down'
<1> SUFFICES ASSUME IInv, [Next]_vars PROVE Down'
  OBVIOUS
<1>1. Down /\ stale \subseteq Rooms
  BY DEF IInv, TypeOK
<1>2. CASE UNCHANGED vars \/ Finished \/ FileRoom
  BY <1>1, <1>2 DEF vars, Finished, FileRoom, net, service, history, Down
<1>3. ASSUME NEW r \in Rooms,
             CreateRoom(r) \/ EnterKnown(r) \/ EnterNew(r) \/ ExitRoom(r) \/ Request(r) \/ ChangeNick(r)
      PROVE  Down'
  <2>1. up' = up /\ toClient' = toClient /\ (~up => toServer' = toServer)
    BY <1>3 DEF CreateRoom, EnterKnown, EnterNew, ExitRoom, Request, ChangeNick, Send, net
  <2>2. occupant' = occupant /\ stale' = stale
    BY <1>3 DEF CreateRoom, EnterKnown, EnterNew, ExitRoom, Request, ChangeNick, service, history
  <2> QED
    BY <1>1, <2>1, <2>2 DEF Down
<1>4. ASSUME NEW m \in Stanzas, HandleRefused(m) \/ HandleNew(m) \/ HandlePresence(m) \/ HandleIq(m)
      PROVE  Down'
  BY <1>1, <1>4 DEF HandleRefused, HandleNew, HandlePresence, HandleIq, Arrives, Down
<1>5. ASSUME NEW m \in Requests, ServeJoin(m) \/ ServeLeave(m) \/ ServeNick(m) \/ ServeIq(m)
      PROVE  Down'
  BY <1>1, <1>5 DEF ServeJoin, ServeLeave, ServeNick, ServeIq, Reads, Down
<1>6. CASE Kick
  BY <1>1, <1>6 DEF Kick, Down
<1>7. CASE Drop
  BY <1>7 DEF Drop, Down
<1>8. CASE Reconnect
  BY <1>8 DEF Reconnect, Down
<1> QED
  BY <1>2, <1>3, <1>4, <1>5, <1>6, <1>7, <1>8, UnderWay
     DEF IInv, Next, Application, Receiver, Server

LEMMA StepFiled == IInv /\ [Next]_vars => Filed'
<1> SUFFICES ASSUME IInv, [Next]_vars PROVE Filed'
  OBVIOUS
<1>1. Filed /\ TypeOK /\ \A r \in Rooms : map[r] # 0 => map[r] \in DOMAIN roomOf
  BY DEF IInv, TypeOK
<1>2. ASSUME NEW r \in Rooms, CreateRoom(r) \/ EnterNew(r)
      PROVE  Filed'
  <2>1. roomOf' = Append(roomOf, r) /\ Len(roomOf) < MaxObjs
        /\ (map' = map \/ map' = [map EXCEPT ![r] = Len(roomOf) + 1])
    BY <1>2 DEF CreateRoom, EnterNew, maps
  <2>2. /\ \A o \in DOMAIN roomOf : roomOf'[o] = roomOf[o]
        /\ roomOf'[Len(roomOf) + 1] = r
    BY <1>1, <2>1, NewObject
  <2> QED
    BY <1>1, <2>1, <2>2 DEF Filed, TypeOK
<1>3. CASE FileRoom
  <2>1. pc # 0 /\ map' = [map EXCEPT ![roomOf[pc]] = pc] /\ roomOf' = roomOf
    BY <1>3 DEF FileRoom, objects
  <2> QED
    BY <1>1, <2>1 DEF Filed, TypeOK
<1>4. CASE UNCHANGED <<map, roomOf>>
  BY <1>1, <1>4 DEF Filed
<1>5. \/ \E r \in Rooms : CreateRoom(r) \/ EnterNew(r)
      \/ FileRoom
      \/ UNCHANGED <<map, roomOf>>
  BY DEF Next, vars, maps, objects, Application, EnterKnown, ExitRoom, Request, ChangeNick,
         Receiver, HandleRefused, HandleNew, HandlePresence, HandleIq, Server, ServeJoin,
         ServeLeave, ServeNick, ServeIq, Kick, Drop, Reconnect, Finished
<1> QED
  BY <1>2, <1>3, <1>4, <1>5

LEMMA InitInvariant == Init => IInv
<1> SUFFICES ASSUME Init PROVE IInv
  OBVIOUS
<1>1. TypeOK
  BY InitTyped
<1>2. Down /\ Filed
  BY DEF Init, Down, Filed
<1>3. ASSUME NEW r \in Rooms PROVE RoomInv(r)
  <2>1. /\ ~Has(toServer, r) /\ Once(toServer, r) /\ \A t : ~Holds(toServer, t, r)
        /\ ~Has(toClient, r) /\ Once(toClient, r) /\ \A t : ~Holds(toClient, t, r)
    BY NothingUnderWay DEF Init
  <2>2. Listeners(r) = {} /\ ~Bound(r)
    BY DEF Init, Listeners, Bound, Stays
  <2> QED
    BY <2>1, <2>2 DEF RoomInv, Single, Refusable, Agrees
<1> QED
  BY <1>1, <1>2, <1>3 DEF IInv

LEMMA StepInvariant == IInv /\ [Next]_vars => IInv'
<1> SUFFICES ASSUME IInv, [Next]_vars PROVE IInv'
  OBVIOUS
<1>1. TypeOK' /\ Down' /\ Filed'
  BY StepTyped, StepDown, StepFiled DEF IInv
<1>2. ASSUME NEW s \in Rooms, s \notin crossed' PROVE RoomInv(s)'
  <2>1. CASE UNCHANGED vars \/ Finished
    <3>1. /\ UNCHANGED <<toServer, toClient, occupant, stale, crossed, joined, newNick, roomOf, pc, map>>
      BY <2>1 DEF Finished, vars, app, objects, maps, net, service, history
    <3>2. RoomInv(s) /\ Listeners(s)' = Listeners(s) /\ Of(s)' = Of(s)
      BY <1>2, <3>1 DEF IInv, Listeners, Of
    <3>3. Once(toServer, s) /\ Once(toClient, s)
      BY <3>2 DEF RoomInv, Single
    <3> QED
      BY <3>1, <3>2, <3>3, Untouched DEF Bound
  <2> QED
    BY <1>2, <2>1, UnderWay, ApplicationRooms, ReceiverRooms, ServerRooms, NetworkRooms
       DEF IInv, Next, Application, Receiver, Server
<1> QED
  BY <1>1, <1>2 DEF IInv

LEMMA AlwaysInvariant == Spec => []IInv
BY InitInvariant, StepInvariant, PTL DEF Spec

-----------------------------------------------------------------------------
(* The theorems.                                                           *)

\* This client is never left in a room that no object counts as joined: whatever is
\* refused, left, renamed or ended, when no two requests cross.
THEOREM NeverGhost == Spec => []NoGhost
<1>1. IInv => NoGhost
  <2> SUFFICES ASSUME IInv, Quiet, NEW r \in occupant \ crossed PROVE Joined(r)
    BY DEF NoGhost
  <2>1. Agrees(r)
    BY DEF IInv, RoomInv, TypeOK
  <2>2. Bound(r)
    BY DEF Quiet, Bound, Stays, Holds
  <2> QED
    BY <2>1, <2>2 DEF Agrees, Listeners, Joined
<1> QED
  BY <1>1, AlwaysInvariant, PTL

\* A room object that counts itself as joined is in its room, when nobody else has
\* ended the stay and no two requests crossed: a refusal reaches what it refuses.
THEOREM AlwaysJoinedIsIn == Spec => []JoinedIsIn
<1>1. IInv => JoinedIsIn
  <2> SUFFICES ASSUME IInv, Quiet, NEW r \in Rooms \ (stale \union crossed), Joined(r)
               PROVE  r \in occupant
    BY DEF JoinedIsIn
  <2>1. Agrees(r)
    BY DEF IInv, RoomInv
  <2>2. Listeners(r) # {} /\ ~Holds(toClient, "refused", r)
    BY DEF Joined, Listeners, Quiet, Holds
  <2>3. Bound(r)
    BY <2>1, <2>2 DEF Agrees
  <2> QED
    BY <2>3 DEF Quiet, Bound, Stays
<1> QED
  BY <1>1, AlwaysInvariant, PTL

-----------------------------------------------------------------------------
(* A created room is being configured, unless its form came too late.      *)

Coming(r) == Holds(toClient, "new", r) \/ Holds(toServer, "config", r)

\* A lost connection excuses every room, only locked rooms are raced, and
\* CreationInHand in terms of Holds.
Led(r) == srv[r] = "locked" => (Coming(r) <=> r \notin raced)
CInv == /\ ~up => excused = Rooms
        /\ \A r \in raced : srv[r] = "locked"
        /\ \A r \in Rooms \ excused : Led(r)

LEMMA ComingIsInHand ==
  ASSUME NEW r
  PROVE  InHand(r) <=> Coming(r)
BY DEF InHand, Coming, Holds, Range

LEMMA ComingIsInHandNext ==
  ASSUME NEW r
  PROVE  InHand(r)' <=> Coming(r)'
BY DEF InHand, Coming, Holds, Range

\* A room that is locked as before is led if what is under way for it is unchanged.
LEMMA StillLed ==
  ASSUME NEW r, Led(r), srv'[r] = "locked" => srv[r] = "locked",
         srv'[r] = "locked" => (Coming(r)' <=> Coming(r)) /\ (r \in raced' <=> r \in raced)
  PROVE  Led(r)'
BY DEF Led

LEMMA AskedMore ==
  ASSUME NEW q \in Seq(Requests), NEW m \in Requests, NEW s
  PROVE  Holds(Append(q, m), "config", s) <=> Holds(q, "config", s) \/ (m.t = "config" /\ m.room = s)
BY AppendFacts

LEMMA ComesMore ==
  ASSUME NEW q \in Seq(Stanzas), NEW m \in Stanzas, NEW s
  PROVE  Holds(Append(q, m), "new", s) <=> Holds(q, "new", s) \/ (m.t = "new" /\ m.room = s)
BY AppendFacts

LEMMA AsksStill ==
  ASSUME TypeOK, NEW m \in Requests, Reads(m), NEW s
  PROVE  Holds(toServer, "config", s) <=> Holds(toServer', "config", s) \/ (m.t = "config" /\ m.room = s)
<1>1. toServer \in Seq(Requests) /\ toServer # <<>> /\ m = Head(toServer) /\ toServer' = Tail(toServer)
  BY DEF TypeOK, Reads
<1>2. Holds(toServer, "config", s) <=>
        Holds(Tail(toServer), "config", s) \/ (Head(toServer).t = "config" /\ Head(toServer).room = s)
  BY <1>1, TailFacts
<1> QED
  BY <1>1, <1>2

LEMMA ComesStill ==
  ASSUME TypeOK, NEW m \in Stanzas, Arrives(m), NEW s
  PROVE  Holds(toClient, "new", s) <=> Holds(toClient', "new", s) \/ (m.t = "new" /\ m.room = s)
<1>1. toClient \in Seq(Stanzas) /\ toClient # <<>> /\ m = Head(toClient) /\ toClient' = Tail(toClient)
  BY DEF TypeOK, Arrives
<1>2. Holds(toClient, "new", s) <=>
        Holds(Tail(toClient), "new", s) \/ (Head(toClient).t = "new" /\ Head(toClient).room = s)
  BY <1>1, TailFacts
<1> QED
  BY <1>1, <1>2

LEMMA InitInHand == Init => CInv
BY DEF Init, CInv, Led

LEMMA ApplicationInHand ==
  ASSUME IInv, CInv, NEW r \in Rooms,
         CreateRoom(r) \/ EnterKnown(r) \/ EnterNew(r) \/ ExitRoom(r) \/ Request(r) \/ ChangeNick(r)
  PROVE  CInv'
<1>1. TypeOK /\ toServer \in Seq(Requests)
  BY DEF IInv, TypeOK
<1>2. UNCHANGED <<up, toClient, srv, excused, raced>>
  BY DEF CreateRoom, EnterKnown, EnterNew, ExitRoom, Request, ChangeNick, Send, net, service, history
<1>3. \/ toServer' = toServer
      \/ \E m \in Requests : m.t # "config" /\ toServer' = Append(toServer, m)
  <2>1. ASSUME NEW m \in Requests, Send(m), m.t # "config"
        PROVE  \/ toServer' = toServer
               \/ \E n \in Requests : n.t # "config" /\ toServer' = Append(toServer, n)
    BY <2>1 DEF Send
  <2>2. CASE Request(r)
    <3>1. PICK op \in NeedsJoined \union {"destroy"} : Send([t |-> op, room |-> r, obj |-> map[r]])
      BY <2>2 DEF Request
    <3>2. map[r] \in Objs /\ op \in Ops /\ op # "config"
      BY <1>1, <2>2, RoomsOfObjs DEF Request, TypeOK, NeedsJoined, Ops
    <3>3. [t |-> op, room |-> r, obj |-> map[r]] \in Requests
      BY <3>2, ObjRequests
    <3> QED
      BY <2>1, <3>1, <3>2, <3>3
  <2>3. CASE EnterKnown(r) /\ UNCHANGED net
    BY <2>3 DEF net
  <2>4. ASSUME NEW t \in {"join", "leave", "nick"}, Send([t |-> t, room |-> r])
        PROVE  \/ toServer' = toServer
               \/ \E n \in Requests : n.t # "config" /\ toServer' = Append(toServer, n)
    <3>1. [t |-> t, room |-> r] \in Requests
      BY RoomRequests
    <3> QED
      BY <2>1, <2>4, <3>1
  <2> QED
    BY <2>2, <2>3, <2>4 DEF CreateRoom, EnterKnown, EnterNew, ExitRoom, ChangeNick
<1>4. ASSUME NEW s \in Rooms PROVE Holds(toServer', "config", s) <=> Holds(toServer, "config", s)
  <2>1. CASE toServer' = toServer
    BY <2>1
  <2>2. ASSUME NEW m \in Requests, m.t # "config", toServer' = Append(toServer, m)
        PROVE  Holds(toServer', "config", s) <=> Holds(toServer, "config", s)
    BY <1>1, <2>2, AskedMore
  <2> QED
    BY <1>3, <2>1, <2>2
<1>5. ASSUME NEW s \in Rooms PROVE Coming(s)' <=> Coming(s)
  BY <1>2, <1>4 DEF Coming
<1> QED
  BY <1>2, <1>5, StillLed DEF CInv

\* The room object that hears of the new room submits the form, if createMUCRoom() has
\* filed it by then; if not the room is raced, unless more is under way for it.
LEMMA ReceiverInHand ==
  ASSUME IInv, CInv, NEW m \in Stanzas,
         HandleRefused(m) \/ HandleNew(m) \/ HandlePresence(m) \/ HandleIq(m)
  PROVE  CInv'
<1>1. TypeOK /\ Down /\ toClient \in Seq(Stanzas) /\ toServer \in Seq(Requests)
  BY DEF IInv, TypeOK
<1>2. toClient # <<>> /\ m = Head(toClient) /\ toClient' = Tail(toClient)
  BY DEF HandleRefused, HandleNew, HandlePresence, HandleIq, Arrives
<1>3. up /\ up' = up /\ srv' = srv
  BY <1>1, <1>2 DEF Down, HandleRefused, HandleNew, HandlePresence, HandleIq, service
<1>4. \A s : Holds(toClient, "new", s) <=> Holds(toClient', "new", s) \/ (m.t = "new" /\ m.room = s)
  BY <1>1, ComesStill DEF HandleRefused, HandleNew, HandlePresence, HandleIq
<1>5. CASE ~HandleNew(m)
  <2>1. m.t # "new" /\ UNCHANGED <<toServer, excused, raced>>
    BY <1>5 DEF HandleRefused, HandlePresence, HandleIq
  <2>2. \A s : Coming(s)' <=> Coming(s)
    BY <1>4, <2>1 DEF Coming
  <2> QED
    BY <1>3, <2>1, <2>2, StillLed DEF CInv
<1>6. CASE HandleNew(m)
  <2>1. m.room \in Rooms /\ m.t = "new"
    BY <1>6, StanzaParts DEF HandleNew, Presences
  <2>2. Coming(m.room) /\ \A s : s # m.room => (Holds(toClient', "new", s) <=> Holds(toClient, "new", s))
    BY <1>4, <2>1 DEF Coming
  <2>3. m.room \notin excused /\ srv[m.room] = "locked" => m.room \notin raced
    BY <2>1, <2>2 DEF CInv, Led
  <2> DEFINE heard == Listeners(m.room)
             c     == [t |-> "config", room |-> m.room, obj |-> Min(heard)]
             files == heard # {} /\ map[m.room] # 0 /\ m.room \in form
  <2>4. CASE files
    <3>1. toServer' = Append(toServer, c) /\ UNCHANGED <<excused, raced>>
      BY <1>3, <1>6, <2>4 DEF HandleNew
    <3>2. heard \subseteq Objs /\ heard \subseteq Nat
      BY <1>1, RoomsOfObjs
    <3>3. Min(heard) \in Objs
      BY <2>4, <3>2, MinOfObjs
    <3>4. c \in Requests /\ c.t = "config" /\ c.room = m.room
      BY <2>1, <3>3, ObjRequests DEF Ops
    <3> HIDE DEF c, heard, files
    <3>5. \A s : Holds(toServer', "config", s) <=> Holds(toServer, "config", s) \/ m.room = s
      BY <1>1, <3>1, <3>4, AskedMore
    <3>6. Coming(m.room)' /\ \A s : s # m.room => (Coming(s)' <=> Coming(s))
      BY <2>2, <3>5 DEF Coming
    <3>7. Led(m.room)' \/ m.room \in excused
      BY <1>3, <2>3, <3>1, <3>6 DEF Led
    <3>8. \A s \in Rooms \ excused : s # m.room => Led(s)'
      BY <1>3, <3>1, <3>6, StillLed DEF CInv
    <3> QED
      BY <1>3, <3>1, <3>7, <3>8 DEF CInv
  <2>5. CASE ~files
    <3>1. /\ toServer' = toServer
          /\ excused' = IF BeingMade(m.room) THEN excused ELSE excused \union {m.room}
          /\ raced' = IF BeingMade(m.room) /\ srv[m.room] = "locked" /\ ~Coming(m.room)'
                      THEN raced \union {m.room} ELSE raced
      BY <1>6, <2>5, ComingIsInHandNext DEF HandleNew
    <3>2. \A s : s # m.room => (Coming(s)' <=> Coming(s)) /\ (s \in raced' <=> s \in raced)
      BY <2>2, <3>1 DEF Coming
    <3>3. Led(m.room)' \/ m.room \in excused'
      BY <1>3, <2>1, <2>3, <3>1 DEF Led
    <3>4. \A s \in Rooms \ excused : s # m.room => Led(s)'
      BY <1>3, <3>2, StillLed DEF CInv
    <3>5. \A s \in raced' : srv'[s] = "locked"
      BY <1>3, <3>1 DEF CInv
    <3>6. excused \subseteq excused'
      BY <3>1
    <3> QED
      BY <1>3, <3>3, <3>4, <3>5, <3>6 DEF CInv
  <2> QED
    BY <2>4, <2>5
<1> QED
  BY <1>5, <1>6

\* The service locks a room only with the word that it is new, and unlocks it with the
\* configuration.
LEMMA ServerInHand ==
  ASSUME IInv, CInv, NEW m \in Requests, ServeJoin(m) \/ ServeLeave(m) \/ ServeNick(m) \/ ServeIq(m)
  PROVE  CInv'
<1>1. TypeOK /\ toClient \in Seq(Stanzas) /\ toServer \in Seq(Requests) /\ srv \in [Rooms -> {"none", "locked", "open"}]
  BY DEF IInv, TypeOK
<1>2. m.room \in Rooms /\ up' = up
  BY RequestParts DEF ServeJoin, ServeLeave, ServeNick, ServeIq, Reads
<1>3. ASSUME NEW s
      PROVE  Holds(toServer, "config", s) <=> Holds(toServer', "config", s) \/ (m.t = "config" /\ m.room = s)
  BY <1>1, AsksStill DEF ServeJoin, ServeLeave, ServeNick, ServeIq
<1>4. ASSUME NEW n \in Stanzas, NEW s
      PROVE  /\ toClient \o <<>> = toClient /\ toClient \o <<n>> = Append(toClient, n)
             /\ Holds(toClient \o <<n>>, "new", s) <=> Holds(toClient, "new", s) \/ (n.t = "new" /\ n.room = s)
  <2>1. toClient \o <<>> = toClient /\ toClient \o <<n>> = Append(toClient, n)
    BY <1>1, Replied
  <2>2. Holds(Append(toClient, n), "new", s) <=> Holds(toClient, "new", s) \/ (n.t = "new" /\ n.room = s)
    BY <1>1, ComesMore
  <2> QED
    BY <2>1, <2>2
<1>5. CASE ServeJoin(m)
  <2>1. m.t = "join" /\ UNCHANGED <<excused, raced>>
    BY <1>5 DEF ServeJoin, history
  <2>2. PICK t \in {"new", "self", "refused"} :
          /\ toClient' = toClient \o <<[t |-> t, room |-> m.room]>>
          /\ \/ t # "new" /\ srv' = srv
             \/ t = "new" /\ srv[m.room] = "none" /\ srv' = [srv EXCEPT ![m.room] = "locked"]
    <3>1. CASE m.room \notin occupant /\ Reply(<<[t |-> "refused", room |-> m.room]>>) /\ UNCHANGED <<srv, occupant>>
      BY <3>1 DEF Reply
    <3>2. CASE /\ srv' = [srv EXCEPT ![m.room] = IF @ = "none" THEN "locked" ELSE @]
               /\ Reply(<<[t |-> IF srv[m.room] = "none" THEN "new" ELSE "self", room |-> m.room]>>)
      <4>1. CASE srv[m.room] = "none"
        BY <3>2, <4>1 DEF Reply
      <4>2. CASE srv[m.room] # "none"
        <5>1. srv' = srv
          BY <1>1, <1>2, <3>2, <4>2
        <5> QED
          BY <3>2, <4>2, <5>1 DEF Reply
      <4> QED
        BY <4>1, <4>2
    <3> QED
      BY <1>5, <3>1, <3>2 DEF ServeJoin
  <2> DEFINE n == [t |-> t, room |-> m.room]
  <2>3. n \in Stanzas /\ n.t = t /\ n.room = m.room
    BY <1>2, PresenceStanzas DEF Presences
  <2>4. \A s : Holds(toClient', "new", s) <=> Holds(toClient, "new", s) \/ (t = "new" /\ m.room = s)
    BY <1>4, <2>2, <2>3
  <2>5. \A s : Coming(s)' <=> Coming(s) \/ (t = "new" /\ m.room = s)
    BY <1>3, <2>1, <2>4 DEF Coming
  <2>6. ASSUME NEW s \in Rooms \ excused PROVE Led(s)'
    <3>1. CASE t = "new" /\ s = m.room
      <4>1. s \notin raced
        BY <2>2, <3>1 DEF CInv
      <4> QED
        BY <2>1, <2>5, <3>1, <4>1 DEF Led
    <3>2. CASE ~(t = "new" /\ s = m.room)
      <4>1. srv'[s] = srv[s]
        BY <1>1, <2>2, <3>2
      <4> QED
        BY <2>1, <2>5, <3>2, <4>1, StillLed DEF CInv
    <3> QED
      BY <3>1, <3>2
  <2>7. \A s \in raced' : srv'[s] = "locked"
    <3> SUFFICES ASSUME NEW s \in raced PROVE srv'[s] = "locked"
      BY <2>1
    <3>1. srv[s] = "locked" /\ s \in Rooms
      BY <1>1 DEF CInv, TypeOK
    <3> QED
      BY <1>1, <2>2, <3>1
  <2> QED
    BY <1>2, <2>1, <2>6, <2>7 DEF CInv
<1>6. CASE ServeLeave(m)
  <2>1. m.t = "leave" /\ excused' = excused /\ srv' = [srv EXCEPT ![m.room] = Vacated(m.room)] /\ Settles
    BY <1>6 DEF ServeLeave
  <2>2. ASSUME NEW s PROVE Holds(toClient, "new", s) <=> Holds(toClient', "new", s)
    <3> DEFINE n == [t |-> "gone", room |-> m.room]
    <3>1. n \in Stanzas /\ n.t # "new"
      BY <1>2, PresenceStanzas DEF Presences
    <3>2. toClient' = toClient \/ toClient' = toClient \o <<n>>
      BY <1>4, <1>6, <3>1 DEF ServeLeave, Reply
    <3> HIDE DEF n
    <3> QED
      BY <1>4, <3>1, <3>2
  <2>3. \A s \in Rooms : srv'[s] = "locked" => srv[s] = "locked"
    BY <1>1, <2>1 DEF Vacated
  <2>4. \A s : Coming(s)' <=> Coming(s)
    BY <1>3, <2>1, <2>2 DEF Coming
  <2>5. /\ \A s \in raced' : srv'[s] = "locked"
        /\ \A s : srv'[s] = "locked" => (s \in raced' <=> s \in raced)
    BY <2>1 DEF Settles
  <2> QED
    BY <1>2, <2>1, <2>3, <2>4, <2>5, StillLed DEF CInv
<1>7. CASE ServeNick(m)
  <2>1. m.t = "nick" /\ UNCHANGED <<excused, raced>> /\ srv' = srv
    BY <1>7 DEF ServeNick, history
  <2>2. ASSUME NEW s PROVE Holds(toClient, "new", s) <=> Holds(toClient', "new", s)
    <3>1. PICK t \in {"nick", "refused"} : toClient' = toClient \o <<[t |-> t, room |-> m.room]>>
      BY <1>7 DEF ServeNick, Reply
    <3> DEFINE n == [t |-> t, room |-> m.room]
    <3>2. n \in Stanzas /\ n.t # "new"
      BY <1>2, PresenceStanzas DEF Presences
    <3> QED
      BY <1>4, <3>1, <3>2
  <2>3. \A s : Coming(s)' <=> Coming(s)
    BY <1>3, <2>1, <2>2 DEF Coming
  <2> QED
    BY <1>2, <2>1, <2>3, StillLed DEF CInv
<1>8. CASE ServeIq(m)
  <2>1. PICK ok \in BOOLEAN :
          /\ LET gone == ok /\ m.t = "destroy" /\ m.room \in occupant
                 ans  == <<[t |-> "iq", op |-> m.t, obj |-> m.obj, ok |-> ok]>>
             IN Reply(IF gone THEN <<[t |-> "gone", room |-> m.room]>> \o ans ELSE ans)
          /\ \/ ok /\ m.t = "destroy" /\ srv' = [srv EXCEPT ![m.room] = "none"]
             \/ ok /\ m.t = "config" /\ srv' = [srv EXCEPT ![m.room] = "open"]
             \/ ~(ok /\ m.t \in {"destroy", "config"}) /\ srv' = srv
          /\ excused' = IF ~ok /\ m.t = "config" THEN excused \union {m.room} ELSE excused
    BY <1>8 DEF ServeIq
  <2>2. m.t \in Ops /\ m.obj \in Objs /\ Settles
    BY <1>8, RequestParts DEF ServeIq
  <2> DEFINE a == [t |-> "iq", op |-> m.t, obj |-> m.obj, ok |-> ok]
             n == [t |-> "gone", room |-> m.room]
  <2>3. a \in Stanzas /\ n \in Stanzas /\ a.t # "new" /\ n.t # "new"
    BY <1>2, <2>2, IqStanzas, PresenceStanzas DEF Presences
  <2>4. toClient' = toClient \o (<<n>> \o <<a>>) \/ toClient' = toClient \o <<a>>
    BY <2>1 DEF Reply
  <2> HIDE DEF a, n
  <2>5. toClient' = Append(toClient, a) \/ toClient' = Append(Append(toClient, n), a)
    <3>1. toClient \o <<a>> = Append(toClient, a) /\ toClient \o (<<n>> \o <<a>>) = Append(Append(toClient, n), a)
      BY <1>1, <2>3, Replied
    <3> QED
      BY <2>4, <3>1
  <2>6. ASSUME NEW s PROVE Holds(toClient, "new", s) <=> Holds(toClient', "new", s)
    <3>1. Append(toClient, n) \in Seq(Stanzas)
      BY <1>1, <2>3, Appended
    <3>2. \A q \in Seq(Stanzas), x \in {a, n} : Holds(q, "new", s) <=> Holds(Append(q, x), "new", s)
      BY <2>3, ComesMore
    <3>3. \A q \in Seq(Stanzas) : (Holds(q, "new", s) <=> Holds(Append(q, a), "new", s))
      BY <3>2
    <3>4. Holds(toClient, "new", s) <=> Holds(Append(toClient, n), "new", s)
      BY <1>1, <3>2
    <3>5. Holds(toClient, "new", s) <=> Holds(Append(Append(toClient, n), a), "new", s)
      BY <3>1, <3>3, <3>4
    <3>6. Holds(toClient, "new", s) <=> Holds(Append(toClient, a), "new", s)
      BY <1>1, <3>3
    <3> QED
      BY <2>5, <3>5, <3>6
  <2>7. \A s \in Rooms : srv'[s] = "locked" => srv[s] = "locked"
    BY <1>1, <2>1
  <2>8. \A s \in Rooms \ excused' : m.t = "config" /\ m.room = s => srv'[s] # "locked"
    BY <1>1, <1>2, <2>1
  <2>9. excused \subseteq excused'
    BY <2>1
  <2>10. ~up' => excused' = Rooms
    <3>1. ~up => excused = Rooms
      BY DEF CInv
    <3> QED
      BY <1>2, <2>1, <3>1
  <2>11. /\ \A s \in raced' : srv'[s] = "locked"
         /\ \A s : srv'[s] = "locked" => (s \in raced' <=> s \in raced)
    BY <2>2 DEF Settles
  <2>12. ASSUME NEW s \in Rooms \ excused' PROVE Led(s)'
    <3>1. srv'[s] = "locked" => (Coming(s)' <=> Coming(s))
      BY <1>3, <2>6, <2>8 DEF Coming
    <3> QED
      BY <2>7, <2>9, <2>11, <3>1, StillLed DEF CInv
  <2> QED
    BY <2>10, <2>11, <2>12 DEF CInv
<1> QED
  BY <1>5, <1>6, <1>7, <1>8

LEMMA NetworkInHand ==
  ASSUME IInv, CInv, FileRoom \/ Kick \/ Drop \/ Reconnect
  PROVE  CInv'
<1>1. TypeOK /\ toClient \in Seq(Stanzas) /\ srv \in [Rooms -> {"none", "locked", "open"}]
  BY DEF IInv, TypeOK
<1>2. CASE FileRoom \/ Reconnect
  <2>1. UNCHANGED <<toServer, toClient, srv, excused, raced>> /\ (up => up')
    BY <1>2 DEF FileRoom, Reconnect, net, service, history
  <2>2. \A s : Coming(s)' <=> Coming(s)
    BY <2>1 DEF Coming
  <2> QED
    BY <2>1, <2>2, StillLed DEF CInv
<1>3. CASE Drop
  BY <1>3 DEF Drop, CInv, Settles
<1>4. CASE Kick
  <2>1. PICK r \in occupant : /\ srv' = [srv EXCEPT ![r] = Vacated(r)]
                              /\ toClient' = Append(toClient, [t |-> "gone", room |-> r])
    BY <1>4 DEF Kick
  <2>2. UNCHANGED <<up, toServer, excused>> /\ Settles
    BY <1>4 DEF Kick
  <2>3. [t |-> "gone", room |-> r] \in Stanzas
    BY <1>1, PresenceStanzas DEF TypeOK, Presences
  <2>4. \A s : Holds(toClient', "new", s) <=> Holds(toClient, "new", s)
    BY <1>1, <2>1, <2>3, ComesMore
  <2>5. \A s \in Rooms : srv'[s] = "locked" => srv[s] = "locked"
    BY <1>1, <2>1 DEF Vacated
  <2>6. \A s : Coming(s)' <=> Coming(s)
    BY <2>2, <2>4 DEF Coming
  <2>7. /\ \A s \in raced' : srv'[s] = "locked"
        /\ \A s : srv'[s] = "locked" => (s \in raced' <=> s \in raced)
    BY <2>2 DEF Settles
  <2> QED
    BY <2>2, <2>5, <2>6, <2>7, StillLed DEF CInv
<1> QED
  BY <1>2, <1>3, <1>4

LEMMA StepInHand == IInv /\ CInv /\ [Next]_vars => CInv'
<1> SUFFICES ASSUME IInv, CInv, [Next]_vars PROVE CInv'
  OBVIOUS
<1>1. CASE UNCHANGED vars \/ Finished
  <2>1. UNCHANGED <<up, toServer, toClient, srv, excused, raced>>
    BY <1>1 DEF Finished, vars, net, service, history
  <2>2. \A s : Coming(s)' <=> Coming(s)
    BY <2>1 DEF Coming
  <2> QED
    BY <2>1, <2>2, StillLed DEF CInv
<1> QED
  BY <1>1, UnderWay, ApplicationInHand, ReceiverInHand, ServerInHand, NetworkInHand
     DEF IInv, Next, Application, Receiver, Server

\* Whatever the order of the presence and of createMUCRoom(), a created room that is
\* still locked is being configured, by the word that it is new or by its configuration
\* under way, unless that word came before the form was filed, and then it never is
\* while it stays locked.  No interleaving of calls, refusals, kicks and lost
\* connections loses a creation in any other manner.
THEOREM CreatedInHand == Spec => []CreationInHand
<1>1. CInv => CreationInHand
  BY ComingIsInHand DEF CInv, Led, CreationInHand
<1>2. Spec => []CInv
  BY InitInHand, StepInHand, AlwaysInvariant, PTL DEF Spec
<1> QED
  BY <1>1, <1>2, PTL

=============================================================================
