------------------------------- MODULE MucRooms -------------------------------
(***************************************************************************)
(* Multi-user chat rooms: the room objects of kl::XmppStack, what they     *)
(* believe, and what the chat service knows of this client.                *)
(*                                                                         *)
(* A room object (kl::MUCRoom when createMUCRoom() made it, gloox::MUCRoom *)
(* when enterMUCRoom() did) is never deleted while the stack lives, and    *)
(* m_mUCRoomMap holds the latest one of a room.  While m_joined is set the *)
(* object is registered for the presence of its room, so m_joined stands   *)
(* for the registration too.  The application makes one call at a time and *)
(* the receiver handles one stanza at a time; the two interleave.          *)
(***************************************************************************)
EXTENDS Naturals, FiniteSets, SequencesExt

CONSTANTS
  Rooms,     \* the rooms
  MaxObjs,   \* bound: room objects made
  MaxCalls,  \* bound: calls of the application
  MaxEnds    \* bound: stays ended by others, by the service or with the connection

ASSUME RoomsAssumption == MaxObjs \in Nat /\ MaxCalls \in Nat /\ MaxEnds \in Nat

Objs == 1..MaxObjs

\* The IQs a room object sends: "set" stands for the member list, roles and
\* affiliations, "get" for a list or the configuration.  The presences the service
\* sends about this client: "new" creates the room, "self" and "gone" enter and
\* leave it, "nick" grants a nickname, "refused" is an error.
Ops       == {"config", "destroy", "owners", "set", "get"}
Presences == {"new", "self", "gone", "nick", "refused"}

VARIABLES
  roomOf,    \* per object: its room, for the objects made so far
  own,       \* the objects of class kl::MUCRoom
  joined,    \* the objects with m_joined
  newNick,   \* the objects with a non-empty m_newNick
  map,       \* m_mUCRoomMap: per room, its object or 0
  form,      \* m_createMUCRoomTrackMap: the rooms with a form to submit
  pc,        \* the object createMUCRoom() has made and not yet filed, or 0
  calls,
  up,        \* the connection is StateConnected
  toServer, toClient,  \* stanzas under way
  srv,       \* per room: "none", "locked" until it is configured, or "open"
  occupant,  \* the rooms this client is in
  ends,
  answered, told,  \* history, per operation: IQs of kl::MUCRoom that have been
                   \* answered and have a callback, and how often they were told
  want,      \* history: the rooms entered since the listener last saw them end
  stale,     \* history: rooms whose stay was ended by others
  crossed,   \* history: rooms asked for again before an earlier answer was in
  excused,   \* history: rooms nobody is bound to configure
  raced      \* history: locked rooms that were told to be new before createMUCRoom()
             \* had filed the form

app     == <<calls, pc>>
objects == <<roomOf, own, joined, newNick>>
maps    == <<map, form>>
net     == <<up, toServer, toClient>>
service == <<srv, occupant, ends>>
history == <<answered, told, want, stale, crossed, excused, raced>>
vars    == <<app, objects, maps, net, service, history>>

Requests == [t : {"join", "leave", "nick"}, room : Rooms] \union
            [t : Ops, room : Rooms, obj : Objs]
Stanzas  == [t : Presences, room : Rooms] \union
            [t : {"iq"}, op : Ops, obj : Objs, ok : BOOLEAN]

TypeOK ==
  /\ roomOf \in Seq(Rooms) /\ Len(roomOf) <= MaxObjs
  /\ own \union joined \union newNick \subseteq DOMAIN roomOf
  /\ map \in [Rooms -> DOMAIN roomOf \union {0}] /\ pc \in DOMAIN roomOf \union {0}
  /\ form \subseteq Rooms /\ up \in BOOLEAN
  /\ toServer \in Seq(Requests) /\ toClient \in Seq(Stanzas)
  /\ srv \in [Rooms -> {"none", "locked", "open"}] /\ occupant \subseteq Rooms
  /\ answered \in [Ops -> Nat] /\ told \in [Ops -> Nat]
  /\ want \union stale \union crossed \union excused \union raced \subseteq Rooms
  /\ calls \in 0..MaxCalls /\ ends \in 0..MaxEnds

Init ==
  /\ roomOf = <<>> /\ own = {} /\ joined = {} /\ newNick = {}
  /\ map = [r \in Rooms |-> 0] /\ form = {} /\ pc = 0
  /\ calls = 0 /\ ends = 0
  /\ up = TRUE /\ toServer = <<>> /\ toClient = <<>>
  /\ srv \in [Rooms -> {"none", "open"}] /\ occupant = {}
  /\ answered = [op \in Ops |-> 0] /\ told = [op \in Ops |-> 0]
  /\ want = {} /\ stale = {} /\ crossed = {} /\ excused = {} /\ raced = {}

-----------------------------------------------------------------------------
(* The application.                                                        *)

\* ClientBase::send(): dropped when the connection is down.
Send(m) == /\ toServer' = IF up THEN Append(toServer, m) ELSE toServer
           /\ UNCHANGED <<up, toClient>>

\* The answer to an earlier request to enter the room, or for a nickname in it, is
\* still to come.  Such a request crosses it, and so does one made while another
\* object is in the room, or with an m_newNick left by an earlier stay.
Pending(r) ==
  \/ \E m \in Range(toServer) : m.t \in {"join", "nick"} /\ m.room = r
  \/ \E m \in Range(toClient) : m.t \in Presences \ {"gone"} /\ m.room = r
Crosses(r, busy) == crossed' = IF busy \/ Pending(r) THEN crossed \union {r} ELSE crossed
Enters(r, busy)  == /\ Crosses(r, busy)
                    /\ want' = IF up THEN want \union {r} ELSE want

Joined(r) == \E o \in joined : roomOf[o] = r

Call == pc = 0 /\ calls < MaxCalls /\ calls' = calls + 1

\* createMUCRoom(): the object joins the room ...
CreateRoom(r) ==
  /\ Call /\ Len(roomOf) < MaxObjs
  /\ LET o == Len(roomOf) + 1 IN
     /\ roomOf' = Append(roomOf, r) /\ own' = own \union {o}
     /\ joined' = joined \union {o} /\ pc' = o
  /\ Send([t |-> "join", room |-> r])
  /\ Enters(r, Joined(r))
  /\ UNCHANGED <<newNick, maps, service, answered, told, stale, excused, raced>>

\* ... and is filed with its form.
FileRoom ==
  /\ pc # 0
  /\ map' = [map EXCEPT ![roomOf[pc]] = pc] /\ form' = form \union {roomOf[pc]}
  /\ pc' = 0
  /\ UNCHANGED <<calls, objects, net, service, history>>

\* enterMUCRoom(): with the object of the room, or with a new one.
EnterKnown(r) ==
  /\ Call /\ map[r] # 0
  /\ IF map[r] \in joined THEN UNCHANGED net ELSE Send([t |-> "join", room |-> r])
  /\ joined' = joined \union {map[r]}
  /\ Enters(r, map[r] \in newNick)
  /\ UNCHANGED <<pc, roomOf, own, newNick, maps, service, answered, told, stale,
                 excused, raced>>

EnterNew(r) ==
  /\ Call /\ map[r] = 0 /\ Len(roomOf) < MaxObjs
  /\ LET o == Len(roomOf) + 1 IN
     /\ roomOf' = Append(roomOf, r) /\ joined' = joined \union {o}
     /\ map' = [map EXCEPT ![r] = o]
  /\ Send([t |-> "join", room |-> r])
  /\ Enters(r, FALSE)
  /\ UNCHANGED <<pc, own, newNick, form, service, answered, told, stale, excused, raced>>

\* Mutant of ExitRoom: the object leaves without a word to the service.
ExitRoomSilent(r) ==
  /\ Call /\ map[r] \in joined
  /\ joined' = joined \ {map[r]} /\ want' = want \ {r}
  /\ UNCHANGED <<pc, roomOf, own, newNick, maps, net, service, answered, told, stale,
                 crossed, excused, raced>>

\* exitMUCRoom(): MUCRoom::leave() sends the presence, removes the presence handler,
\* disposes of the session and clears m_joined; one step for the four.
ExitRoom(r) ==
  /\ Call /\ map[r] \in joined
  /\ Send([t |-> "leave", room |-> r])
  /\ joined' = joined \ {map[r]} /\ want' = want \ {r}
  /\ UNCHANGED <<pc, roomOf, own, newNick, maps, service, answered, told, stale,
                 crossed, excused, raced>>

\* What an object asks only with m_joined; destroyMUCRoom() asks nothing of it.
NeedsJoined == {"owners", "set", "get"}

Request(r) ==
  /\ Call /\ map[r] # 0
  /\ \E op \in NeedsJoined \union {"destroy"} :
       /\ op \in NeedsJoined => map[r] \in joined
       /\ Send([t |-> op, room |-> r, obj |-> map[r]])
  /\ UNCHANGED <<pc, objects, maps, service, history>>

\* changeSelfNicknameInMUCRoom() of a joined room.
ChangeNick(r) ==
  /\ Call /\ map[r] \in joined
  /\ newNick' = newNick \union {map[r]}
  /\ Send([t |-> "nick", room |-> r]) /\ Crosses(r, FALSE)
  /\ UNCHANGED <<pc, roomOf, own, joined, maps, service, answered, told, want, stale,
                 excused, raced>>

-----------------------------------------------------------------------------
(* The receiver.                                                           *)

Arrives(m) ==
  /\ toClient # <<>> /\ m = Head(toClient)
  /\ toClient' = Tail(toClient)

Listeners(r) == {o \in joined : roomOf[o] = r}

\* Mutant of HandleRefused: the object still counts as joined.
HandleRefusedStill(m) ==
  /\ Arrives(m) /\ m.t = "refused"
  /\ newNick' = newNick \ Listeners(m.room)
  /\ want' = IF Listeners(m.room) \subseteq newNick THEN want ELSE want \ {m.room}
  /\ UNCHANGED <<app, roomOf, own, joined, maps, up, toServer, service, answered, told,
                 stale, crossed, excused, raced>>

\* MUCRoom::handlePresence(): with a nickname under way an error refuses the
\* nickname, else the room.
HandleRefused(m) ==
  /\ Arrives(m) /\ m.t = "refused"
  /\ joined' = joined \ (Listeners(m.room) \ newNick)
  /\ newNick' = newNick \ Listeners(m.room)
  /\ want' = IF Listeners(m.room) \subseteq newNick THEN want ELSE want \ {m.room}
  /\ UNCHANGED <<app, roomOf, own, maps, up, toServer, service, answered, told, stale,
                 crossed, excused, raced>>

\* Mutant of HandleNew: the form is dropped before it is submitted.
HandleNewDrops(m) ==
  /\ Arrives(m) /\ m.t = "new"
  /\ form' = form \ {m.room} /\ UNCHANGED <<up, toServer>>
  /\ excused' = IF m.room \in form THEN excused ELSE excused \union {m.room}
  /\ UNCHANGED <<app, objects, map, service, answered, told, want, stale, crossed, raced>>

\* The word that a room is new, or its configuration, is under way.
InHand(r) == \/ \E m \in Range(toClient) : m.t = "new" /\ m.room = r
             \/ \E m \in Range(toServer) : m.t = "config" /\ m.room = r

\* createMUCRoom() has still to file the form of the room.
BeingMade(r) == pc # 0 /\ roomOf[pc] = r

\* handleMUCRoomCreation(): the first object that hears of the new room submits
\* the form that is waiting for it; when none is, nobody will ask for it again.
HandleNew(m) ==
  /\ Arrives(m) /\ m.t = "new"
  /\ LET r == m.room  heard == Listeners(r) IN
     IF heard # {} /\ map[r] # 0 /\ r \in form
     THEN /\ toServer' = LET o == Min(heard)
                         IN IF up THEN Append(toServer, [t |-> "config", room |-> r, obj |-> o])
                                  ELSE toServer
          /\ form' = form \ {r} /\ UNCHANGED <<excused, raced>>
     ELSE /\ UNCHANGED <<toServer, form>>
          /\ excused' = IF BeingMade(r) THEN excused ELSE excused \union {r}
          /\ raced' = IF BeingMade(r) /\ srv[r] = "locked" /\ ~InHand(r)'
                      THEN raced \union {r} ELSE raced
  /\ UNCHANGED <<app, objects, map, up, service, answered, told, want, stale, crossed>>

\* The other presences change nothing in the object: m_joined outlives a removal
\* from the room, and m_newNick the nickname.
HandlePresence(m) ==
  /\ Arrives(m) /\ m.t \in {"self", "gone", "nick"}
  /\ want' = IF m.t = "gone" THEN want \ {m.room} ELSE want
  /\ UNCHANGED <<app, objects, maps, up, toServer, service, answered, told, stale,
                 crossed, excused, raced>>

\* Mutant of KlTells: the subclass also reports what the base class does.
KlTellsMore(op, ok) == op = "config" \/ (op \in {"owners", "destroy"} /\ ok)

\* kl::MUCRoom::handleIqResult() and handleIqError(), then those of gloox::MUCRoom.
KlTells(op, ok)   == op = "config" \/ (op = "owners" /\ ok)
BaseTells(op, ok) == op \in {"destroy", "set", "get"} \/ (op = "owners" /\ ~ok)

\* The facade has a callback for what was asked, none for what was set or for a
\* refused question.
HasCallback(op, ok) == op # "set" /\ (op = "get" => ok)

Told(op, ok) == IF HasCallback(op, ok)
                THEN Cardinality({c \in {"kl", "base"} :
                       IF c = "kl" THEN KlTells(op, ok) ELSE BaseTells(op, ok)})
                ELSE 0

HandleIq(m) ==
  /\ Arrives(m) /\ m.t = "iq"
  /\ IF m.obj \in own
     THEN /\ answered' = [answered EXCEPT ![m.op] = @ + IF HasCallback(m.op, m.ok) THEN 1 ELSE 0]
          /\ told' = [told EXCEPT ![m.op] = @ + Told(m.op, m.ok)]
     ELSE UNCHANGED <<answered, told>>
  /\ UNCHANGED <<app, objects, maps, up, toServer, service, want, stale, crossed,
                 excused, raced>>

-----------------------------------------------------------------------------
(* The chat service and the network.                                       *)

Reads(m) ==
  /\ toServer # <<>> /\ m = Head(toServer)
  /\ toServer' = Tail(toServer) /\ UNCHANGED <<up, ends>>

Reply(s) == toClient' = toClient \o s

ServeJoin(m) ==
  /\ Reads(m) /\ m.t = "join"
  /\ \/ /\ occupant' = occupant \union {m.room}
        /\ srv' = [srv EXCEPT ![m.room] = IF @ = "none" THEN "locked" ELSE @]
        /\ Reply(<<[t |-> IF srv[m.room] = "none" THEN "new" ELSE "self", room |-> m.room]>>)
     \/ /\ m.room \notin occupant
        /\ Reply(<<[t |-> "refused", room |-> m.room]>>)
        /\ UNCHANGED <<srv, occupant>>
  /\ UNCHANGED <<app, objects, maps, history>>

\* A room that is not locked any more needs no configuration.
Settles == raced' = {r \in raced : srv'[r] = "locked"}

\* The owner of a locked room who leaves gives it up.
Vacated(r) == IF srv[r] = "locked" THEN "none" ELSE srv[r]

ServeLeave(m) ==
  /\ Reads(m) /\ m.t = "leave"
  /\ occupant' = occupant \ {m.room}
  /\ srv' = [srv EXCEPT ![m.room] = Vacated(m.room)]
  /\ Reply(IF m.room \in occupant THEN <<[t |-> "gone", room |-> m.room]>> ELSE <<>>)
  /\ Settles
  /\ UNCHANGED <<app, objects, maps, answered, told, want, stale, crossed, excused>>

\* A nickname is granted to an occupant only.
ServeNick(m) ==
  /\ Reads(m) /\ m.t = "nick"
  /\ \E t \in {"nick", "refused"} :
       /\ t = "nick" => m.room \in occupant
       /\ Reply(<<[t |-> t, room |-> m.room]>>)
  /\ UNCHANGED <<app, objects, maps, srv, occupant, history>>

ServeIq(m) ==
  /\ Reads(m) /\ m.t \in Ops
  /\ \E ok \in BOOLEAN :
       /\ ok => srv[m.room] # "none"
       /\ LET gone == ok /\ m.t = "destroy" /\ m.room \in occupant
              ans  == <<[t |-> "iq", op |-> m.t, obj |-> m.obj, ok |-> ok]>>
          IN /\ Reply(IF gone THEN <<[t |-> "gone", room |-> m.room]>> \o ans ELSE ans)
             /\ stale' = IF gone THEN stale \union {m.room} ELSE stale
       /\ CASE ok /\ m.t = "destroy" -> /\ srv' = [srv EXCEPT ![m.room] = "none"]
                                        /\ occupant' = occupant \ {m.room}
            [] ok /\ m.t = "config"  -> /\ srv' = [srv EXCEPT ![m.room] = "open"]
                                        /\ UNCHANGED occupant
            [] OTHER                 -> UNCHANGED <<srv, occupant>>
       /\ excused' = IF ~ok /\ m.t = "config" THEN excused \union {m.room} ELSE excused
  /\ Settles
  /\ UNCHANGED <<app, objects, maps, answered, told, want, crossed>>

Kick ==
  /\ ends < MaxEnds /\ ends' = ends + 1
  /\ \E r \in occupant :
       /\ occupant' = occupant \ {r}
       /\ srv' = [srv EXCEPT ![r] = Vacated(r)]
       /\ toClient' = Append(toClient, [t |-> "gone", room |-> r])
       /\ stale' = stale \union {r}
  /\ Settles
  /\ UNCHANGED <<app, objects, maps, up, toServer, answered, told, want, crossed,
                 excused>>

\* No room object hears of the end of a connection.
Drop ==
  /\ up /\ ends < MaxEnds /\ ends' = ends + 1
  /\ up' = FALSE /\ toServer' = <<>> /\ toClient' = <<>>
  /\ occupant' = {} /\ srv' = [r \in Rooms |-> IF r \in occupant THEN Vacated(r) ELSE srv[r]]
  /\ stale' = Rooms /\ want' = {} /\ excused' = Rooms /\ Settles
  /\ UNCHANGED <<app, objects, maps, answered, told, crossed>>

Reconnect ==
  /\ ~up /\ up' = TRUE
  /\ UNCHANGED <<app, objects, maps, toServer, toClient, service, history>>

-----------------------------------------------------------------------------
Application == \E r \in Rooms :
  CreateRoom(r) \/ EnterKnown(r) \/ EnterNew(r) \/ ExitRoom(r) \/ Request(r) \/ ChangeNick(r)

Receiver == \E m \in Range(toClient) :
  HandleRefused(m) \/ HandleNew(m) \/ HandlePresence(m) \/ HandleIq(m)

Server == \E m \in Range(toServer) : ServeJoin(m) \/ ServeLeave(m) \/ ServeNick(m) \/ ServeIq(m)

Quiet == pc = 0 /\ toServer = <<>> /\ toClient = <<>>

Finished == Quiet /\ calls = MaxCalls /\ UNCHANGED vars

Next == Application \/ FileRoom \/ Receiver \/ Server \/ Kick \/ Drop \/ Reconnect \/ Finished

Spec == Init /\ [][Next]_vars

\* The threads are scheduled and the service answers.
FairSpec == Spec /\ WF_vars(FileRoom) /\ WF_vars(Receiver) /\ WF_vars(Server)

-----------------------------------------------------------------------------
(* Properties.                                                             *)

\* When nothing is under way, a room object that counts itself as joined is in its
\* room, until somebody else ends the stay (m_joined is stale from then on) or two
\* requests cross: a refused nickname alone never makes it forget a room.
JoinedIsIn ==
  Quiet /\ up => \A r \in Rooms \ (stale \union crossed) : Joined(r) => r \in occupant

\* This client is never left in a room that none of its objects counts as joined,
\* where nothing it receives would reach the listener: not even when it has been
\* renamed or removed, but for crossing answers.
NoGhost ==
  Quiet /\ up => \A r \in occupant \ crossed : Joined(r)

\* The answer to an IQ passes two handleIqID() methods; the listener hears it
\* exactly once if there is a callback for it.
ToldOnce == \A op \in Ops : told[op] = answered[op]

\* "If the room is created, the configuration is submitted": a room that is created for
\* createMUCRoom() does not stay locked, unless it was told to be new before the call
\* had filed the form.
CreatedIsConfigured ==
  \A r \in Rooms : srv[r] = "locked" ~> srv[r] # "locked" \/ r \in excused \union raced

\* What becomes of a locked room: those that were told to be new before the call had
\* filed the form are never configured while they stay locked, although the form is
\* filed by now; for every other one the word that it is new or its configuration is
\* under way.
CreationInHand ==
  \A r \in Rooms \ excused : srv[r] = "locked" => (InHand(r) <=> r \notin raced)

\* "Enters the chat room": who has called enterMUCRoom() while connected and has
\* heard of no end since is in the room when nothing is under way.
EnterEnters ==
  Quiet /\ up => want \subseteq occupant

=============================================================================
