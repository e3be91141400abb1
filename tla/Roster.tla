-------------------------------- MODULE Roster --------------------------------
(***************************************************************************)
(* The roster of kl::XmppStack and its two copies: m_roster, which         *)
(* RosterManager keeps from fills and pushes, and the friends that the     *)
(* Android callback keeps from what the stack tells it.  The server holds  *)
(* the roster itself; other devices and the contacts change it as well.    *)
(*                                                                         *)
(* A connection delivers in order, both ways, until it is lost.  An item   *)
(* is its name, its groups and the state of the two subscriptions.  Which  *)
(* resource of a contact is on line is not told apart.  The friends that   *)
(* the application reads from its database when its table is empty, when   *)
(* it starts and at the turns of the keeper (XmppOperation.java:127), are  *)
(* left out: the table starts empty and only the stack fills it.           *)
(***************************************************************************)
EXTENDS Naturals, Sequences, FiniteSets

CONSTANTS
  Contacts, Names, Groups,
  None,        \* no item
  MaxCalls,    \* bound: calls of the application
  MaxRemote,   \* bound: changes made by contacts, other devices and the server
  MaxLogins    \* bound: sessions

ASSUME RosterAssumption ==
  /\ IsFiniteSet(Contacts) /\ Names # {} /\ MaxCalls \in Nat /\ MaxRemote \in Nat /\ MaxLogins \in Nat
  /\ None \notin [name : Names, groups : SUBSET Groups,
                  to : {"none", "out", "to"}, from : BOOLEAN]

Item == [name : Names, groups : SUBSET Groups, to : {"none", "out", "to"}, from : BOOLEAN]
NewItem(n, gs) == [name |-> n, groups |-> gs, to |-> "none", from |-> FALSE]
Fields == {"name", "groups"}

\* What travels.
Requests == [t : {"get", "presence"}]
  \union [t : {"set"}, c : Contacts, name : Names, groups : SUBSET Groups,
          what : SUBSET Fields, of : Item \union {None}]
  \union [t : {"remove", "subscribe", "subscribed", "unsubscribed"}, c : Contacts]
Stanzas == [t : {"result"}, all : [Contacts -> Item \union {None}]]
  \union [t : {"error"}]
  \union [t : {"push"}, c : Contacts, item : Item \union {None}]
  \union [t : {"presence"}, c : Contacts, on : BOOLEAN]
  \union [t : {"subscribe", "subscribed", "unsubscribe", "unsubscribed"}, c : Contacts]

VARIABLES
  srv,         \* the roster on the server
  avail,       \* the contacts that are available
  pending,     \* the contacts whose subscription request awaits an answer
  up,          \* StateConnected
  listening,   \* the server has this session's first roster request, and pushes
  active,      \* the server has this session's first presence
  roster,      \* RosterManager::m_roster
  online,      \* the items of m_roster with a resource
  friends,     \* XmppData.mAllFriendHashtable
  shown,       \* the friends whose presence says available
  asked,       \* the requests that wait for the user
  toServer, toClient,
  used,        \* how often each bound was used
  noRoster,    \* history: the last fill was answered by an error
  refilled,    \* history: getRoster() was called in this session
  unseen,      \* history: contacts removed and no remove push was merged
  unfriended,  \* history: contacts dropped as friends because they unsubscribed
  missed       \* history: contacts that left when nobody heard it

server == <<srv, avail, pending, listening, active>>
stack  == <<up, roster, online>>
mirror == <<friends, shown, asked>>
past   == <<noRoster, refilled, unseen, unfriended, missed>>
vars   == <<server, stack, mirror, toServer, toClient, used, past>>

TypeOK ==
  /\ srv \in [Contacts -> Item \union {None}] /\ roster \in [Contacts -> Item \union {None}]
  /\ friends \in [Contacts -> Item \union {None}]
  /\ \A S \in {avail, pending, online, shown, asked, unseen, unfriended, missed} :
       S \subseteq Contacts
  /\ {up, listening, active} \subseteq BOOLEAN /\ noRoster \in BOOLEAN /\ refilled \in BOOLEAN
  /\ \A c \in shown : friends[c] # None
  /\ \A c \in online : roster[c] # None
  /\ toServer \in Seq(Requests) /\ toClient \in Seq(Stanzas)
  /\ used \in [call : 0..MaxCalls, remote : 0..MaxRemote, login : 0..MaxLogins]

Init ==
  /\ srv \in [Contacts -> Item \union {None}]
  /\ avail \in SUBSET Contacts
  /\ pending = {} /\ up = FALSE /\ listening = FALSE /\ active = FALSE
  /\ roster = [c \in Contacts |-> None] /\ online = {}
  /\ friends = [c \in Contacts |-> None] /\ shown = {} /\ asked = {}
  /\ toServer = <<>> /\ toClient = <<>>
  /\ used = [call |-> 0, remote |-> 0, login |-> 0]
  /\ noRoster = FALSE /\ refilled = FALSE
  /\ unseen = {} /\ unfriended = {} /\ missed = {}

Spend(what, max) == used[what] < max /\ used' = [used EXCEPT ![what] = @ + 1]
Request(s) == toServer' = toServer \o s
Visible(c) == srv[c] # None /\ srv[c].to = "to" /\ c \in avail

-----------------------------------------------------------------------------
(* The session, and the calls of the facade.                               *)

\* Mutant of Fill: the items of the last session are kept.
FillKeeps == UNCHANGED <<roster, online>> /\ Request(<<[t |-> "get"]>>)

\* RosterManager::fill: what was known goes, with its resources.
Fill == /\ roster' = [c \in Contacts |-> None] /\ online' = {}
        /\ Request(<<[t |-> "get"]>>)

\* Client::connected, at the end of a login.
Connected ==
  /\ ~up /\ Spend("login", MaxLogins)
  /\ up' = TRUE /\ refilled' = FALSE
  /\ Fill
  /\ UNCHANGED <<server, mirror, toClient, noRoster, unseen, unfriended, missed>>

\* The connection is lost, and what is under way with it.  m_roster stays.
Lost ==
  /\ up /\ up' = FALSE /\ listening' = FALSE /\ active' = FALSE
  /\ toServer' = <<>> /\ toClient' = <<>>
  /\ LET cut == {toClient[i] : i \in DOMAIN toClient} IN
     /\ unseen' = unseen \union {m.c : m \in {p \in cut : p.t = "push" /\ p.item = None}}
     /\ missed' = missed \union {m.c : m \in {p \in cut : p.t \in {"presence", "push"}}}
  /\ UNCHANGED <<srv, avail, pending, roster, online, mirror, used, noRoster, refilled, unfriended>>

Call == up /\ Spend("call", MaxCalls)

GetRoster ==
  /\ Call /\ Fill /\ refilled' = TRUE
  /\ UNCHANGED <<server, up, mirror, toClient, noRoster, unseen, unfriended, missed>>

\* RosterManager::add writes a whole item; what it means to change and the item
\* it was made from are history.
Add(c, n, gs, what) ==
  [t |-> "set", c |-> c, name |-> n, groups |-> gs, what |-> what, of |-> roster[c]]
Stanza(t, c) == [t |-> t, c |-> c]

AddRosterItem(c) ==
  /\ Call
  /\ \E n \in Names, gs \in SUBSET Groups, subscribe \in BOOLEAN :
       Request(<<Add(c, n, gs, Fields)>>
                 \o IF subscribe THEN <<Stanza("subscribe", c)>> ELSE <<>>)
  /\ UNCHANGED <<server, stack, mirror, toClient, past>>

\* The other calls take the rest of the item from the local roster.
Edit(c) == Call /\ roster[c] # None /\ UNCHANGED <<server, stack, mirror, toClient, past>>

\* Mutant of Regroup: the name is not passed on.
RegroupNameless(c, gs) ==
  \E n \in Names : Request(<<Add(c, n, gs, {"groups"})>>)

Regroup(c, gs) == Request(<<Add(c, roster[c].name, gs, {"groups"})>>)

MoveRosterItem(c) == Edit(c) /\ \E gs \in SUBSET Groups \ {{}} : Regroup(c, gs)

CopyRosterItem(c) ==
  Edit(c) /\ \E gs \in SUBSET Groups \ {{}} : Regroup(c, roster[c].groups \union gs)

RemoveRosterItemFromGroups(c) ==
  Edit(c) /\ \E gs \in SUBSET Groups \ {{}} : Regroup(c, roster[c].groups \ gs)

ChangeRosterItemName(c) ==
  Edit(c) /\ \E n \in Names \ {roster[c].name} : Request(<<Add(c, n, roster[c].groups, {"name"})>>)

UpdateRosterItem(c) ==
  /\ Edit(c)
  /\ \E n \in Names, gs \in SUBSET Groups : Request(<<Add(c, n, gs, Fields)>>)

DeleteRosterItem(c) ==
  /\ Call /\ Request(<<Stanza("remove", c)>>)
  /\ UNCHANGED <<server, stack, mirror, toClient, past>>

SubscribeRosterItem(c) ==
  /\ Call /\ roster[c] # None /\ Request(<<Stanza("subscribe", c)>>)
  /\ UNCHANGED <<server, stack, mirror, toClient, past>>

\* approveSubscription, which subscribes in return unless told not to.
Approve(c) == <<Stanza("subscribed", c), Stanza("subscribe", c)>>
Deny(c)    == <<Stanza("unsubscribed", c), Stanza("remove", c)>>

\* The user answers a request.  Denying it deletes the item unless told not to.
AnswerRequest(c) ==
  /\ up /\ c \in asked /\ asked' = asked \ {c}
  /\ \E answer \in {Approve(c), Deny(c)}, n \in {1, 2} : Request(SubSeq(answer, 1, n))
  /\ UNCHANGED <<server, stack, friends, shown, toClient, used, past>>

-----------------------------------------------------------------------------
(* The receiver: RosterManager and, inside it, the callback of the         *)
(* application.                                                            *)

First == Head(toClient)
Receive(t) == toClient # <<>> /\ First.t = t /\ toClient' = Tail(toClient)

\* The answer to a fill: items that came meanwhile stay as they are, every item
\* becomes a friend, and none ceases to be one.  rosterFilled() sends presence.
HandleRoster ==
  /\ Receive("result")
  /\ LET all == [c \in Contacts |-> IF roster[c] # None THEN roster[c] ELSE First.all[c]] IN
     /\ roster' = all
     /\ friends' = [c \in Contacts |-> IF all[c] # None THEN all[c] ELSE friends[c]]
     /\ unfriended' = {c \in unfriended : all[c] = None}
  /\ noRoster' = FALSE
  /\ Request(<<[t |-> "presence"]>>)
  /\ UNCHANGED <<server, up, online, shown, asked, used, refilled, unseen, missed>>

HandleRosterError ==
  /\ Receive("error")
  /\ noRoster' = TRUE /\ Request(<<[t |-> "presence"]>>)
  /\ UNCHANGED <<server, stack, mirror, used, refilled, unseen, unfriended, missed>>

\* Mutant of FriendAfter: handleItemUpdated() is not passed on.
FriendAfterUntold(c, i) ==
  IF roster[c] = None /\ i # None THEN i ELSE IF i = None THEN None ELSE friends[c]

\* onRosterItemAdded, -Updated, -Removed: an update of an item whose friend was
\* dropped is not told, nor is the removal of an unknown item.
FriendAfter(c, i) ==
  IF roster[c] = None THEN IF i = None THEN friends[c] ELSE i
  ELSE IF friends[c] = None THEN None ELSE i

\* Mutant of ResourcesAfter: an update makes a new item, without resources.
ResourcesAfterAnew(c, i) == online \ {c}

\* An item that is updated keeps its resources.
ResourcesAfter(c, i) == IF i = None THEN online \ {c} ELSE online

\* RosterManager::mergePush.
MergePush ==
  /\ Receive("push")
  /\ LET c == First.c  i == First.item  known == roster[c] # None IN
     /\ roster' = [roster EXCEPT ![c] = i] /\ online' = ResourcesAfter(c, i)
     /\ friends' = [friends EXCEPT ![c] = FriendAfter(c, i)]
     /\ shown' = {d \in shown : friends'[d] # None}
     /\ unseen' = IF i = None /\ ~known THEN unseen \union {c}
                  ELSE IF i # None THEN unseen \ {c} ELSE unseen
     /\ missed' = IF i = None /\ ~known THEN missed \union {c} ELSE missed
     /\ unfriended' = IF i = None \/ ~known THEN unfriended \ {c} ELSE unfriended
  /\ UNCHANGED <<server, up, asked, toServer, used, noRoster, refilled>>

\* Mutant of Showable: getFriend() is taken to find a friend.
ShowableAlways(c) == roster[c] # None

\* onRecvRosterPresence: it fails when the item has no friend.
Showable(c) == roster[c] # None /\ friends[c] # None

\* RosterManager::handlePresence: only a known contact's is kept.
HandlePresence ==
  /\ Receive("presence")
  /\ LET c == First.c  With(S) == IF First.on THEN S \union {c} ELSE S \ {c} IN
     /\ online' = IF roster[c] # None THEN With(online) ELSE online
     /\ shown' = IF Showable(c) THEN With(shown) ELSE shown
     /\ missed' = IF roster[c] # None THEN missed \ {c} ELSE missed \union {c}
  /\ UNCHANGED <<server, up, roster, friends, asked, toServer, used,
                 noRoster, refilled, unseen, unfriended>>

\* onRecvSubscriptionRequest: approved at once when the friend is one the user
\* has invited and who has not answered yet; the user is asked otherwise.
HandleSubscribe ==
  /\ Receive("subscribe")
  /\ LET c == First.c IN
     IF friends[c] # None /\ friends[c].to = "out" /\ ~friends[c].from
       THEN Request(Approve(c)) /\ UNCHANGED asked
       ELSE asked' = asked \union {c} /\ UNCHANGED toServer
  /\ UNCHANGED <<server, stack, friends, shown, used, past>>

\* onRosterItemSubscribed only writes a message.
HandleSubscribed ==
  /\ Receive("subscribed")
  /\ UNCHANGED <<server, stack, mirror, toServer, used, past>>

HandleUnsubscribe ==
  /\ Receive("unsubscribe")
  /\ Request(<<Stanza("unsubscribed", First.c)>>)
  /\ UNCHANGED <<server, stack, mirror, used, past>>

\* onRosterItemUnsubscribed: no friend any more, although the item stays.
HandleUnsubscribed ==
  /\ Receive("unsubscribed")
  /\ LET c == First.c IN
     IF roster[c] # None
       THEN /\ friends' = [friends EXCEPT ![c] = None] /\ shown' = shown \ {c}
            /\ unfriended' = unfriended \union {c}
       ELSE UNCHANGED <<friends, shown, unfriended>>
  /\ UNCHANGED <<server, stack, asked, toServer, used, noRoster, refilled, unseen, missed>>

Receiver ==
  HandleRoster \/ HandleRosterError \/ MergePush \/ HandlePresence
    \/ HandleSubscribe \/ HandleSubscribed \/ HandleUnsubscribe \/ HandleUnsubscribed

-----------------------------------------------------------------------------
(* The server, the contacts and the user's other devices.                  *)

Push(c, i)      == [t |-> "push", c |-> c, item |-> i]
PresenceOf(c, on) == [t |-> "presence", c |-> c, on |-> on]
Deliver(s)      == toClient' = IF listening THEN toClient \o s ELSE toClient
\* Presence is for a session that has sent its own.
Seen(c, on)     == IF active THEN <<PresenceOf(c, on)>> ELSE <<>>

\* The item of c becomes i; around the push goes what else is sent.
SetItem(c, i, before, after) ==
  /\ srv' = [srv EXCEPT ![c] = i]
  /\ Deliver(before \o <<Push(c, i)>> \o after)
  /\ unseen' = IF i = None /\ ~listening /\ srv[c] # None THEN unseen \union {c} ELSE unseen
  /\ missed' = IF Visible(c) /\ ~active /\ (i # None => i.to # "to")
                 THEN missed \union {c} ELSE missed

Serve(t) == toServer # <<>> /\ Head(toServer).t = t /\ toServer' = Tail(toServer)
Silent   == UNCHANGED <<srv, toClient, unseen, missed>>

ServeGet ==
  /\ Serve("get")
  /\ listening' = TRUE
  /\ \/ toClient' = Append(toClient, [t |-> "result", all |-> srv]) /\ UNCHANGED used
     \/ toClient' = Append(toClient, [t |-> "error"]) /\ Spend("remote", MaxRemote)
  /\ UNCHANGED <<srv, avail, pending, active, stack, mirror, past>>

ServeSet ==
  /\ Serve("set")
  /\ LET m == Head(toServer)  c == m.c  i == srv[c] IN
     SetItem(c, IF i = None THEN NewItem(m.name, m.groups)
                ELSE [i EXCEPT !.name = m.name, !.groups = m.groups], <<>>, <<>>)
  /\ UNCHANGED <<avail, pending, listening, active, stack, mirror, used, noRoster, refilled, unfriended>>

ServeRemove ==
  /\ Serve("remove")
  /\ LET c == Head(toServer).c IN
     IF srv[c] # None THEN SetItem(c, None, <<>>, <<>>) ELSE Silent
  /\ UNCHANGED <<avail, pending, listening, active, stack, mirror, used, noRoster, refilled, unfriended>>

Orders(S) == {s \in [1..Cardinality(S) -> S] : {s[k] : k \in DOMAIN s} = S}

\* The first presence of a session brings the contacts' presence and the
\* requests that were stored.
ServePresence ==
  /\ Serve("presence") /\ active' = TRUE
  /\ \E here \in Orders({PresenceOf(c, TRUE) : c \in {d \in Contacts : Visible(d)}}),
        asks \in Orders({Stanza("subscribe", c) : c \in pending}) :
       IF active THEN UNCHANGED toClient ELSE Deliver(here \o asks)
  /\ UNCHANGED <<srv, avail, pending, listening, stack, mirror, used, past>>

ServeSubscribe ==
  /\ Serve("subscribe")
  /\ LET c == Head(toServer).c  i == srv[c] IN
     IF i = None \/ i.to = "none"
       THEN \E n \in Names :
              /\ i # None => n = i.name
              /\ SetItem(c, [(IF i = None THEN NewItem(n, {}) ELSE i) EXCEPT !.to = "out"],
                         <<>>, <<>>)
       ELSE Silent
  /\ UNCHANGED <<avail, pending, listening, active, stack, mirror, used, noRoster, refilled, unfriended>>

\* Without an item, approval makes one.
ServeSubscribed ==
  /\ Serve("subscribed")
  /\ LET c == Head(toServer).c  i == srv[c] IN
     /\ pending' = pending \ {c}
     /\ IF c \in pending
          THEN \E n \in Names :
                 /\ i # None => n = i.name
                 /\ SetItem(c, [(IF i = None THEN NewItem(n, {}) ELSE i) EXCEPT !.from = TRUE],
                            <<>>, <<>>)
          ELSE Silent
  /\ UNCHANGED <<avail, listening, active, stack, mirror, used, noRoster, refilled, unfriended>>

ServeUnsubscribed ==
  /\ Serve("unsubscribed")
  /\ LET c == Head(toServer).c  i == srv[c] IN
     /\ pending' = pending \ {c}
     /\ IF i # None /\ i.from THEN SetItem(c, [i EXCEPT !.from = FALSE], <<>>, <<>>) ELSE Silent
  /\ UNCHANGED <<avail, listening, active, stack, mirror, used, noRoster, refilled, unfriended>>

Server == ServeGet \/ ServeSet \/ ServeRemove \/ ServePresence \/ ServeSubscribe
            \/ ServeSubscribed \/ ServeUnsubscribed

Remote == Spend("remote", MaxRemote) /\ UNCHANGED <<listening, active, stack, mirror, toServer,
                                                    noRoster, refilled, unfriended>>

ContactAgrees(c) ==
  /\ Remote /\ srv[c] # None /\ srv[c].to = "out"
  /\ SetItem(c, [srv[c] EXCEPT !.to = "to"], <<Stanza("subscribed", c)>>,
             IF c \in avail THEN Seen(c, TRUE) ELSE <<>>)
  /\ UNCHANGED <<avail, pending>>

ContactRefuses(c) ==
  /\ Remote /\ srv[c] # None /\ srv[c].to # "none"
  /\ SetItem(c, [srv[c] EXCEPT !.to = "none"],
             (IF Visible(c) THEN Seen(c, FALSE) ELSE <<>>) \o <<Stanza("unsubscribed", c)>>, <<>>)
  /\ UNCHANGED <<avail, pending>>

\* A request reaches a session that has sent presence; else it is stored.
ContactAsks(c) ==
  /\ Remote /\ c \notin pending /\ (srv[c] # None => ~srv[c].from)
  /\ pending' = pending \union {c}
  /\ Deliver(IF active THEN <<Stanza("subscribe", c)>> ELSE <<>>)
  /\ UNCHANGED <<srv, avail, unseen, missed>>

ContactLeaves(c) ==
  /\ Remote /\ srv[c] # None /\ srv[c].from
  /\ SetItem(c, [srv[c] EXCEPT !.from = FALSE], <<Stanza("unsubscribe", c)>>, <<>>)
  /\ UNCHANGED <<avail, pending>>

ContactComesOrGoes(c) ==
  /\ Remote
  /\ avail' = IF c \in avail THEN avail \ {c} ELSE avail \union {c}
  /\ LET heard == srv[c] # None /\ srv[c].to = "to" IN
     /\ Deliver(IF heard THEN Seen(c, c \notin avail) ELSE <<>>)
     /\ missed' = IF heard /\ ~active THEN missed \union {c} ELSE missed
  /\ UNCHANGED <<srv, pending, unseen>>

OtherDevice(c) ==
  /\ Remote
  /\ \/ \E n \in Names, gs \in SUBSET Groups :
          SetItem(c, IF srv[c] = None THEN NewItem(n, gs)
                     ELSE [srv[c] EXCEPT !.name = n, !.groups = gs], <<>>, <<>>)
     \/ srv[c] # None /\ SetItem(c, None, <<>>, <<>>)
  /\ UNCHANGED <<avail, pending>>

Environment(c) == ContactAgrees(c) \/ ContactRefuses(c) \/ ContactAsks(c) \/ ContactLeaves(c)
                    \/ ContactComesOrGoes(c) \/ OtherDevice(c)

Application(c) ==
  \/ AddRosterItem(c) \/ DeleteRosterItem(c) \/ SubscribeRosterItem(c) \/ AnswerRequest(c)
  \/ MoveRosterItem(c) \/ CopyRosterItem(c) \/ RemoveRosterItemFromGroups(c)
  \/ ChangeRosterItemName(c) \/ UpdateRosterItem(c)

Next == Connected \/ Lost \/ GetRoster \/ Receiver \/ Server
          \/ \E c \in Contacts : Application(c) \/ Environment(c)

Spec == Init /\ [][Next]_vars

-----------------------------------------------------------------------------
(* Properties.                                                             *)

\* Nothing is under way.
Settled == up /\ toServer = <<>> /\ toClient = <<>>

\* However fills and pushes overlap, the local roster ends up as the server's
\* (unless the server refused the last fill).
Mirrors == Settled /\ ~noRoster => roster = srv

\* The friends of the application agree with the local roster, but for those
\* who unsubscribed; a friend without an item is one whose removal was not pushed
\* to a roster that held it (removals between two sessions leave ghosts).
FriendsAgree ==
  Settled => \A c \in Contacts :
    /\ roster[c] # None /\ c \notin unfriended => friends[c] = roster[c]
    /\ roster[c] = None /\ friends[c] # None => noRoster \/ c \in unseen

\* Who is on line is known to the stack as long as nobody calls getRoster(); a
\* friend who is on line is shown so, and one who is shown so and is not has left
\* when nobody heard it.
PresenceKnown ==
  Settled /\ active /\ ~refilled /\ ~noRoster => \A c \in Contacts :
    /\ c \in online <=> Visible(c) /\ roster[c] # None
    /\ friends[c] # None /\ Visible(c) => c \in shown
    /\ c \in shown => Visible(c) \/ c \in missed

\* A change of the groups leaves the name alone and the other way round, unless the
\* item on the server is not the one the call was made from.
EditsKeepTheRest ==
  [][\A c \in Contacts :
       (ServeSet /\ Head(toServer).c = c /\ Head(toServer).of = srv[c] /\ srv[c] # None) =>
         \A field \in Fields \ Head(toServer).what :
           srv'[c][field] = srv[c][field]]_vars

\* "A asks B to subscribe, B agrees, then B asks A: A agrees by itself, without a
\* dialog" (onRecvSubscriptionRequest): the user is not asked about a contact who
\* has agreed to an invitation.
AgreedIsApproved == \A c \in asked : roster[c] = None \/ roster[c].to # "to"

=============================================================================
