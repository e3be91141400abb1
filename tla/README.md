# A TLA+ model of the KLMS messaging stack

KLMS is an instant-messaging client: an XMPP stack in C++ (`src/KLXmppStack`, a
facade `kl::XmppStack` over an extended copy of the gloox library), and an Android
application on top of it (`src/KunlunAndroid`). This directory holds TLA+ modules
that model the stack's own logic, TLC configurations that check them on small
instances, and proofs that TLAPS checks for every value of the constants.

`PROJECT.json` is the index: components, runs, mutants, hazards, findings,
theorems, and `map`, which gives for every definition the lines it models. Paths
below are relative to `src/KLXmppStack` unless they start with `src/`;
`kl_xmppstack.cpp` is `KLXmpp/src/kl_xmppstack.cpp`, gloox files are under
`gloox/src`.

To repeat the checks, inside this directory:

    tlc -workers 2 -config MCConnCalm.cfg MCConnection     # and so on, see "Runs"
    tlapm XmppConnection_proofs.tla                        # and the other *_proofs.tla

## 1. Inventory

### The parts and how they talk to one another

    Android: AutoConnectService, XmppService          views, presenters, database
        |  login() in a new thread, logout()              |
        |  <- XmppCallback (MyXmppCallback)               v  operations
    kl::XmppStack  (facade, KLXmpp/src) -- track maps, room map, caches
        |  is the listener/handler of everything below
    gloox::Client / ClientBase -- stream negotiation, dispatch of stanzas,
        |                         IQ ids and their handlers
        +-- RosterManager, Disco, PubSub::Manager, MUCRoom, SIProfileFT, ...
        |
    CompressionZlib -> OpenSSLBase -> ConnectionTCPClient / ConnectionTCPBase
                                          m_state, m_socket, m_cancel

* *Calls go down* on the caller's thread: an application thread that publishes an
  item runs through the facade, the manager, `ClientBase::send`, the layers and
  `::send` before it returns.
* *Callbacks go up* on the thread that runs `XmppStack::login()`. That call does
  not return until the connection ends: after `connect()` it loops in `recv()`
  (kl_xmppstack.cpp:1763-1783) and everything received is parsed and handled there.
* *Teardown* may run on either: on the receiver after an error or an end of file, on
  the sender after a failed write, on the application in `logout()`.
* The only mutexes are `m_sendMutex`, `m_recvMutex` (TCP), `m_compressMutex`
  (zlib), and the maps of `ClientBase` and `PubSub::Manager`. Flags of the stream,
  the TLS object's buffers and every map of the facade have none.

### Components

| component | state | operations | what makes it correct |
|---|---|---|---|
| TCP connection and stream life cycle | `m_state`, `m_socket`, `m_cancel`, two mutexes, `m_authed` | connect, recv, send, disconnect, cleanup, login, logout, notifications | the descriptor is not closed or reused under a system call; every connection that ends is reported; login and logout come back; the state tells the truth |
| Stream negotiation | `m_encryptionActive`, `m_compressionActive`, `m_authed`, `m_resourceBound`, `m_streamFeatures` | features, TLS, zlib, SASL, IQ auth, bind, session, roster, disconnect | both ends switch an encoding between the same two stanzas; no credentials in clear when TLS is offered; ready is told only when ready; a login settles; callbacks come in order |
| Outbound chain | deflate stream, `m_sendBuffer`, BIO pair, `m_buf`, `m_sendMutex` | send through up to three layers, from any thread | what the server reads is what was sent: whole blocks, in deflate order, encrypted once; a send that returned has sent |
| Publish-subscribe requests | `m_iqIDHandlers`, `m_resultHandlerTrackMap`, five track maps and two lists of the facade | publish nickname, avatar, microblog, change notices; delete; load an avatar; their answers | each request is told to the listener once and truthfully; nothing is left behind |
| Chat rooms | room objects (`m_joined`, `m_newNick`), `m_mUCRoomMap`, `m_createMUCRoomTrackMap` | create, enter, exit, destroy, lists, nickname; presences, answers | what the objects believe agrees with where the client is; created rooms get configured; each answer is told once |
| Roster and subscriptions | `RosterManager::m_roster`; the application's friends and who of them is on line | fill, push, add, remove, rename, group changes, subscriptions | the copies end up as the server's roster; a change of one field does not undo another |
| File transfer | `m_bytestreamTrackMap`, the stream object, its connection, SI sessions | request, accept, stream hosts, activate, send, recv, close | what is sent arrives; each listener is told in order; an accepted transfer opens; no use after close |
| Disco and capabilities | `m_verificationMap`, `m_discoInfoMap`, `m_entityMap` | disco requests, presence with caps | a cache is asked for once and is not stale |
| Messages, receipts, presence | none | build and read stanzas | conversions |
| Parser and tags | the partial stanza, the part of the data put back | feed | what is told does not depend on how reads cut the text, nor on an earlier connection |
| Registration | none kept | fetch, create, remove | results are ignored by the facade |
| Android connection keeper | `mXmppStack`, `mIsTcpConOk`, `mIsThreadRun`, the host it was given, the main thread's queue | the loop that logs in again, the reports of the stacks, login and logout | it always logs in again; the views are shown the truth about the current stack |
| Android caches | mirrors of roster, presence, vCards | callbacks, lookups | agree with the stack |
| Android calls, views, database | user interface | - | - |
| Payload types | none | parse, build | conversions |
| Bindings, demos, vendored code | - | - | - |

The roster is modelled with every operation that changes state. The connection, the
negotiation, the outbound chain, publish-subscribe, rooms, the keeper, file transfer
and the parser are modelled in part: section 3 says what each leaves out. Section 9 says
why the rest is not modelled.

### What is hard here

Three kinds of code dominate the hazards listed in `PROJECT.json`.

1. *Threads without a lock in common.* `connect()` writes `m_state` outside the
   mutex that guards `m_socket`; `cleanup()` uses two `trylock`s and gives up if one
   fails; `disconnect()` waits for a mutex that the receiver holds across a
   `select()` without a timeout; session flags are written by receiver and user
   alike; zlib hands its block on after it released its mutex.
2. *Protocol state kept in several places.* A request leaves an entry in three maps,
   the facade's entry is made *after* the request was sent, answers pass through a
   subclass and its base class, and nothing is cleared when a connection ends.
3. *Copies that are kept in step by messages.* The roster is held by the server, by
   `RosterManager` and by the application; an edit writes a whole item taken from a
   copy that may be old. A stack that was replaced goes on and reports as if it were
   the current one. A stream of a file transfer is held by three threads of each end
   and found again by name at every turn.

## 2. Plan

The order in which modules are written, the most important behaviour first:

| | module | composes / implements | state |
|---|---|---|---|
| 1 | `XmppConnection` | implements `SocketUse` | done |
| 2 | `XmppConnection_proofs` | type, locks, descriptor, refinement | done; see below |
| 3 | `StreamNegotiation` | implements `LoginPhases` | done |
| 4 | `OutboundChain` | - | sending direction done |
| 5 | `PubSubTracking` | implements `PublishContract` | done |
| 6 | `MucRooms` | - | done for one's own stay |
| 7 | `Roster` | the server's roster, `RosterManager` and the application's friends composed | done |
| 8 | `StackKeeper` | an abstract stack per login, the keeper thread and the main thread composed | done |
| 9 | `Socks5Streams` | two ends composed, each implements `StreamContract` | done for one SOCKS5 transfer |
| 10 | `XmlParser`, `StreamParser` | the pure parser, and the connections that feed it | done |
| 11 | the other `_proofs` modules: negotiation, outbound chain, publish-subscribe, roster, keeper, rooms, file transfer | `EndIsTold` to `ImplementsContract`, section 7 | done |

The caches of disco and capabilities are left out: what they hold
is written and read back only to decide whether to ask again (section 9).

Abstract specifications: `SocketUse` (what the locking is for), `LoginPhases` (what
the application may rely on between login and end), `PublishContract` (one outcome
per request), `StreamContract` (what a listener hears of one transfer, in order).
Each is a page, and the detailed module is checked against it with
`INSTANCE ... WITH` as a `PROPERTY`; each is also proved.

Every invariant and every action property of the runs is a theorem (section 7), but for
those of the parser, whose loop over characters is a recursive operator and stays with
TLC. All other modules are free of recursive operators for that reason, their
parameters are constants with named assumptions, and their invariants are conjunctions.

Extensions within the modelled components: `sendXml()` as a further caller of the
chain, the receiving direction of TLS (it shares `m_buf`), the teardown of zlib
(`cleanup()` without `m_compressMutex`), the node-configuration check at login, and
which callback an end is told as; in-band streams and several transfers at once; the
service's network flag (`mIsNetConOk`) and its registry of views.

## 3. The modules and the code

Common conventions: variables keep the names of the members they model; a comment
marks history variables, which no guard of the code's actions reads; every action
stands for a handler, or for the part of it up to the next shared access; mutants
(plausible bugs, used to show that each property can fail) stand right before the
definition they change and are not part of `Next`.

### `XmppConnection`: the connection as its threads run it

Sources: connectiontcpbase.cpp, connectiontcpclient.cpp, the `connect`, `recv`,
`send`, `disconnect`, `handleDisconnect` and `notifyOnDisconnect` of clientbase.cpp
and client.cpp, and login, logout and the connection listener of kl_xmppstack.cpp.

The code is cut at every access to `m_state`, `m_socket`, `m_cancel` and at every
mutex operation; what lies between touches only the thread's own data. Nested calls
are explicit: `pc[t]` is the label, `ret[t]` has the return label of each procedure
the thread may be in (`send`, `clean`up, handleDisconnect = `down`, `disc`onnect),
`why[t]` the reasons passed down. No procedure of the four can be entered again
before it has returned, so one slot each is enough.

| labels | code |
|---|---|
| `cn_state` .. `cn_open` | ClientBase::connect, ConnectionTCPClient::connect: tests, mutex, `DNS::connect`, then `m_state` and `m_cancel` outside the mutex |
| `lg_ok`, `rx_state` .. `rx_eof` | the loop of login(), ClientBase::recv, ConnectionTCPClient::recv with `select()` under `m_recvMutex` |
| `rx_data`, `rx_online`, `rx_bad` | handleReceivedData and what a stanza leads to |
| `sd_state`, `sd_lock`, `sd_io` | ClientBase::send, ConnectionTCPBase::send |
| `cl_send`, `cl_recv`, `cl_close` | ConnectionTCPBase::cleanup with its two trylocks |
| `hd_note` | ClientBase::handleDisconnect after the cleanup |
| `dc_clear` .. `dc_note` | Client::disconnect, ClientBase::disconnect, ConnectionTCPBase::disconnect |

A stanza is one of seven kinds: one without effect on the connection (it may or
may not be answered), the SASL success, the roster, and four that end the stream.
The server's `</stream:stream>` is none of them: `Parser::closeTag` takes it and
tells nobody (parser.cpp:740), so that `ClientBase::handleTag(0)` is never called and
only the end of file that follows is noticed.
The far end is `peer`; it may close at any moment.

### `StreamNegotiation`: from the header to onLoginSuccess

Sources: `Client::handleNormalNode`, the IQ handlers that continue it, the login
part of ClientBase, nonsaslauth.cpp, rostermanager.cpp `fill` and its answer, and
`Client::disconnect`. TCP is one flag, `up`, which every teardown clears: that
`cleanup()` may find a mutex taken and leave the connection as it is
(connectiontcpbase.cpp:159) is the matter of `XmppConnection`. Two threads remain, the
receiver and the user. `hand` is the stanza the receiver has taken off the socket and not yet
handled: a `logout()` can fall between the two. Every request carries the encoding
(TLS, zlib) it was sent in, and `srv` what the server has granted, so "both ends
agree" is a statement about data in flight. The server answers in order, offers the
features that make sense at its stage (`Offers`), and may refuse any step in
`Refusals`; bytes it cannot read make it close. TLS, zlib, SASL EXTERNAL and
ANONYMOUS, and the binding of further resources are not modelled.

### `OutboundChain`: one stanza, three layers, several threads

Sources: `ClientBase::send(xml)`, compressionzlib.cpp, tlsopensslbase.cpp `encrypt`,
`doTLSOperation`, `pushFunc`, and `ConnectionTCPBase::send`. A block is a sequence of
units; a unit records who sent it, its place in the deflate stream and its TLS
record, which is all that the far end's decoders depend on. `::send` takes a block
in up to `Pieces` pieces. The connection stays up and the handshake is done.

### `PubSubTracking`: a request and the way back of its answer

Sources: the publishing operations of kl_xmppstack.cpp and their handlers
(`handleItemPublication`, `handleItemDeletion`, `handleItems`), pubsubmanager.cpp,
kl_pubsubmanager.h, and the IQ ids of clientbase.cpp. A call is three steps: id and
manager's map (`Ask`), IQ handler and wire (`Send`), the facade's map (`Track`).
An answer has a verdict and a payload form: none, `<pubsub/>` without items, with
items; the two `handleIqID()` methods look at exactly that (`FromSubclass`,
`FromManager`). An avatar is two requests, the second sent from inside the handler
of the first. `Drop` loses the connection; it clears none of the maps, as the code.
An answer may be handled before `Track`: it finds no entry. `overtaken` are the
requests it happened to, and the properties say what becomes of them.

### `MucRooms`: what the room objects believe

Sources: createMUCRoom to changeSelfNicknameInMUCRoom of kl_xmppstack.cpp and its
MUC handlers, mucroom.cpp, kl_mucroom.cpp. Room objects are numbered; they are never
deleted, and one can be replaced in `m_mUCRoomMap` while it stays registered.
`m_joined` and the registration for presences go together in the code, so one set
stands for both. The service keeps, per room, whether it exists and is locked
(XEP-0045: a created room is locked until configured) and whether this client is in.
The IQs to a room are of five kinds: a configuration, a destruction, the list of the
owners, another list or the configuration that is asked for ("get"), and roles,
affiliations or a member list that are set ("set"). `NeedsJoined` names those an object
asks only while it counts itself as joined, `HasCallback` those whose answer the facade
has a callback for. exitMUCRoom() is one step: the presence that leaves, the
handler that is removed, the session that is disposed of and the reset of `m_joined`
follow one another on the caller's thread, and nothing else reads them in between but an
answer that is handled meanwhile. The presence of a room may be handled while
createMUCRoom() for it runs, before the form is filed; `raced` are the rooms it happened
to. Messages, subjects, invitations, voice requests, room info and the
participant tree are not modelled: they keep no state that another operation reads.

### `Roster`: one roster in three places

Sources: the roster and subscription calls of kl_xmppstack.cpp (2147-2600) and its
listener, rostermanager.cpp, `MyXmppCallback.java` (onRecvRoster to
onRosterItemUnsubscribed) and `XmppData.java`. `srv` is the server's roster, `roster`
the map of `RosterManager`, `friends` the table the application keeps. An item is
its name, its groups and the two subscriptions. Everything the stack sends goes
through `toServer`, everything it hears through `toClient`; both are in order and
are lost with the connection. The first session begins without friends: those that the
application loads from its database when it starts (XmppOperation.java:127), and so the
ghosts an earlier process left there, are left out. Other devices and the contacts change `srv` and `avail`
too. `Add` carries, as history, what the user meant to change and the item it was
made from, which is what `EditsKeepTheRest` is about: RosterManager::add always sends
name *and* groups. Left out: which resource of a contact is on line, and the calls of
`RosterManager` that nothing makes (`synchronize`, `unsubscribe`, `cancel`,
`setDelimiter`).

### `StackKeeper`: who keeps the client logged in

Sources: `AutoConnectService.java`, `XmppService.java`, the connection callbacks of
`MyXmppCallback.java`, `LoginActivity.java`. A stack is one of seven states, from
made to ended; what happens within a login is the matter of `StreamNegotiation`. The
keeper thread looks every two seconds and makes a stack if the current one is not
connected; making, registering and starting the login thread are steps of their own,
because the login thread reads the field `mXmppStack` and not its argument. A stack made
for a login by hand has the JID that was typed in, one the keeper makes the JID of the
device (`jid`); they may be the same. The server ends the older of two sessions with one
full JID ("kicked"): a login with the JID of the device ends the other such session, and
any of those that the server takes for the same. A stack that ends before it was
authenticated may be one that nobody hears of: onAuthFailed posts nothing
(`EndedQuietly`). Reports go
through the main thread's `queue`; a report does not say which stack it is about, so
`by` in it is history. Left out: the network flag that a broadcast receiver mirrors,
the registry of views, database reads, and a connection that dies in silence (nobody
notices, and nothing happens).

### `Socks5Streams`: one file, two ends, three threads each

Sources: the file-transfer operations of kl_xmppstack.cpp (requestFt to
closeFtBytestream and the handlers), siprofileft.cpp, socks5bytestream.cpp,
socks5bytestreammanager.cpp, connectionsocks5proxy.cpp, socks5bytestreamserver.cpp.
Both ends run this code. `iq` is the one IQ under way (the offer, the stream hosts,
the host used, the activation), `entry` the track map, `made`, `open` and `connected`
the stream object and its two flags, `wire` what a socket holds. The stream hosts are the initiator's own server,
named as 127.0.0.1, and the proxy of its domain; who is reached at 127.0.0.1 depends
on whether both ends are on one machine (`same`) and on who runs a server there. The
SOCKS negotiation has two rounds, the method and the request for the stream's name. An end's
own server answers only in a turn of the loop of login(), which serves it once after each
return of `m_client->recv()` (kl_xmppstack.cpp:1770): `Traffic` lets that call return,
`turn` says that the server has not been served yet, and `ServerTurn` serves it, one answer
at most.
Left out: in-band streams (never disposed; the check of the stream id is commented
out), out-of-band addresses, several transfers, the choice of a method.

### `XmlParser`, `StreamParser`: one parser, one connection after another

Sources: parser.cpp, and `parse` of clientbase.cpp, its only caller.

`XmlParser` is `Parser::feed`: an operator per state of the parser, each saying what
one character does, and the helpers they call under their own names. A parser is a
record with a field per member. Text is a sequence of atoms: the characters the
parser tells apart, and one atom for any name, value or letter, since the parser only
appends those. The tree under `m_root` is the sequence of what was opened, held as
text and closed. `StreamParser` feeds one parser: a server opens and restarts the
stream, sends stanzas and ends it, all of it well-formed; reads take any part of what
is pending; a connection may be lost anywhere; the next one meets the parser as it
was left. `parse()` disconnects when the parser refuses. `Spelling` and `Meaning` say
how each piece of a stanza is written and what must be told of it.

Left out: tags beyond what was opened, held and closed (tag.cpp, and the namespace
maps but for that of the stream); numeric references but for five samples; two
threads in `login()` that feed the parser at once.

### The MC modules

`MCConnection`, `MCNegotiation`, `MCOutbound`, `MCPubSub`, `MCMuc`, `MCRoster`,
`MCKeeper`, `MCSocks5`, `MCParser` EXTEND a module and name the sets their configurations choose
from. Nothing is redefined.

## 4. Runs

Sizes are distinct states with 2 workers. "Gate" is a constant that narrows what
the environment does; each is explained below.

| run | instance | shows | states |
|---|---|---|---|
| `connection_calm` | 1 login thread, 1 application thread, 1 login, 1 logout, 1 TCP connection, all stanza kinds, `Calm` | liveness of the ordinary client | 28,596 |
| `connection_race` | 2 login threads, 1 application thread, 2 logins, 2 TCP connections, no gate | what survives all interleavings | 902,801 |
| `logout_disconnects` | as calm | violation, section 6 | 7,209 |
| `negotiation` | 2 logins, 2 logouts, TLS and zlib in the build, every refusal, the first login patient and the second not | agreement, order, progress | 764,783 |
| `outbound` | 3 senders, 2 stanzas each, 2 pieces, all four modes, `Serial` over TLS | no loss, no mixing, no doubling | 60,456 |
| `pubsub` | 2 callers, 2 requests of all seven kinds, any form of answer, 1 lost connection | one true outcome per request | 490,047 |
| `muc` | 1 room, 2 objects, 4 calls, 1 stay ended by others | beliefs agree with the service | 748,782 |
| `roster` | 1 contact, 2 names, 1 group, 1 call, 2 changes by others, 2 sessions | the copies agree | 2,619,127 |
| `keeper` | 2 stacks at once, 2 breaks or refusals, 1 outage, 1 login, logout or stop by the user | a session comes back; the flag is true | 592,446 |
| `socks5` | 1 transfer, the initiator sends 3 pieces and closes, both placements, any server and proxy | data, order, progress | 43,036 |
| `socks5_null` | as `socks5` | violation, section 6 | 347 |
| `parser` | 3 connections, 1 of them lost anywhere, 3 items on each (header, restart, 3 stanzas, end), reads of 1 to 4 atoms or all | told exactly what was read | 46,528 |

### What the properties say

*Connection.* `ImplementsSocketUse`: the two trylocks do their job in every
interleaving (`SocketNotClosedUnderUse`, which the proofs derive from it), and a
descriptor is opened only when there is none. `EndIsReported`: when no login thread is left and nobody tears down, the last
accepted connection has been told as ended, although four paths lead there and
`cleanup()` may have done nothing. `LoginReturns`, `LogoutReturns`: no deadlock
between the mutex `disconnect()` waits for and the receiver in `select()`.
(`ConnectedHasSocket` is stated in the module and not part of a run: it holds with
the constants of `connection_calm`; two concurrent connects break it, a hazard of
connectiontcpclient.cpp:109.)

*Negotiation.* `EndsAgreeOnEncoding`: the next stanza the server reads is encoded
as it expects, over two connections one after the other, until a logout cuts into a
negotiation (`Undisturbed`). `AuthAfterTls`: credentials never go out in clear on a connection that
offered TLS. `EndIsTold`; `LoginSettles`: unless the server gives one of the four
answers the client ignores (`Ignored`), the login is told ready or ends;
`ImplementsLoginPhases`: begin, ready at most once, end.

*Outbound.* `BlocksContiguous` (a block taken in pieces is not cut by another),
`ReturnedIsSent` (the promise of `ConnectionBase::send` carried through the layers: a
stanza whose call has returned is on the wire), `EncryptedOnce` (no stanza is on the wire
twice), `SendReturns`. Over zlib alone several threads send at once here; that their blocks
then leave out of order is section 6, item 4.

*Publish-subscribe.* `ToldTruth` (success only of what the server accepted, both
halves of an avatar), `ImplementsContract` (one outcome, for good), `OnlyOvertakenUntold`
(of the usual answers that were handled exactly those that overtook the call are untold,
and stay so), `NoLeftover` (of the requests that are over, the facade keeps the entries of
exactly these), `OutcomeTold` (liveness, for all that was not lost, of an unusual form or
overtaken).

*Rooms.* `JoinedIsIn`, `NoGhost` (the two directions of "m_joined is where I am"),
`ToldOnce` (of two `handleIqID()` methods exactly one reports, so that an answer the
facade has a callback for is told exactly once). `CreationInHand` says what becomes of a
room that createMUCRoom() made: the word that it is new or its configuration is under
way, unless that word was handled before the form was filed, and in that case it never is,
although the form is there by then. `CreatedIsConfigured`: every other one is unlocked.

*Roster.* `Mirrors`: when nothing is under way the local roster is the server's,
although a fill empties it while pushes arrive. `FriendsAgree`: the application's
friends are the items of the local roster, but for contacts who unsubscribed and for
ghosts whose removal nobody heard. `PresenceKnown`: a contact counts as on line exactly
when its presence is visible and it is in the roster, unless getRoster() threw the
resources away; a friend who is visible is shown on line, and one who is shown so and is
not visible has left when nobody heard it. `EditsKeepTheRest`: a change of the groups
leaves the name alone, and the other way round, when the call was made from the item
the server holds; made from an older one it may undo a change.

*Keeper.* `FlagTellsTruth`: once all reports are handled and the last was the current
stack's, the views are shown whether that stack is on line. `ComesBack`: with the
network up, the keeper running and the host known, a session is on line again and
again, although stacks are replaced before they are connected and end each other's
sessions.

*File transfer.* `NothingLost`: nothing of the data is taken for part of the SOCKS
negotiation, or lost when the connection changes hands: while the connection stands,
what the target's listener has got and what its socket and its file thread hold add up
to what was sent, and a listener that is told of the end has got all of it. `ImplementsContract`: each
listener hears of a stream, its opening, its data and its end in this order.
`TransferOpens`: an accepted transfer opens by the proxy, when the target has no server of
its own to meet at 127.0.0.1, and on one machine as long as XMPP traffic goes on at the
initiator: its server needs a turn of login()'s loop for each of its two answers, and
without that premise TLC finds the target waiting after the first. `NoNullCall` is
violated.

*Parser.* `HeardExactly`: wherever reads cut the text, the handler has been given
exactly the items read whole, as they were spelled. The next connection is covered
too, unless the last one was lost inside a tag, a reference or a CDATA section:
between those, the XML declaration that opens a stream resets the parser.
`RefusedOnlyAfterCut`: well-formed text is refused only after such a loss, and once,
when the server uses one style of quotes (section 6, item 8, for two).

*Stated for the proofs.* Some properties are in the modules and in no run, because
section 7 proves them. Five say what a liveness property of the runs rests on, and are as
close to it as a proof can come here: `NoDeadlock` (whoever waits for a TCP mutex waits for
a thread that waits for none), `LoginInHand` (until a login is ready, a request of the
negotiation, its answer or the end is under way), `SomebodyMoves` and `CallsRunOut` (while a
send() has not returned somebody can go on, and each step uses up one of a bounded number),
`OutcomeOwed` (a request that is not told is under way). `SuccessToldOnce` and `SuccessBeforeEnd` are what
`ImplementsLoginPhases` needs of onLoginSuccess, without or with less of its condition on
the user. TLC has checked them on the instances of the runs, `SomebodyMoves` and
`CallsRunOut` without `Serial` on part of the states.

### Why the bounds are enough

The interesting cases need few actors: a teardown race needs the receiver, one
other thread and one connection; reuse of a descriptor or of a flag needs a second
connection; two threads inside `connect()` need two login threads. The runs have
those numbers, and not more. A stanza without effect is sent once, because each
repetition returns to the same label with the same shared state. Two stanzas per
sender show both "a later one overtakes" and "the buffer was left dirty". Two
publish-subscribe requests show mixing of ids; they are independent otherwise, for
no two ids share an entry. One room is enough for the object state: objects of
different rooms share nothing but the connection (their presences are routed by
room); two objects are needed for the replaced one, and four calls for "enter, leave
or rename, enter again, use". Contacts of a roster share nothing but the order of the
stanzas, so one contact is enough; two names, because an edit must be able to differ
from what is there; two sessions, for what happens between them; two changes by
others, one of them while the client's own call is under way. Two stacks are the
current one and one that was replaced (three were run once with smaller bounds, with
the same result). Three pieces of data are one read together with the reply of the
SOCKS host, one read alone and one still to come; traffic at an end comes any number of
times. The parser looks ahead by three
characters at most, so reads of one to four atoms and of everything cut the text in
every way it can notice; three connections are one that is lost, one that is refused
and one that must be heard. In each run every property has a
mutant of the code that breaks it within the same bounds (`PROJECT.json`, "mutants").

### The gates

A gate is not a claim about the code; it marks where a property stops to hold. Where
a gate is opened TLC finds the property violated, with the constants section 6 gives.

* `Calm`: the application sends and logs out only while the receive loop runs (not
  while a connect or a teardown is under way). `connection_race` is without.
* `PatientLogins`: so many first logins the user ends only when they were reported
  ready, and logs in again when `logout()` has returned. In `negotiation` that is the
  first of two: the teardown of the second cuts into its negotiation anywhere.
* `Serial`: over TLS one thread sends at a time, because its buffers are not guarded;
  without it a second sender encrypts what the first has put into the buffer, and
  `EncryptedOnce` fails. Over zlib and the bare socket any number may send at once.
* `Early = FALSE`, `Senders` and `Closers` = {initiator} (file transfer): connections
  break only once the initiator's stream is open, and the target neither sends nor
  closes. Otherwise the contract is broken, and that is what the code does: the
  initiator whose own server carries the stream has its incoming data dropped and is
  never told of the end; a link to the proxy that breaks before the activation is
  told as closed and then as opened. `NothingLost` needs only the latter half: it
  holds with `Early = TRUE` too, and fails when the target sends.

`PubSubTracking` and `MucRooms` have history sets as exemptions. `lost`, `odd` and
`overtaken` are requests whose answer was lost with the connection, had an unusual form, or
came before the call had noted the id. `stale` are rooms whose stay was
ended by others: there `m_joined` is known to be wrong (section 6). `crossed` are
rooms asked for again before an earlier answer was in, or with an `m_newNick` left
by an earlier nickname: the object cannot tell which request an error refuses.
`excused` are locked rooms nobody is bound to configure: made by enterMUCRoom(), the
form refused, or the connection lost; `raced` are locked rooms that were told to be new
before createMUCRoom() had filed the form. What becomes of the overtaken and the raced is a
property of the run, and the code's flaw (section 6, items 5 and 10); the others are
not claimed anything of.

`Roster` names its exemptions the same way: `noRoster` (the server refused the fill,
which is taken for an empty roster), `unseen`, `unfriended`, `missed`, `refilled`.
Each says what was not heard, and the properties hold for everyone else.

The server of `parser` is well-behaved in three ways the code depends on: it begins
each stream with an XML declaration, it uses one style of quotes, and its stanzas have
no reference straight after a child's end tag, none to a code point the parser refuses
and no white space inside an end tag (section 6).

The configurations of roster, keeper, file transfer and parser do not check for
deadlock: without further calls, troubles, outages or connections these systems may
really rest.

## 5. Fairness

Only threads that are inside the code are fair; users never have to act.

* `XmppConnection`: weak fairness of each thread's steps. A thread in `select()` is
  the exception: nobody makes the server send, and it is woken for certain only by
  the end of the connection (`Scheduled`). A mutex that is free again and again is
  not assumed to be got; in the instance with one login thread weak fairness is
  enough. A server that got our `</stream:stream>` closes (RFC 6120, 4.4), which is
  what `disconnect()` depends on: without it `LogoutReturns` fails, since
  `m_recvMutex` is held across a `select()` with no timeout.
* `StreamNegotiation`: the receiver, the user's teardown once begun, and the server,
  which answers or closes. No login, logout or break is owed.
* `OutboundChain`: each thread inside a call.
* `PubSubTracking`: callers inside a call, the receiver, and the server's answers
  to requests it got. Neither `Drop` nor `Reconnect` is owed.
* `MucRooms`: the second half of createMUCRoom(), the receiver, the service.
* `StackKeeper`: login threads, the keeper thread, the main thread with what the user
  has begun, and the stacks: a connection attempt ends, and the server answers a
  login. The system starts the service again (it is START_STICKY). No login, logout,
  break or outage is owed, and `ComesBack` is about what holds once the network stays.
* `Socks5Streams`: the file threads, the closers once begun, the IQs, the answers of the
  proxy, and the turn of login()'s loop once `m_client->recv()` has returned; an application
  that was told of a stream runs recvS5bFtData(). That recv() returns is owed by nobody: it
  waits in `select()` without a limit, and `TransferOpens` has the traffic as a premise.
* `Roster` claims no liveness.

## 6. Findings

Two are runs of one property each, which TLC finds violated by what the code does.

1. `logout_disconnects` (connectiontcpbase.cpp:159). `cleanup()` does nothing when a
   trylock fails. Log out while the receiver sends a reply: cleanup finds
   `m_sendMutex` taken, the receiver then sees `m_cancel` and leaves, and the state
   stays Connected: isLogined() is true, login() does nothing, for ever.
2. `socks5_null` (kl_xmppstack.cpp:3200). recvS5bFtData() looks its stream up at every
   turn of its loop. When the stream host refuses, the stream is told closed and
   erased while recv() returns no error, and the next look-up inserts a null pointer
   and calls it. closeFtBytestream() by another thread does the same.

The others come from opening a gate, or state a property no run has; the constants
given here show each of them within a minute.

3. `EncryptionFlagTrue` (StreamNegotiation; both TLS and zlib, `AnyRefusal`, 2 logins,
   1 logout, `PatientLogins = 0`). The receiver handles a `<proceed/>` it took before the
   user's disconnect cleared the flags; connect() does not reset them, and the next
   connection begins with `m_encryptionActive` set (client.cpp:262). `AuthAfterTls`
   fails with the same constants: the flags that disconnect() clears at
   clientbase.cpp:409 may be those of the next login.
4. `ZlibInOrder` (OutboundChain; `ZlibOnly`, 2 senders, 1 stanza each). ChangeLog:173
   says of this class "made thread-safe". The mutex is released before the deflated block is handed on; blocks of two
   threads reach the wire in the other order, and the server's inflate stream breaks
   (compressionzlib.cpp:88).
5. `AnsweredIsTold` (PubSubTracking; 2 callers, `FewKinds`, 1 request). The callbacks
   "tell that the nickname was published" (kl_xmppcallback.h:235). The id is noted after the request was sent; an answer handled in between finds no
   entry and the listener is told nothing (kl_xmppstack.cpp:1867).
6. `EnterEnters` (MucRooms; 1 object, 4 calls, 1 end). `m_joined` is not cleared when the
   occupant is removed, the room destroyed or the connection lost; entering again
   sends nothing (mucroom.cpp:669).
7. `AgreedIsApproved` (Roster; the constants of `roster`). The comment at
   MyXmppCallback.java:1268 says that a contact who has agreed to an invitation is
   approved without a dialog; the test at 1293 looks for an invitation that was *not*
   answered yet, so the user is asked.
8. `HeardAfterCleanup` (StreamParser; `OneStanza`, `DeclQuote <- SingleQuote`, 2 items).
   `cleanup()` "Resets internal state" (parser.h:59) but for `m_quote`,
   `m_attribIsXmlns` and `m_backBuffer` (parser.cpp:769). A connection is lost inside
   a value in double quotes; the next stream begins with `<?xml version='1.0'?>`; the
   `'` does not end the value any more, and the stream is refused, as is every later
   one: ConnParseError at each login until the process ends.

9. `LoginSettles` (StreamNegotiation; 2 logins, `PatientLogins = 0`). The receiver takes
   the result of the resource binding, the user's disconnect() passes, the result is
   handled and sets `m_resourceBound` (client.cpp:468). Nothing resets it at the next
   connect(): only Client::disconnect() (595) and Client::cleanup() (604) do, and both are over. At the next
   login bindOperation() (434) takes the resource for bound and sends nothing; the login
   is neither told ready nor ended. `LoginInHand` shows it as a state.
10. `CreatedIsConfigured` without `raced` (MucRooms; the constants of `muc`). createMUCRoom()
   joins the room before it files the configuration form (kl_xmppstack.cpp:2655). When
   the receiver handles the presence in between, it finds no form: nothing is sent, and the
   created room stays locked, although the form is in the map from then on.
11. `TransferOpens` without its premise (Socks5Streams; the constants of `socks5`).
   siprofileft.h:94 and socks5bytestreamserver.h:63 ask for a server that is served
   repeatedly. The loop of login() serves it once after each stanza (kl_xmppstack.cpp:1782):
   a target on the same machine waits for two stanzas of other traffic at the initiator,
   or for ever.

Disagreements met while reading, which need no run (a single step shows them) or
lie outside the modelled part:

* isLogined() is true from the TCP connect on, before authentication
  (kl_xmppstack.cpp:1795; its header, kl_xmppstack.h:509, speaks of the login).
* `m_authed` leaks into the next connection as `m_encryptionActive` does
  (clientbase.h:288).
* A logout during the negotiation can be followed by onLoginSuccess: the roster was
  taken before (kl_xmppcallback.h:97). An end of file by the server is told as
  onLogoutSuccess (kl_xmppcallback.h:102).
* With two senders, TLS encrypts the same bytes twice (tlsbase.h:71-72 says nothing
  of a single sender; `EncryptedOnce` fails without `Serial`).
* An error that does not echo the request reaches neither manager
  (kl_pubsubmanager.h:24) and the listener is never told. An empty nickname or
  microblog id counts as a missing entry (kl_xmppstack.cpp:1340), and `operator[]`
  leaves empty entries behind (1327).
* onLoadAvatarSuccess is given the id of the IQ instead of the avatar's
  (kl_xmppstack.cpp:1311, kl_xmppcallback.h:294); the explicit id of publishAvatar is
  not set on the item (1894); ping() deletes a tag that `send(Tag*)` has deleted (1822).
* MUC: the error switch falls through from NotAllowed to RemoteServerNotFound (1064);
  the success of an owner list is told for created rooms only, that of a member list
  never (2742, 1250); enterMUCRoom() ignores its presence arguments.
* `m_trackMapMutex` is held while node handlers run (pubsubmanager.cpp:1119); those of
  the facade do not call back, so nothing deadlocks today. The maps of the facade are
  read and written by several threads without a mutex: a data race, of which the
  model keeps one access per step.
* Roster: the header says subscribeRosterItem() adds the item by itself
  ("自动添加花名册项"); it returns false for a contact who is not in the roster.
  denySubscription() returns false always and deletes the item unless told not to.
  onRecvRoster "is pushed once at the beginning" says a comment; it comes with each login
  and each getRoster().
* Keeper: a new stack listens on port 9999 while a stack it replaced still does, fails,
  and has no stream host of its own (kl_xmppstack.cpp:116-119). A keeper that is
  destroyed and started again in one process ends at once, for `mIsThreadRun` is never
  set again (AutoConnectService.java:229).
* File transfer: a target that finds no host acknowledges an empty stream id, which
  sends nothing (socks5bytestreammanager.cpp:229); handleFTRequestError() is empty; the
  result of requestSOCKS5Bytestream() is not looked at (siprofileft.cpp:243);
  closeFtBytestream() returns false after it has closed the stream (kl_xmppstack.cpp:3238).
  Two ends that close at once wait for each other, each in `select()` under the mutex
  the other thread of its end asks for (socks5bytestream.cpp:116).
* Disco. discoInfo() and discoItems() pass no handler (kl_xmppstack.cpp:1832, 1842):
  the answer is dropped and its entry in `Disco::m_track` stays (disco.cpp:411). The tree
  of a server's entities is therefore never filled.
* Caps: every presence asks for disco#info again until the answer is in
  (kl_xmppstack.cpp:344); `m_entityMap` keeps an old `ver`, and has no features for the
  second contact with the same `ver`, since nothing is asked for it.
* Parser. `</stream:stream>` is told to nobody (740): `handleTag(0)`, and with it
  ConnStreamClosed for an end the server announced, never happens; the end of file does.
  After a connection lost inside a reference or a CDATA section the text of the next
  stream is taken as its continuation, and the login waits in silence. A reference
  straight after a child's end tag is taken letter by letter (217); white space before
  the `>` of an end tag is taken as part of the name and refused (433); a reference to
  U+10000..U+FFFFF is refused (91); isValid() is always true (794).
* Android: an authentication failure is never posted to the service
  (MyXmppCallback.java:401).

## 7. Proofs

Eight modules hold proofs. Every theorem is about `Spec` of the module it EXTENDS, for
every value of the constants that the named ASSUME allows: any sets of threads,
senders, callers, contacts, stacks, any bounds. TLC evaluates each ASSUME in the
runs of its module.

| module | theorem | property |
|---|---|---|
| `XmppConnection_proofs` | `TypeCorrect` | `TypeOK` |
| | `SocketUseImplemented` | `ImplementsSocketUse` |
| | `SocketSafe` | (`SocketNotClosedUnderUse`) |
| | `NobodyDeadlocks` | (`NoDeadlock`) |
| | `EndReported` | `EndIsReported` |
| `StreamNegotiation_proofs` | `NegotiationTypeCorrect` | `TypeOK` |
| | `EndAlwaysTold` | `EndIsTold` |
| | `EndsStayInStep` | `EndsAgreeOnEncoding` |
| | `NoClearCredentials` | `AuthAfterTls`, as long as `Undisturbed` |
| | `SuccessOnce` | (`SuccessToldOnce`) |
| | `SuccessInTime` | (`SuccessBeforeEnd`, whose condition is `Undisturbed`) |
| | `LoginPhasesImplemented` | `ImplementsLoginPhases`, all logins but the last patient |
| | `LoginsInHand` | (`LoginInHand`), the same, and no answer `Ignored` |
| `OutboundChain_proofs` | `ChainTypeCorrect` | (`TypeOK`) |
| | `BlocksNeverMix` | `BlocksContiguous` |
| | `ArriveInvariant` | (the invariant of the next two) |
| | `ReturnedHasBeenSent` | `ReturnedIsSent`, with `TlsInTurns` |
| | `SentNeverTwice` | `EncryptedOnce`, with `TlsInTurns` |
| | `NeverStuck` | (`SomebodyMoves`) |
| | `EachStepCounts` | (`CallsRunOut`, over TLS with `Serial`) |
| `PubSubTracking_proofs` | `TrackingTypeCorrect` | (`TypeOK`) |
| | `ListenerToldTruth` | `ToldTruth` |
| | `ContractImplemented` | `ImplementsContract` |
| | `MapsAreCleared` | `NoLeftover` |
| | `RequestsInHand` | (`OutcomeOwed`) |
| | `AnswersAreTold` | `OnlyOvertakenUntold` |
| `Roster_proofs` | `RosterTypeCorrect` | `TypeOK` |
| | `RosterMirrors` | `Mirrors` |
| | `FriendsStayInStep` | `FriendsAgree` |
| | `EditsKept` | `EditsKeepTheRest` |
| | `PresenceIsKnown` | `PresenceKnown` |
| `StackKeeper_proofs` | `KeeperTypeCorrect` | `TypeOK` |
| | `FlagIsTrue` | `FlagTellsTruth` |
| `MucRooms_proofs` | `RoomsTyped` | (`TypeOK`) |
| | `AnsweredOnce` | `ToldOnce` |
| | `NeverGhost` | `NoGhost` |
| | `AlwaysJoinedIsIn` | `JoinedIsIn` |
| | `CreatedInHand` | `CreationInHand` |
| `Socks5Streams_proofs` | `TransferTyped` | `TypeOK` |
| | `ListenersToldInOrder` | `ImplementsContract`, with `OneWay` |
| | `NoDataLost` | `NothingLost`, with `Receives` |

A property in parentheses is left to its proof and in no run. `Serial`, and that all
logins but the last are patient, are hypotheses of the theorems that need them; sections 4
and 6 show that they are needed. `TlsInTurns`: senders take turns where TLS is on, and over
the bare socket and zlib any number may send at once. The theorems about publish-subscribe
and rooms have no hypothesis: the answers that overtake a call are part of what they state. `Receives`
says that the target neither sends nor closes, `OneWay` in addition that no link breaks
before the initiator's stream is open; the run has both (section 4).

*Connection.* The type invariant has to carry the return labels, because a return
jumps to a value: `ControlType` says that `pc`, `ret` and `why` are well typed, and one
lemma per call form keeps it. `LockInv`: a thread owns a mutex exactly while its label
is between lock and unlock; no return leads *into* such a section (`BackFree`).
`DescriptorInv`: a thread in `select()` or `::send` has an open descriptor, one in
`DNS::connect` has none. Neither follows from the code of one thread: `SendIo` of one
is safe because `CleanupClose` of another needs both mutexes. With them every step is
a step of `SocketUse` or a stutter, and `SocketSafe` follows from the abstract
actions. For `EndReported` the invariant is `Watched`: a connection that was accepted
and not reported is either being torn down by some thread (`Tearing`), or it is `Live`
and a login thread serves it. `Live` has to say that `m_cancel` is set only while
somebody is still connecting, for that is when a receiver leaves in silence; `Frames`
says that a cleanup never returns to nothing and a login thread never out of its loop,
`Named` that the state stays while a thread is inside `DNS::connect`. `NoDeadlock` is
`LockInv` read from the side of those who wait: an owner is at a label between lock and
unlock, and at none of these does it wait for a mutex, since cleanup() asks for its second
mutex with trylock. What it may wait for is the network.

*Negotiation.* `NegInv` says that one exchange is under way at a time: who asked, whether
the answer is on its way, in the receiver's hand or handled, and that until then neither
end changes its encoding (`Agree`). Credentials in clear need a stream whose server has
not offered TLS (`InClear`). A logout that cuts in starts a second exchange over the
first, which is finding 3; so `NegInv` is shown as long as nobody has (`Undisturbed`).
`Turn` is what is left of it for any user: at most one question or answer of the
negotiation is under way, and while one is, success has not been told. `AtAppended` says
how that changes when a stanza is appended, `HandleDoes` that a handler asks one thing,
reports, gives up or drops what it got. The login after the last disturbance needs nothing
more, which is why one impatient login may come last. For `LoginInHand` the invariant has
to exclude the silent handlers one by one: `Unbound` says that no login of a patient user
begins with `m_resourceBound` set (what fails in section 6, item 9), `BoundIsLate` that an
offer of features never finds a resource bound, `Carries(TlsAsked, TlsAnswered)` that only
a build with TLS gets a `<proceed/>`, and `EndAfterClose` that the receiver ends a
connection before it tells so.

*Outbound.* `ChainInv` adds to the types who is inside which layer: the bytes of a
block that is under way are the last on the wire and belong to the holder of
`m_sendMutex`. For the rest, `CallInv` follows one stanza through the layers: `Under(t)`
is where its block is (with the thread, in `m_sendBuffer`, in the BIO pair, in `m_buf`);
each stanza asked for is either there or on the wire whole, once (`SentOnce`), and
alone in its block (`OneEach`); with turns taken nothing of an earlier call is left in
the buffers of TLS (`TlsEmpty`). Without turns over TLS a second sender pushes what the first
has put into the BIO pair, which is why `ArriveInv` claims `CallInv` under `TlsInTurns`
only. `Left` counts the steps a call still has to take, `Pieces + 10` at first: the loop of
encrypt() is left after one round because `TlsEmpty` holds, `::send` takes at least one
piece each time, and no step of one call lengthens another.

*Publish-subscribe.* `TellInv`: an id is in one place at a time (asked, on the wire,
answered, told), and what is decided at the server is what is told. `Owed` adds that until
then its entries are in the maps (`Entered`), so that the answer finds its way, and that
the request is still on it (`OwedId`); for an avatar the second request is sent by the
handler of the first answer, before that is over. `Noted` says that a caller that has not
made its entry has none, and `Silent` follows a request whose answer came before that: it is
over, untold, nothing of it is under way, and the entry made too late is the one that stays.

*Roster.* `Follows`: reading `toClient` from behind, the last that is said of a contact
is the item the server holds (`Tells`); before the first request of a session nothing
is said at all (`Deaf`); the friends are what the messages read so far make them, but
for the exemptions. That pushes overtake the answer to a fill is the hard case: items
of a push stay, the answer fills in the rest. `Heard` does for presence what `Follows`
does for items: read from behind, the last presence on its way for a contact is what
the contact shows (`Told`), a contact of whom none is on its way is known as it is
(`OnlineIs`), and one that reports on line is in the roster when the report is read
(`KnownWhenOn`). It rests on `Early`: a session has one fill, and no presence before it.

*Keeper.* `LastWord`: of every stack, current or not, the last report that was not
taken back fits its state, whether it is on the queue or is the one shown. The
property speaks of the current stack only; the invariant must speak of all, because a
report that waits on the queue may be of a stack that becomes current later.

*Rooms.* For a room that is not `crossed` at most one request that could be refused, or
its answer, is under way, and one object is concerned (`Single`); `m_newNick` tells that
object what a refusal refuses (`Refusable`); and it counts itself as joined exactly when
the service, once it has read what was sent (`Bound`), will have this client in the room,
but for a refusal that is still to come (`Agrees`). `ToldOnce` follows from which of the
two `handleIqID()` methods tells of which operation. `CInv` follows a creation: for each
locked room the presence that tells of it is on its way to the client or the configuration
to the service (`Coming`), and the handler of the one sends the other, unless the room is
`excused`, as all are without a connection. A room becomes `raced` when that handler runs
between the join and the filing of the form; no step brings either back under way while
the room is locked, so that the statement is exact (`Led`).

*File transfer.* The reason that three threads tell one listener in order is that until
the initiator has opened its stream the target rests (`TargetRests`): connected, with
nothing on its socket, its file thread in the loop. So what the initiator is told goes
with the one IQ under way (`InOrder`), only the holder of the stream's entry tells of
the end, and no thread holds data after it (`TargetInv`, `InitiatorInv`); during the
two rounds of the SOCKS negotiation the socket holds nothing but the host's answer
(`Negotiates`), whoever gives it (`HostSteps`). For the data,
`Flow` adds that both ends have met at one host, and that the target stays ready as
long as the initiator's stream is open (`Paired`); that data is under way only after
the IQs are over, never behind an end of file and always towards a connected stream
(`Carried`); that none is left when the end is told (`Finished`), what was read is
handed on before the next read (`Emptied`), and the count is right (`Conserved`). How a
count changes when a socket is written, read or emptied is stated in lemmas about
`DataIn` (`DataCount` to `TransitEmpty`), which rest on the library's facts about the
cardinality of finite sets.

## 8. Only model-checked

Liveness (`LoginReturns`, `LogoutReturns`, `LoginSettles`, `SendReturns`,
`OutcomeTold`, `CreatedIsConfigured`, `ComesBack`, `TransferOpens`) is out of the
prover's reach, as is anything about ENABLED. For all but the last two the safety half is a
theorem: what is owed is under way (`LoginsInHand`, `RequestsInHand`, `CreatedInHand`),
somebody can go on and every step counts (`NeverStuck`, `EachStepCounts`), nobody waits in a
circle (`NobodyDeadlocks`, which concerns `LoginReturns` and `LogoutReturns` as far as
their mutexes go). What remains with TLC is that the fair steps are then taken. `XmlParser` is recursive, and what a
recursive operator computes for every input would be an induction over data, so the
properties of the parser (`HeardExactly`, `RefusedOnlyAfterCut` and its `TypeOK`) have
no proof either. The two violations of section 6 are counterexamples and need none.

## 9. Not modelled

* Disco and capabilities: `m_verificationMap`, `m_discoInfoMap` and `m_entityMap`
  (kl_xmppstack.cpp:326-368, 776-963) are written, and read by no operation of the
  stack except to decide whether to ask disco#info again. A wrong entry has no
  consequence but one request more or less.
* Messages, receipts, locations, presence; payload types; registration: conversions
  without state. The sends they end in are `AppSend` of the connection model.
* Tags: searching and printing the tree (tag.cpp) are functions of it.
* The Android caches beside the friends (vCards, avatars, presence texts): mirrors for
  the views, filled from callbacks and read by nobody else.
* Android calls: thin wrappers of the vendored SIP stack, which holds the call state.
* The TLS, zlib and DNS libraries, the SIP stack, SQLite: third party, present by
  what the code observes of them (a handshake that succeeds or fails, a connect that
  is accepted or refused, a write taken in pieces).
* Language bindings (generated), views, presenters, demos and unit tests: no state of
  the system.

Some hazards are listed with a note and no property. Most of them happen: the code does
what it should not, a property that holds can only exempt it, and the exemption is named
in the module. These are two senders over zlib (section 6, item 4) or over TLS (section 4), the
track entries of lost and unanswered requests (kl_xmppstack.cpp:1753), rooms whose stay was
ended by others, whose requests cross, or whose object was replaced (mucroom.cpp:669, 926,
kl_xmppstack.cpp:2654), a group change made from an old item (2212), ghosts among the friends
and departures nobody heard (XmppData.java:103, MyXmppCallback.java:1743), the keeper's field
that a login thread reads late, its reports without a sender, its flag that is never set
again and its stored address (XmppService.java:86, AutoConnectService.java:200, 229),
and the two ways in which a transfer waits for ever (socks5bytestreammanager.cpp:229,
kl_xmppstack.cpp:1782). The others are not reached by a model. The receiver decrypts into the
buffer that a sender uses (tlsopensslbase.cpp:312): the chain models the sending direction.
Two ends that close a transfer at once (socks5bytestream.cpp:116): the run has one
closer, because beyond it the process ends first. A connection that dies in silence is
noticed by nobody (kl_xmppstack.cpp:1770, 1795): there is no step to model.

Abstractions that hold everywhere: one account; ids are fresh; memory is not
exhausted; a data race on a flag or a map is an interleaving of whole accesses.
Undefined behaviour beyond that (a map of the facade changed by two threads at once, a
roster item freed under its reader) has no model.
