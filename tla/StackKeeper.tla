------------------------------ MODULE StackKeeper ------------------------------
(***************************************************************************)
(* How the Android application keeps itself logged in.  A keeper thread    *)
(* (AutoConnectService) looks every two seconds whether the current stack  *)
(* is logged in and has XmppService make another one if it is not.  Each   *)
(* stack logs in on a thread of its own; one that is replaced goes on.     *)
(* The stacks report to one callback, which posts to the main thread,      *)
(* where the connection state shown to the views is kept.                  *)
(*                                                                         *)
(* The keeper's stacks log in under one full JID, made of the account and  *)
(* the device, and the server ends a session when the next of that JID     *)
(* begins.  A login by hand uses the JID as typed: the server gives it a   *)
(* resource when it has none, so whether such a session and another end    *)
(* each other is open.  A connection that breaks is noticed; one that dies *)
(* in silence is not, by any thread, and is left out.                      *)
(***************************************************************************)
EXTENDS Naturals, Sequences, FiniteSets

CONSTANTS
  Stacks,      \* bound: the stacks that are alive at once
  DomainAnswers, \* does the domain of the JID lead to the server
  MaxQueue,    \* bound: messages on the main thread's queue
  MaxTroubles, \* bound: breaks, refusals and orderly ends of connections
  MaxOutages,  \* bound: how often the network goes
  MaxUser      \* bound: logins and logouts by the user, and stops of the service

ASSUME KeeperAssumption ==
  /\ 0 \notin Stacks /\ Stacks # {} /\ IsFiniteSet(Stacks) /\ DomainAnswers \in BOOLEAN
  /\ MaxQueue \in Nat /\ MaxTroubles \in Nat /\ MaxOutages \in Nat /\ MaxUser \in Nat

VARIABLES
  st,          \* per stack: what it is doing
  host,        \* per stack: the host it was given, "blank" for the JID's domain
  jid,         \* per stack: the JID it was given, as typed or with the device
  mXmppStack,  \* the current stack, 0 for null
  starting,    \* login threads that have not read mXmppStack yet
  keeper,      \* the keeper thread
  mIsThreadRun,
  hostIp,      \* the keeper thread's host
  typeXmpp,    \* UserGlobalPartInfo holds the server's address
  ui,          \* the main thread, in a login or a logout
  queue,       \* the main thread's messages, [ok, by]
  mIsTcpConOk,
  net,
  speaker,     \* history: the stack whose report mIsTcpConOk shows, 0 for none
  used         \* how often each bound was used

stacks == <<st, host, jid, mXmppStack>>
thread == <<mIsThreadRun, hostIp, typeXmpp>>
app  == <<keeper, thread, ui>>
view == <<queue, mIsTcpConOk, speaker>>
vars == <<stacks, starting, app, view, net, used>>

Host == {"given", "blank"}
Jid  == {"typed", "device"}
Report == [ok : BOOLEAN, by : Stacks \union {0}]
StackState == {"free", "new", "connecting", "tcp", "online", "kicked", "ended"}

\* The server has one session of the device's JID on line at most.
OneSession ==
  \A r, s \in Stacks : st[r] = "online" /\ st[s] = "online" /\ {jid[r], jid[s]} = {"device"}
                        => r = s

\* Beside the types: sessions end each other, and a login under way finds
\* a stack in the field unless the user has logged out under it.
TypeOK ==
  /\ st \in [Stacks -> StackState] /\ host \in [Stacks -> Host] /\ hostIp \in Host
  /\ jid \in [Stacks -> Jid]
  /\ mXmppStack \in Stacks \union {0}
  /\ starting \in 0..Cardinality(Stacks)
  /\ keeper \in {"off", "look", "make", "register", "sleep"}
  /\ ui \in {"idle", "make", "register", "clear", "gone"}
  /\ {mIsThreadRun, mIsTcpConOk, typeXmpp, net} \subseteq BOOLEAN
  /\ queue \in Seq(Report) /\ Len(queue) <= MaxQueue
  /\ speaker \in Stacks \union {0}
  /\ used \in [trouble : 0..MaxTroubles, outage : 0..MaxOutages, user : 0..MaxUser]
  /\ OneSession
  /\ mXmppStack = 0 => ui = "gone" \/ (starting = 0 /\ "register" \notin {keeper, ui})

\* A process that has just started.
Fresh ==
  /\ st' = [s \in Stacks |-> "free"] /\ host' = [s \in Stacks |-> "blank"]
  /\ jid' = [s \in Stacks |-> "device"]
  /\ mXmppStack' = 0 /\ starting' = 0 /\ hostIp' = "blank" /\ typeXmpp' = FALSE
  /\ keeper' = "off" /\ mIsThreadRun' = TRUE /\ ui' = "idle"
  /\ queue' = <<>> /\ mIsTcpConOk' = TRUE /\ speaker' = 0

Init ==
  /\ st = [s \in Stacks |-> "free"] /\ host = [s \in Stacks |-> "blank"]
  /\ jid = [s \in Stacks |-> "device"]
  /\ mXmppStack = 0 /\ starting = 0 /\ hostIp = "blank" /\ typeXmpp = FALSE
  /\ keeper = "off" /\ mIsThreadRun = TRUE /\ ui = "idle"
  /\ queue = <<>> /\ mIsTcpConOk = TRUE /\ speaker = 0
  /\ net \in BOOLEAN /\ used = [trouble |-> 0, outage |-> 0, user |-> 0]

Spend(what, max) == used[what] < max /\ used' = [used EXCEPT ![what] = @ + 1]

-----------------------------------------------------------------------------
(* XmppService.                                                            *)

\* Mutant of IsLogined: a stack counts as soon as it exists.
IsLoginedSoon == mXmppStack # 0

\* StateConnected is the state from the TCP accept on.
IsLogined == mXmppStack # 0 /\ st[mXmppStack] \in {"tcp", "online", "kicked"}

\* A stack that is not current, does nothing and has nothing on the queue is
\* garbage.
Garbage(s) ==
  /\ st[s] \in {"free", "new", "ended"} /\ s # mXmppStack
  /\ \A i \in DOMAIN queue : queue[i].by # s

\* Mutant of Make: the new stack is kept in a variable of its own.
MakeLocal(where, whose) ==
  \E s \in Stacks :
    /\ Garbage(s)
    /\ st' = [st EXCEPT ![s] = "new"] /\ host' = [host EXCEPT ![s] = where]
    /\ jid' = [jid EXCEPT ![s] = whose]
    /\ speaker' = IF speaker = s THEN 0 ELSE speaker
    /\ UNCHANGED mXmppStack

\* login(): the new stack is stored, then found again in the field.
Make(where, whose) ==
  \E s \in Stacks :
    /\ Garbage(s)
    /\ st' = [st EXCEPT ![s] = "new"] /\ host' = [host EXCEPT ![s] = where]
    /\ jid' = [jid EXCEPT ![s] = whose]
    /\ mXmppStack' = s
    /\ speaker' = IF speaker = s THEN 0 ELSE speaker

\* The field is null: the exception ends the process.
Crash == mXmppStack = 0 /\ Fresh

Register == mXmppStack # 0 /\ starting < Cardinality(Stacks) /\ starting' = starting + 1
              /\ UNCHANGED <<stacks, queue, mIsTcpConOk, speaker>>

\* The login thread takes whatever stack is current; one that is connected is
\* left alone.
StartLogin ==
  /\ starting > 0
  /\ \/ Crash
     \/ /\ mXmppStack # 0 /\ starting' = starting - 1
        /\ st' = IF st[mXmppStack] \in {"new", "ended"}
                   THEN [st EXCEPT ![mXmppStack] = "connecting"] ELSE st
        /\ UNCHANGED <<host, jid, mXmppStack, app, view>>
  /\ UNCHANGED <<net, used>>

-----------------------------------------------------------------------------
(* A stack: what it goes through, and what it has the callback post.       *)

Post(s, ok) == /\ Len(queue) < MaxQueue /\ queue' = Append(queue, [ok |-> ok, by |-> s])
               /\ UNCHANGED <<mIsTcpConOk, speaker>>
Become(s, what) == st' = [st EXCEPT ![s] = what]

\* No report follows: what s has reported is out of date.
Quietly(s) ==
  LET Outdated(by) == IF by = s THEN 0 ELSE by IN
  /\ speaker' = Outdated(speaker)
  /\ queue' = [i \in DOMAIN queue |-> [queue[i] EXCEPT !.by = Outdated(@)]]
  /\ UNCHANGED mIsTcpConOk

Reachable(s) == net /\ (host[s] = "given" \/ DomainAnswers)

TcpAccepted(s) ==
  /\ Reachable(s) /\ st[s] = "connecting" /\ Become(s, "tcp")
  /\ UNCHANGED <<host, jid, mXmppStack, starting, app, view, net, used>>

\* onLoginSuccess(); the server ends the older session of the device, and those it
\* takes for sessions of the same JID.
LoggedIn(s) ==
  /\ net /\ st[s] = "tcp"
  /\ \E same \in SUBSET {r \in Stacks : st[r] = "online"} :
       /\ \A r \in Stacks \ same : st[r] = "online" => {jid[r], jid[s]} # {"device"}
       /\ st' = [r \in Stacks |-> IF r = s THEN "online"
                                  ELSE IF r \in same THEN "kicked" ELSE st[r]]
  /\ Post(s, TRUE)
  /\ UNCHANGED <<host, jid, mXmppStack, starting, app, net, used>>

\* A connection is refused or breaks, or the server has ended the session or closed the
\* stream, which login() reports itself: onTcpConnFailed().
Failed(s) ==
  /\ Become(s, "ended") /\ Post(s, FALSE)
  /\ UNCHANGED <<host, jid, mXmppStack, starting, app, net>>

MustFail(s) ==
  /\ st[s] = "kicked" \/ (st[s] \in {"connecting", "tcp", "online"} /\ ~Reachable(s))
  /\ Failed(s) /\ UNCHANGED used

MayFail(s) ==
  /\ st[s] \in {"connecting", "tcp", "online"} /\ Reachable(s)
  /\ Failed(s) /\ Spend("trouble", MaxTroubles)

\* Authentication fails: onAuthFailed() posts nothing.
EndedQuietly(s) ==
  /\ st[s] = "tcp" /\ Spend("trouble", MaxTroubles)
  /\ Become(s, "ended") /\ Quietly(s)
  /\ UNCHANGED <<host, jid, mXmppStack, starting, app, net>>

Stack(s) == TcpAccepted(s) \/ LoggedIn(s) \/ MustFail(s)

-----------------------------------------------------------------------------
(* AutoConnectService.                                                     *)

\* doGetProperAccessAddress() asks the web service only when no address is known,
\* and returns no list when one is: the host is blank then, as it is when the
\* service cannot be reached.
Address == IF ~typeXmpp /\ net THEN "given" ELSE "blank"

\* The thread looks the host up once, and stores what it found.
OnStartCommand ==
  /\ keeper = "off" /\ ui = "idle" /\ keeper' = "look"
  /\ hostIp' = Address /\ typeXmpp' = (Address = "given")
  /\ UNCHANGED <<stacks, starting, mIsThreadRun, ui, view, net, used>>

\* The head of the loop, and doWork().
Look ==
  /\ keeper = "look"
  /\ keeper' = IF ~mIsThreadRun THEN "off"
               ELSE IF net /\ ~IsLogined THEN "make" ELSE "sleep"
  /\ UNCHANGED <<stacks, starting, thread, ui, view, net, used>>

KeeperMake ==
  /\ keeper = "make" /\ Make(hostIp, "device") /\ keeper' = "register"
  /\ UNCHANGED <<starting, thread, ui, queue, mIsTcpConOk, net, used>>

KeeperRegister ==
  /\ keeper = "register"
  /\ \/ Crash
     \/ Register /\ keeper' = "sleep" /\ UNCHANGED <<thread, ui>>
  /\ UNCHANGED <<net, used>>

Sleep ==
  /\ keeper = "sleep" /\ keeper' = "look"
  /\ UNCHANGED <<stacks, starting, thread, ui, view, net, used>>

Keeper == Look \/ KeeperMake \/ KeeperRegister \/ Sleep

\* Mutant of HandleMessage: the later of two reports is overtaken.
HandleMessageLast ==
  /\ queue # <<>>
  /\ mIsTcpConOk' = queue[Len(queue)].ok /\ speaker' = queue[Len(queue)].by
  /\ queue' = SubSeq(queue, 1, Len(queue) - 1)
  /\ UNCHANGED <<stacks, starting, app, net, used>>

\* MSG_CONN_OK and MSG_CONN_FAILED do not say which stack they are about.
HandleMessage ==
  /\ queue # <<>>
  /\ mIsTcpConOk' = Head(queue).ok /\ speaker' = Head(queue).by
  /\ queue' = Tail(queue)
  /\ UNCHANGED <<stacks, starting, app, net, used>>

\* mIsThreadRun is never set again.
OnDestroy ==
  /\ ui = "idle" /\ keeper # "off" /\ Spend("user", MaxUser)
  /\ mIsThreadRun' = FALSE
  /\ UNCHANGED <<stacks, starting, keeper, hostIp, typeXmpp, ui, view, net>>

-----------------------------------------------------------------------------
(* The user, before the keeper runs, and logging out.                      *)

UserLogin ==
  /\ ui = "idle" /\ keeper = "off" /\ Spend("user", MaxUser) /\ ui' = "make"
  /\ UNCHANGED <<stacks, starting, keeper, thread, view, net>>

UserMake ==
  /\ ui = "make" /\ Make("given", "typed") /\ ui' = "register" /\ typeXmpp' = TRUE
  /\ UNCHANGED <<starting, keeper, mIsThreadRun, hostIp, queue, mIsTcpConOk, net, used>>

UserRegister ==
  /\ ui = "register"
  /\ \/ Crash
     \/ Register /\ ui' = "idle" /\ UNCHANGED <<keeper, thread>>
  /\ UNCHANGED <<net, used>>

\* XmppService.logout() ends the current stack and then clears the field, which
\* may hold another one by then.
UserLogout ==
  /\ ui = "idle" /\ mXmppStack # 0 /\ Spend("user", MaxUser) /\ ui' = "clear"
  /\ IF st[mXmppStack] \in {"connecting", "tcp", "online", "kicked"}
       THEN Become(mXmppStack, "ended") /\ Quietly(mXmppStack)
       ELSE UNCHANGED <<st, view>>
  /\ UNCHANGED <<host, jid, mXmppStack, starting, keeper, thread, net>>

UserClear ==
  /\ ui = "clear" /\ mXmppStack' = 0 /\ ui' = "gone"
  /\ UNCHANGED <<st, host, jid, starting, keeper, thread, view, net, used>>

\* LoginActivity.doLogout() goes on to kill the process.
KillProcess == ui = "gone" /\ Fresh /\ UNCHANGED <<net, used>>

User == UserMake \/ UserRegister \/ UserClear \/ KillProcess

NetGoes ==
  /\ net /\ net' = FALSE /\ Spend("outage", MaxOutages)
  /\ UNCHANGED <<stacks, starting, app, view>>

NetComes ==
  /\ ~net /\ net' = TRUE
  /\ UNCHANGED <<stacks, starting, app, view, used>>

Next ==
  \/ StartLogin \/ Keeper \/ OnStartCommand \/ HandleMessage \/ OnDestroy
  \/ User \/ UserLogin \/ UserLogout \/ NetGoes \/ NetComes
  \/ \E s \in Stacks : Stack(s) \/ MayFail(s) \/ EndedQuietly(s)

Spec == Init /\ [][Next]_vars

\* Threads are scheduled; a connection attempt ends, and the server answers a
\* login.  The system starts the service again (START_STICKY).
FairSpec ==
  /\ Spec
  /\ WF_vars(StartLogin) /\ WF_vars(Keeper) /\ WF_vars(HandleMessage) /\ WF_vars(User)
  /\ WF_vars(OnStartCommand)
  /\ \A s \in Stacks : WF_vars(Stack(s))

-----------------------------------------------------------------------------
(* Properties.                                                             *)

\* When every report has been handled and the last one was the current stack's,
\* the views are shown whether that stack is on line.  (A stack that was replaced
\* speaks for the current one: that is exempt, and so is an end that no stack
\* reports.)
FlagTellsTruth ==
  (queue = <<>> /\ mXmppStack # 0 /\ speaker = mXmppStack /\ st[mXmppStack] # "kicked")
    => (mIsTcpConOk <=> st[mXmppStack] = "online")

\* Once the network stays, the keeper is not stopped for good and it knows the
\* host, a stack is on line again and again, although stacks are replaced before
\* they are connected and end each other's sessions.
ComesBack ==
  <>[](net /\ mIsThreadRun /\ hostIp = "given") => []<>(\E s \in Stacks : st[s] = "online")

=============================================================================
