---------------------------- MODULE XmppConnection ----------------------------
(***************************************************************************)
(* One XMPP connection of the stack, as its threads run it: the socket     *)
(* object (gloox ConnectionTCPBase / ConnectionTCPClient), the stream      *)
(* object on top (gloox ClientBase / Client) and the facade's login,       *)
(* logout and connection listener (kl::XmppStack).                         *)
(*                                                                         *)
(* Threads.  Every XmppStack::login() runs in a thread of its own, which   *)
(* stays in the receive loop until the connection ends (LoginThreads).     *)
(* Application threads (AppThreads) send stanzas and log out.  The code is *)
(* cut at every access to the shared m_state, m_socket and m_cancel and at *)
(* every mutex operation; pc[t] is where thread t is, ret[t] where its     *)
(* open calls return to, why[t] the reasons they were called with.         *)
(*                                                                         *)
(* The negotiation of a stream is reduced here to the three stanzas that   *)
(* move m_authed and the login notification (StreamNegotiation models it). *)
(***************************************************************************)
EXTENDS Naturals

CONSTANTS
  LoginThreads,  \* threads that call XmppStack::login()
  AppThreads,    \* threads that send, and call XmppStack::logout()
  NoThread,      \* the owner of a free mutex
  MaxLogins,     \* bound: calls of login() that connect
  MaxLogouts,    \* bound: calls of logout()
  MaxSockets,    \* bound: TCP connections that the server accepts
  MaxPlain,      \* bound: stanzas without effect that the server sends
  Kinds,         \* the stanzas the server sends in this instance
  Calm           \* TRUE: the user acts only while the receive loop runs

Threads == LoginThreads \union AppThreads

\* What one recv() can bring: a stanza without effect on the connection, the
\* SASL success, the roster result, and the four ways to end the stream.
Stanza == {"plain", "success", "roster", "failure", "error", "bad", "tlsfailure"}

ASSUME ThreadsAssumption ==
  /\ LoginThreads \intersect AppThreads = {}
  /\ NoThread \notin Threads
ASSUME BoundsAssumption ==
  /\ MaxLogins \in Nat /\ MaxLogouts \in Nat /\ MaxSockets \in Nat
  /\ MaxPlain \in Nat /\ Kinds \subseteq Stanza
  /\ Calm \in BOOLEAN

VARIABLES
  m_state,    \* ConnectionBase::m_state
  m_socket,   \* ConnectionTCPBase::m_socket: 0 stands for a negative value,
              \* n > 0 for the descriptor of the n-th accepted connection
  m_cancel,   \* ConnectionTCPBase::m_cancel
  sendOwner,  \* holder of m_sendMutex
  recvOwner,  \* holder of m_recvMutex
  m_authed,   \* ClientBase::m_authed
  pc, ret, why, msg,   \* per thread: label, return labels, reasons, stanza
  opened,     \* connections accepted so far
  peer,       \* the far end of m_socket: "none", "open" or "closed"
  bye,        \* the server has got our </stream:stream>
  srv,        \* how far the server has taken the current stream
  plain,      \* stanzas without effect sent so far
  ended,      \* history: an end notification since the last accepted socket
  logins, logouts

conn  == <<m_state, m_socket, m_cancel>>
locks == <<sendOwner, recvOwner>>
net   == <<opened, peer, bye, srv, plain>>
hist  == <<ended, logins, logouts>>
vars  == <<conn, locks, m_authed, pc, ret, why, msg, net, hist>>

ConnectionState == {"Disconnected", "Connecting", "Connected"}

\* The values of gloox::ConnectionError that occur here.
ConnectionError == {"None", "Refused", "IoError", "StreamClosed", "StreamError",
                    "ParseError", "AuthenticationFailed", "TlsFailed",
                    "UserDisconnected"}

LoginLabels   == {"cn_state", "cn_lock", "cn_dns", "cn_check", "cn_conn",
                  "cn_open", "lg_ok", "rx_state", "rx_lock", "rx_sel",
                  "rx_data", "rx_eof", "rx_online", "rx_bad"}
SendLabels    == {"sd_state", "sd_lock", "sd_io"}
CleanupLabels == {"cl_send", "cl_recv", "cl_close"}
DownLabels    == {"hd_note"}
DiscLabels    == {"dc_clear", "dc_lock", "dc_cancel", "dc_note"}
Label == {"idle"} \union LoginLabels \union SendLabels \union CleanupLabels
                  \union DownLabels \union DiscLabels

SendHeld == {"cn_dns", "sd_io", "cl_recv", "cl_close"}
RecvHeld == {"rx_sel", "dc_cancel", "cl_close"}

\* Where the nested calls come back to.
SendBack  == {"idle", "lg_ok", "rx_state", "rx_online", "rx_bad", "dc_lock"}
CleanBack == {"idle", "hd_note", "dc_note"}
DownBack  == SendBack \union {"rx_eof"}
DiscBack  == {"idle", "rx_state"}

TypeOK ==
  /\ m_state \in ConnectionState /\ m_socket \in Nat /\ m_cancel \in BOOLEAN
  /\ sendOwner \in Threads \union {NoThread}
  /\ recvOwner \in Threads \union {NoThread}
  /\ m_authed \in BOOLEAN
  /\ pc \in [Threads -> Label]
  /\ ret \in [Threads -> [send: SendBack, clean: CleanBack, down: DownBack, disc: DiscBack]]
  /\ why \in [Threads -> [down: ConnectionError, disc: ConnectionError]]
  /\ msg \in [Threads -> Stanza \union {"none"}]
  /\ opened \in Nat
  /\ peer \in {"none", "open", "closed"} /\ bye \in BOOLEAN
  /\ srv \in {"new", "authed", "ready"} /\ plain \in Nat
  /\ ended \in BOOLEAN
  /\ logins \in Nat /\ logouts \in Nat

Init ==
  /\ m_state = "Disconnected" /\ m_socket = 0 /\ m_cancel = TRUE
  /\ sendOwner = NoThread /\ recvOwner = NoThread
  /\ m_authed = FALSE
  /\ pc  = [t \in Threads |-> "idle"]
  /\ ret = [t \in Threads |->
              [send |-> "idle", clean |-> "idle", down |-> "idle", disc |-> "idle"]]
  /\ why = [t \in Threads |-> [down |-> "None", disc |-> "None"]]
  /\ msg = [t \in Threads |-> "none"]
  /\ opened = 0 /\ peer = "none" /\ bye = FALSE /\ srv = "new" /\ plain = 0
  /\ ended = FALSE /\ logins = 0 /\ logouts = 0

-----------------------------------------------------------------------------
(* Calls and returns of the nested procedures.                             *)

Goto(t, label) == pc' = [pc EXCEPT ![t] = label] /\ UNCHANGED <<ret, why>>

\* A frame is popped: its return label and reason are forgotten.
Return(t, call) ==
  /\ pc'  = [pc EXCEPT ![t] = ret[t][call]]
  /\ ret' = [ret EXCEPT ![t][call] = "idle"]
  /\ why' = IF call \in {"down", "disc"} THEN [why EXCEPT ![t][call] = "None"] ELSE why

\* ClientBase::send(xml), back at label `back' afterwards.
CallSend(t, back) ==
  /\ pc'  = [pc EXCEPT ![t] = "sd_state"]
  /\ ret' = [ret EXCEPT ![t]["send"] = back]
  /\ UNCHANGED why

\* ConnectionDataHandler::handleDisconnect(reason), which cleans up first.
CallDown(t, reason, back) ==
  /\ pc'  = [pc EXCEPT ![t] = "cl_send"]
  /\ ret' = [ret EXCEPT ![t]["clean"] = "hd_note", ![t]["down"] = back]
  /\ why' = [why EXCEPT ![t]["down"] = reason]

\* Client::disconnect(reason).
CallDisc(t, reason, back) ==
  /\ pc'  = [pc EXCEPT ![t] = "dc_clear"]
  /\ ret' = [ret EXCEPT ![t]["disc"] = back]
  /\ why' = [why EXCEPT ![t]["disc"] = reason]

-----------------------------------------------------------------------------
(* XmppStack::login, ClientBase::connect, ConnectionTCPClient::connect.    *)

\* The call is made, and its test of state() passes.
Login(t) ==
  /\ pc[t] = "idle" /\ logins < MaxLogins
  /\ m_state = "Disconnected"
  /\ logins' = logins + 1
  /\ Goto(t, "cn_state")
  /\ UNCHANGED <<conn, locks, m_authed, msg, net, ended, logouts>>

\* ClientBase::connect reports success when a connect is already under way.
ConnectState(t) ==
  /\ pc[t] = "cn_state"
  /\ Goto(t, IF m_state = "Disconnected" THEN "cn_lock" ELSE "lg_ok")
  /\ UNCHANGED <<conn, locks, m_authed, msg, net, hist>>

\* Mutant of ConnectLock: no test for a connection that is already open.
ConnectLockAlways(t) ==
  /\ pc[t] = "cn_lock" /\ sendOwner = NoThread
  /\ m_state' = "Connecting"
  /\ sendOwner' = t
  /\ Goto(t, "cn_dns")
  /\ UNCHANGED <<m_socket, m_cancel, recvOwner, m_authed, msg, net, hist>>

ConnectLock(t) ==
  /\ pc[t] = "cn_lock" /\ sendOwner = NoThread
  /\ IF m_socket # 0 /\ m_state # "Disconnected"
     THEN Goto(t, "lg_ok") /\ UNCHANGED <<m_state, sendOwner>>
     ELSE /\ m_state' = "Connecting"
          /\ IF m_socket = 0
             THEN Goto(t, "cn_dns") /\ sendOwner' = t
             ELSE Goto(t, "cn_check") /\ UNCHANGED sendOwner
  /\ UNCHANGED <<m_socket, m_cancel, recvOwner, m_authed, msg, net, hist>>

\* DNS::connect, under m_sendMutex: the server accepts, or it does not.
ConnectAccepted(t) ==
  /\ pc[t] = "cn_dns" /\ opened < MaxSockets
  /\ opened' = opened + 1
  /\ m_socket' = opened + 1
  /\ peer' = "open" /\ bye' = FALSE /\ srv' = "new"
  /\ ended' = FALSE
  /\ sendOwner' = NoThread
  /\ Goto(t, "cn_check")
  /\ UNCHANGED <<m_state, m_cancel, recvOwner, m_authed, msg, plain, logins, logouts>>

\* Mutant of ConnectRefused: the descriptor of a failed connect is a number
\* no test for "not connected" knows.
ConnectRefusedBad(t) ==
  /\ pc[t] = "cn_dns"
  /\ sendOwner' = NoThread
  /\ m_socket' = opened - 1
  /\ Goto(t, "cn_check")
  /\ UNCHANGED <<m_state, m_cancel, recvOwner, m_authed, msg, net, hist>>

ConnectRefused(t) ==
  /\ pc[t] = "cn_dns"
  /\ sendOwner' = NoThread
  /\ Goto(t, "cn_check")
  /\ UNCHANGED <<conn, recvOwner, m_authed, msg, net, hist>>

\* Without the mutex: test m_socket, then set m_state, then clear m_cancel.
ConnectCheck(t) ==
  /\ pc[t] = "cn_check"
  /\ IF m_socket = 0 THEN CallDown(t, "Refused", "idle") ELSE Goto(t, "cn_conn")
  /\ UNCHANGED <<conn, locks, m_authed, msg, net, hist>>

ConnectSetState(t) ==
  /\ pc[t] = "cn_conn"
  /\ m_state' = "Connected"
  /\ Goto(t, "cn_open")
  /\ UNCHANGED <<m_socket, m_cancel, locks, m_authed, msg, net, hist>>

\* m_cancel = false; handleConnect sends the stream header.
ConnectOpen(t) ==
  /\ pc[t] = "cn_open"
  /\ m_cancel' = FALSE
  /\ CallSend(t, "lg_ok")
  /\ UNCHANGED <<m_state, m_socket, locks, m_authed, msg, net, hist>>

\* connect() returned true: onTcpConnSuccess, then the receive loop.
LoginLoop(t) ==
  /\ pc[t] = "lg_ok"
  /\ Goto(t, "rx_state")
  /\ UNCHANGED <<conn, locks, m_authed, msg, net, hist>>

-----------------------------------------------------------------------------
(* The receive loop: ClientBase::recv, ConnectionTCPClient::recv, and what *)
(* the stream does with the data.                                          *)

\* ConnNotConnected ends the loop and login() returns.
RecvState(t) ==
  /\ pc[t] = "rx_state"
  /\ Goto(t, IF m_state = "Disconnected" THEN "idle" ELSE "rx_lock")
  /\ UNCHANGED <<conn, locks, m_authed, msg, net, hist>>

RecvLock(t) ==
  /\ pc[t] = "rx_lock" /\ recvOwner = NoThread
  /\ IF m_cancel \/ m_socket = 0
     THEN Goto(t, "idle") /\ UNCHANGED recvOwner
     ELSE Goto(t, "rx_sel") /\ recvOwner' = t
  /\ UNCHANGED <<conn, sendOwner, m_authed, msg, net, hist>>

\* What the server may send next on the current stream.
Sendable == {s \in Kinds : /\ s = "plain" => plain < MaxPlain
                           /\ s \in {"success", "failure", "tlsfailure"} => srv = "new"
                           /\ s = "roster" => srv = "authed"}

\* select() (no timeout) wakes up and recv() brings data.
RecvData(t) ==
  /\ pc[t] = "rx_sel" /\ peer = "open"
  /\ \E s \in Sendable :
       /\ msg' = [msg EXCEPT ![t] = s]
       /\ srv' = IF s = "success" THEN "authed" ELSE IF s = "roster" THEN "ready" ELSE srv
       /\ plain' = IF s = "plain" THEN plain + 1 ELSE plain
  /\ recvOwner' = NoThread
  /\ Goto(t, "rx_data")
  /\ UNCHANGED <<conn, sendOwner, m_authed, opened, peer, bye, hist>>

\* Mutant of RecvEnd: the end of the connection is taken for "no data".
RecvEndIgnored(t) ==
  /\ pc[t] = "rx_sel" /\ peer # "open"
  /\ recvOwner' = NoThread
  /\ Goto(t, "rx_state")
  /\ UNCHANGED <<conn, sendOwner, m_authed, msg, net, hist>>

\* Mutant of RecvEnd: the error is returned, handleDisconnect is not called.
RecvEndSilent(t) ==
  /\ pc[t] = "rx_sel" /\ peer # "open"
  /\ recvOwner' = NoThread
  /\ Goto(t, "idle")
  /\ UNCHANGED <<conn, sendOwner, m_authed, msg, net, hist>>

\* select() wakes up and recv() returns 0 or an error.
RecvEnd(t) ==
  /\ pc[t] = "rx_sel" /\ peer # "open"
  /\ recvOwner' = NoThread
  /\ \/ CallDown(t, "StreamClosed", "rx_eof")
     \/ CallDown(t, "IoError", "idle")
  /\ UNCHANGED <<conn, sendOwner, m_authed, msg, net, hist>>

\* login() itself reports onTcpConnFailed after an orderly end of file.
RecvEof(t) ==
  /\ pc[t] = "rx_eof"
  /\ Goto(t, "idle")
  /\ UNCHANGED <<conn, locks, m_authed, msg, net, hist>>

\* ClientBase::handleReceivedData, without any mutex.
HandleData(t) ==
  /\ pc[t] = "rx_data"
  /\ msg' = [msg EXCEPT ![t] = "none"]
  /\ \/ /\ msg[t] = "plain"
        /\ Goto(t, "rx_state") \/ CallSend(t, "rx_state")
        /\ UNCHANGED m_authed
     \/ /\ msg[t] = "success"
        /\ m_authed' = TRUE
        /\ CallSend(t, "rx_state")
     \/ /\ msg[t] = "roster"
        /\ CallSend(t, "rx_online")
        /\ UNCHANGED m_authed
     \/ /\ msg[t] = "bad"
        /\ CallSend(t, "rx_bad")
        /\ UNCHANGED m_authed
     \/ /\ \E r \in {<<"error", "StreamError">>, <<"failure", "AuthenticationFailed">>,
                     <<"tlsfailure", "TlsFailed">>} :
             msg[t] = r[1] /\ CallDisc(t, r[2], "rx_state")
        /\ UNCHANGED m_authed
  /\ UNCHANGED <<conn, locks, net, hist>>

\* rosterFilled: the presence is out, onLoginSuccess, the node-config queries.
Online(t) ==
  /\ pc[t] = "rx_online"
  /\ CallSend(t, "rx_state")
  /\ UNCHANGED <<conn, locks, m_authed, msg, net, hist>>

ParseError(t) ==
  /\ pc[t] = "rx_bad"
  /\ CallDisc(t, "ParseError", "rx_state")
  /\ UNCHANGED <<conn, locks, m_authed, msg, net, hist>>

-----------------------------------------------------------------------------
(* ClientBase::send, ConnectionTCPBase::send.                              *)

SendState(t) ==
  /\ pc[t] = "sd_state"
  /\ IF m_state = "Connected" THEN Goto(t, "sd_lock") ELSE Return(t, "send")
  /\ UNCHANGED <<conn, locks, m_authed, msg, net, hist>>

SendLock(t) ==
  /\ pc[t] = "sd_lock" /\ sendOwner = NoThread
  /\ IF m_socket = 0
     THEN Return(t, "send") /\ UNCHANGED sendOwner
     ELSE Goto(t, "sd_io") /\ sendOwner' = t
  /\ UNCHANGED <<conn, recvOwner, m_authed, msg, net, hist>>

\* ::send; a write to a broken connection may fail, and then the sender's own
\* thread runs handleDisconnect.
SendIo(t) ==
  /\ pc[t] = "sd_io"
  /\ sendOwner' = NoThread
  /\ \/ /\ Return(t, "send")
        /\ bye' = (bye \/ (ret[t]["send"] = "dc_lock" /\ peer = "open"))
     \/ /\ peer # "open"
        /\ pc'  = [pc EXCEPT ![t] = "cl_send"]
        /\ ret' = [ret EXCEPT ![t] = [@ EXCEPT !["send"] = "idle", !["clean"] = "hd_note",
                                               !["down"] = ret[t]["send"]]]
        /\ why' = [why EXCEPT ![t]["down"] = "IoError"]
        /\ UNCHANGED bye
  /\ UNCHANGED <<conn, recvOwner, m_authed, msg, opened, peer, srv, plain, hist>>

-----------------------------------------------------------------------------
(* ConnectionTCPBase::cleanup: two trylocks, and nothing if one fails.     *)

CleanupSend(t) ==
  /\ pc[t] = "cl_send"
  /\ IF sendOwner = NoThread
     THEN Goto(t, "cl_recv") /\ sendOwner' = t
     ELSE Return(t, "clean") /\ UNCHANGED sendOwner
  /\ UNCHANGED <<conn, recvOwner, m_authed, msg, net, hist>>

CleanupRecv(t) ==
  /\ pc[t] = "cl_recv"
  /\ IF recvOwner = NoThread
     THEN Goto(t, "cl_close") /\ recvOwner' = t /\ UNCHANGED sendOwner
     ELSE Return(t, "clean") /\ sendOwner' = NoThread /\ UNCHANGED recvOwner
  /\ UNCHANGED <<conn, m_authed, msg, net, hist>>

CleanupClose(t) ==
  /\ pc[t] = "cl_close"
  /\ m_socket' = 0 /\ m_state' = "Disconnected" /\ m_cancel' = TRUE
  /\ peer' = "none" /\ bye' = FALSE
  /\ sendOwner' = NoThread /\ recvOwner' = NoThread
  /\ Return(t, "clean")
  /\ UNCHANGED <<m_authed, msg, opened, srv, plain, hist>>

-----------------------------------------------------------------------------
(* ClientBase::handleDisconnect, Client::disconnect, ClientBase::disconnect,*)
(* notifyOnDisconnect.                                                     *)

\* The listener is told; init() then runs Client::cleanup.
DownNotify(t) ==
  /\ pc[t] = "hd_note"
  /\ ended' = TRUE
  /\ m_authed' = FALSE
  /\ Return(t, "down")
  /\ UNCHANGED <<conn, locks, msg, net, logins, logouts>>

\* Mutant of DiscClear: the server is not told that the stream ends.
DiscClearNoBye(t) ==
  /\ pc[t] = "dc_clear"
  /\ m_authed' = FALSE
  /\ IF m_state = "Disconnected" THEN Return(t, "disc") ELSE Goto(t, "dc_lock")
  /\ UNCHANGED <<conn, locks, msg, net, hist>>

\* The session flags go first; then a connection that is already down is left.
DiscClear(t) ==
  /\ pc[t] = "dc_clear"
  /\ m_authed' = FALSE
  /\ \/ m_state = "Disconnected" /\ Return(t, "disc")
     \/ /\ m_state # "Disconnected"
        /\ IF why[t]["disc"] = "TlsFailed" THEN Goto(t, "dc_lock") ELSE CallSend(t, "dc_lock")
  /\ UNCHANGED <<conn, locks, msg, net, hist>>

\* ConnectionTCPBase::disconnect waits for the receiver to leave select().
DiscLock(t) ==
  /\ pc[t] = "dc_lock" /\ recvOwner = NoThread
  /\ recvOwner' = t
  /\ Goto(t, "dc_cancel")
  /\ UNCHANGED <<conn, sendOwner, m_authed, msg, net, hist>>

DiscCancel(t) ==
  /\ pc[t] = "dc_cancel"
  /\ m_cancel' = TRUE
  /\ recvOwner' = NoThread
  /\ pc' = [pc EXCEPT ![t] = "cl_send"]
  /\ ret' = [ret EXCEPT ![t]["clean"] = "dc_note"]
  /\ UNCHANGED <<m_state, m_socket, sendOwner, m_authed, why, msg, net, hist>>

DiscNotify(t) ==
  /\ pc[t] = "dc_note"
  /\ ended' = TRUE
  /\ m_authed' = FALSE
  /\ Return(t, "disc")
  /\ UNCHANGED <<conn, locks, msg, net, logins, logouts>>

-----------------------------------------------------------------------------
(* The application and the server.                                         *)

InLoop == \E t \in LoginThreads : pc[t] \in {"rx_state", "rx_lock", "rx_sel", "rx_data"}

AppLogout(t) ==
  /\ pc[t] = "idle" /\ logouts < MaxLogouts
  /\ Calm => InLoop
  /\ logouts' = logouts + 1
  /\ CallDisc(t, "UserDisconnected", "idle")
  /\ UNCHANGED <<conn, locks, m_authed, msg, net, ended, logins>>

\* Any operation of the facade that isLogined() lets through and that sends.
AppSend(t) ==
  /\ pc[t] = "idle" /\ m_state = "Connected"
  /\ Calm => InLoop
  /\ CallSend(t, "idle")
  /\ UNCHANGED <<conn, locks, m_authed, msg, net, hist>>

\* The server, or the network, ends the TCP connection.
PeerClose ==
  /\ peer = "open"
  /\ peer' = "closed"
  /\ UNCHANGED <<conn, locks, m_authed, pc, ret, why, msg, opened, bye, srv, plain, hist>>

\* Nothing is left to do: every call has returned and the bounds are used up.
Finished ==
  /\ \A t \in Threads : pc[t] = "idle"
  /\ logins = MaxLogins \/ m_state # "Disconnected"
  /\ UNCHANGED vars

Step(t) ==
  \/ ConnectState(t) \/ ConnectLock(t) \/ ConnectAccepted(t) \/ ConnectRefused(t)
  \/ ConnectCheck(t) \/ ConnectSetState(t) \/ ConnectOpen(t) \/ LoginLoop(t)
  \/ RecvState(t) \/ RecvLock(t) \/ RecvData(t) \/ RecvEnd(t) \/ RecvEof(t)
  \/ HandleData(t) \/ Online(t) \/ ParseError(t)
  \/ SendState(t) \/ SendLock(t) \/ SendIo(t)
  \/ CleanupSend(t) \/ CleanupRecv(t) \/ CleanupClose(t)
  \/ DownNotify(t) \/ DiscClear(t) \/ DiscLock(t) \/ DiscCancel(t) \/ DiscNotify(t)

Next ==
  \/ \E t \in Threads : Step(t)
  \/ \E t \in LoginThreads : Login(t)
  \/ \E t \in AppThreads : AppLogout(t) \/ AppSend(t)
  \/ PeerClose
  \/ Finished

Spec == Init /\ [][Next]_vars

\* Threads are scheduled, but nobody makes the server send: a thread in select()
\* is woken only by the end of the connection.
Scheduled(t) == (pc[t] = "rx_sel" => peer # "open") /\ Step(t)

\* A server that was told goodbye closes the connection.
Fairness ==
  /\ \A t \in Threads : WF_vars(Scheduled(t))
  /\ WF_vars(bye /\ PeerClose)

FairSpec == Spec /\ Fairness

-----------------------------------------------------------------------------
(* Properties.                                                             *)

\* cleanup() closes the descriptor only when no other thread is inside
\* select()/recv() or send() on it: that is what its two trylocks are for.
SocketNotClosedUnderUse ==
  [][m_socket # 0 /\ m_socket' # m_socket =>
       \A t \in Threads : pc[t] \notin {"rx_sel", "sd_io"}]_vars

InTeardown(t) == pc[t] \in CleanupLabels \union DownLabels \union DiscLabels
                 \/ (pc[t] \in SendLabels /\ ret[t]["send"] = "dc_lock")

\* When no login thread is left and nobody is tearing down, the last accepted
\* connection has been reported as ended: login() never returns in silence.
EndIsReported ==
  (opened > 0 /\ (\A t \in LoginThreads : pc[t] = "idle")
              /\ (\A t \in Threads : ~InTeardown(t))) => ended

\* m_state says Connected only while there is a descriptor (m_state and
\* m_socket are written together by cleanup, but separately by connect).
ConnectedHasSocket == m_state = "Connected" => m_socket # 0

\* Once the far end is gone, the receive loop ends and login() returns.
LoginReturns ==
  \A t \in LoginThreads : (pc[t] = "rx_sel" /\ peer = "closed") ~> (pc[t] = "idle")

\* A logout() that found the connection up comes back, although it has to wait
\* for a receiver that sits in select() without a timeout.
LogoutReturns ==
  \A t \in AppThreads : (pc[t] = "dc_clear") ~> (pc[t] = "idle")

\* Nobody waits in a circle, although cleanup() takes both mutexes: whoever waits for
\* m_sendMutex waits for a thread that connects, writes or cleans up, and whoever waits
\* for m_recvMutex for one in select() or cleaning up; none of these waits for a mutex.
NoDeadlock ==
  \A t \in Threads :
    /\ pc[t] \in {"cn_lock", "sd_lock"} /\ sendOwner # NoThread =>
         pc[sendOwner] \in {"cn_dns", "sd_io", "cl_recv", "cl_close"}
    /\ pc[t] \in {"rx_lock", "dc_lock"} /\ recvOwner # NoThread =>
         pc[recvOwner] \in {"rx_sel", "dc_cancel", "cl_close"}

\* The threads of this module use the descriptor the way SocketUse allows.
SU == INSTANCE SocketUse WITH
        Users <- Threads, fd <- m_socket,
        using <- {t \in Threads : pc[t] \in {"rx_sel", "sd_io"}}
ImplementsSocketUse == SU!Spec

(* What the documentation of the code says, and the code does not do.      *)

\* "Disconnects an established connection": when the user has logged out and
\* every call has returned, the connection is not Connected any more.
LogoutDisconnects ==
  (logouts > 0 /\ \A t \in Threads : pc[t] = "idle") => m_state # "Connected"

=============================================================================
