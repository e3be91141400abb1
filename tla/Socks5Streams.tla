----------------------------- MODULE Socks5Streams -----------------------------
(***************************************************************************)
(* One file transfer over a SOCKS5 bytestream between two clients that run *)
(* this code: the initiator offers, the target accepts, connects to one of *)
(* the stream hosts the initiator names (its own server, at 127.0.0.1, and *)
(* the proxy of its domain), and data flows.  At each end an application   *)
(* thread closes or sends, a file thread runs recvS5bFtData(), and the     *)
(* receive loop, login(), handles the IQs and serves the end's own SOCKS5  *)
(* server: one round of the server after each return of the XMPP           *)
(* connection's recv(), which waits without a limit for traffic.  A stream *)
(* that is called after it left the facade's map is a null pointer: the    *)
(* process ends.                                                           *)
(***************************************************************************)
EXTENDS Naturals, Sequences, FiniteSets

CONSTANTS
  Senders,   \* the ends that send data
  Closers,   \* the ends that close the stream
  MaxData,   \* bound: pieces of data each of them sends
  Early      \* may a connection break before the initiator's stream is open

I == "initiator"
T == "target"
End == {I, T}
Other(e) == IF e = I THEN T ELSE I

ASSUME Socks5Assumption ==
  /\ Senders \subseteq End /\ Closers \subseteq End /\ MaxData \in Nat /\ Early \in BOOLEAN

VARIABLES
  same,     \* both clients run on one machine
  serves,   \* per end: its own SOCKS5 server listens
  proxyUp,  \* the proxy of the initiator's domain can be reached
  turn,     \* per end: login() has read XMPP traffic and will serve its server once
  iq,       \* the IQ under way between the ends (and the proxy), or a step it leads to
  entry,    \* per end: m_bytestreamTrackMap has the stream
  made,     \* per end: there is a stream object
  open,     \* per end: its m_open
  connected,\* per end: its m_connected
  file,     \* per end: the file thread
  try,      \* per end: the stream hosts not tried yet
  host,     \* per end: the host its socket leads to
  s5,       \* per end: m_s5state
  cancel,   \* per end: m_cancel of the stream's connection
  wire,     \* per end: what its socket holds to be read
  chunk,    \* per end: what the file thread has read
  closer,   \* per end: the application thread, in closeFtBytestream()
  told,     \* history, per end: what the listener was told last
  got,      \* history, per end: pieces of data the listener was told of
  sent,     \* history, per end: pieces of data it has sent
  faults    \* history: a refusal by the proxy, a break of the connection

place == <<same, serves, proxyUp, turn>>
link  == <<host, s5, cancel>>
obj   == <<made, open, connected>>
vars  == <<place, iq, entry, obj, file, try, link, wire, chunk, closer, told, got, sent, faults>>

Hosts == <<"loop", "proxy">>
Unit  == {"method", "ok", "no", "data", "eof"}
Shaking == {"connecting", "negotiating"}
Message == {"none", "offer", "declined", "accepted", "hosts", "connecting", "used loop",
            "used proxy", "self", "activate", "activated", "not activated", "over"}
FileState == {"off", "find", "connect", "look", "recv", "select", "handle", "tell", "done", "crashed"}

TypeOK ==
  /\ {same, proxyUp} \subseteq BOOLEAN /\ serves \in [End -> BOOLEAN]
  /\ turn \in [End -> BOOLEAN]
  /\ iq \in Message
  /\ entry \in [End -> BOOLEAN]
  /\ made \in [End -> BOOLEAN] /\ open \in [End -> BOOLEAN] /\ connected \in [End -> BOOLEAN]
  /\ file \in [End -> FileState] /\ try \in [End -> {<<>>, <<"proxy">>, Hosts}]
  /\ host \in [End -> {"none", "no connection", "server", "own", "proxy"}]
  /\ s5 \in [End -> {"disconnected", "connecting", "negotiating", "connected"}]
  /\ cancel \in [End -> BOOLEAN]
  /\ wire \in [End -> Seq(Unit)] /\ chunk \in [End -> Seq(Unit)]
  /\ closer \in [End -> {"idle", "lock", "tell", "erase", "done", "crashed"}]
  /\ told \in [End -> {"none", "created", "opened", "closed"}]
  /\ got \in [End -> Nat] /\ sent \in [End -> 0..MaxData]
  /\ faults \subseteq {"refused", "broken"}
  /\ \A e \in End : entry[e] => made[e]

\* 127.0.0.1:9999 can be bound once on a machine.
Init ==
  /\ same \in BOOLEAN /\ proxyUp \in BOOLEAN
  /\ serves \in [End -> BOOLEAN] /\ (same => ~(serves[I] /\ serves[T]))
  /\ turn = [e \in End |-> FALSE]
  /\ iq = "none" /\ entry = [e \in End |-> FALSE]
  /\ made = [e \in End |-> FALSE] /\ open = made /\ connected = made
  /\ file = [e \in End |-> "off"] /\ try = [e \in End |-> <<>>]
  /\ host = [e \in End |-> "none"] /\ s5 = [e \in End |-> "disconnected"]
  /\ cancel = [e \in End |-> TRUE]
  /\ wire = [e \in End |-> <<>>] /\ chunk = [e \in End |-> <<>>]
  /\ closer = [e \in End |-> "idle"] /\ told = [e \in End |-> "none"]
  /\ got = [e \in End |-> 0] /\ sent = [e \in End |-> 0] /\ faults = {}

Alive(e) == "crashed" \notin {file[e], closer[e]}

\* The sockets of the two ends lead to each other.
Linked == host[I] = host[T] /\ host[I] \in {"server", "proxy"} /\ "broken" \notin faults

\* e's socket is closed; the other end finds the end of the stream.
Unlink(e) ==
  /\ host' = [host EXCEPT ![e] = "none"] /\ s5' = [s5 EXCEPT ![e] = "disconnected"]
  /\ cancel' = [cancel EXCEPT ![e] = TRUE]
  /\ wire' = IF Linked THEN [wire EXCEPT ![Other(e)] = Append(@, "eof")] ELSE wire

FileAt(e, where) == file' = [file EXCEPT ![e] = where]
CloserAt(e, where) == closer' = [closer EXCEPT ![e] = where]
TellListener(e, what) == told' = [told EXCEPT ![e] = what]

\* handleBytestreamClose().
TellClosed(e) == TellListener(e, "closed") /\ entry' = [entry EXCEPT ![e] = FALSE]

-----------------------------------------------------------------------------
(* The IQs: the offer, the stream hosts, the answer, and the activation.   *)

Step(from, to) == iq = from /\ iq' = to

IqOnly == UNCHANGED <<place, entry, obj, file, try, link, wire, chunk, closer, told, got,
                      sent, faults>>

RequestFt == Step("none", "offer") /\ IqOnly

\* acceptFt() for a SOCKS5 stream, or rejectFt().
AcceptFt == Alive(T) /\ (Step("offer", "accepted") \/ Step("offer", "declined")) /\ IqOnly

\* handleFTRequestError() is empty.
HandleDeclined == Step("declined", "over") /\ IqOnly

\* Without a server of its own the initiator has no stream hosts, and the result
\* of requestSOCKS5Bytestream() is not looked at.
HandleAccepted == Step("accepted", IF serves[I] THEN "hosts" ELSE "over") /\ IqOnly

\* handleFTBytestream() of a stream that is open or not.
Created(e, opened) ==
  /\ made' = [made EXCEPT ![e] = TRUE]
  /\ open' = [open EXCEPT ![e] = opened] /\ connected' = [connected EXCEPT ![e] = FALSE]
  /\ entry' = [entry EXCEPT ![e] = TRUE] /\ TellListener(e, "created")

HandleHosts ==
  /\ Alive(T) /\ Step("hosts", "connecting") /\ Created(T, FALSE)
  /\ try' = [try EXCEPT ![T] = Hosts]
  /\ UNCHANGED <<place, file, link, wire, chunk, closer, got, sent, faults>>

\* Mutant of HandleUsedLoop: the stream is filed though no object was made.
HandleUsedLoopNull ==
  /\ Alive(I) /\ Step("used loop", "self")
  /\ entry' = [entry EXCEPT ![I] = TRUE] /\ TellListener(I, "created")
  /\ UNCHANGED <<place, obj, file, try, link, wire, chunk, closer, got, sent, faults>>

\* The stream takes over the connection of the initiator's server, which is still
\* there unless the target has left it; the SOCKS state stays "disconnected".
HandleUsedLoop ==
  /\ Alive(I) /\ Step("used loop", "self")
  /\ \E there \in IF host[T] = "server" THEN {TRUE} ELSE BOOLEAN :
       /\ Created(I, there)
       /\ host' = [host EXCEPT ![I] = IF there THEN "server" ELSE "no connection"]
       /\ cancel' = [cancel EXCEPT ![I] = ~there]
       /\ wire' = [wire EXCEPT ![I] = IF host[T] = "server" THEN <<>> ELSE <<"eof">>]
  /\ UNCHANGED <<place, file, try, s5, chunk, closer, got, sent, faults>>

HandleUsedProxy ==
  /\ Alive(I) /\ Step("used proxy", "connecting") /\ Created(I, FALSE)
  /\ try' = [try EXCEPT ![I] = <<"proxy">>]
  /\ UNCHANGED <<place, file, link, wire, chunk, closer, got, sent, faults>>

\* The proxy starts to relay, or refuses.
ProxyActivates ==
  /\ \/ Step("activate", "activated") /\ UNCHANGED faults
     \/ Step("activate", "not activated") /\ faults' = faults \union {"refused"}
  /\ UNCHANGED <<place, entry, obj, file, try, link, wire, chunk, closer, told, got, sent>>

\* activate(), for the own server and for the proxy.
Activate ==
  /\ Alive(I) /\ (Step("self", "over") \/ Step("activated", "over"))
  /\ open' = [open EXCEPT ![I] = TRUE] /\ TellListener(I, "opened")
  /\ UNCHANGED <<place, made, connected, entry, file, try, link, wire, chunk, closer, got, sent, faults>>

HandleNotActivated == Step("not activated", "over") /\ IqOnly

Handlers ==
  \/ HandleDeclined \/ HandleAccepted \/ HandleHosts \/ HandleUsedLoop \/ HandleUsedProxy
  \/ ProxyActivates \/ Activate \/ HandleNotActivated

-----------------------------------------------------------------------------
(* The file thread: recvS5bFtData().                                       *)

RecvS5bFtData(e) ==
  /\ Alive(e) /\ file[e] = "off" /\ told[e] # "none"
  /\ FileAt(e, IF entry[e] THEN "find" ELSE "done")
  /\ UNCHANGED <<place, iq, entry, obj, try, link, wire, chunk, closer, told, got, sent, faults>>

\* Where a stream host leads.  127.0.0.1 is the target's own machine.
Leads(h) ==
  CASE h = "proxy" -> IF proxyUp THEN "proxy" ELSE "none"
    [] h = "loop" /\ same -> "server"
    [] OTHER -> IF serves[T] THEN "own" ELSE "none"

\* An open stream is connected; a stream without a connection, or that was closed
\* and has no hosts to try, is not.
ConnectAtOnce(e) ==
  /\ Alive(e) /\ file[e] = "connect"
  /\ \/ host[e] = "no connection" /\ FileAt(e, "done")
     \/ host[e] # "no connection" /\ open[e] /\ FileAt(e, "look")
     \/ ~open[e] /\ try[e] = <<>> /\ FileAt(e, "done")
  /\ UNCHANGED <<place, iq, entry, obj, try, link, wire, chunk, closer, told, got, sent, faults>>

Connecting(e) == Alive(e) /\ file[e] = "connect" /\ ~open[e] /\ try[e] # <<>>

\* Mutant of Connected: the host is reported as used when the socket is connected.
ConnectedAcks(e) ==
  /\ Connecting(e) /\ Leads(Head(try[e])) # "none" /\ FileAt(e, "look")
  /\ host' = [host EXCEPT ![e] = Leads(Head(try[e]))] /\ try' = [try EXCEPT ![e] = Tail(@)]
  /\ cancel' = [cancel EXCEPT ![e] = FALSE] /\ s5' = [s5 EXCEPT ![e] = "connecting"]
  /\ connected' = [connected EXCEPT ![e] = TRUE]
  /\ iq' = IF e = I THEN "activate" ELSE IF Leads(Head(try[e])) = "proxy" THEN "used proxy" ELSE "used loop"
  /\ UNCHANGED <<place, made, open, entry, wire, chunk, closer, told, got, sent, faults>>

\* The first host that takes a connection is the one; SOCKS is negotiated later.
Connected(e) ==
  /\ Connecting(e) /\ Leads(Head(try[e])) # "none" /\ FileAt(e, "look")
  /\ host' = [host EXCEPT ![e] = Leads(Head(try[e]))] /\ try' = [try EXCEPT ![e] = Tail(@)]
  /\ cancel' = [cancel EXCEPT ![e] = FALSE] /\ s5' = [s5 EXCEPT ![e] = "connecting"]
  /\ connected' = [connected EXCEPT ![e] = TRUE]
  /\ UNCHANGED <<place, iq, made, open, entry, wire, chunk, closer, told, got, sent, faults>>

\* Mutant of NotConnected: the other hosts are not tried.
NotConnectedGivesUp(e) ==
  /\ Connecting(e) /\ Leads(Head(try[e])) = "none"
  /\ try' = [try EXCEPT ![e] = <<>>]
  /\ connected' = [connected EXCEPT ![e] = TRUE] /\ TellClosed(e) /\ FileAt(e, "done")
  /\ UNCHANGED <<place, iq, made, open, link, wire, chunk, closer, got, sent, faults>>

\* After the last host the stream is told to be closed; the acknowledgement names
\* no stream, so that the initiator hears nothing.
NotConnected(e) ==
  /\ Connecting(e) /\ Leads(Head(try[e])) = "none"
  /\ try' = [try EXCEPT ![e] = Tail(@)]
  /\ IF Len(try[e]) > 1 THEN UNCHANGED <<connected, told, entry, file>>
     ELSE /\ connected' = [connected EXCEPT ![e] = TRUE]
          /\ TellClosed(e) /\ FileAt(e, "done")
  /\ UNCHANGED <<place, iq, made, open, link, wire, chunk, closer, got, sent, faults>>

\* The stream is looked up for connect() and every recv(); one that is not filed is
\* null.
Look(e) ==
  /\ Alive(e) /\ file[e] \in {"find", "look"}
  /\ IF entry[e]
       THEN FileAt(e, IF file[e] = "find" THEN "connect" ELSE "recv") /\ UNCHANGED <<link, wire>>
       ELSE FileAt(e, "crashed") /\ Unlink(e)
  /\ UNCHANGED <<place, iq, entry, obj, try, chunk, closer, told, got, sent, faults>>

\* recv() holds m_recvMutex while it waits.
Recv(e) ==
  /\ Alive(e) /\ file[e] = "recv"
  /\ FileAt(e, IF cancel[e] \/ host[e] \in {"none", "no connection"} THEN "done" ELSE "select")
  /\ UNCHANGED <<place, iq, entry, obj, try, link, wire, chunk, closer, told, got, sent, faults>>

\* As much as there is, or less.
Read(e) ==
  /\ Alive(e) /\ file[e] = "select" /\ FileAt(e, "handle")
  /\ \E n \in 1..Len(wire[e]) :
       /\ n = 1 \/ \A i \in 1..n : wire[e][i] # "eof"
       /\ chunk' = [chunk EXCEPT ![e] = SubSeq(wire[e], 1, n)]
       /\ wire' = [wire EXCEPT ![e] = SubSeq(@, n + 1, Len(@))]
  /\ UNCHANGED <<place, iq, entry, obj, try, link, closer, told, got, sent, faults>>

Handling(e) == Alive(e) /\ file[e] = "handle" /\ chunk' = [chunk EXCEPT ![e] = <<>>]

\* The end of the connection: told unless close() has cleared m_connected.
HandleEof(e) ==
  /\ Handling(e) /\ Head(chunk[e]) = "eof" /\ Unlink(e)
  /\ FileAt(e, IF connected[e] THEN "tell" ELSE "done")
  /\ UNCHANGED <<place, iq, entry, obj, try, closer, told, got, sent, faults>>

Tell(e) ==
  /\ Alive(e) /\ file[e] = "tell" /\ TellClosed(e) /\ FileAt(e, "done")
  /\ UNCHANGED <<place, iq, obj, try, link, wire, chunk, closer, got, sent, faults>>

\* negotiate(): the request for the stream's name is sent.
HandleMethod(e) ==
  /\ Handling(e) /\ Head(chunk[e]) = "method" /\ s5[e] = "connecting" /\ FileAt(e, "look")
  /\ s5' = [s5 EXCEPT ![e] = "negotiating"]
  /\ UNCHANGED <<place, iq, entry, obj, try, host, cancel, wire, closer, told, got, sent, faults>>

\* Whatever comes with the reply is taken for part of it.
HandleReply(e) ==
  /\ Handling(e) /\ Head(chunk[e]) = "ok" /\ s5[e] = "negotiating" /\ FileAt(e, "look")
  /\ s5' = [s5 EXCEPT ![e] = "connected"]
  /\ iq' = IF e = I THEN "activate" ELSE IF host[T] = "proxy" THEN "used proxy" ELSE "used loop"
  /\ UNCHANGED <<place, entry, obj, try, host, cancel, wire, closer, told, got, sent, faults>>

\* The connection is cancelled and the stream told to be closed; recv() returns no
\* error.
HandleRefusal(e) ==
  /\ Handling(e) /\ Head(chunk[e]) = "no" /\ s5[e] \in Shaking /\ FileAt(e, "look")
  /\ cancel' = [cancel EXCEPT ![e] = TRUE]
  /\ IF connected[e] THEN TellClosed(e) ELSE UNCHANGED <<told, entry>>
  /\ UNCHANGED <<place, iq, obj, try, host, s5, wire, closer, got, sent, faults>>

\* Mutant of HandleData: the listener is not told that the stream is open.
HandleDataUntold(e) ==
  /\ Handling(e) /\ Head(chunk[e]) = "data" /\ s5[e] \notin Shaking /\ FileAt(e, "look")
  /\ open' = [open EXCEPT ![e] = @ \/ s5[e] = "connected"]
  /\ got' = IF s5[e] = "connected" THEN [got EXCEPT ![e] = @ + Len(chunk[e])] ELSE got
  /\ UNCHANGED <<place, iq, made, connected, entry, try, link, wire, closer, told, sent, faults>>

\* The first data opens the stream.  Data on a connection whose SOCKS state is
\* "disconnected" is dropped.
HandleData(e) ==
  /\ Handling(e) /\ Head(chunk[e]) = "data" /\ s5[e] \notin Shaking /\ FileAt(e, "look")
  /\ IF s5[e] = "connected"
       THEN /\ open' = [open EXCEPT ![e] = TRUE]
            /\ IF open[e] THEN UNCHANGED told ELSE TellListener(e, "opened")
            /\ got' = [got EXCEPT ![e] = @ + Len(chunk[e])]
       ELSE UNCHANGED <<open, told, got>>
  /\ UNCHANGED <<place, iq, made, connected, entry, try, link, wire, closer, sent, faults>>

File(e) ==
  \/ RecvS5bFtData(e) \/ ConnectAtOnce(e) \/ Connected(e) \/ NotConnected(e) \/ Look(e)
  \/ Recv(e) \/ Read(e) \/ HandleEof(e) \/ Tell(e) \/ HandleMethod(e) \/ HandleReply(e)
  \/ HandleRefusal(e) \/ HandleData(e)

-----------------------------------------------------------------------------
(* The stream hosts: the servers of the ends and the proxy.                *)

\* e waits for an answer of its host: to the methods it offers, then to the request for
\* the stream's name.
Asks(e) == s5[e] \in Shaking /\ ~cancel[e] /\ wire[e] = <<>> /\ chunk[e] = <<>>

Replies(e, last) ==
  /\ Asks(e)
  /\ wire' = [wire EXCEPT ![e] = <<IF s5[e] = "connecting" THEN "method" ELSE last>>]

\* m_client->recv() returns in login()'s loop: anything may arrive, or nothing.
Traffic(x) ==
  /\ Alive(x) /\ serves[x] /\ ~turn[x] /\ turn' = [turn EXCEPT ![x] = TRUE]
  /\ UNCHANGED <<same, serves, proxyUp, iq, entry, obj, file, try, link, wire, chunk, closer,
                 told, got, sent, faults>>

\* The target is at the server of x: the initiator's, or its own.
AtServer(x) == Asks(T) /\ host[T] = (IF x = I THEN "server" ELSE "own")

\* The server reads each of its connections once, which is one answer: the initiator's
\* knows the stream, the target's own does not.
ServerTurn(x) ==
  /\ Alive(x) /\ turn[x] /\ turn' = [turn EXCEPT ![x] = FALSE]
  /\ IF AtServer(x) THEN Replies(T, IF x = I THEN "ok" ELSE "no") ELSE UNCHANGED wire
  /\ UNCHANGED <<same, serves, proxyUp, iq, entry, obj, file, try, link, chunk, closer, told,
                 got, sent, faults>>

\* The proxy may refuse the methods or the stream.
ProxyAnswers(e) ==
  /\ host[e] = "proxy"
  /\ \/ Replies(e, "ok") /\ UNCHANGED faults
     \/ /\ Asks(e) /\ wire' = [wire EXCEPT ![e] = <<"no">>]
        /\ faults' = faults \union {"refused"}
  /\ UNCHANGED <<place, iq, entry, obj, file, try, link, chunk, closer, told, got, sent>>

-----------------------------------------------------------------------------
(* The application thread: sendFtData(), closeFtBytestream().              *)

\* A stream that the listener was told is open.
Uses(e) == Alive(e) /\ closer[e] = "idle" /\ told[e] = "opened"

Writes(e) == Uses(e) /\ e \in Senders /\ sent[e] < MaxData /\ entry[e] /\ open[e]
             /\ host[e] \in {"server", "proxy"} /\ sent' = [sent EXCEPT ![e] = @ + 1]

SendFtData(e) ==
  /\ Writes(e)
  /\ wire' = IF Linked THEN [wire EXCEPT ![Other(e)] = Append(@, "data")] ELSE wire
  /\ UNCHANGED <<place, iq, entry, obj, file, try, link, chunk, closer, told, got, faults>>

\* The other end has left: an error.  cleanup() gives up while recv() waits.
SendFails(e) ==
  /\ Writes(e) /\ ~Linked
  /\ IF file[e] = "select" THEN s5' = [s5 EXCEPT ![e] = "disconnected"] /\ UNCHANGED <<host, cancel, wire>>
                           ELSE Unlink(e)
  /\ IF connected[e] THEN TellClosed(e) ELSE UNCHANGED <<told, entry>>
  /\ UNCHANGED <<place, iq, obj, file, try, chunk, closer, got, faults>>

CloseFtBytestream(e) ==
  /\ Uses(e) /\ e \in Closers
  /\ CASE ~entry[e] -> CloserAt(e, "crashed") /\ UNCHANGED obj
       [] entry[e] /\ open[e] ->
            /\ CloserAt(e, "lock")
            /\ open' = [open EXCEPT ![e] = FALSE]
            /\ connected' = [connected EXCEPT ![e] = FALSE] /\ UNCHANGED made
       [] OTHER -> CloserAt(e, "erase") /\ UNCHANGED obj
  /\ UNCHANGED <<place, iq, entry, file, try, link, wire, chunk, told, got, sent, faults>>

\* disconnect() waits for m_recvMutex.
CloseLock(e) ==
  /\ Alive(e) /\ closer[e] = "lock" /\ file[e] # "select"
  /\ Unlink(e) /\ CloserAt(e, "tell")
  /\ UNCHANGED <<place, iq, entry, obj, file, try, chunk, told, got, sent, faults>>

CloseTell(e) ==
  /\ Alive(e) /\ closer[e] = "tell" /\ TellClosed(e) /\ CloserAt(e, "erase")
  /\ UNCHANGED <<place, iq, obj, file, try, link, wire, chunk, got, sent, faults>>

\* The facade looks the stream up again to erase it.
CloseErase(e) ==
  /\ Alive(e) /\ closer[e] = "erase" /\ CloserAt(e, "done")
  /\ entry' = [entry EXCEPT ![e] = FALSE]
  /\ UNCHANGED <<place, iq, obj, file, try, link, wire, chunk, told, got, sent, faults>>

Closing(e) == CloseLock(e) \/ CloseTell(e) \/ CloseErase(e)

Break ==
  /\ "broken" \notin faults /\ (Early \/ (told[I] # "none" /\ iq = "over"))
  /\ faults' = faults \union {"broken"}
  /\ \E e \in End : host[e] \in {"server", "proxy"}
  /\ wire' = [e \in End |-> IF host[e] \in {"server", "proxy"} THEN Append(wire[e], "eof")
                                                            ELSE wire[e]]
  /\ UNCHANGED <<place, iq, entry, obj, file, try, link, chunk, closer, told, got, sent>>

Next ==
  \/ RequestFt \/ AcceptFt \/ Handlers \/ Break
  \/ \E e \in End : \/ File(e) \/ Closing(e)
                    \/ Traffic(e) \/ ServerTurn(e) \/ ProxyAnswers(e)
                    \/ SendFtData(e) \/ SendFails(e) \/ CloseFtBytestream(e)

Spec == Init /\ [][Next]_vars

\* Threads are scheduled, IQs arrive, the proxy answers, and an application that was
\* told of a stream calls recvS5bFtData().  Nothing is promised of other XMPP traffic.
FairSpec ==
  /\ Spec /\ WF_vars(Handlers)
  /\ \A e \in End : WF_vars(File(e)) /\ WF_vars(Closing(e))
                   /\ WF_vars(ServerTurn(e)) /\ WF_vars(ProxyAnswers(e))

-----------------------------------------------------------------------------
(* Properties.                                                             *)

DataIn(units) == Cardinality({i \in DOMAIN units : units[i] = "data"})

\* No piece of data is taken for part of the SOCKS negotiation or lost in the
\* handing over of the connection: while the connection stands the target's
\* listener and its socket hold what the initiator has sent, and a listener that is
\* told of the end of an unbroken stream has all of it.
NothingLost ==
  "broken" \notin faults =>
    /\ host[T] \in {"server", "proxy"} =>
         got[T] + DataIn(chunk[T]) + DataIn(wire[T]) = sent[I]
    /\ told[T] = "closed" => got[T] = sent[I]

\* Each listener is told of a stream in order, although the receive loop, the file
\* thread and the application tell it.
Initiator == INSTANCE StreamContract WITH phase <- told[I], data <- got[I]
Target == INSTANCE StreamContract WITH phase <- told[T], data <- got[T]
ImplementsContract == Initiator!Spec /\ Target!Spec

\* An accepted transfer opens where a stream host leads to the other end: by the proxy,
\* when the target has no server of its own to meet at 127.0.0.1, whatever else happens;
\* on one machine as long as XMPP traffic goes on at the initiator, whose server takes
\* two turns of login()'s loop to answer the target.
TransferOpens ==
  /\ (iq = "hosts" /\ ~same /\ proxyUp /\ ~serves[T])
       ~> (told[I] \in {"opened", "closed"} \/ faults # {})
  /\ []<>turn[I] => ((iq = "hosts" /\ same) ~> (told[I] \in {"opened", "closed"} \/ faults # {}))

\* The facade never calls a stream that is not filed any more.  Does not hold.
NoNullCall == \A e \in End : Alive(e)

=============================================================================
