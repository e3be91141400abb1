--------------------------- MODULE StreamNegotiation ---------------------------
(***************************************************************************)
(* The negotiation of an XMPP stream: gloox::Client::handleNormalNode and  *)
(* the IQ handlers that continue it (TLS, compression, authentication,     *)
(* resource binding, session, roster), up to onLoginSuccess, and the       *)
(* teardown that resets what was negotiated.                               *)
(*                                                                         *)
(* Two threads work on the flags without a mutex: the receiver, in the     *)
(* loop of XmppStack::login(), and the user, in XmppStack::logout().  The  *)
(* TCP connection itself is one flag here, `up', which every teardown      *)
(* clears; that cleanup() may find a mutex taken and leave the connection  *)
(* as it is, is the matter of XmppConnection.                              *)
(* The server is a well-behaved XMPP server: it answers in order, offers   *)
(* features that make sense at its stage, and may refuse a step.           *)
(***************************************************************************)
EXTENDS Naturals, Sequences

CONSTANTS
  HaveTls,     \* the build has a TLS implementation (m_encryption # 0)
  HaveZlib,    \* the build has zlib (m_compression # 0)
  Refusals,    \* the steps the server may refuse in this instance
  MaxLogins,   \* bound: connections opened
  MaxLogouts,  \* bound: calls of logout()
  PatientLogins  \* the first logins, those of a patient user: he logs out only
                 \* of a session that is reported ready, and logs in again only
                 \* when logout() has returned

Step == {"version", "tls", "handshake", "zlib", "auth", "challenge", "nobind",
         "bind", "session", "roster"}

ASSUME NegotiationAssumption ==
  /\ HaveTls \in BOOLEAN /\ HaveZlib \in BOOLEAN
  /\ Refusals \subseteq Step
  /\ MaxLogins \in Nat /\ MaxLogouts \in Nat /\ PatientLogins \in Nat

Threads == {"rx", "user"}

Feature == {"starttls", "zlib", "md5", "plain", "iqauth", "bind", "session"}
Request == {"header", "starttls", "hello", "compress", "sasl", "response",
            "fields", "sendauth", "bind", "session", "roster", "presence", "bye"}
Reply   == {"features", "oldversion", "proceed", "tlsfailure", "handshaken",
            "handshakefailed", "compressed", "zlibfailure", "challenge",
            "badchallenge", "success", "authfailure", "fields", "authok",
            "autherror", "bound", "binderror", "session", "sessionerror",
            "roster", "rostererror", "streamend"}
Reason  == {"None", "StreamVersionError", "TlsFailed", "CompressionFailed",
            "AuthenticationFailed", "NoSupportedAuth", "StreamClosed", "IoError",
            "UserDisconnected"}

\* What travels: a request with the encoding it was sent in, a reply with the
\* features it offers.
ToServer == [req : Request, tls : BOOLEAN, zip : BOOLEAN]
ToClient == [kind : Reply, feats : SUBSET Feature]
Nothing  == [kind |-> "nothing", feats |-> {}]

VARIABLES
  up,                   \* m_connection->state() == StateConnected
  m_encryptionActive, m_compressionActive,
  m_authed, m_resourceBound, m_streamFeatures,
  rx,                   \* the receiver: "out" of login(), in its "loop", inside
                        \* "recv" (it holds m_recvMutex) or with a stanza in "hand"
  hand,                 \* the stanza that recv() has brought
  td, why,              \* per thread: the step of its disconnect(), the reason
  out, in,              \* what is under way to the server, to the client
  peer,                 \* the server has not closed the connection
  srv,                  \* what the server has granted on this connection
  offered,              \* history: the features offered on this connection
  told, ended,          \* history of this connection: how often onLoginSuccess has
                        \* been told, and whether its end has been
  logins, logouts

flags == <<m_encryptionActive, m_compressionActive>>
login == <<m_authed, m_resourceBound, m_streamFeatures>>
net   == <<out, in, peer, srv, offered>>
hist  == <<told, ended, logins, logouts>>
vars  == <<up, flags, login, rx, hand, td, why, net, hist>>

Granted == [tls : BOOLEAN, zip : BOOLEAN, authed : BOOLEAN, bound : BOOLEAN,
            session : BOOLEAN]
Fresh   == [tls |-> FALSE, zip |-> FALSE, authed |-> FALSE, bound |-> FALSE,
            session |-> FALSE]

TypeOK ==
  /\ up \in BOOLEAN
  /\ m_encryptionActive \in BOOLEAN /\ m_compressionActive \in BOOLEAN
  /\ m_authed \in BOOLEAN /\ m_resourceBound \in BOOLEAN
  /\ m_streamFeatures \subseteq Feature
  /\ rx \in {"out", "loop", "recv", "hand"}
  /\ hand \in ToClient \union {Nothing}
  /\ td \in [Threads -> {"no", "clear", "bye", "close", "flags", "note"}]
  /\ why \in [Threads -> Reason]
  /\ out \in Seq(ToServer) /\ in \in Seq(ToClient) /\ peer \in BOOLEAN
  /\ srv \in Granted /\ offered \subseteq Feature
  /\ told \in Nat /\ ended \in BOOLEAN
  /\ logins \in 0..MaxLogins /\ logouts \in Nat

Init ==
  /\ up = FALSE
  /\ m_encryptionActive = FALSE /\ m_compressionActive = FALSE
  /\ m_authed = FALSE /\ m_resourceBound = FALSE /\ m_streamFeatures = {}
  /\ rx = "out" /\ hand = Nothing
  /\ td = [t \in Threads |-> "no"] /\ why = [t \in Threads |-> "None"]
  /\ out = <<>> /\ in = <<>> /\ peer = FALSE /\ srv = Fresh /\ offered = {}
  /\ told = 0 /\ ended = FALSE /\ logins = 0 /\ logouts = 0

-----------------------------------------------------------------------------
(* Sending.                                                                *)

\* m_connection->send of a request in the given encoding.
SendAs(r, tls, zip) ==
  out' = IF up THEN Append(out, [req |-> r, tls |-> tls, zip |-> zip]) ELSE out

\* ClientBase::send: compressed and encrypted when the flags say so.
Send(r) == SendAs(r, HaveTls /\ m_encryptionActive, HaveZlib /\ m_compressionActive)

-----------------------------------------------------------------------------
(* login(): connect, the stream header, and the receive loop.              *)

\* Is the user of the current login patient?
Patient == logins <= PatientLogins

Login ==
  /\ rx = "out" /\ td["rx"] = "no" /\ ~up /\ logins < MaxLogins
  /\ Patient => td["user"] = "no"
  /\ logins' = logins + 1
  /\ up' = TRUE /\ peer' = TRUE /\ srv' = Fresh /\ offered' = {}
  /\ told' = 0 /\ ended' = FALSE
  /\ out' = <<[req |-> "header", tls |-> HaveTls /\ m_encryptionActive,
               zip |-> HaveZlib /\ m_compressionActive]>>
  /\ in' = <<>>
  /\ rx' = "loop"
  /\ UNCHANGED <<flags, login, hand, td, why, logouts>>

Loop ==
  /\ rx = "loop" /\ td["rx"] = "no"
  /\ rx' = IF up THEN "recv" ELSE "out"
  /\ UNCHANGED <<up, flags, login, hand, td, why, net, hist>>

Receive ==
  /\ rx = "recv" /\ in # <<>>
  /\ hand' = Head(in) /\ in' = Tail(in)
  /\ rx' = "hand"
  /\ offered' = offered \union Head(in).feats
  /\ UNCHANGED <<up, flags, login, td, why, out, peer, srv, hist>>

\* Mutant of ReceiveEnd: the error ends the loop and nobody is told.
ReceiveEndSilent ==
  /\ rx = "recv" /\ in = <<>> /\ ~peer
  /\ rx' = "loop"
  /\ up' = FALSE /\ out' = <<>> /\ in' = <<>>
  /\ UNCHANGED <<flags, login, hand, td, why, peer, srv, offered, hist>>

\* recv() returns 0 or an error: handleDisconnect, whose cleanup closes at once.
ReceiveEnd ==
  /\ rx = "recv" /\ in = <<>> /\ ~peer
  /\ rx' = "loop"
  /\ up' = FALSE /\ out' = <<>> /\ in' = <<>>
  /\ td' = [td EXCEPT !["rx"] = "flags"]
  /\ \E r \in {"StreamClosed", "IoError"} : why' = [why EXCEPT !["rx"] = r]
  /\ UNCHANGED <<flags, login, hand, peer, srv, offered, hist>>

-----------------------------------------------------------------------------
(* The handlers.  Handling(k): the receiver handles a stanza of kind k and *)
(* goes back to its loop.                                                  *)

Handling(k) ==
  /\ rx = "hand" /\ td["rx"] = "no" /\ hand.kind = k
  /\ rx' = "loop" /\ hand' = Nothing
  /\ UNCHANGED <<up, in, peer, srv, offered, ended, logins, logouts>>

\* disconnect(reason), called by the receiver as the last thing of a handler.
Disconnect(reason) ==
  /\ td' = [td EXCEPT !["rx"] = "clear"]
  /\ why' = [why EXCEPT !["rx"] = reason]

Continue == UNCHANGED <<td, why, told>>

WantsTls(F)  == HaveTls /\ ~m_encryptionActive /\ "starttls" \in F
WantsZlib(F) == HaveZlib /\ ~m_compressionActive /\ "zlib" \in F

\* Client::login: the first mechanism of its list that the server offers.
ClientLogin(F) ==
  \/ F \intersect {"md5", "plain"} # {} /\ Send("sasl") /\ Continue
  \/ F \intersect {"md5", "plain"} = {} /\ "iqauth" \in F /\ Send("fields") /\ Continue
  \/ /\ F \intersect {"md5", "plain", "iqauth"} = {}
     /\ Disconnect("NoSupportedAuth") /\ UNCHANGED <<out, told>>

\* Client::bindOperation; nobody offers to unbind.
BindOperation == IF m_resourceBound THEN UNCHANGED out ELSE Send("bind")

\* Mutant of HandleFeatures: what the client does not know is stored as well.
HandleFeaturesRaw ==
  /\ Handling("features")
  /\ m_streamFeatures' = hand.feats \union {"unknown"}
  /\ ClientLogin(hand.feats)
  /\ UNCHANGED <<flags, m_authed, m_resourceBound>>

\* Mutant of HandleFeatures: authentication is tried before TLS.
HandleFeaturesAuthFirst ==
  /\ Handling("features")
  /\ LET F == IF hand.feats = {} THEN {"iqauth"} ELSE hand.feats IN
     /\ m_streamFeatures' = F
     /\ \/ ~m_authed /\ ClientLogin(F)
        \/ m_authed /\ WantsTls(F) /\ Send("starttls") /\ Continue
        \/ m_authed /\ ~WantsTls(F) /\ WantsZlib(F) /\ Send("compress") /\ Continue
        \/ /\ ~WantsTls(F) /\ ~WantsZlib(F) /\ m_authed
           /\ IF "bind" \in F THEN BindOperation ELSE UNCHANGED out
           /\ Continue
  /\ UNCHANGED <<flags, m_authed, m_resourceBound>>

\* An empty offer counts as an offer of IQ authentication (getStreamFeatures).
HandleFeatures ==
  /\ Handling("features")
  /\ LET F == IF hand.feats = {} THEN {"iqauth"} ELSE hand.feats IN
     /\ m_streamFeatures' = F
     /\ \/ WantsTls(F) /\ Send("starttls") /\ Continue
        \/ ~WantsTls(F) /\ WantsZlib(F) /\ Send("compress") /\ Continue
        \/ /\ ~WantsTls(F) /\ ~WantsZlib(F) /\ m_authed
           /\ IF "bind" \in F THEN BindOperation ELSE UNCHANGED out
           /\ Continue
        \/ ~WantsTls(F) /\ ~WantsZlib(F) /\ ~m_authed /\ ClientLogin(F)
  /\ UNCHANGED <<flags, m_authed, m_resourceBound>>

HandleProceed ==
  /\ Handling("proceed")
  /\ m_encryptionActive' = (HaveTls \/ m_encryptionActive)
  /\ IF HaveTls THEN SendAs("hello", TRUE, FALSE) ELSE UNCHANGED out
  /\ Continue
  /\ UNCHANGED <<m_compressionActive, login>>

HandleHandshaken ==
  /\ Handling("handshaken")
  /\ Send("header")
  /\ Continue
  /\ UNCHANGED <<flags, login>>

HandleCompressed ==
  /\ Handling("compressed")
  /\ m_compressionActive' = TRUE
  /\ SendAs("header", HaveTls /\ m_encryptionActive, HaveZlib)
  /\ Continue
  /\ UNCHANGED <<m_encryptionActive, login>>

\* A challenge without a nonce gets no response at all.
HandleChallenge ==
  /\ \/ Handling("challenge") /\ Send("response")
     \/ Handling("badchallenge") /\ UNCHANGED out
  /\ Continue
  /\ UNCHANGED <<flags, login>>

HandleSuccess ==
  /\ Handling("success")
  /\ m_authed' = TRUE
  /\ Send("header")
  /\ Continue
  /\ UNCHANGED <<flags, m_resourceBound, m_streamFeatures>>

\* Everything after which the client gives the stream up.
HandleFailure ==
  /\ \E k \in {<<"oldversion", "StreamVersionError">>, <<"tlsfailure", "TlsFailed">>,
               <<"handshakefailed", "TlsFailed">>, <<"zlibfailure", "CompressionFailed">>,
               <<"authfailure", "AuthenticationFailed">>} :
       Handling(k[1]) /\ Disconnect(k[2])
  /\ UNCHANGED <<out, flags, login, told>>

\* The parser takes the end tag of the stream and tells nobody.
HandleStreamEnd ==
  /\ Handling("streamend")
  /\ Continue
  /\ UNCHANGED <<out, flags, login>>

-----------------------------------------------------------------------------
(* NonSaslAuth::handleIqID, Client::handleIqIDForward, RosterManager.      *)

\* Client::connected: fetch the roster, or report success without it.
Connected(authed) ==
  /\ IF authed THEN Send("roster") /\ UNCHANGED told
               ELSE told' = told + 1 /\ UNCHANGED out
  /\ UNCHANGED <<td, why>>

HandleFields ==
  /\ Handling("fields")
  /\ Send("sendauth")
  /\ Continue
  /\ UNCHANGED <<flags, login>>

HandleAuthOk ==
  /\ Handling("authok")
  /\ m_authed' = TRUE
  /\ Connected(TRUE)
  /\ UNCHANGED <<flags, m_resourceBound, m_streamFeatures>>

HandleAuthError ==
  /\ Handling("autherror")
  /\ m_authed' = FALSE
  /\ Disconnect("AuthenticationFailed")
  /\ UNCHANGED <<out, flags, m_resourceBound, m_streamFeatures, told>>

ProcessResourceBind ==
  /\ Handling("bound")
  /\ m_resourceBound' = TRUE
  /\ IF "session" \in m_streamFeatures
     THEN Send("session") /\ Continue
     ELSE Connected(m_authed)
  /\ UNCHANGED <<flags, m_authed, m_streamFeatures>>

\* Mutant of ProcessCreateSession: success is told at once, and again when the
\* roster is there.
ProcessCreateSessionTells ==
  /\ Handling("session")
  /\ Send("roster") /\ told' = told + 1
  /\ UNCHANGED <<td, why, flags, login>>

ProcessCreateSession ==
  /\ Handling("session")
  /\ Connected(m_authed)
  /\ UNCHANGED <<flags, login>>

\* The facade's handlers for these errors are empty, and nobody disconnects.
BindOrSessionError ==
  /\ Handling("binderror") \/ Handling("sessionerror")
  /\ Continue
  /\ UNCHANGED <<out, flags, login>>

\* Mutant of HandleRoster: an error result is not the end of the negotiation.
HandleRosterStrict ==
  /\ \/ Handling("roster") /\ Send("presence") /\ told' = told + 1
     \/ Handling("rostererror") /\ UNCHANGED <<out, told>>
  /\ UNCHANGED <<td, why, flags, login>>

\* A roster or an error: rosterFilled() sends presence and calls onConnect.
HandleRoster ==
  /\ Handling("roster") \/ Handling("rostererror")
  /\ Send("presence")
  /\ told' = told + 1
  /\ UNCHANGED <<td, why, flags, login>>

-----------------------------------------------------------------------------
(* Client::disconnect and ClientBase::disconnect, in either thread.        *)

Logout ==
  /\ td["user"] = "no" /\ logouts < MaxLogouts
  /\ Patient => told > 0 /\ up
  /\ logouts' = logouts + 1
  /\ td' = [td EXCEPT !["user"] = "clear"]
  /\ why' = [why EXCEPT !["user"] = "UserDisconnected"]
  /\ UNCHANGED <<up, flags, login, rx, hand, net, told, ended, logins>>

\* The session flags go first; a connection that is down is left alone.
DiscClear(t) ==
  /\ td[t] = "clear"
  /\ m_authed' = FALSE /\ m_resourceBound' = FALSE /\ m_streamFeatures' = {}
  /\ td' = [td EXCEPT ![t] = IF up THEN "bye" ELSE "no"]
  /\ UNCHANGED <<up, flags, rx, hand, why, net, hist>>

DiscBye(t) ==
  /\ td[t] = "bye"
  /\ IF why[t] = "TlsFailed" THEN UNCHANGED out ELSE Send("bye")
  /\ td' = [td EXCEPT ![t] = "close"]
  /\ UNCHANGED <<up, flags, login, rx, hand, why, in, peer, srv, offered, hist>>

\* m_connection->disconnect() and cleanup(), once the receiver is not in recv().
DiscClose(t) ==
  /\ td[t] = "close" /\ rx # "recv"
  /\ up' = FALSE /\ out' = <<>> /\ in' = <<>>
  /\ td' = [td EXCEPT ![t] = "flags"]
  /\ UNCHANGED <<flags, login, rx, hand, why, peer, srv, offered, hist>>

\* Mutant of DiscFlags: the compression stays switched on.
DiscFlagsNoZlib(t) ==
  /\ td[t] = "flags"
  /\ m_encryptionActive' = FALSE /\ UNCHANGED m_compressionActive
  /\ td' = [td EXCEPT ![t] = "note"]
  /\ UNCHANGED <<up, login, rx, hand, why, net, hist>>

DiscFlags(t) ==
  /\ td[t] = "flags"
  /\ m_encryptionActive' = FALSE /\ m_compressionActive' = FALSE
  /\ td' = [td EXCEPT ![t] = "note"]
  /\ UNCHANGED <<up, login, rx, hand, why, net, hist>>

\* notifyOnDisconnect: the listener, then init() and Client::cleanup.
DiscNote(t) ==
  /\ td[t] = "note"
  /\ ended' = TRUE
  /\ m_authed' = FALSE /\ m_resourceBound' = FALSE /\ m_streamFeatures' = {}
  /\ td' = [td EXCEPT ![t] = "no"] /\ why' = [why EXCEPT ![t] = "None"]
  /\ UNCHANGED <<up, flags, rx, hand, net, told, logins, logouts>>

-----------------------------------------------------------------------------
(* The server.                                                             *)

\* The offers that make sense at the server's stage.
Offers ==
  {F \in SUBSET Feature :
     /\ "starttls" \in F => ~srv.tls /\ ~srv.zip
     /\ "zlib" \in F => ~srv.zip
     /\ F \intersect {"md5", "plain", "iqauth"} # {} => ~srv.authed
     /\ F \intersect {"bind", "session"} # {} => srv.authed
     /\ srv.authed => "bind" \in F \/ "nobind" \in Refusals
     /\ "session" \in offered => "session" \in F
     /\ ~srv.authed => F \intersect {"md5", "plain", "iqauth"} # {} \/ "auth" \in Refusals}

\* <<request, reply, the step that is refused by it or "none">>
Protocol ==
  {<<"header", "features", "none">>, <<"header", "oldversion", "version">>,
   <<"starttls", "proceed", "none">>, <<"starttls", "tlsfailure", "tls">>,
   <<"hello", "handshaken", "none">>, <<"hello", "handshakefailed", "handshake">>,
   <<"compress", "compressed", "none">>, <<"compress", "zlibfailure", "zlib">>,
   <<"sasl", "challenge", "none">>, <<"sasl", "success", "none">>,
   <<"sasl", "badchallenge", "challenge">>, <<"sasl", "authfailure", "auth">>,
   <<"response", "success", "none">>, <<"response", "authfailure", "auth">>,
   <<"fields", "fields", "none">>, <<"fields", "autherror", "auth">>,
   <<"sendauth", "authok", "none">>, <<"sendauth", "autherror", "auth">>,
   <<"bind", "bound", "none">>, <<"bind", "binderror", "bind">>,
   <<"session", "session", "none">>, <<"session", "sessionerror", "session">>,
   <<"roster", "roster", "none">>, <<"roster", "rostererror", "roster">>,
   <<"bye", "streamend", "none">>}

Grant(kind) ==
  [tls |-> srv.tls \/ kind = "proceed", zip |-> srv.zip \/ kind = "compressed",
   authed |-> srv.authed \/ kind \in {"success", "authok"},
   bound |-> srv.bound \/ kind \in {"bound", "authok"},
   session |-> srv.session \/ kind = "session"]

Understood(m) == m.tls = srv.tls /\ m.zip = srv.zip

ServerReplies ==
  /\ peer /\ out # <<>> /\ Understood(Head(out))
  /\ \E p \in Protocol :
       /\ p[1] = Head(out).req /\ (p[3] = "none" \/ p[3] \in Refusals)
       /\ \E F \in IF p[2] = "features" THEN Offers ELSE {{}} :
            in' = Append(in, [kind |-> p[2], feats |-> F])
       /\ srv' = Grant(p[2])
       /\ peer' = (p[2] # "streamend")
  /\ out' = Tail(out)
  /\ UNCHANGED <<up, flags, login, rx, hand, td, why, offered, hist>>

\* A presence needs no answer.
ServerReads ==
  /\ peer /\ out # <<>> /\ Understood(Head(out)) /\ Head(out).req = "presence"
  /\ out' = Tail(out)
  /\ UNCHANGED <<up, flags, login, rx, hand, td, why, in, peer, srv, offered, hist>>

\* Bytes in an encoding the server does not expect end the connection.
ServerGivesUp ==
  /\ peer /\ out # <<>> /\ ~Understood(Head(out))
  /\ peer' = FALSE
  /\ UNCHANGED <<up, flags, login, rx, hand, td, why, out, in, srv, offered, hist>>

\* The connection breaks.
Break ==
  /\ peer /\ peer' = FALSE
  /\ UNCHANGED <<up, flags, login, rx, hand, td, why, out, in, srv, offered, hist>>

Handle ==
  \/ HandleFeatures \/ HandleProceed \/ HandleHandshaken \/ HandleCompressed
  \/ HandleChallenge \/ HandleSuccess \/ HandleFailure \/ HandleStreamEnd
  \/ HandleFields \/ HandleAuthOk \/ HandleAuthError
  \/ ProcessResourceBind \/ ProcessCreateSession \/ BindOrSessionError
  \/ HandleRoster

Teardown(t) == DiscClear(t) \/ DiscBye(t) \/ DiscClose(t) \/ DiscFlags(t) \/ DiscNote(t)

Receiver == Loop \/ Receive \/ ReceiveEnd \/ Handle \/ Teardown("rx")
Server   == ServerReplies \/ ServerReads \/ ServerGivesUp

\* Nothing can follow: no thread is at work and nothing is under way.
Finished ==
  /\ rx \in {"out", "recv"} /\ \A t \in Threads : td[t] = "no"
  /\ UNCHANGED vars

Next == Login \/ Receiver \/ Logout \/ Teardown("user") \/ Server \/ Break \/ Finished

Spec == Init /\ [][Next]_vars

\* The two threads are scheduled and the server answers; nobody has to log in
\* or out, and the connection does not have to break.
Fairness == WF_vars(Receiver) /\ WF_vars(Teardown("user")) /\ WF_vars(Server)

FairSpec == Spec /\ Fairness

-----------------------------------------------------------------------------
(* Properties.                                                             *)

\* No logout has cut into a negotiation yet: the login is a patient user's, or it is
\* the first of an impatient one, and he has not begun to log out.
Undisturbed ==
  Patient \/ (logins = PatientLogins + 1 /\ up /\ td["user"] = "no")

\* What is under way to the server is encoded the way the server expects when
\* it comes to read it: both ends switch TLS and compression on between the
\* same two messages, and off together.  Not so once a logout has cut into a
\* negotiation: its </stream> may overtake the handling of a <proceed/>.
EndsAgreeOnEncoding ==
  Undisturbed /\ up /\ peer /\ out # <<>> => Understood(Head(out))

\* Credentials are sent in clear only if the server has not offered TLS on
\* this connection or the build has none.
AuthAfterTls ==
  \A i \in 1..Len(out) :
    out[i].req \in {"sasl", "response", "sendauth"}
      => out[i].tls \/ ~HaveTls \/ "starttls" \notin offered

\* onLoginSuccess is told only when the server has authenticated the user, has
\* bound a resource, and has created the session it offered.
OnlineMeansReady ==
  told > 0 /\ up => /\ srv.authed /\ srv.bound
                    /\ "session" \in offered => srv.session

\* The answers nobody acts on: a challenge without a nonce, a refused binding or
\* session, and, once authenticated, an offer with nothing to go on with.
Ignored ==
  \/ hand.kind \in {"badchallenge", "binderror", "sessionerror"}
  \/ /\ hand.kind = "features" /\ m_authed /\ "bind" \notin hand.feats
     /\ ~WantsTls(hand.feats) /\ ~WantsZlib(hand.feats)

\* A login settles unless the client ignores an answer: the connection comes to
\* onLoginSuccess, or it ends.
LoginSettles == []~Ignored => (up ~> (told > 0 \/ ~up))

\* A connection that is gone has been reported as ended, or its end is being
\* reported.
EndIsTold ==
  (logins > 0 /\ ~up /\ \A t \in Threads : td[t] = "no") => ended

\* A listener sees the callbacks of one login after another in order.
LP == INSTANCE LoginPhases WITH
        phase <- IF logins = 0 \/ ended THEN "idle"
                 ELSE IF told = 0 THEN "trying" ELSE IF told = 1 THEN "ready" ELSE "again"
ImplementsLoginPhases == LP!Spec

\* What ImplementsLoginPhases rests on: a connection tells onLoginSuccess at most once,
\* whatever the user does; and for a patient user it is told of a connection that is up
\* and has not been reported as ended.
SuccessToldOnce == told <= 1

SuccessBeforeEnd == [][Undisturbed /\ told' > told => up /\ ~ended]_vars

\* What LoginSettles rests on: until the login succeeds or the server is gone, a request
\* of the negotiation, the answer to one, or the end of the connection is under way.
LoginInHand ==
  up /\ peer /\ told = 0 =>
    \/ \E i \in DOMAIN out : out[i].req \notin {"presence", "bye"}
    \/ \E i \in DOMAIN in : in[i].kind # "streamend"
    \/ hand.kind \notin {"streamend", "nothing"}
    \/ td["rx"] # "no"

(* What the documentation of the code says, and the code does not do.      *)

\* m_encryptionActive: "whether or not stream encryption is currently activated".
EncryptionFlagTrue == up /\ m_encryptionActive => srv.tls

=============================================================================
