------------------------ MODULE StreamNegotiation_proofs ------------------------
(***************************************************************************)
(* What the negotiation keeps whatever the two threads do (types, and that *)
(* every end is told), and what it keeps as long as the user logs out only *)
(* of a session that is ready and waits for logout() to return: both ends  *)
(* encode alike, credentials never pass a TLS that is on offer, and the    *)
(* listener sees the phases of LoginPhases.  For any number of logins and  *)
(* logouts, any refusals of the server, and any build.                     *)
(***************************************************************************)
EXTENDS StreamNegotiation, SequenceTheorems, TLAPS

\* Requests that go out after the negotiation, and those that carry credentials.
Clear == {"presence", "bye"}
Auth  == {"sasl", "response", "sendauth"}

\* The answers to a request for TLS.
TlsStage == {"proceed", "tlsfailure"}

\* The two ends encode alike.
Agree == /\ srv.tls = (HaveTls /\ m_encryptionActive)
         /\ srv.zip = (HaveZlib /\ m_compressionActive)

\* The server has offered TLS, and the client could encrypt and does not.
InClear == HaveTls /\ ~m_encryptionActive /\ "starttls" \in offered

\* Nobody has been told anything of this connection, and no thread ends it.
Trying == up /\ told = 0 /\ \A t \in Threads : td[t] = "no"

\* A request of the negotiation that the server has yet to read.
AskInv(m) ==
  /\ m.req \notin Clear /\ Agree /\ Understood(m)
  /\ m.req = "starttls" => HaveTls /\ ~srv.tls /\ ~srv.zip
  /\ m.req = "compress" => HaveZlib /\ ~srv.zip
  /\ InClear => m.req = "starttls"

\* A reply that the client has yet to handle.  Between the server's switch and the
\* client's, the reply that announces the switch is the only thing under way.
ReplyInv(r) ==
  /\ r.kind # "streamend" /\ (r.kind # "features" => r.feats = {})
  /\ r.kind = "proceed" => HaveTls /\ srv.tls /\ ~srv.zip /\ ~(HaveZlib /\ m_compressionActive)
  /\ r.kind = "compressed" =>
       HaveZlib /\ srv.zip /\ srv.tls = (HaveTls /\ m_encryptionActive)
  /\ r.kind \notin {"proceed", "compressed"} => Agree
  /\ "starttls" \in r.feats => ~srv.tls /\ ~srv.zip
  /\ "zlib" \in r.feats => ~srv.zip
  /\ InClear => r.kind \in TlsStage \/ "starttls" \in r.feats

\* The stages of one exchange: a request is under way, its reply is, or the
\* receiver has the reply in hand.
Asking  == /\ Trying /\ in = <<>> /\ hand = Nothing
           /\ \E m \in ToServer : out = <<m>> /\ AskInv(m)
Replied == /\ Trying /\ out = <<>> /\ hand = Nothing
           /\ \E r \in ToClient : /\ in = <<r>> /\ ReplyInv(r)
                                  /\ InClear => r.kind \in TlsStage
Held    == Trying /\ out = <<>> /\ in = <<>> /\ hand \in ToClient /\ ReplyInv(hand)

\* The negotiation is over: it succeeded, failed or hangs, or there is none.
Over ==
  /\ \A i \in DOMAIN out : out[i].req \in Clear /\ Understood(out[i])
  /\ \A i \in DOMAIN in : in[i].kind = "streamend" /\ in[i].feats = {}
  /\ hand = Nothing \/ (hand.kind = "streamend" /\ hand.feats = {})
  /\ up => Agree

\* How the connection, the two threads and what was told belong together.
EndIsDue ==
  logins > 0 /\ ~up => ended \/ \E t \in Threads : td[t] \in {"flags", "note"}

Shape ==
  /\ rx # "loop" => td["rx"] = "no"
  /\ rx = "hand" <=> hand # Nothing
  /\ ~up => out = <<>> /\ in = <<>>
  /\ \A t \in Threads : td[t] \in {"flags", "note"} => ~up
  /\ up => ~ended /\ logins > 0
  /\ (m_encryptionActive \/ m_compressionActive) /\ ~up => \E t \in Threads : td[t] = "flags"
  /\ EndIsDue
  /\ td["user"] # "no" => told = 1
  /\ told \in {0, 1}

NegInv == TypeOK /\ Shape /\ (Asking \/ Replied \/ Held \/ Over)

-----------------------------------------------------------------------------
(* Sequences of one element.                                               *)

LEMMA OneOfThem ==
  ASSUME NEW S, NEW m \in S
  PROVE  /\ Append(<<>>, m) = <<m>> /\ <<m>> \in Seq(S) /\ Len(<<m>>) = 1
         /\ Head(<<m>>) = m /\ Tail(<<m>>) = <<>> /\ <<m>> # <<>> /\ <<m>>[1] = m
  OBVIOUS

LEMMA Appended ==
  ASSUME NEW S, NEW s \in Seq(S), NEW m \in S
  PROVE  /\ Append(s, m) \in Seq(S)
         /\ \A i \in DOMAIN Append(s, m) : Append(s, m)[i] = m \/ (i \in DOMAIN s /\ Append(s, m)[i] = s[i])
<1>1. DOMAIN s = 1..Len(s) /\ Len(s) \in Nat
  BY LenProperties
<1>2. /\ Append(s, m) \in Seq(S) /\ Len(Append(s, m)) = Len(s) + 1
      /\ \A i \in 1..Len(s) : Append(s, m)[i] = s[i]
      /\ Append(s, m)[Len(s) + 1] = m
  BY AppendProperties
<1>3. DOMAIN Append(s, m) = 1..(Len(s) + 1)
  BY <1>2, LenProperties
<1> QED
  BY <1>1, <1>2, <1>3

LEMMA HeadAndTail ==
  ASSUME NEW S, NEW s \in Seq(S), s # <<>>
  PROVE  /\ Head(s) \in S /\ Tail(s) \in Seq(S)
         /\ 1 \in DOMAIN s /\ Head(s) = s[1]
         /\ \A i \in DOMAIN Tail(s) : i + 1 \in DOMAIN s /\ Tail(s)[i] = s[i + 1]
<1>1. DOMAIN s = 1..Len(s) /\ Len(s) \in Nat
  BY LenProperties
<1>2. /\ Head(s) \in S /\ Tail(s) \in Seq(S) /\ Head(s) = s[1]
      /\ Len(Tail(s)) = Len(s) - 1 /\ \A i \in 1..Len(Tail(s)) : Tail(s)[i] = s[i + 1]
  BY HeadTailProperties
<1>3. Len(s) > 0
  BY EmptySeq
<1>4. DOMAIN Tail(s) = 1..(Len(s) - 1)
  BY <1>2, LenProperties
<1> QED
  BY <1>1, <1>2, <1>3, <1>4

-----------------------------------------------------------------------------
(* Types.                                                                  *)

LEMMA SendAsType ==
  ASSUME TypeOK, NEW r \in Request, NEW tls \in BOOLEAN, NEW zip \in BOOLEAN, SendAs(r, tls, zip)
  PROVE  out' \in Seq(ToServer)
<1>1. [req |-> r, tls |-> tls, zip |-> zip] \in ToServer
  BY DEF ToServer
<1> QED
  BY <1>1, Appended DEF SendAs, TypeOK

LEMMA SendType ==
  ASSUME TypeOK, NEW r \in Request, Send(r)
  PROVE  out' \in Seq(ToServer)
  BY SendAsType, NegotiationAssumption DEF Send, TypeOK

\* What a handler leaves alone has the type it had.
LEMMA HandlingType ==
  ASSUME TypeOK, NEW k, Handling(k),
         m_encryptionActive' \in BOOLEAN, m_compressionActive' \in BOOLEAN,
         m_authed' \in BOOLEAN, m_resourceBound' \in BOOLEAN, m_streamFeatures' \subseteq Feature,
         UNCHANGED <<td, why>> \/ \E reason \in Reason : Disconnect(reason),
         out' \in Seq(ToServer), told' \in Nat
  PROVE  TypeOK'
<1>1. td' \in [Threads -> {"no", "clear", "bye", "close", "flags", "note"}]
  BY DEF TypeOK, Disconnect
<1>2. why' \in [Threads -> Reason]
  BY DEF TypeOK, Disconnect
<1> QED
  BY <1>1, <1>2 DEF TypeOK, Handling

LEMMA ConnectedType ==
  ASSUME TypeOK, NEW authed, Connected(authed)
  PROVE  out' \in Seq(ToServer) /\ told' \in Nat /\ UNCHANGED <<td, why>>
<1>1. "roster" \in Request
  BY DEF Request
<1> QED
  BY <1>1, SendType DEF Connected, TypeOK

LEMMA LoginMethodType ==
  ASSUME TypeOK, NEW F, ClientLogin(F)
  PROVE  /\ out' \in Seq(ToServer) /\ told' \in Nat
         /\ UNCHANGED <<td, why>> \/ \E reason \in Reason : Disconnect(reason)
<1>1. "sasl" \in Request /\ "fields" \in Request /\ "NoSupportedAuth" \in Reason
  BY DEF Request, Reason
<1> QED
  BY <1>1, SendType DEF ClientLogin, Continue, TypeOK

LEMMA FeaturesType == ASSUME TypeOK, HandleFeatures PROVE TypeOK'
<1>1. PICK F : /\ F = IF hand.feats = {} THEN {"iqauth"} ELSE hand.feats
               /\ m_streamFeatures' = F
               /\ \/ WantsTls(F) /\ Send("starttls") /\ Continue
                  \/ ~WantsTls(F) /\ WantsZlib(F) /\ Send("compress") /\ Continue
                  \/ /\ ~WantsTls(F) /\ ~WantsZlib(F) /\ m_authed
                     /\ IF "bind" \in F THEN BindOperation ELSE UNCHANGED out
                     /\ Continue
                  \/ ~WantsTls(F) /\ ~WantsZlib(F) /\ ~m_authed /\ ClientLogin(F)
  BY DEF HandleFeatures
<1>2. Handling("features") /\ UNCHANGED <<flags, m_authed, m_resourceBound>>
  BY DEF HandleFeatures
<1>3. hand \in ToClient \union {Nothing}
  BY DEF TypeOK
<1>4. F \subseteq Feature
  BY <1>1, <1>3 DEF ToClient, Nothing, Feature
<1>5. "starttls" \in Request /\ "compress" \in Request /\ "bind" \in Request
  BY DEF Request
<1>6. /\ out' \in Seq(ToServer) /\ told' \in Nat
      /\ UNCHANGED <<td, why>> \/ \E reason \in Reason : Disconnect(reason)
  <2>1. CASE Continue /\ (Send("starttls") \/ Send("compress"))
    BY <2>1, <1>5, SendType DEF Continue, TypeOK
  <2>2. CASE Continue /\ (BindOperation \/ UNCHANGED out)
    BY <2>2, <1>5, SendType DEF Continue, BindOperation, TypeOK
  <2>3. CASE ClientLogin(F)
    BY <2>3, LoginMethodType
  <2> QED
    BY <1>1, <2>1, <2>2, <2>3
<1> QED
  BY <1>1, <1>2, <1>4, <1>6, HandlingType DEF flags, TypeOK

LEMMA StreamHandlersType ==
  ASSUME TypeOK,
         HandleProceed \/ HandleHandshaken \/ HandleCompressed \/ HandleChallenge \/ HandleSuccess
  PROVE  TypeOK'
<1>1. "hello" \in Request /\ "header" \in Request /\ "response" \in Request
  BY DEF Request
<1>2. CASE HandleProceed
  <2>1. out' \in Seq(ToServer)
    BY <1>1, <1>2, SendAsType DEF HandleProceed, TypeOK
  <2> QED
    BY <1>2, <2>1, HandlingType, NegotiationAssumption DEF HandleProceed, Continue, login, TypeOK
<1>3. CASE HandleHandshaken
  BY <1>1, <1>3, SendType, HandlingType DEF HandleHandshaken, Continue, flags, login, TypeOK
<1>4. CASE HandleCompressed
  <2>1. out' \in Seq(ToServer)
    BY <1>1, <1>4, SendAsType, NegotiationAssumption DEF HandleCompressed, TypeOK
  <2> QED
    BY <1>4, <2>1, HandlingType DEF HandleCompressed, Continue, login, TypeOK
<1>5. CASE HandleChallenge
  <2>1. out' \in Seq(ToServer)
    BY <1>1, <1>5, SendType DEF HandleChallenge, TypeOK
  <2>2. Handling("challenge") \/ Handling("badchallenge")
    BY <1>5 DEF HandleChallenge
  <2> QED
    BY <1>5, <2>1, <2>2, HandlingType DEF HandleChallenge, Continue, flags, login, TypeOK
<1>6. CASE HandleSuccess
  BY <1>1, <1>6, SendType, HandlingType DEF HandleSuccess, Continue, flags, TypeOK
<1> QED
  BY <1>2, <1>3, <1>4, <1>5, <1>6

LEMMA FailureType == ASSUME TypeOK, HandleFailure PROVE TypeOK'
<1>1. PICK k \in {<<"oldversion", "StreamVersionError">>, <<"tlsfailure", "TlsFailed">>,
               <<"handshakefailed", "TlsFailed">>, <<"zlibfailure", "CompressionFailed">>,
               <<"authfailure", "AuthenticationFailed">>} :
        Handling(k[1]) /\ Disconnect(k[2])
  BY DEF HandleFailure
<1>2. k[2] \in Reason
  BY DEF Reason
<1> QED
  BY <1>1, <1>2, HandlingType DEF HandleFailure, flags, login, TypeOK

LEMMA StreamEndType == ASSUME TypeOK, HandleStreamEnd PROVE TypeOK'
  BY HandlingType DEF HandleStreamEnd, Continue, flags, login, TypeOK

LEMMA IqHandlersType ==
  ASSUME TypeOK,
         \/ HandleFields \/ HandleAuthOk \/ HandleAuthError
         \/ ProcessResourceBind \/ ProcessCreateSession \/ BindOrSessionError \/ HandleRoster
  PROVE  TypeOK'
<1>1. /\ "sendauth" \in Request /\ "session" \in Request /\ "presence" \in Request
      /\ "AuthenticationFailed" \in Reason
  BY DEF Request, Reason
<1>2. CASE HandleFields
  BY <1>1, <1>2, SendType, HandlingType DEF HandleFields, Continue, flags, login, TypeOK
<1>3. CASE HandleAuthOk
  BY <1>3, ConnectedType, HandlingType DEF HandleAuthOk, flags, TypeOK
<1>4. CASE HandleAuthError
  BY <1>1, <1>4, HandlingType DEF HandleAuthError, flags, TypeOK
<1>5. CASE ProcessResourceBind
  <2>1. out' \in Seq(ToServer) /\ told' \in Nat /\ UNCHANGED <<td, why>>
    BY <1>1, <1>5, SendType, ConnectedType DEF ProcessResourceBind, Continue, TypeOK
  <2> QED
    BY <1>5, <2>1, HandlingType DEF ProcessResourceBind, flags, TypeOK
<1>6. CASE ProcessCreateSession
  BY <1>6, ConnectedType, HandlingType DEF ProcessCreateSession, flags, login, TypeOK
<1>7. CASE BindOrSessionError
  <2>1. Handling("binderror") \/ Handling("sessionerror")
    BY <1>7 DEF BindOrSessionError
  <2> QED
    BY <1>7, <2>1, HandlingType DEF BindOrSessionError, Continue, flags, login, TypeOK
<1>8. CASE HandleRoster
  <2>1. Handling("roster") \/ Handling("rostererror")
    BY <1>8 DEF HandleRoster
  <2>2. out' \in Seq(ToServer) /\ told' \in Nat
    BY <1>1, <1>8, SendType DEF HandleRoster, TypeOK
  <2> QED
    BY <1>8, <2>1, <2>2, HandlingType DEF HandleRoster, flags, login, TypeOK
<1> QED
  BY <1>2, <1>3, <1>4, <1>5, <1>6, <1>7, <1>8

LEMMA HandleType == ASSUME TypeOK, Handle PROVE TypeOK'
  BY FeaturesType, StreamHandlersType, FailureType, StreamEndType, IqHandlersType DEF Handle

LEMMA LoginType == ASSUME TypeOK, Login PROVE TypeOK'
<1>1. "header" \in Request
  BY DEF Request
<1>2. [req |-> "header", tls |-> HaveTls /\ m_encryptionActive,
       zip |-> HaveZlib /\ m_compressionActive] \in ToServer
  BY <1>1, NegotiationAssumption DEF ToServer, TypeOK
<1>3. out' \in Seq(ToServer) /\ in' \in Seq(ToClient)
  BY <1>2, OneOfThem DEF Login
<1>4. srv' \in Granted
  BY DEF Login, Fresh, Granted
<1>5. /\ up' \in BOOLEAN /\ peer' \in BOOLEAN /\ offered' = {}
      /\ told' \in Nat /\ ended' \in BOOLEAN /\ rx' = "loop"
  BY DEF Login
<1>. logins' \in 0..MaxLogins
  BY NegotiationAssumption DEF Login, TypeOK
<1>6. UNCHANGED <<m_encryptionActive, m_compressionActive, m_authed, m_resourceBound,
                  m_streamFeatures, hand, td, why, logouts>>
  BY DEF Login, flags, login
<1> QED
  BY <1>3, <1>4, <1>5, <1>6 DEF TypeOK

LEMMA ReceiveType == ASSUME TypeOK, Loop \/ Receive \/ ReceiveEnd PROVE TypeOK'
<1>1. CASE Loop
  BY <1>1 DEF Loop, TypeOK, flags, login, net, hist
<1>2. CASE Receive
  <2>1. Head(in) \in ToClient /\ Tail(in) \in Seq(ToClient)
    BY <1>2, HeadAndTail DEF Receive, TypeOK
  <2>2. Head(in).feats \subseteq Feature
    BY <2>1 DEF ToClient
  <2>3. /\ hand' = Head(in) /\ in' = Tail(in) /\ rx' = "hand"
        /\ offered' = offered \union Head(in).feats
        /\ UNCHANGED <<up, m_encryptionActive, m_compressionActive, m_authed, m_resourceBound,
                       m_streamFeatures, td, why, out, peer, srv, told, ended, logins, logouts>>
    BY <1>2 DEF Receive, flags, login, hist
  <2> QED
    BY <2>1, <2>2, <2>3 DEF TypeOK
<1>3. CASE ReceiveEnd
  <2>1. why' \in [Threads -> Reason]
    <3>1. PICK r \in {"StreamClosed", "IoError"} : why' = [why EXCEPT !["rx"] = r]
      BY <1>3 DEF ReceiveEnd
    <3> QED
      BY <3>1 DEF Reason, TypeOK
  <2>2. td' \in [Threads -> {"no", "clear", "bye", "close", "flags", "note"}]
    BY <1>3 DEF ReceiveEnd, TypeOK
  <2>3. up' \in BOOLEAN /\ rx' = "loop" /\ out' \in Seq(ToServer) /\ in' \in Seq(ToClient)
    BY <1>3, EmptySeq DEF ReceiveEnd
  <2>4. UNCHANGED <<m_encryptionActive, m_compressionActive, m_authed, m_resourceBound,
                    m_streamFeatures, hand, peer, srv, offered, told, ended, logins, logouts>>
    BY <1>3 DEF ReceiveEnd, flags, login, hist
  <2> QED
    BY <2>1, <2>2, <2>3, <2>4 DEF TypeOK
<1> QED
  BY <1>1, <1>2, <1>3

LEMMA LogoutType == ASSUME TypeOK, Logout PROVE TypeOK'
<1>1. why' \in [Threads -> Reason]
  BY DEF Logout, TypeOK, Reason
<1>2. td' \in [Threads -> {"no", "clear", "bye", "close", "flags", "note"}]
  BY DEF Logout, TypeOK
<1>3. /\ logouts' = logouts + 1
      /\ UNCHANGED <<up, m_encryptionActive, m_compressionActive, m_authed, m_resourceBound,
                     m_streamFeatures, rx, hand, out, in, peer, srv, offered, told, ended, logins>>
  BY DEF Logout, flags, login, net
<1> QED
  BY <1>1, <1>2, <1>3 DEF TypeOK

LEMMA TeardownType == ASSUME TypeOK, NEW t \in Threads, Teardown(t) PROVE TypeOK'
<1>1. td' \in [Threads -> {"no", "clear", "bye", "close", "flags", "note"}]
  BY DEF Teardown, DiscClear, DiscBye, DiscClose, DiscFlags, DiscNote, TypeOK
<1>2. CASE DiscClear(t)
  BY <1>1, <1>2 DEF DiscClear, TypeOK, flags, net, hist
<1>3. CASE DiscBye(t)
  <2>1. "bye" \in Request
    BY DEF Request
  <2>2. out' \in Seq(ToServer)
    BY <1>3, <2>1, SendType DEF DiscBye, TypeOK
  <2> QED
    BY <1>1, <1>3, <2>2 DEF DiscBye, TypeOK, flags, login, hist
<1>4. CASE DiscClose(t)
  <2>1. up' \in BOOLEAN /\ out' \in Seq(ToServer) /\ in' \in Seq(ToClient)
    BY <1>4, EmptySeq DEF DiscClose
  <2>2. UNCHANGED <<m_encryptionActive, m_compressionActive, m_authed, m_resourceBound,
                    m_streamFeatures, rx, hand, why, peer, srv, offered, told, ended, logins,
                    logouts>>
    BY <1>4 DEF DiscClose, flags, login, hist
  <2> QED
    BY <1>1, <2>1, <2>2 DEF TypeOK
<1>5. CASE DiscFlags(t)
  BY <1>1, <1>5 DEF DiscFlags, TypeOK, login, net, hist
<1>6. CASE DiscNote(t)
  <2>1. why' \in [Threads -> Reason]
    BY <1>6 DEF DiscNote, TypeOK, Reason
  <2> QED
    BY <1>1, <1>6, <2>1 DEF DiscNote, TypeOK, flags, net
<1> QED
  BY <1>2, <1>3, <1>4, <1>5, <1>6 DEF Teardown

\* What the server says of its features makes a reply.
LEMMA ReplyType ==
  ASSUME NEW p \in Protocol, NEW F \in IF p[2] = "features" THEN Offers ELSE {{}}
  PROVE  [kind |-> p[2], feats |-> F] \in ToClient
<1>1. \A q \in Protocol : q[2] \in Reply
  BY DEF Protocol, Reply
<1>2. F \subseteq Feature
  BY DEF Offers
<1> QED
  BY <1>1, <1>2 DEF ToClient

LEMMA ServerType == ASSUME TypeOK, Server \/ Break PROVE TypeOK'
<1>1. CASE ServerReplies
  <2>1. PICK p \in Protocol :
          /\ \E F \in IF p[2] = "features" THEN Offers ELSE {{}} :
               in' = Append(in, [kind |-> p[2], feats |-> F])
          /\ srv' = Grant(p[2])
          /\ peer' = (p[2] # "streamend")
    BY <1>1 DEF ServerReplies
  <2>2. in' \in Seq(ToClient)
    BY <2>1, ReplyType, Appended DEF TypeOK
  <2>3. out' \in Seq(ToServer)
    BY <1>1, HeadAndTail DEF ServerReplies, TypeOK
  <2>4. srv' \in Granted
    BY <2>1 DEF Grant, Granted, TypeOK
  <2> QED
    BY <1>1, <2>1, <2>2, <2>3, <2>4 DEF ServerReplies, TypeOK, flags, login, hist
<1>2. CASE ServerReads
  <2>1. out' \in Seq(ToServer)
    BY <1>2, HeadAndTail DEF ServerReads, TypeOK
  <2> QED
    BY <1>2, <2>1 DEF ServerReads, TypeOK, flags, login, hist
<1>3. CASE ServerGivesUp \/ Break
  BY <1>3 DEF ServerGivesUp, Break, TypeOK, flags, login, hist
<1> QED
  BY <1>1, <1>2, <1>3 DEF Server

LEMMA InitType == Init => TypeOK
<1> SUFFICES ASSUME Init PROVE TypeOK
  OBVIOUS
<1>1. td \in [Threads -> {"no", "clear", "bye", "close", "flags", "note"}] /\ why \in [Threads -> Reason]
  BY DEF Init, Reason
<1>2. out \in Seq(ToServer) /\ in \in Seq(ToClient) /\ srv \in Granted
  BY EmptySeq DEF Init, Fresh, Granted
<1>3. /\ m_streamFeatures \subseteq Feature /\ offered \subseteq Feature
      /\ told \in Nat /\ logins \in 0..MaxLogins /\ logouts \in Nat
  BY NegotiationAssumption DEF Init
<1>4. /\ up \in BOOLEAN /\ m_encryptionActive \in BOOLEAN /\ m_compressionActive \in BOOLEAN
      /\ m_authed \in BOOLEAN /\ m_resourceBound \in BOOLEAN /\ peer \in BOOLEAN
      /\ ended \in BOOLEAN /\ rx = "out" /\ hand = Nothing
  BY DEF Init
<1> QED
  BY <1>1, <1>2, <1>3, <1>4 DEF TypeOK

LEMMA StepKeepsType == TypeOK /\ [Next]_vars => TypeOK'
<1> SUFFICES ASSUME TypeOK, [Next]_vars PROVE TypeOK'
  OBVIOUS
<1>1. CASE UNCHANGED vars
  BY <1>1 DEF vars, flags, login, net, hist, TypeOK
<1>2. CASE Teardown("rx") \/ Teardown("user")
  BY <1>2, TeardownType DEF Threads
<1> QED
  BY <1>1, <1>2, LoginType, ReceiveType, HandleType, LogoutType, ServerType
     DEF Next, Receiver, Finished

\* Every flag, message and step keeps its type, whatever the two threads do.
THEOREM NegotiationTypeCorrect == Spec => []TypeOK
  BY InitType, StepKeepsType, PTL DEF Spec

-----------------------------------------------------------------------------
(* The end of a connection.                                                *)

LEMMA StepKeepsEndIsDue == TypeOK /\ EndIsDue /\ [Next]_vars => EndIsDue'
<1> SUFFICES ASSUME TypeOK, EndIsDue, [Next]_vars PROVE EndIsDue'
  OBVIOUS
<1>1. CASE Login
  BY <1>1 DEF Login, EndIsDue
<1>2. CASE ReceiveEnd
  BY <1>2 DEF ReceiveEnd, EndIsDue, TypeOK, Threads
<1>3. CASE Handle
  <2>1. \A t \in Threads : td[t] \in {"flags", "note"} => td'[t] = td[t]
    BY <1>3 DEF Handle, HandleFeatures, HandleProceed, HandleHandshaken, HandleCompressed,
                HandleChallenge, HandleSuccess, HandleFailure, HandleStreamEnd, HandleFields, HandleAuthOk,
                HandleAuthError, ProcessResourceBind, ProcessCreateSession,
                BindOrSessionError, HandleRoster, ClientLogin, Connected, Continue,
                Disconnect, Handling, TypeOK, Threads
  <2>2. UNCHANGED <<up, ended, logins>>
    BY <1>3 DEF Handle, HandleFeatures, HandleProceed, HandleHandshaken, HandleCompressed,
                HandleChallenge, HandleSuccess, HandleFailure, HandleStreamEnd, HandleFields, HandleAuthOk,
                HandleAuthError, ProcessResourceBind, ProcessCreateSession,
                BindOrSessionError, HandleRoster, Handling
  <2> QED
    BY <2>1, <2>2 DEF EndIsDue
<1>4. CASE Logout
  BY <1>4 DEF Logout, EndIsDue, TypeOK, Threads
<1>5. ASSUME NEW t \in Threads, Teardown(t) PROVE EndIsDue'
  BY <1>5 DEF Teardown, DiscClear, DiscBye, DiscClose, DiscFlags, DiscNote,
              EndIsDue, TypeOK, hist
<1>6. CASE Loop \/ Receive \/ Server \/ Break \/ UNCHANGED vars
  BY <1>6 DEF Loop, Receive, Server, ServerReplies, ServerReads, ServerGivesUp, Break,
              vars, hist, EndIsDue
<1> QED
  BY <1>1, <1>2, <1>3, <1>4, <1>5, <1>6 DEF Next, Receiver, Finished, Threads

\* A connection that is gone has been reported as ended, or its end is being
\* reported, whatever the two threads do.
THEOREM EndAlwaysTold == Spec => []EndIsTold
<1>1. Init => EndIsDue
  BY DEF Init, EndIsDue
<1>2. EndIsDue => EndIsTold
  BY DEF EndIsDue, EndIsTold
<1> QED
  BY <1>1, <1>2, StepKeepsEndIsDue, NegotiationTypeCorrect, PTL DEF Spec

-----------------------------------------------------------------------------
(* A patient user: the handlers.                                           *)

\* The receiver handles a reply of the negotiation in one state only.
LEMMA HandlingHeld ==
  ASSUME NegInv, NEW k, k # "streamend", Handling(k)
  PROVE  Held /\ hand.kind = k
<1>1. hand # Nothing /\ hand.kind = k
  BY DEF Handling, NegInv, Shape
<1> QED
  BY <1>1 DEF NegInv, Asking, Replied, Over

\* A handler that sends the next request of the negotiation.
LEMMA AsksNext ==
  ASSUME Held, NEW k, Handling(k), UNCHANGED <<td, told>>,
         NEW m \in ToServer, out' = Append(out, m), AskInv(m)'
  PROVE  Asking'
<1>1. out' = <<m>>
  BY OneOfThem DEF Held
<1> QED
  BY <1>1 DEF Held, Handling, Trying, Asking

\* A handler after which the negotiation is over: it succeeded, or failed, or nobody
\* goes on with it.
LEMMA Finishes ==
  ASSUME Held, NEW k, Handling(k), Agree',
         out' = out \/ \E m \in ToServer : m.req \in Clear /\ Understood(m)' /\ out' = Append(out, m)
  PROVE  Over'
<1>1. in' = <<>> /\ hand' = Nothing
  BY DEF Held, Handling
<1>2. CASE out' = out
  BY <1>1, <1>2 DEF Held, Over
<1>3. ASSUME NEW m \in ToServer, m.req \in Clear, Understood(m)', out' = Append(out, m)
      PROVE  Over'
  <2>1. out' = <<m>> /\ DOMAIN out' = {1}
    BY <1>3, OneOfThem, LenProperties DEF Held
  <2> QED
    BY <1>1, <1>3, <2>1, OneOfThem DEF Over
<1> QED
  BY <1>2, <1>3

\* How the connection and the threads belong together after a handler.
LEMMA HandlingShape ==
  ASSUME NegInv, NEW k, Handling(k), Held,
         told' \in {0, 1},
         UNCHANGED td \/ \E reason \in Reason : Disconnect(reason)
  PROVE  Shape'
<1>1. /\ up /\ up' /\ UNCHANGED <<ended, logins>> /\ rx' = "loop" /\ hand' = Nothing
      /\ \A t \in Threads : td[t] = "no"
  BY DEF Held, Trying, Handling
<1>2. td'["user"] = "no" /\ \A t \in Threads : td'[t] \in {"no", "clear"}
  BY <1>1 DEF Disconnect, NegInv, TypeOK, Threads
<1> QED
  BY <1>1, <1>2 DEF NegInv, Shape, EndIsDue

\* Where the two ends agree on the encoding, a handler that leaves the flags alone
\* leaves it so.
LEMMA FlagsAlone ==
  ASSUME NEW k, Handling(k), UNCHANGED flags
  PROVE  /\ Agree => Agree'
         /\ InClear' => InClear
         /\ UNCHANGED <<srv, m_encryptionActive, m_compressionActive>>
  BY DEF Handling, flags, Agree, InClear

\* Send, when it is known that the connection is up.
LEMMA SendUp ==
  ASSUME TypeOK, up, NEW r \in Request, Send(r)
  PROVE  \E m \in ToServer : /\ m.req = r /\ out' = Append(out, m)
                             /\ m.tls = (HaveTls /\ m_encryptionActive)
                             /\ m.zip = (HaveZlib /\ m_compressionActive)
<1> DEFINE m == [req |-> r, tls |-> HaveTls /\ m_encryptionActive,
                 zip |-> HaveZlib /\ m_compressionActive]
<1>1. m \in ToServer
  BY NegotiationAssumption DEF ToServer, TypeOK
<1>2. out' = Append(out, m)
  BY DEF Send, SendAs
<1> QED
  BY <1>1, <1>2

\* The next request, when the flags stay and the ends agree.
LEMMA SendNext ==
  ASSUME NegInv, Held, Agree, NEW k, Handling(k), UNCHANGED <<flags, td, told>>,
         NEW r \in Request, r \notin Clear, Send(r),
         r = "starttls" => HaveTls /\ ~srv.tls /\ ~srv.zip,
         r = "compress" => HaveZlib /\ ~srv.zip,
         InClear => r = "starttls"
  PROVE  Asking'
<1>1. PICK m \in ToServer : /\ m.req = r /\ out' = Append(out, m)
                            /\ m.tls = (HaveTls /\ m_encryptionActive)
                            /\ m.zip = (HaveZlib /\ m_compressionActive)
  BY SendUp DEF NegInv, Held, Trying
<1>2. Agree' /\ (InClear' => InClear) /\ UNCHANGED srv
  BY FlagsAlone
<1>3. Understood(m)'
  BY <1>1, <1>2 DEF Agree, Understood
<1> QED
  BY <1>1, <1>2, <1>3, AsksNext DEF AskInv

\* The last thing that is sent: the presence.
LEMMA SendLast ==
  ASSUME NegInv, Held, Agree, NEW k, Handling(k), UNCHANGED flags,
         NEW r \in Clear, Send(r)
  PROVE  Over'
<1>1. r \in Request
  BY DEF Clear, Request
<1>2. PICK m \in ToServer : /\ m.req = r /\ out' = Append(out, m)
                            /\ m.tls = (HaveTls /\ m_encryptionActive)
                            /\ m.zip = (HaveZlib /\ m_compressionActive)
  BY <1>1, SendUp DEF NegInv, Held, Trying
<1>3. Agree' /\ UNCHANGED srv
  BY FlagsAlone
<1>4. Understood(m)'
  BY <1>2, <1>3 DEF Agree, Understood
<1> QED
  BY <1>2, <1>3, <1>4, Finishes

LEMMA ConnectedKeeps ==
  ASSUME NegInv, Held, Agree, ~InClear, NEW k, Handling(k), UNCHANGED flags,
         NEW authed, Connected(authed)
  PROVE  Shape' /\ (Asking' \/ Over')
<1>1. told = 0 /\ UNCHANGED td
  BY DEF Held, Trying, Connected
<1>2. CASE Send("roster") /\ UNCHANGED told
  <2>1. "roster" \in Request \ Clear
    BY DEF Request, Clear
  <2> QED
    BY <1>1, <1>2, <2>1, SendNext, HandlingShape
<1>3. CASE told' = told + 1 /\ UNCHANGED out
  BY <1>1, <1>3, FlagsAlone, Finishes, HandlingShape
<1> QED
  BY <1>2, <1>3 DEF Connected

LEMMA FeaturesKeep ==
  ASSUME NegInv, HandleFeatures
  PROVE  Shape' /\ (Asking' \/ Over')
<1>1. PICK F : /\ F = IF hand.feats = {} THEN {"iqauth"} ELSE hand.feats
               /\ \/ WantsTls(F) /\ Send("starttls") /\ Continue
                  \/ ~WantsTls(F) /\ WantsZlib(F) /\ Send("compress") /\ Continue
                  \/ /\ ~WantsTls(F) /\ ~WantsZlib(F) /\ m_authed
                     /\ IF "bind" \in F THEN BindOperation ELSE UNCHANGED out
                     /\ Continue
                  \/ ~WantsTls(F) /\ ~WantsZlib(F) /\ ~m_authed /\ ClientLogin(F)
  BY DEF HandleFeatures
<1>2. Handling("features") /\ UNCHANGED flags
  BY DEF HandleFeatures
<1>3. Held /\ hand.kind = "features"
  BY <1>2, HandlingHeld
<1>4. /\ Agree /\ told = 0
      /\ "starttls" \in F => ~srv.tls /\ ~srv.zip
      /\ "zlib" \in F => ~srv.zip
      /\ InClear => WantsTls(F)
  BY <1>1, <1>3 DEF Held, Trying, ReplyInv, TlsStage, WantsTls, InClear
<1>5. \A r \in {"starttls", "compress", "bind", "sasl", "fields"} : r \in Request /\ r \notin Clear
  BY DEF Request, Clear
<1>6. CASE WantsTls(F) /\ Send("starttls") /\ Continue
  <2>1. Asking'
    BY <1>2, <1>3, <1>4, <1>5, <1>6, SendNext DEF Continue, WantsTls
  <2> QED
    BY <1>2, <1>3, <1>4, <1>6, <2>1, HandlingShape DEF Continue
<1>7. CASE ~WantsTls(F) /\ WantsZlib(F) /\ Send("compress") /\ Continue
  <2>1. Asking'
    BY <1>2, <1>3, <1>4, <1>5, <1>7, SendNext DEF Continue, WantsZlib
  <2> QED
    BY <1>2, <1>3, <1>4, <1>7, <2>1, HandlingShape DEF Continue
<1>8. CASE ~WantsTls(F) /\ Continue /\ (Send("bind") \/ Send("sasl") \/ Send("fields"))
  <2>1. Asking'
    BY <1>2, <1>3, <1>4, <1>5, <1>8, SendNext DEF Continue
  <2> QED
    BY <1>2, <1>3, <1>4, <1>8, <2>1, HandlingShape DEF Continue
<1>9. CASE UNCHANGED <<out, told>> /\ (Continue \/ Disconnect("NoSupportedAuth"))
  <2>1. UNCHANGED td \/ \E reason \in Reason : Disconnect(reason)
    BY <1>9 DEF Continue, Reason
  <2> QED
    BY <1>2, <1>3, <1>4, <1>9, <2>1, FlagsAlone, Finishes, HandlingShape
<1> QED
  BY <1>1, <1>6, <1>7, <1>8, <1>9 DEF BindOperation, ClientLogin, Continue

\* The client switches TLS on with the message that the server expects in TLS.
LEMMA ProceedKeeps ==
  ASSUME NegInv, HandleProceed
  PROVE  Shape' /\ (Asking' \/ Over')
<1>1. Handling("proceed") /\ UNCHANGED <<td, told, m_compressionActive>>
  BY DEF HandleProceed, Continue
<1>2. Held /\ hand.kind = "proceed"
  BY <1>1, HandlingHeld
<1>3. up /\ told = 0 /\ HaveTls /\ srv.tls /\ ~srv.zip /\ ~(HaveZlib /\ m_compressionActive)
  BY <1>2 DEF Held, Trying, ReplyInv
<1> DEFINE m == [req |-> "hello", tls |-> TRUE, zip |-> FALSE]
<1>4. m \in ToServer /\ m.req \notin Clear
  BY DEF ToServer, Request, Clear
<1>5. out' = Append(out, m) /\ m_encryptionActive' = TRUE /\ UNCHANGED srv
  BY <1>1, <1>3 DEF HandleProceed, SendAs, Handling
<1>6. Agree' /\ ~InClear'
  BY <1>1, <1>3, <1>5 DEF Agree, InClear, NegInv, TypeOK, Granted
<1>7. Understood(m)'
  BY <1>3, <1>5 DEF Understood, NegInv, TypeOK, Granted
<1>8. AskInv(m)'
  BY <1>4, <1>6, <1>7 DEF AskInv
<1>9. Asking'
  BY <1>1, <1>2, <1>4, <1>5, <1>8, AsksNext
<1> QED
  BY <1>1, <1>2, <1>3, <1>9, HandlingShape

\* And compression.
LEMMA CompressedKeeps ==
  ASSUME NegInv, HandleCompressed
  PROVE  Shape' /\ (Asking' \/ Over')
<1>1. Handling("compressed") /\ UNCHANGED <<td, told, m_encryptionActive>>
  BY DEF HandleCompressed, Continue
<1>2. Held /\ hand.kind = "compressed"
  BY <1>1, HandlingHeld
<1>3. /\ up /\ told = 0 /\ HaveZlib /\ srv.zip /\ srv.tls = (HaveTls /\ m_encryptionActive)
      /\ ~InClear
  <2>1. hand.feats = {}
    BY <1>2 DEF Held, ReplyInv
  <2> QED
    BY <1>2, <2>1 DEF Held, Trying, ReplyInv, TlsStage
<1>4. [req |-> "header", tls |-> HaveTls /\ m_encryptionActive, zip |-> HaveZlib] \in ToServer
  BY NegotiationAssumption DEF ToServer, Request, NegInv, TypeOK
<1>5. PICK m \in ToServer :
        m = [req |-> "header", tls |-> HaveTls /\ m_encryptionActive, zip |-> HaveZlib]
  BY <1>4
<1>6. out' = Append(out, m) /\ m_compressionActive' = TRUE /\ UNCHANGED <<srv, offered>>
  BY <1>1, <1>3, <1>5 DEF HandleCompressed, SendAs, Handling
<1>7. Agree' /\ ~InClear'
  BY <1>1, <1>3, <1>6 DEF Agree, InClear, NegInv, TypeOK, Granted
<1>8. m.tls = srv'.tls /\ m.zip = srv'.zip
  BY <1>3, <1>6, <1>5 DEF NegInv, TypeOK, Granted
<1>9. AskInv(m)'
  BY <1>7, <1>8, <1>5 DEF AskInv, Understood, Clear
<1>10. Asking'
  BY <1>1, <1>2, <1>6, <1>9, AsksNext
<1> QED
  BY <1>1, <1>2, <1>3, <1>10, HandlingShape

\* The replies to which the client answers in the encoding it has.
LEMMA AnswersKeep ==
  ASSUME NegInv,
         HandleHandshaken \/ HandleChallenge \/ HandleSuccess \/ HandleFields \/ BindOrSessionError
  PROVE  Shape' /\ (Asking' \/ Over')
<1>1. PICK k \in {"handshaken", "challenge", "badchallenge", "success", "fields", "binderror",
                  "sessionerror"} :
        /\ Handling(k)
        /\ UNCHANGED out \/ \E r \in {"header", "response", "sendauth"} : Send(r)
  BY DEF HandleHandshaken, HandleChallenge, HandleSuccess, HandleFields, BindOrSessionError
<1>2. UNCHANGED <<flags, td, told>>
  BY DEF HandleHandshaken, HandleChallenge, HandleSuccess, HandleFields, BindOrSessionError, Continue
<1>3. Held /\ hand.kind = k
  BY <1>1, HandlingHeld
<1>4. Agree /\ ~InClear /\ told = 0
  <2>1. hand.feats = {}
    BY <1>1, <1>3 DEF Held, ReplyInv
  <2> QED
    BY <1>1, <1>3, <2>1 DEF Held, Trying, ReplyInv, TlsStage
<1>5. Shape'
  BY <1>1, <1>2, <1>3, <1>4, HandlingShape
<1>6. CASE UNCHANGED out
  BY <1>1, <1>2, <1>3, <1>4, <1>5, <1>6, FlagsAlone, Finishes
<1>7. ASSUME NEW r \in {"header", "response", "sendauth"}, Send(r)
      PROVE  Asking'
  <2>1. r \in Request /\ r \notin Clear /\ r # "starttls" /\ r # "compress"
    BY DEF Request, Clear
  <2> QED
    BY <1>1, <1>2, <1>3, <1>4, <1>7, <2>1, SendNext
<1> QED
  BY <1>1, <1>5, <1>6, <1>7

LEMMA FailureKeeps ==
  ASSUME NegInv, HandleFailure
  PROVE  Shape' /\ (Asking' \/ Over')
<1>1. PICK k \in {<<"oldversion", "StreamVersionError">>, <<"tlsfailure", "TlsFailed">>,
               <<"handshakefailed", "TlsFailed">>, <<"zlibfailure", "CompressionFailed">>,
               <<"authfailure", "AuthenticationFailed">>} :
        Handling(k[1]) /\ Disconnect(k[2])
  BY DEF HandleFailure
<1>2. k[2] \in Reason
  BY DEF Reason
<1>3. UNCHANGED <<out, flags, told>>
  BY DEF HandleFailure
<1>4. Held /\ hand.kind = k[1] /\ hand.feats = {}
  BY <1>1, HandlingHeld DEF Held, ReplyInv
<1>5. Agree /\ told = 0
  BY <1>1, <1>4 DEF Held, Trying, ReplyInv
<1> QED
  BY <1>1, <1>2, <1>3, <1>4, <1>5, FlagsAlone, Finishes, HandlingShape

LEMMA StreamEndKeeps ==
  ASSUME NegInv, HandleStreamEnd
  PROVE  Shape' /\ (Asking' \/ Over')
<1>1. /\ hand.kind = "streamend" /\ hand # Nothing
      /\ UNCHANGED <<up, out, in, srv, td, flags, told, ended, logins>>
      /\ rx' = "loop" /\ hand' = Nothing
  BY DEF HandleStreamEnd, Handling, Continue, Nothing
<1>2. Over
  BY <1>1 DEF NegInv, Asking, Replied, Held, ReplyInv
<1>3. Over'
  BY <1>1, <1>2 DEF Over, Understood, Agree, flags
<1>4. Shape'
  BY <1>1 DEF NegInv, Shape, EndIsDue, flags
<1> QED
  BY <1>3, <1>4

LEMMA SessionKeeps ==
  ASSUME NegInv,
         \/ HandleAuthOk \/ HandleAuthError \/ ProcessResourceBind \/ ProcessCreateSession
         \/ HandleRoster
  PROVE  Shape' /\ (Asking' \/ Over')
<1>1. PICK k \in {"authok", "autherror", "bound", "session", "roster", "rostererror"} :
        /\ Handling(k)
        /\ \/ \E authed \in BOOLEAN : Connected(authed)
           \/ Send("session") /\ UNCHANGED <<td, told>>
           \/ Send("presence") /\ told' = told + 1 /\ UNCHANGED td
           \/ Disconnect("AuthenticationFailed") /\ UNCHANGED <<out, told>>
  BY DEF HandleAuthOk, HandleAuthError, ProcessResourceBind, ProcessCreateSession, HandleRoster,
         Continue, NegInv, TypeOK
<1>2. UNCHANGED flags
  BY DEF HandleAuthOk, HandleAuthError, ProcessResourceBind, ProcessCreateSession, HandleRoster
<1>3. Held /\ hand.kind = k
  BY <1>1, HandlingHeld
<1>4. Agree /\ ~InClear /\ told = 0
  <2>1. hand.feats = {}
    BY <1>1, <1>3 DEF Held, ReplyInv
  <2> QED
    BY <1>1, <1>3, <2>1 DEF Held, Trying, ReplyInv, TlsStage
<1>5. "session" \in Request \ Clear /\ "presence" \in Clear /\ "AuthenticationFailed" \in Reason
  BY DEF Request, Clear, Reason
<1>6. CASE \E authed \in BOOLEAN : Connected(authed)
  BY <1>1, <1>2, <1>3, <1>4, <1>6, ConnectedKeeps
<1>7. CASE Send("session") /\ UNCHANGED <<td, told>>
  BY <1>1, <1>2, <1>3, <1>4, <1>5, <1>7, SendNext, HandlingShape
<1>8. CASE Send("presence") /\ told' = told + 1 /\ UNCHANGED td
  BY <1>1, <1>2, <1>3, <1>4, <1>5, <1>8, SendLast, HandlingShape
<1>9. CASE Disconnect("AuthenticationFailed") /\ UNCHANGED <<out, told>>
  BY <1>1, <1>2, <1>3, <1>4, <1>5, <1>9, FlagsAlone, Finishes, HandlingShape
<1> QED
  BY <1>1, <1>6, <1>7, <1>8, <1>9

LEMMA HandleKeeps ==
  ASSUME NegInv, Handle
  PROVE  NegInv'
<1>1. Shape' /\ (Asking' \/ Over')
  BY FeaturesKeep, ProceedKeeps, CompressedKeeps, AnswersKeep, FailureKeeps, StreamEndKeeps,
     SessionKeeps DEF Handle
<1> QED
  BY <1>1, HandleType DEF NegInv

-----------------------------------------------------------------------------
(* A patient user: the receiver's loop, the server and the network.        *)

\* A step that leaves the encoding, the connection and the messages alone.
LEMMA NothingMoves ==
  ASSUME NegInv, UNCHANGED <<flags, out, in, srv, offered, hand>>
  PROVE  /\ UNCHANGED <<up, told, td>> => (Asking \/ Replied \/ Held \/ Over)'
         /\ UNCHANGED up /\ Over => Over'
<1>1. CASE Over /\ UNCHANGED up
  BY <1>1 DEF Over, Agree, Understood, flags
<1>2. CASE ~Over /\ UNCHANGED <<up, told, td>>
  <2>1. CASE Asking
    BY <1>2, <2>1 DEF Asking, AskInv, Trying, Agree, Understood, InClear, flags
  <2>2. CASE Replied
    BY <1>2, <2>2 DEF Replied, ReplyInv, Trying, Agree, InClear, flags
  <2>3. CASE Held
    BY <1>2, <2>3 DEF Held, ReplyInv, Trying, Agree, InClear, flags
  <2> QED
    BY <1>2, <2>1, <2>2, <2>3 DEF NegInv
<1> QED
  BY <1>1, <1>2

LEMMA LoginKeeps ==
  ASSUME NegInv, Patient, Login
  PROVE  NegInv'
<1>1. ~up /\ \A t \in Threads : td[t] = "no"
  BY DEF Login, Threads
<1>2. ~m_encryptionActive /\ ~m_compressionActive
  BY <1>1 DEF NegInv, Shape
<1>3. [req |-> "header", tls |-> HaveTls /\ m_encryptionActive,
       zip |-> HaveZlib /\ m_compressionActive] \in ToServer
  BY NegotiationAssumption DEF ToServer, Request, NegInv, TypeOK
<1>4. PICK m \in ToServer :
        m = [req |-> "header", tls |-> HaveTls /\ m_encryptionActive,
             zip |-> HaveZlib /\ m_compressionActive]
  BY <1>3
<1>5. /\ out' = <<m>> /\ in' = <<>> /\ up' /\ told' = 0 /\ ~ended' /\ logins' = logins + 1
      /\ rx' = "loop" /\ UNCHANGED <<flags, hand, td>> /\ srv' = Fresh /\ offered' = {}
  BY <1>4 DEF Login
<1>6. hand = Nothing /\ logins \in Nat
  BY DEF NegInv, Shape, TypeOK, Login
<1>7. Agree' /\ ~InClear' /\ Understood(m)'
  BY <1>2, <1>4, <1>5 DEF Agree, InClear, Understood, Fresh, flags
<1>8. AskInv(m)'
  BY <1>4, <1>7 DEF AskInv, Clear
<1>9. Asking'
  BY <1>1, <1>5, <1>6, <1>8 DEF Asking, Trying
<1>10. Shape'
  BY <1>1, <1>5, <1>6 DEF Shape, EndIsDue, Threads, NegInv
<1> QED
  BY <1>9, <1>10, LoginType DEF NegInv

LEMMA LoopKeeps ==
  ASSUME NegInv, Loop
  PROVE  NegInv'
<1>1. /\ UNCHANGED <<up, flags, out, in, srv, offered, hand, td, told, ended, logins>>
      /\ rx = "loop" /\ rx' \in {"recv", "out"} /\ td["rx"] = "no"
  BY DEF Loop, net, hist
<1>2. Shape'
  BY <1>1 DEF NegInv, Shape, EndIsDue, flags
<1> QED
  BY <1>1, <1>2, NothingMoves, ReceiveType DEF NegInv

LEMMA ReceiveKeeps ==
  ASSUME NegInv, Receive
  PROVE  NegInv'
<1>1. /\ UNCHANGED <<up, flags, out, srv, td, told, ended, logins>>
      /\ rx = "recv" /\ rx' = "hand" /\ in # <<>>
      /\ hand' = Head(in) /\ in' = Tail(in) /\ offered' = offered \union Head(in).feats
  BY DEF Receive, hist
<1>2. /\ Head(in) \in ToClient /\ 1 \in DOMAIN in /\ Head(in) = in[1]
      /\ \A i \in DOMAIN Tail(in) : i + 1 \in DOMAIN in /\ Tail(in)[i] = in[i + 1]
  BY <1>1, HeadAndTail DEF NegInv, TypeOK
<1>3. Shape'
  <2>1. hand' # Nothing
    BY <1>1, <1>2 DEF ToClient, Nothing, Reply
  <2>2. up /\ td["rx"] = "no"
    BY <1>1 DEF NegInv, Shape
  <2> QED
    BY <1>1, <2>1, <2>2 DEF NegInv, Shape, EndIsDue, flags
<1>4. CASE Replied
  <2>1. PICK r \in ToClient : in = <<r>> /\ ReplyInv(r) /\ (InClear => r.kind \in TlsStage)
    BY <1>4 DEF Replied
  <2>2. hand' = r /\ in' = <<>> /\ offered' = offered \union r.feats
    BY <1>1, <2>1, OneOfThem
  <2>3. InClear' => InClear \/ "starttls" \in r.feats
    BY <1>1, <2>2 DEF InClear, flags
  <2>4. ReplyInv(r)'
    BY <1>1, <2>1, <2>3 DEF ReplyInv, Agree, flags
  <2>5. Held'
    BY <1>1, <1>4, <2>2, <2>4 DEF Replied, Held, Trying
  <2> QED
    BY <1>3, <2>5, ReceiveType DEF NegInv
<1>5. CASE Over
  <2>1. Over'
    BY <1>1, <1>2, <1>5 DEF Over, Understood, Agree, flags
  <2> QED
    BY <1>3, <2>1, ReceiveType DEF NegInv
<1> QED
  BY <1>1, <1>4, <1>5 DEF NegInv, Asking, Held

LEMMA ReceiveEndKeeps ==
  ASSUME NegInv, ReceiveEnd
  PROVE  NegInv'
<1>1. /\ UNCHANGED <<flags, hand, told, ended, logins>> /\ rx = "recv" /\ rx' = "loop"
      /\ ~up' /\ out' = <<>> /\ in' = <<>> /\ td' = [td EXCEPT !["rx"] = "flags"]
  BY DEF ReceiveEnd, hist
<1>2. hand = Nothing
  BY <1>1 DEF NegInv, Shape
<1>3. Over'
  BY <1>1, <1>2 DEF Over
<1>4. td'["rx"] = "flags" /\ td'["user"] = td["user"]
  BY <1>1 DEF NegInv, TypeOK, Threads
<1>5. Shape'
  BY <1>1, <1>2, <1>4 DEF NegInv, Shape, EndIsDue, Threads
<1> QED
  BY <1>3, <1>5, ReceiveType DEF NegInv

\* What the server may answer to each request.
LEMMA ProtocolFacts ==
  ASSUME NEW p \in Protocol
  PROVE  /\ p[1] # "presence" /\ (p[1] = "bye" <=> p[2] = "streamend")
         /\ p[1] = "starttls" <=> p[2] \in TlsStage
         /\ p[2] = "compressed" => p[1] = "compress"
  BY DEF Protocol, TlsStage

LEMMA ReplyKeeps ==
  ASSUME NegInv, ServerReplies
  PROVE  NegInv'
<1>1. PICK p \in Protocol, F \in SUBSET Feature :
        /\ p[1] = Head(out).req
        /\ F \in IF p[2] = "features" THEN Offers ELSE {{}}
        /\ in' = Append(in, [kind |-> p[2], feats |-> F]) /\ srv' = Grant(p[2])
  BY DEF ServerReplies, Offers
<1>2. /\ UNCHANGED <<up, flags, rx, hand, td, told, ended, logins, offered>>
      /\ out # <<>> /\ Understood(Head(out)) /\ out' = Tail(out)
  BY DEF ServerReplies, hist
<1>3. PICK r \in ToClient : r = [kind |-> p[2], feats |-> F]
  BY <1>1, ReplyType
<1>4. Shape'
  BY <1>2 DEF NegInv, Shape, EndIsDue, flags
<1>5. CASE Asking
  <2>1. PICK m \in ToServer : out = <<m>> /\ AskInv(m)
    BY <1>5 DEF Asking
  <2>2. Head(out) = m /\ out' = <<>> /\ p[1] = m.req
    BY <1>1, <1>2, <2>1, OneOfThem
  <2>3. in' = <<r>>
    BY <1>1, <1>3, <1>5, OneOfThem DEF Asking
  <2>4. m.req # "bye" /\ Agree
    BY <2>1 DEF AskInv, Clear
  <2>5. /\ srv'.tls = (srv.tls \/ r.kind = "proceed")
        /\ srv'.zip = (srv.zip \/ r.kind = "compressed")
    BY <1>1, <1>3 DEF Grant
  <2>6. /\ r.kind # "streamend" /\ (r.kind # "features" => r.feats = {})
        /\ m.req = "starttls" <=> r.kind \in TlsStage
        /\ r.kind = "compressed" => m.req = "compress"
    BY <1>1, <1>3, <2>2, <2>4, ProtocolFacts
  <2>7. /\ r.kind = "proceed" => HaveTls /\ srv'.tls /\ ~srv'.zip /\ ~(HaveZlib /\ m_compressionActive)
        /\ r.kind = "compressed" =>
             HaveZlib /\ srv'.zip /\ srv'.tls = (HaveTls /\ m_encryptionActive)
    BY <2>1, <2>4, <2>5, <2>6 DEF AskInv, Agree, TlsStage, NegInv, TypeOK, Granted
  <2>8. r.kind \notin {"proceed", "compressed"} => Agree'
    BY <1>2, <2>4, <2>5 DEF Agree, flags, NegInv, TypeOK, Granted
  <2>9. /\ "starttls" \in r.feats => ~srv'.tls /\ ~srv'.zip
        /\ "zlib" \in r.feats => ~srv'.zip
    <3>1. CASE p[2] = "features"
      BY <1>1, <1>3, <2>5, <3>1 DEF Offers
    <3>2. CASE p[2] # "features"
      BY <1>1, <1>3, <3>2
    <3> QED
      BY <3>1, <3>2
  <2>10. InClear' => r.kind \in TlsStage
    BY <1>2, <2>1, <2>6 DEF AskInv, InClear, flags
  <2>11. ReplyInv(r)'
    BY <1>2, <2>6, <2>7, <2>8, <2>9, <2>10 DEF ReplyInv, flags
  <2>12. Replied'
    BY <1>2, <1>5, <2>2, <2>3, <2>10, <2>11 DEF Asking, Replied, Trying
  <2> QED
    BY <1>4, <2>12, ServerType DEF NegInv, Server
<1>6. CASE Over
  <2>1. /\ 1 \in DOMAIN out /\ Head(out) = out[1]
        /\ \A i \in DOMAIN Tail(out) : i + 1 \in DOMAIN out /\ Tail(out)[i] = out[i + 1]
    BY <1>2, HeadAndTail DEF NegInv, TypeOK
  <2>2. Head(out).req \in {"presence", "bye"}
    BY <1>6, <2>1 DEF Over, Clear
  <2>3. r.kind = "streamend" /\ r.feats = {}
    BY <1>1, <1>3, <2>2, ProtocolFacts
  <2>4. srv'.tls = srv.tls /\ srv'.zip = srv.zip
    BY <1>1, <1>3, <2>3 DEF Grant, NegInv, TypeOK, Granted
  <2>5. \A i \in DOMAIN in' : in'[i].kind = "streamend" /\ in'[i].feats = {}
    <3>1. \A i \in DOMAIN in' : in'[i] = r \/ (i \in DOMAIN in /\ in'[i] = in[i])
      BY <1>1, <1>3, Appended DEF NegInv, TypeOK
    <3> QED
      BY <1>6, <2>3, <3>1 DEF Over
  <2>6. Over'
    BY <1>2, <1>6, <2>1, <2>4, <2>5 DEF Over, Understood, Agree, flags
  <2> QED
    BY <1>4, <2>6, ServerType DEF NegInv, Server
<1> QED
  BY <1>2, <1>5, <1>6 DEF NegInv, Replied, Held

LEMMA ServerKeeps ==
  ASSUME NegInv, Server \/ Break
  PROVE  NegInv'
<1>1. CASE ServerReads
  <2>1. /\ UNCHANGED <<up, flags, rx, hand, td, told, ended, logins, offered, srv, in>>
        /\ out # <<>> /\ Head(out).req = "presence" /\ out' = Tail(out)
    BY <1>1 DEF ServerReads, hist
  <2>2. /\ 1 \in DOMAIN out /\ Head(out) = out[1]
        /\ \A i \in DOMAIN Tail(out) : i + 1 \in DOMAIN out /\ Tail(out)[i] = out[i + 1]
    BY <2>1, HeadAndTail DEF NegInv, TypeOK
  <2>3. ~Asking
    BY <2>1, OneOfThem DEF Asking, AskInv, Clear
  <2>4. Over
    BY <2>1, <2>3 DEF NegInv, Replied, Held
  <2>5. Over'
    BY <2>1, <2>2, <2>4 DEF Over, Understood, Agree, flags
  <2>6. Shape'
    BY <2>1 DEF NegInv, Shape, EndIsDue, flags
  <2> QED
    BY <1>1, <2>5, <2>6, ServerType DEF NegInv, Server
<1>2. CASE ServerGivesUp \/ Break
  <2>1. UNCHANGED <<up, flags, rx, hand, td, told, ended, logins, offered, srv, in, out>>
    BY <1>2 DEF ServerGivesUp, Break, hist
  <2>2. Shape'
    BY <2>1 DEF NegInv, Shape, EndIsDue, flags
  <2> QED
    BY <2>1, <2>2, NothingMoves, ServerType DEF NegInv
<1> QED
  BY <1>1, <1>2, ReplyKeeps DEF Server

-----------------------------------------------------------------------------
(* A patient user: the teardown.                                           *)

\* Whoever tears down does so after the negotiation.
LEMMA TeardownOver ==
  ASSUME NegInv, NEW t \in Threads, td[t] # "no"
  PROVE  Over
  BY DEF NegInv, Asking, Replied, Held, Trying

LEMMA LogoutKeeps ==
  ASSUME NegInv, Patient, Logout
  PROVE  NegInv'
<1>1. /\ UNCHANGED <<up, flags, rx, hand, told, ended, logins, offered, srv, in, out>>
      /\ up /\ told > 0 /\ td' = [td EXCEPT !["user"] = "clear"]
  BY DEF Logout, net
<1>2. told = 1 /\ Over
  BY <1>1 DEF NegInv, Shape, Asking, Replied, Held, Trying
<1>3. td'["rx"] = td["rx"] /\ td'["user"] = "clear"
  BY <1>1 DEF NegInv, TypeOK, Threads
<1>4. Shape'
  BY <1>1, <1>2, <1>3 DEF NegInv, Shape, EndIsDue, Threads, flags
<1> QED
  BY <1>1, <1>2, <1>4, NothingMoves, LogoutType DEF NegInv

\* A thread other than the one that moves stays where it is.
LEMMA OthersStay ==
  ASSUME TypeOK, NEW t \in Threads, NEW step, td' = [td EXCEPT ![t] = step]
  PROVE  td'[t] = step /\ \A u \in Threads : u # t => td'[u] = td[u]
  BY DEF TypeOK

LEMMA TeardownKeeps ==
  ASSUME NegInv, NEW t \in Threads, Teardown(t)
  PROVE  NegInv'
<1>1. td[t] # "no" /\ UNCHANGED <<rx, hand, told, logins, srv, offered>>
  BY DEF Teardown, DiscClear, DiscBye, DiscClose, DiscFlags, DiscNote, net, hist
<1>2. Over
  BY <1>1, TeardownOver
<1>3. t = "rx" => rx = "loop"
  BY <1>1 DEF NegInv, Shape
<1>4. CASE DiscClear(t)
  <2>1. /\ UNCHANGED <<up, flags, out, in, ended>>
        /\ td' = [td EXCEPT ![t] = IF up THEN "bye" ELSE "no"] /\ td[t] = "clear"
    BY <1>4 DEF DiscClear, net, hist
  <2>2. td'[t] \in {"bye", "no"} /\ \A u \in Threads : u # t => td'[u] = td[u]
    BY <2>1, OthersStay DEF NegInv
  <2>3. Shape'
    BY <1>1, <1>3, <2>1, <2>2 DEF NegInv, Shape, EndIsDue, Threads, flags
  <2> QED
    BY <1>1, <1>2, <2>1, <2>3, NothingMoves, TeardownType DEF NegInv
<1>5. CASE DiscBye(t)
  <2>1. /\ UNCHANGED <<up, flags, in, ended>> /\ td' = [td EXCEPT ![t] = "close"]
        /\ td[t] = "bye" /\ (UNCHANGED out \/ Send("bye"))
    BY <1>5 DEF DiscBye, hist
  <2>2. td'[t] = "close" /\ \A u \in Threads : u # t => td'[u] = td[u]
    BY <2>1, OthersStay DEF NegInv
  <2>3. UNCHANGED out \/ (up /\ Send("bye"))
    BY <2>1 DEF Send, SendAs
  <2>4. Shape'
    BY <1>1, <1>3, <2>1, <2>2, <2>3 DEF NegInv, Shape, EndIsDue, Threads, flags
  <2>5. CASE UNCHANGED out
    BY <1>1, <1>2, <2>1, <2>4, <2>5, NothingMoves, TeardownType DEF NegInv
  <2>6. CASE up /\ Send("bye")
    <3>1. "bye" \in Request
      BY DEF Request
    <3>2. PICK m \in ToServer : /\ m.req = "bye" /\ out' = Append(out, m)
                                /\ m.tls = (HaveTls /\ m_encryptionActive)
                                /\ m.zip = (HaveZlib /\ m_compressionActive)
      BY <2>6, <3>1, SendUp DEF NegInv
    <3>3. Understood(m)' /\ Agree'
      BY <1>1, <1>2, <2>1, <2>6, <3>2 DEF Over, Agree, Understood, flags
    <3>4. \A i \in DOMAIN out' : out'[i] = m \/ (i \in DOMAIN out /\ out'[i] = out[i])
      BY <3>2, Appended DEF NegInv, TypeOK
    <3>5. \A i \in DOMAIN out' : out'[i].req \in Clear /\ Understood(out[i])'
      BY <1>1, <1>2, <3>2, <3>3, <3>4 DEF Over, Understood, Clear
    <3>6. Over'
      BY <1>1, <1>2, <2>1, <3>3, <3>5 DEF Over, Understood
    <3> QED
      BY <1>5, <2>4, <3>6, TeardownType DEF NegInv, Teardown
  <2> QED
    BY <2>3, <2>5, <2>6
<1>6. CASE DiscClose(t)
  <2>1. /\ UNCHANGED <<flags, ended>> /\ td' = [td EXCEPT ![t] = "flags"]
        /\ ~up' /\ out' = <<>> /\ in' = <<>>
    BY <1>6 DEF DiscClose, hist
  <2>2. td'[t] = "flags" /\ \A u \in Threads : u # t => td'[u] = td[u]
    BY <2>1, OthersStay DEF NegInv
  <2>3. Shape'
    BY <1>1, <1>3, <2>1, <2>2 DEF NegInv, Shape, EndIsDue, Threads, flags
  <2>4. Over'
    BY <1>1, <1>2, <2>1 DEF Over
  <2> QED
    BY <2>3, <2>4, TeardownType DEF NegInv
<1>7. CASE DiscFlags(t)
  <2>1. /\ UNCHANGED <<up, out, in, ended>> /\ td' = [td EXCEPT ![t] = "note"]
        /\ td[t] = "flags" /\ ~m_encryptionActive' /\ ~m_compressionActive'
    BY <1>7 DEF DiscFlags, net, hist
  <2>2. td'[t] = "note" /\ \A u \in Threads : u # t => td'[u] = td[u]
    BY <2>1, OthersStay DEF NegInv
  <2>3. ~up
    BY <2>1 DEF NegInv, Shape
  <2>4. Shape'
    BY <1>1, <1>3, <2>1, <2>2, <2>3 DEF NegInv, Shape, EndIsDue, Threads
  <2>5. Over'
    BY <1>1, <1>2, <2>1, <2>3 DEF Over, Understood
  <2> QED
    BY <2>4, <2>5, TeardownType DEF NegInv
<1>8. CASE DiscNote(t)
  <2>1. /\ UNCHANGED <<up, flags, out, in>> /\ ended' = TRUE /\ td' = [td EXCEPT ![t] = "no"]
        /\ td[t] = "note"
    BY <1>8 DEF DiscNote, net
  <2>2. td'[t] = "no" /\ \A u \in Threads : u # t => td'[u] = td[u]
    BY <2>1, OthersStay DEF NegInv
  <2>3. ~up
    BY <2>1 DEF NegInv, Shape
  <2>4. Shape'
    BY <1>1, <1>3, <2>1, <2>2, <2>3 DEF NegInv, Shape, EndIsDue, Threads, flags
  <2> QED
    BY <1>1, <1>2, <2>1, <2>4, NothingMoves, TeardownType DEF NegInv
<1> QED
  BY <1>4, <1>5, <1>6, <1>7, <1>8 DEF Teardown

-----------------------------------------------------------------------------
(* What holds for a patient user.                                          *)

LEMMA StutterKeeps ==
  ASSUME NegInv, UNCHANGED vars
  PROVE  NegInv'
<1>1. UNCHANGED <<up, flags, rx, hand, td, told, ended, logins, offered, srv, in, out>>
  BY DEF vars, net, hist
<1>2. Shape'
  BY <1>1 DEF NegInv, Shape, EndIsDue, flags
<1> QED
  BY <1>1, <1>2, NothingMoves, StepKeepsType DEF NegInv

LEMMA StepKeepsNegInv ==
  ASSUME NegInv, [Next]_vars, Login \/ Logout => Patient
  PROVE  NegInv'
<1>1. CASE Receiver
  BY <1>1, LoopKeeps, ReceiveKeeps, ReceiveEndKeeps, HandleKeeps, TeardownKeeps DEF Receiver, Threads
<1>2. CASE Login \/ Logout \/ Teardown("user")
  BY <1>2, LoginKeeps, LogoutKeeps, TeardownKeeps DEF Threads
<1>3. CASE Server \/ Break
  BY <1>3, ServerKeeps
<1>4. CASE UNCHANGED vars
  BY <1>4, StutterKeeps
<1> QED
  BY <1>1, <1>2, <1>3, <1>4 DEF Next, Finished

LEMMA InitNegInv == Init => NegInv
<1> SUFFICES ASSUME Init PROVE NegInv
  OBVIOUS
<1>1. Shape
  BY DEF Init, Shape, EndIsDue, Threads
<1>2. Over
  BY EmptySeq, LenProperties DEF Init, Over
<1> QED
  BY <1>1, <1>2, InitType DEF NegInv

\* No step takes a login back, and only a login opens a connection.
LEMMA LoginsGrow ==
  ASSUME TypeOK, [Next]_vars
  PROVE  (UNCHANGED logins /\ (up' => up)) \/ (Login /\ logins' = logins + 1)
<1>1. CASE Login
  BY <1>1 DEF Login
<1>2. CASE Handle
  BY <1>2 DEF Handle, HandleFeatures, HandleProceed, HandleHandshaken, HandleCompressed,
         HandleChallenge, HandleSuccess, HandleFailure, HandleStreamEnd, HandleFields, HandleAuthOk,
         HandleAuthError, ProcessResourceBind, ProcessCreateSession,
         BindOrSessionError, HandleRoster, Handling
<1>3. ASSUME NEW t \in Threads, Teardown(t)
      PROVE  UNCHANGED logins /\ (up' => up)
  BY <1>3 DEF Teardown, DiscClear, DiscBye, DiscClose, DiscFlags, DiscNote, hist
<1>4. CASE Loop \/ Receive \/ ReceiveEnd \/ Logout \/ Server \/ Break \/ UNCHANGED vars
  BY <1>4 DEF Loop, Receive, ReceiveEnd, Logout, Server, ServerReplies, ServerReads,
              ServerGivesUp, Break, vars, hist
<1> QED
  BY <1>1, <1>2, <1>3, <1>4 DEF Next, Receiver, Finished, Threads

\* A logout of the first impatient user that is past closing has closed his connection.
Closing == logins = PatientLogins + 1 /\ td["user"] \in {"flags", "note"} => ~up

LEMMA StepKeepsClosing == TypeOK /\ Closing /\ [Next]_vars => Closing'
<1> SUFFICES ASSUME TypeOK, Closing, [Next]_vars PROVE Closing'
  OBVIOUS
<1>1. CASE Login
  BY <1>1, NegotiationAssumption DEF Login, Patient, Closing, TypeOK
<1>2. CASE Logout
  BY <1>2 DEF Logout, Closing, TypeOK, Threads
<1>3. CASE Teardown("user")
  BY <1>3 DEF Teardown, DiscClear, DiscBye, DiscClose, DiscFlags, DiscNote, hist, net,
              Closing, TypeOK, Threads
<1>4. CASE UNCHANGED <<logins, td["user"]>> /\ (up' => up)
  BY <1>4 DEF Closing
<1>5. CASE Teardown("rx")
  BY <1>5, <1>4 DEF Teardown, DiscClear, DiscBye, DiscClose, DiscFlags, DiscNote, hist, net,
                    TypeOK, Threads
<1>6. CASE Handle
  <2>1. UNCHANGED <<logins, up>>
    BY <1>6 DEF Handle, HandleFeatures, HandleProceed, HandleHandshaken, HandleCompressed,
         HandleChallenge, HandleSuccess, HandleFailure, HandleStreamEnd, HandleFields, HandleAuthOk,
         HandleAuthError, ProcessResourceBind, ProcessCreateSession,
         BindOrSessionError, HandleRoster, Handling
  <2>2. td'["user"] = td["user"]
    BY <1>6 DEF Handle, HandleFeatures, HandleProceed, HandleHandshaken, HandleCompressed,
         HandleChallenge, HandleSuccess, HandleFailure, HandleStreamEnd, HandleFields, HandleAuthOk,
         HandleAuthError, ProcessResourceBind, ProcessCreateSession,
         BindOrSessionError, HandleRoster, ClientLogin, Connected, Continue, Disconnect,
         TypeOK, Threads
  <2> QED
    BY <1>4, <2>1, <2>2
<1>7. CASE Loop \/ Receive \/ ReceiveEnd \/ Server \/ Break \/ UNCHANGED vars
  BY <1>7, <1>4 DEF Loop, Receive, ReceiveEnd, Server, ServerReplies, ServerReads,
                    ServerGivesUp, Break, vars, hist, TypeOK, Threads
<1> QED
  BY <1>1, <1>2, <1>3, <1>5, <1>6, <1>7 DEF Next, Receiver, Finished

\* The user's teardown of a connection that is up, and stays up, does not end.
LEMMA UserStays ==
  ASSUME TypeOK, Closing, [Next]_vars, ~Login, logins = PatientLogins + 1, up,
         td'["user"] = "no"
  PROVE  td["user"] = "no"
<1>1. CASE Teardown("user")
  BY <1>1 DEF Teardown, DiscClear, DiscBye, DiscClose, DiscFlags, DiscNote, Closing, TypeOK, Threads
<1>2. CASE Teardown("rx")
  BY <1>2 DEF Teardown, DiscClear, DiscBye, DiscClose, DiscFlags, DiscNote, TypeOK, Threads
<1>3. CASE Handle
  BY <1>3 DEF Handle, HandleFeatures, HandleProceed, HandleHandshaken, HandleCompressed,
         HandleChallenge, HandleSuccess, HandleFailure, HandleStreamEnd, HandleFields, HandleAuthOk,
         HandleAuthError, ProcessResourceBind, ProcessCreateSession,
         BindOrSessionError, HandleRoster, ClientLogin, Connected, Continue,
         Disconnect, Handling, TypeOK, Threads
<1>4. CASE Loop \/ Receive \/ ReceiveEnd \/ Logout \/ Server \/ Break \/ UNCHANGED vars
  BY <1>4 DEF Loop, Receive, ReceiveEnd, Logout, Server, ServerReplies, ServerReads,
              ServerGivesUp, Break, vars, TypeOK, Threads
<1> QED
  BY <1>1, <1>2, <1>3, <1>4 DEF Next, Receiver, Finished

\* The negotiation is as NegInv says until an impatient user cuts into it.
LEMMA NegInvariant == Spec => [](Undisturbed => NegInv)
<1>1. Init => Closing
  BY DEF Init, Closing
<1>2. /\ TypeOK /\ Closing /\ (Undisturbed => NegInv) /\ [Next]_vars
      => (Undisturbed => NegInv)'
  <2> SUFFICES ASSUME TypeOK, Closing, Undisturbed => NegInv, [Next]_vars, Undisturbed'
               PROVE  NegInv'
    OBVIOUS
  <2>1. CASE Login
    <3>1. Patient
      BY <2>1, LoginsGrow, NegotiationAssumption DEF Login, Undisturbed, Patient, TypeOK
    <3> QED
      BY <3>1, StepKeepsNegInv DEF Undisturbed
  <2>2. CASE Logout
    <3>1. Patient
      BY <2>2, LoginsGrow DEF Logout, Login, Undisturbed, Patient, TypeOK, Threads
    <3> QED
      BY <3>1, StepKeepsNegInv DEF Undisturbed
  <2>3. CASE ~Login /\ ~Logout
    <3>1. UNCHANGED logins /\ (up' => up)
      BY <2>3, LoginsGrow
    <3>2. CASE Patient
      BY <2>3, <3>2, StepKeepsNegInv DEF Undisturbed
    <3>3. CASE ~Patient
      <4>1. logins = PatientLogins + 1 /\ up /\ up' /\ td'["user"] = "no"
        BY <3>1, <3>3 DEF Undisturbed, Patient
      <4>2. td["user"] = "no"
        BY <2>3, <4>1, UserStays DEF Closing
      <4> QED
        BY <2>3, <4>1, <4>2, StepKeepsNegInv DEF Undisturbed
    <3> QED
      BY <3>2, <3>3
  <2> QED
    BY <2>1, <2>2, <2>3
<1> QED
  BY <1>1, <1>2, StepKeepsClosing, InitNegInv, NegotiationTypeCorrect, PTL DEF Spec

\* As long as no logout() has cut into a negotiation, and each has returned before the
\* next login, what is under way to the server is always encoded as the server expects.
THEOREM EndsStayInStep == Spec => []EndsAgreeOnEncoding
<1>1. (Undisturbed => NegInv) => EndsAgreeOnEncoding
  <2> SUFFICES ASSUME NegInv, out # <<>> PROVE Understood(Head(out))
    BY DEF EndsAgreeOnEncoding
  <2>1. 1 \in DOMAIN out /\ Head(out) = out[1]
    BY HeadAndTail DEF NegInv, TypeOK
  <2>2. CASE Asking
    BY <2>2, OneOfThem DEF Asking, AskInv
  <2>3. CASE Over
    BY <2>1, <2>3 DEF Over
  <2> QED
    BY <2>2, <2>3 DEF NegInv, Replied, Held
<1> QED
  BY <1>1, NegInvariant, PTL

\* And as long credentials do not go out in clear on a connection whose server has
\* offered TLS to a build that has it, however often the user logs in and out.
THEOREM NoClearCredentials == Spec => [](Undisturbed => AuthAfterTls)
<1>1. NegInv => AuthAfterTls
  <2> SUFFICES ASSUME NegInv, NEW i \in 1..Len(out), out[i].req \in Auth
               PROVE  out[i].tls \/ ~HaveTls \/ "starttls" \notin offered
    BY DEF AuthAfterTls, Auth
  <2>1. i \in DOMAIN out
    BY LenProperties DEF NegInv, TypeOK
  <2>2. CASE Asking
    <3>1. PICK m \in ToServer : out = <<m>> /\ AskInv(m)
      BY <2>2 DEF Asking
    <3>2. out[i] = m
      BY <3>1, OneOfThem
    <3> QED
      BY <3>1, <3>2 DEF AskInv, InClear, Agree, Understood, Auth
  <2>3. CASE Over
    BY <2>1, <2>3 DEF Over, Clear, Auth
  <2>4. CASE out = <<>>
    BY <2>4, EmptySeq
  <2> QED
    BY <2>2, <2>3, <2>4 DEF NegInv, Replied, Held
<1> QED
  BY <1>1, NegInvariant, PTL

-----------------------------------------------------------------------------
(* One thing is under way at a time, however the user interferes.          *)

\* The requests of the negotiation, and their answers.
Questions == {m \in ToServer : m.req \notin Clear}
Answers   == {r \in ToClient : r.kind # "streamend"}

At(q, S)     == {i \in DOMAIN q : q[i] \in S}
One(I)       == \A i, j \in I : i = j
Within(q, S) == \A i \in DOMAIN q : q[i] \in S

\* The two ends take turns: one question or one answer is under way, or the receiver
\* has the answer in hand, and only until success is told.
Turn ==
  /\ told \in {0, 1} /\ (rx = "hand" <=> hand # Nothing)
  /\ One(At(out, Questions)) /\ One(At(in, Answers))
  /\ At(out, Questions) # {} => At(in, Answers) = {}
  /\ At(out, Questions) \union At(in, Answers) # {} => hand \notin Answers /\ told = 0
  /\ hand \in Answers => told = 0

LEMMA AtEmpty ==
  ASSUME NEW S
  PROVE  At(<<>>, S) = {}
  BY DEF At

\* One more message.
LEMMA AtAppended ==
  ASSUME NEW T, NEW S, NEW q \in Seq(T), NEW m \in T
  PROVE  /\ m \notin S => At(Append(q, m), S) = At(q, S)
         /\ m \in S /\ At(q, S) = {} => One(At(Append(q, m), S))
<1>1. /\ Append(q, m) \in Seq(T) /\ Len(Append(q, m)) = Len(q) + 1 /\ Len(q) \in Nat
      /\ \A i \in 1..Len(q) : Append(q, m)[i] = q[i]
      /\ Append(q, m)[Len(q) + 1] = m
  BY AppendProperties, LenProperties
<1>2. DOMAIN q = 1..Len(q) /\ DOMAIN Append(q, m) = 1..(Len(q) + 1)
  BY <1>1, LenProperties
<1>3. /\ \A i \in DOMAIN q : i \in DOMAIN Append(q, m) /\ Append(q, m)[i] = q[i]
      /\ \A i \in DOMAIN Append(q, m) : i \in DOMAIN q \/ i = Len(q) + 1
      /\ Len(q) + 1 \in DOMAIN Append(q, m) /\ Append(q, m)[Len(q) + 1] = m
  BY <1>1, <1>2
<1>4. m \notin S => At(Append(q, m), S) = At(q, S)
  BY <1>3 DEF At
<1>5. m \in S /\ At(q, S) = {} => One(At(Append(q, m), S))
  BY <1>3 DEF At, One
<1> QED
  BY <1>4, <1>5

\* The first message is taken.
LEMMA AtTail ==
  ASSUME NEW T, NEW S, NEW q \in Seq(T), q # <<>>
  PROVE  /\ One(At(q, S)) => One(At(Tail(q), S))
         /\ At(Tail(q), S) # {} => At(q, S) # {}
         /\ Head(q) \notin S /\ At(q, S) # {} => At(Tail(q), S) # {}
         /\ Head(q) \in S => At(q, S) # {}
         /\ Head(q) \in S /\ One(At(q, S)) => At(Tail(q), S) = {}
<1>1. DOMAIN q = 1..Len(q) /\ Len(q) \in Nat /\ Len(q) > 0
  BY LenProperties, EmptySeq
<1>2. /\ Head(q) = q[1] /\ Tail(q) \in Seq(T)
      /\ Len(Tail(q)) = Len(q) - 1 /\ \A i \in 1..Len(Tail(q)) : Tail(q)[i] = q[i + 1]
  BY HeadTailProperties
<1>3. DOMAIN Tail(q) = 1..(Len(q) - 1)
  BY <1>2, LenProperties
<1>4. /\ \A i \in DOMAIN Tail(q) : i \in Nat /\ i + 1 \in DOMAIN q /\ i + 1 # 1 /\ Tail(q)[i] = q[i + 1]
      /\ \A i, j \in DOMAIN Tail(q) : i + 1 = j + 1 => i = j
      /\ \A i \in DOMAIN q : i = 1 \/ (i - 1 \in DOMAIN Tail(q) /\ Tail(q)[i - 1] = q[i])
      /\ 1 \in DOMAIN q
  BY <1>1, <1>2, <1>3
<1>5. \A i \in At(Tail(q), S) : i + 1 \in At(q, S) /\ i + 1 # 1
  BY <1>4 DEF At
<1>6. One(At(q, S)) => One(At(Tail(q), S))
  <2> SUFFICES ASSUME One(At(q, S)), NEW i \in At(Tail(q), S), NEW j \in At(Tail(q), S)
               PROVE  i = j
    BY DEF One
  <2>1. i + 1 = j + 1
    BY <1>5 DEF One
  <2> QED
    BY <1>4, <2>1 DEF At
<1>7. At(Tail(q), S) # {} => At(q, S) # {}
  BY <1>5
<1>8. Head(q) \in S <=> 1 \in At(q, S)
  BY <1>2, <1>4 DEF At
<1>9. ASSUME Head(q) \notin S, At(q, S) # {} PROVE At(Tail(q), S) # {}
  <2>1. PICK i \in At(q, S) : i # 1
    BY <1>8, <1>9
  <2>2. i - 1 \in At(Tail(q), S)
    BY <1>4, <2>1 DEF At
  <2> QED
    BY <2>2
<1>10. ASSUME Head(q) \in S, One(At(q, S)) PROVE At(Tail(q), S) = {}
  <2> SUFFICES ASSUME NEW i \in At(Tail(q), S) PROVE FALSE
    OBVIOUS
  <2>1. i + 1 = 1
    BY <1>5, <1>8, <1>10 DEF One
  <2> QED
    BY <1>5, <2>1
<1> QED
  BY <1>6, <1>7, <1>8, <1>9, <1>10

LEMMA WithinAppended ==
  ASSUME NEW T, NEW S, NEW q \in Seq(T), NEW m \in T, Within(q, S), m \in S
  PROVE  Within(Append(q, m), S)
  BY Appended DEF Within

LEMMA WithinTail ==
  ASSUME NEW T, NEW S, NEW q \in Seq(T), q # <<>>, Within(q, S)
  PROVE  Within(Tail(q), S) /\ Head(q) \in S
  BY HeadAndTail DEF Within

\* The receiver sends r.
Sends(r) == \E m \in ToServer : m.req = r /\ out' = IF up THEN Append(out, m) ELSE out

\* What a handler does with a reply of kind k: it asks the next question, it reports
\* success, it gives up, or it does nothing.
Asks(k) ==
  /\ k \notin {"streamend", "sessionerror", "roster", "rostererror"} /\ UNCHANGED <<told, td>>
  /\ \E r \in Request \ Clear : /\ Sends(r) /\ (r = "starttls" => HaveTls)
                                /\ k \in {"bound", "session"} => r \in {"session", "roster"}
Reports(k) ==
  /\ k # "streamend" /\ told' = told + 1 /\ UNCHANGED td
  /\ UNCHANGED out \/ Sends("presence")
GivesUp(k) ==
  /\ k # "streamend" /\ UNCHANGED <<out, told>> /\ td' = [td EXCEPT !["rx"] = "clear"]
Drops(k) ==
  /\ UNCHANGED <<out, told, td>>
  /\ \/ k = "streamend" \/ Ignored
     \/ k = "features" /\ m_resourceBound
     \/ k = "proceed" /\ ~HaveTls

LEMMA SendSends ==
  ASSUME TypeOK, NEW r \in Request, Send(r)
  PROVE  Sends(r)
<1> DEFINE m == [req |-> r, tls |-> HaveTls /\ m_encryptionActive,
                 zip |-> HaveZlib /\ m_compressionActive]
<1>1. m \in ToServer /\ m.req = r
  BY NegotiationAssumption DEF ToServer, TypeOK
<1> QED
  BY <1>1 DEF Send, SendAs, Sends

LEMMA ConnectedDoes ==
  ASSUME TypeOK, NEW k \in {"authok", "bound", "session"}, NEW authed, Connected(authed)
  PROVE  Asks(k) \/ Reports(k)
<1>1. "roster" \in Request \ Clear
  BY DEF Request, Clear
<1> QED
  BY <1>1, SendSends DEF Connected, Asks, Reports

LEMMA FeaturesDo ==
  ASSUME TypeOK, HandleFeatures
  PROVE  Asks("features") \/ GivesUp("features") \/ Drops("features")
<1>1. PICK F : /\ F = IF hand.feats = {} THEN {"iqauth"} ELSE hand.feats
               /\ \/ WantsTls(F) /\ Send("starttls") /\ Continue
                  \/ ~WantsTls(F) /\ WantsZlib(F) /\ Send("compress") /\ Continue
                  \/ /\ ~WantsTls(F) /\ ~WantsZlib(F) /\ m_authed
                     /\ IF "bind" \in F THEN BindOperation ELSE UNCHANGED out
                     /\ Continue
                  \/ ~WantsTls(F) /\ ~WantsZlib(F) /\ ~m_authed /\ ClientLogin(F)
  BY DEF HandleFeatures
<1>2. hand.kind = "features"
  BY DEF HandleFeatures, Handling
<1>3. \A r \in {"starttls", "compress", "bind", "sasl", "fields"} : r \in Request /\ r \notin Clear
  BY DEF Request, Clear
<1>4. CASE WantsTls(F) /\ Send("starttls") /\ Continue
  BY <1>3, <1>4, SendSends DEF Asks, WantsTls, Continue
<1>5. CASE Continue /\ \E r \in {"compress", "bind", "sasl", "fields"} : Send(r)
  BY <1>3, <1>5, SendSends DEF Asks, Continue
<1>6. CASE UNCHANGED out /\ Continue /\ m_authed /\ ("bind" \in F => m_resourceBound)
           /\ ~WantsTls(F) /\ ~WantsZlib(F)
  <2>1. "bind" \notin F => Ignored
    BY <1>1, <1>2, <1>6 DEF Ignored, WantsTls, WantsZlib
  <2> QED
    BY <1>6, <2>1 DEF Drops, Continue
<1>7. CASE UNCHANGED <<out, told>> /\ Disconnect("NoSupportedAuth")
  BY <1>7 DEF GivesUp, Disconnect
<1> QED
  BY <1>1, <1>4, <1>5, <1>6, <1>7 DEF BindOperation, ClientLogin

\* Every handler does one of the four; and only a bound resource sets m_resourceBound.
LEMMA HandleDoes ==
  ASSUME TypeOK, Handle
  PROVE  \E k \in Reply : /\ Handling(k) /\ m_resourceBound' = (m_resourceBound \/ k = "bound")
                          /\ Asks(k) \/ Reports(k) \/ GivesUp(k) \/ Drops(k)
<1>1. {"hello", "header", "response", "sendauth", "session"} \subseteq Request \ Clear
      /\ "presence" \in Request
  BY DEF Request, Clear
<1>2. m_resourceBound \in BOOLEAN
  BY DEF TypeOK
<1>3. CASE HandleFeatures
  <2>1. Handling("features") /\ UNCHANGED m_resourceBound /\ "features" \in Reply
    BY <1>3 DEF HandleFeatures, Reply
  <2> QED
    BY <1>2, <1>3, <2>1, FeaturesDo
<1>4. CASE HandleProceed
  <2>1. Handling("proceed") /\ UNCHANGED <<m_resourceBound, td, told>> /\ "proceed" \in Reply
    BY <1>4 DEF HandleProceed, login, Continue, Reply
  <2>2. CASE HaveTls
    <3>1. [req |-> "hello", tls |-> TRUE, zip |-> FALSE] \in ToServer
      BY DEF ToServer, Request
    <3>2. Sends("hello")
      BY <1>4, <2>2, <3>1 DEF HandleProceed, SendAs, Sends
    <3> QED
      BY <1>1, <1>2, <2>1, <3>2 DEF Asks
  <2>3. CASE ~HaveTls
    BY <1>2, <1>4, <2>1, <2>3 DEF HandleProceed, Drops
  <2> QED
    BY <2>2, <2>3
<1>5. CASE HandleCompressed
  <2>1. Handling("compressed") /\ UNCHANGED <<m_resourceBound, td, told>> /\ "compressed" \in Reply
    BY <1>5 DEF HandleCompressed, login, Continue, Reply
  <2>2. [req |-> "header", tls |-> HaveTls /\ m_encryptionActive, zip |-> HaveZlib] \in ToServer
    BY NegotiationAssumption DEF ToServer, Request, TypeOK
  <2>3. Sends("header")
    BY <1>5, <2>2 DEF HandleCompressed, SendAs, Sends
  <2> QED
    BY <1>1, <1>2, <2>1, <2>3 DEF Asks
<1>6. CASE HandleHandshaken \/ HandleSuccess \/ HandleFields
  <2>1. PICK k \in {"handshaken", "success", "fields"}, r \in {"header", "sendauth"} :
          Handling(k) /\ Send(r)
    BY <1>6 DEF HandleHandshaken, HandleSuccess, HandleFields
  <2>2. UNCHANGED <<m_resourceBound, td, told>> /\ k \in Reply /\ k # "bound"
    BY <1>6 DEF HandleHandshaken, HandleSuccess, HandleFields, login, Continue, Reply
  <2>3. Asks(k)
    BY <1>1, <2>1, <2>2, SendSends DEF Asks
  <2> QED
    BY <1>2, <2>1, <2>2, <2>3
<1>7. CASE HandleChallenge
  <2>1. UNCHANGED <<m_resourceBound, td, told>> /\ "challenge" \in Reply /\ "badchallenge" \in Reply
    BY <1>7 DEF HandleChallenge, login, Continue, Reply
  <2>2. CASE Handling("challenge") /\ Send("response")
    BY <1>1, <1>2, <2>1, <2>2, SendSends DEF Asks
  <2>3. CASE Handling("badchallenge") /\ UNCHANGED out
    BY <1>2, <2>1, <2>3 DEF Drops, Ignored, Handling
  <2> QED
    BY <1>7, <2>2, <2>3 DEF HandleChallenge
<1>8. CASE HandleFailure \/ HandleAuthError
  <2>1. PICK k \in {"oldversion", "tlsfailure", "handshakefailed", "zlibfailure", "authfailure",
                    "autherror"}, reason \in Reason :
          Handling(k) /\ Disconnect(reason)
    BY <1>8 DEF HandleFailure, HandleAuthError, Reason
  <2>2. UNCHANGED <<m_resourceBound, out, told>> /\ k \in Reply /\ k # "bound"
    BY <1>8 DEF HandleFailure, HandleAuthError, login, Reply
  <2> QED
    BY <1>2, <2>1, <2>2 DEF GivesUp, Disconnect
<1>9. CASE HandleStreamEnd
  BY <1>2, <1>9 DEF HandleStreamEnd, login, Continue, Drops, Reply
<1>10. CASE HandleAuthOk \/ ProcessCreateSession
  <2>1. PICK k \in {"authok", "session"}, authed \in BOOLEAN : Handling(k) /\ Connected(authed)
    BY <1>10 DEF HandleAuthOk, ProcessCreateSession, TypeOK
  <2>2. UNCHANGED m_resourceBound /\ k \in Reply /\ k # "bound"
    BY <1>10 DEF HandleAuthOk, ProcessCreateSession, login, Reply
  <2> QED
    BY <1>2, <2>1, <2>2, ConnectedDoes
<1>11. CASE ProcessResourceBind
  <2>1. Handling("bound") /\ m_resourceBound' = TRUE /\ "bound" \in Reply
    BY <1>11 DEF ProcessResourceBind, Reply
  <2>2. CASE Send("session") /\ Continue
    BY <1>1, <2>1, <2>2, SendSends DEF Asks, Continue
  <2>3. CASE Connected(m_authed)
    BY <2>1, <2>3, ConnectedDoes
  <2> QED
    BY <1>11, <2>2, <2>3 DEF ProcessResourceBind
<1>12. CASE BindOrSessionError
  <2>1. PICK k \in {"binderror", "sessionerror"} : Handling(k)
    BY <1>12 DEF BindOrSessionError
  <2>2. UNCHANGED <<m_resourceBound, out, td, told>> /\ k \in Reply /\ k # "bound" /\ hand.kind = k
    BY <1>12, <2>1 DEF BindOrSessionError, login, Continue, Reply, Handling
  <2> QED
    BY <1>2, <2>1, <2>2 DEF Drops, Ignored
<1>13. CASE HandleRoster
  <2>1. PICK k \in {"roster", "rostererror"} : Handling(k)
    BY <1>13 DEF HandleRoster
  <2>2. UNCHANGED <<m_resourceBound, td>> /\ told' = told + 1 /\ Send("presence") /\ k \in Reply /\ k # "bound"
    BY <1>13 DEF HandleRoster, login, Reply
  <2> QED
    BY <1>1, <1>2, <2>1, <2>2, SendSends DEF Reports
<1> QED
  BY <1>3, <1>4, <1>5, <1>6, <1>7, <1>8, <1>9, <1>10, <1>11, <1>12, <1>13 DEF Handle

LEMMA InitTurn == Init => Turn
  BY AtEmpty DEF Init, Turn, One, Answers, ToClient, Nothing, Reply

\* The receiver has no answer in hand, unless it has a stanza in hand.
LEMMA NothingInHand == Nothing \notin ToClient
  BY DEF Nothing, ToClient, Reply

LEMMA ReceiverTurns ==
  ASSUME TypeOK, Turn, Login \/ Loop \/ Receive \/ ReceiveEnd
  PROVE  Turn'
<1> USE NothingInHand, AtEmpty DEF Turn, One, Answers
<1>1. CASE Login
  <2>1. PICK m \in ToServer : m.req = "header" /\ out' = <<m>>
    <3>1. [req |-> "header", tls |-> HaveTls /\ m_encryptionActive,
           zip |-> HaveZlib /\ m_compressionActive] \in ToServer
      BY NegotiationAssumption DEF ToServer, Request, TypeOK
    <3> QED
      BY <1>1, <3>1 DEF Login
  <2>2. One(At(out', Questions))
    BY <2>1, OneOfThem DEF At
  <2> QED
    BY <1>1, <2>2 DEF Login
<1>2. CASE Loop
  BY <1>2 DEF Loop, net, hist
<1>3. CASE Receive
  <2>1. /\ Head(in) \in ToClient /\ in \in Seq(ToClient) /\ in # <<>>
        /\ rx = "recv" /\ rx' = "hand" /\ UNCHANGED <<out, told>>
        /\ hand' = Head(in) /\ in' = Tail(in)
    BY <1>3, HeadAndTail DEF Receive, TypeOK, hist
  <2>2. /\ One(At(in, Answers)) => One(At(in', Answers))
        /\ At(in', Answers) # {} => At(in, Answers) # {}
        /\ hand' \in Answers => At(in, Answers) # {} /\ At(in', Answers) = {}
    <3> HIDE DEF One, Answers
    <3> QED
      BY <2>1, AtTail
  <2> HIDE DEF One
  <2> QED
    BY <2>1, <2>2
<1>4. CASE ReceiveEnd
  BY <1>4 DEF ReceiveEnd, hist
<1> QED
  BY <1>1, <1>2, <1>3, <1>4

LEMMA HandlerTurns ==
  ASSUME TypeOK, Turn, Handle
  PROVE  Turn'
<1>1. PICK k \in Reply : Handling(k) /\ (Asks(k) \/ Reports(k) \/ GivesUp(k) \/ Drops(k))
  BY HandleDoes
<1>2. hand \in ToClient /\ hand.kind = k /\ hand' = Nothing /\ rx' # "hand" /\ UNCHANGED in
  BY <1>1 DEF Handling, Turn, TypeOK
<1>3. k # "streamend" => At(out, Questions) = {} /\ At(in, Answers) = {} /\ told = 0
  BY <1>2 DEF Turn, Answers
<1>4. ASSUME NEW r, Sends(r)
      PROVE  /\ r \in Clear => At(out', Questions) = At(out, Questions)
             /\ At(out, Questions) = {} => One(At(out', Questions))
  <2>1. PICK m \in ToServer : m.req = r /\ (out' = out \/ out' = Append(out, m))
    BY <1>4 DEF Sends
  <2>2. out \in Seq(ToServer) /\ (r \in Clear => m \notin Questions)
    BY <2>1 DEF TypeOK, Questions
  <2>3. /\ m \notin Questions => At(Append(out, m), Questions) = At(out, Questions)
        /\ m \in Questions /\ At(out, Questions) = {} => One(At(Append(out, m), Questions))
    BY <2>2, AtAppended
  <2>4. At(out, Questions) = {} => One(At(out, Questions))
    BY DEF One
  <2> QED
    BY <2>1, <2>2, <2>3, <2>4
<1>5. CASE Asks(k)
  BY <1>2, <1>3, <1>4, <1>5, NothingInHand DEF Asks, Turn, Answers
<1>6. CASE Reports(k)
  BY <1>2, <1>3, <1>4, <1>6, NothingInHand DEF Reports, Turn, Answers, Clear
<1>7. CASE GivesUp(k) \/ Drops(k)
  BY <1>2, <1>7, NothingInHand DEF GivesUp, Drops, Turn, Answers
<1> QED
  BY <1>1, <1>5, <1>6, <1>7

LEMMA ServerTurns ==
  ASSUME TypeOK, Turn, Server \/ Break
  PROVE  Turn'
<1>1. CASE ServerReplies
  <2>1. PICK p \in Protocol, F \in SUBSET Feature :
          /\ p[1] = Head(out).req /\ F \in IF p[2] = "features" THEN Offers ELSE {{}}
          /\ in' = Append(in, [kind |-> p[2], feats |-> F])
    BY <1>1 DEF ServerReplies, Offers
  <2>2. PICK r \in ToClient : r = [kind |-> p[2], feats |-> F]
    BY <2>1, ReplyType
  <2>3. /\ out # <<>> /\ Head(out) \in ToServer /\ out' = Tail(out) /\ in' = Append(in, r)
        /\ UNCHANGED <<rx, hand, told>>
    BY <1>1, <2>1, <2>2, HeadAndTail DEF ServerReplies, TypeOK, hist
  <2>4. Head(out) \in Questions <=> r \in Answers
    BY <2>1, <2>2, <2>3, ProtocolFacts DEF Questions, Answers, Clear
  <2>5. /\ One(At(out, Questions)) => One(At(out', Questions))
        /\ At(out', Questions) # {} => At(out, Questions) # {}
        /\ Head(out) \in Questions => At(out, Questions) # {}
        /\ Head(out) \in Questions /\ One(At(out, Questions)) => At(out', Questions) = {}
    <3>1. out \in Seq(ToServer)
      BY DEF TypeOK
    <3> QED
      BY <2>3, <3>1, AtTail
  <2>6. /\ r \notin Answers => At(in', Answers) = At(in, Answers)
        /\ r \in Answers /\ At(in, Answers) = {} => One(At(in', Answers))
    <3>1. in \in Seq(ToClient)
      BY DEF TypeOK
    <3> QED
      BY <2>3, <3>1, AtAppended
  <2> QED
    BY <2>3, <2>4, <2>5, <2>6 DEF Turn
<1>2. CASE ServerReads
  <2>1. out # <<>> /\ out' = Tail(out) /\ UNCHANGED <<rx, hand, told, in>>
    BY <1>2 DEF ServerReads, hist
  <2>2. /\ One(At(out, Questions)) => One(At(out', Questions))
        /\ At(out', Questions) # {} => At(out, Questions) # {}
    BY <2>1, AtTail DEF TypeOK
  <2> QED
    BY <2>1, <2>2 DEF Turn
<1>3. CASE ServerGivesUp \/ Break
  BY <1>3 DEF ServerGivesUp, Break, Turn, hist
<1> QED
  BY <1>1, <1>2, <1>3 DEF Server

LEMMA TeardownTurns ==
  ASSUME TypeOK, Turn, NEW t \in Threads, Teardown(t)
  PROVE  Turn'
<1>1. CASE DiscBye(t)
  <2>1. PICK m \in ToServer : m.req = "bye" /\ (out' = out \/ out' = Append(out, m))
    <3>1. [req |-> "bye", tls |-> HaveTls /\ m_encryptionActive,
           zip |-> HaveZlib /\ m_compressionActive] \in ToServer
      BY NegotiationAssumption DEF ToServer, Request, TypeOK
    <3> QED
      BY <1>1, <3>1 DEF DiscBye, Send, SendAs
  <2>2. At(out', Questions) = At(out, Questions)
    <3>1. m \notin Questions /\ out \in Seq(ToServer)
      BY <2>1 DEF Questions, Clear, TypeOK
    <3>2. At(Append(out, m), Questions) = At(out, Questions)
      BY <3>1, AtAppended
    <3> QED
      BY <2>1, <3>2
  <2>3. UNCHANGED <<rx, hand, told, in>>
    BY <1>1 DEF DiscBye, hist
  <2> QED
    BY <2>2, <2>3 DEF Turn
<1>2. CASE DiscClose(t)
  <2>1. out' = <<>> /\ in' = <<>> /\ UNCHANGED <<rx, hand, told>>
    BY <1>2 DEF DiscClose, hist
  <2> QED
    BY <2>1, AtEmpty DEF Turn, One
<1>3. CASE DiscClear(t) \/ DiscFlags(t) \/ DiscNote(t)
  <2>1. UNCHANGED <<out, in, rx, hand, told>>
    BY <1>3 DEF DiscClear, DiscFlags, DiscNote, net, hist
  <2> QED
    BY <2>1 DEF Turn
<1> QED
  BY <1>1, <1>2, <1>3 DEF Teardown

LEMMA StepKeepsTurn == TypeOK /\ Turn /\ [Next]_vars => Turn'
<1> SUFFICES ASSUME TypeOK, Turn, [Next]_vars PROVE Turn'
  OBVIOUS
<1>1. CASE Logout \/ UNCHANGED vars
  BY <1>1 DEF Logout, vars, net, hist, Turn
<1> QED
  BY <1>1, ReceiverTurns, HandlerTurns, ServerTurns, TeardownTurns
     DEF Next, Receiver, Finished, Threads

LEMMA AlwaysTurn == Spec => []Turn
  BY InitTurn, StepKeepsTurn, NegotiationTypeCorrect, PTL DEF Spec

\* A connection tells onLoginSuccess at most once, whatever the user does: of the
\* chain of questions and answers that ends with it, only one link exists at a time.
THEOREM SuccessOnce == Spec => []SuccessToldOnce
<1>1. Turn => SuccessToldOnce
  BY DEF Turn, SuccessToldOnce
<1> QED
  BY <1>1, AlwaysTurn, PTL

-----------------------------------------------------------------------------
(* The phases a listener sees.                                             *)

\* The phase of the current login, as ImplementsLoginPhases maps it.
Phase == IF logins = 0 \/ ended THEN "idle"
         ELSE IF told = 0 THEN "trying" ELSE IF told = 1 THEN "ready" ELSE "again"

\* A handler reports the login ready, or tells the listener nothing.
LEMMA HandleTells ==
  ASSUME NegInv, Handle
  PROVE  /\ UNCHANGED <<logins, ended>>
         /\ UNCHANGED told \/ (told' = told + 1 /\ told = 0 /\ up /\ ~ended)
<1>1. UNCHANGED <<logins, ended>>
  BY DEF Handle, HandleFeatures, HandleProceed, HandleHandshaken, HandleCompressed,
         HandleChallenge, HandleSuccess, HandleFailure, HandleStreamEnd, HandleFields, HandleAuthOk,
         HandleAuthError, ProcessResourceBind, ProcessCreateSession,
         BindOrSessionError, HandleRoster, Handling
<1>2. CASE UNCHANGED told
  BY <1>1, <1>2
<1>3. CASE told' # told
  <2>1. PICK k : Handling(k) /\ k # "streamend" /\ told' = told + 1
    BY <1>3 DEF Handle, HandleFeatures, HandleProceed, HandleHandshaken, HandleCompressed,
         HandleChallenge, HandleSuccess, HandleFailure, HandleStreamEnd, HandleFields, HandleAuthOk,
         HandleAuthError, ProcessResourceBind, ProcessCreateSession,
         BindOrSessionError, HandleRoster, ClientLogin, Connected, Continue
  <2>2. Held
    BY <2>1, HandlingHeld
  <2> QED
    BY <1>1, <2>1, <2>2 DEF Held, Trying, NegInv, Shape
<1> QED
  BY <1>2, <1>3

\* Whatever the user does, a handler tells the listener once, or nothing.
LEMMA HandleTellsOnce ==
  ASSUME TypeOK, Turn, Handle
  PROVE  UNCHANGED <<logins, ended>> /\ (UNCHANGED told \/ (told = 0 /\ told' = 1))
<1>1. PICK k \in Reply : Handling(k) /\ (Asks(k) \/ Reports(k) \/ GivesUp(k) \/ Drops(k))
  BY HandleDoes
<1>2. UNCHANGED told \/ told' = told + 1
  BY <1>1 DEF Asks, Reports, GivesUp, Drops
<1>3. told \in {0, 1} /\ told' \in {0, 1}
  BY HandlerTurns DEF Turn
<1> QED
  BY <1>1, <1>2, <1>3 DEF Handling

\* Success is told of a connection that is up and not reported as ended, as long as
\* no impatient user has cut into the negotiation.
THEOREM SuccessInTime == Spec => SuccessBeforeEnd
<1>1. /\ TypeOK /\ (Undisturbed => NegInv) /\ [Next]_vars
      => [Undisturbed /\ told' > told => up /\ ~ended]_vars
  <2> SUFFICES ASSUME TypeOK, NegInv, [Next]_vars, told' > told
               PROVE  up /\ ~ended
    OBVIOUS
  <2>1. told \in Nat
    BY DEF TypeOK
  <2>2. CASE Login
    BY <2>1, <2>2 DEF Login
  <2>3. CASE Handle
    BY <2>1, <2>3, HandleTells
  <2>4. CASE UNCHANGED told
    BY <2>1, <2>4
  <2>5. ASSUME NEW t \in Threads, Teardown(t) PROVE UNCHANGED told
    BY <2>5 DEF Teardown, DiscClear, DiscBye, DiscClose, DiscFlags, DiscNote, hist
  <2>6. CASE Loop \/ Receive \/ ReceiveEnd \/ Logout \/ Server \/ Break \/ UNCHANGED vars
    <3>1. UNCHANGED told
      BY <2>6 DEF Loop, Receive, ReceiveEnd, Logout, Server, ServerReplies, ServerReads,
                  ServerGivesUp, Break, vars, hist
    <3> QED
      BY <2>4, <3>1
  <2> QED
    BY <2>2, <2>3, <2>4, <2>5, <2>6 DEF Next, Receiver, Finished, Threads
<1> QED
  BY <1>1, NegInvariant, NegotiationTypeCorrect, PTL DEF Spec, SuccessBeforeEnd

\* For patient users, and one impatient user after them, the callbacks of one login
\* after another come in order: each login is told ready at most once, its end last.
THEOREM LoginPhasesImplemented ==
  ASSUME MaxLogins <= PatientLogins + 1
  PROVE  Spec => ImplementsLoginPhases
<1>1. Init => LP!Init
  BY DEF Init, LP!Init
<1>2. TypeOK /\ Turn /\ (Undisturbed => NegInv) /\ [Next]_vars => [LP!Next]_Phase
  <2> SUFFICES ASSUME TypeOK, Turn, Undisturbed => NegInv, [Next]_vars
               PROVE  LP!Next \/ UNCHANGED Phase
    OBVIOUS
  <2> USE DEF Phase, LP!Next, LP!Begin, LP!Succeed, LP!End
  <2>1. logins \in Nat /\ told \in {0, 1}
    BY DEF Turn, TypeOK
  <2>2. CASE Login
    <3>1. NegInv /\ ~up /\ \A t \in Threads : td[t] = "no"
      BY <2>1, <2>2, NegotiationAssumption DEF Login, Undisturbed, Patient, Threads
    <3>2. logins = 0 \/ ended
      BY <2>1, <3>1 DEF NegInv, Shape, EndIsDue
    <3> QED
      BY <2>1, <2>2, <3>2 DEF Login
  <2>3. CASE Handle
    BY <2>1, <2>3, HandleTellsOnce
  <2>4. ASSUME NEW t \in Threads, Teardown(t)
        PROVE  LP!Next \/ UNCHANGED Phase
    BY <2>1, <2>4 DEF Teardown, DiscClear, DiscBye, DiscClose, DiscFlags, DiscNote, hist
  <2>5. CASE Loop \/ Receive \/ ReceiveEnd \/ Logout \/ Server \/ Break \/ UNCHANGED vars
    BY <2>5 DEF Loop, Receive, ReceiveEnd, Logout, Server, ServerReplies, ServerReads,
                ServerGivesUp, Break, vars, hist
  <2> QED
    BY <2>2, <2>3, <2>4, <2>5 DEF Next, Receiver, Finished, Threads
<1> QED
  BY <1>1, <1>2, NegInvariant, AlwaysTurn, NegotiationTypeCorrect, PTL
     DEF Spec, ImplementsLoginPhases, LP!Spec, Phase

-----------------------------------------------------------------------------
(* What a login waits for is under way.                                    *)

\* Only messages of A go to the server, and only stanzas of B come from it.
Carries(A, B) == Within(out, A) /\ Within(in, B) /\ hand \in B \union {Nothing}

LEMMA WithinEmpty ==
  ASSUME NEW S
  PROVE  Within(<<>>, S)
  BY DEF Within

\* The server answers A with B, and the teardown sends nothing but its farewell.
LEMMA CarriedOn ==
  ASSUME TypeOK, NEW A, NEW B, Carries(A, B),
         \A m \in ToServer : m.req = "bye" => m \in A,
         \A m \in A, p \in Protocol, r \in ToClient :
           p[1] = m.req /\ r.kind = p[2] => r \in B,
         \/ Loop \/ Receive \/ ReceiveEnd \/ Teardown("rx") \/ Logout \/ Teardown("user")
         \/ Server \/ Break \/ UNCHANGED vars
  PROVE  Carries(A, B)'
<1> USE DEF Carries
<1>1. out \in Seq(ToServer) /\ in \in Seq(ToClient)
  BY DEF TypeOK
<1>2. CASE UNCHANGED <<out, in, hand>>
  BY <1>2
<1>3. CASE out' = <<>> /\ in' = <<>> /\ UNCHANGED hand
  BY <1>3, WithinEmpty
<1>4. CASE Receive
  <2>1. in # <<>> /\ hand' = Head(in) /\ in' = Tail(in) /\ UNCHANGED out
    BY <1>4 DEF Receive
  <2> QED
    BY <1>1, <2>1, WithinTail
<1>5. CASE ServerReplies
  <2>1. PICK p \in Protocol, F \in SUBSET Feature :
          /\ p[1] = Head(out).req /\ F \in IF p[2] = "features" THEN Offers ELSE {{}}
          /\ in' = Append(in, [kind |-> p[2], feats |-> F])
    BY <1>5 DEF ServerReplies, Offers
  <2>2. PICK r \in ToClient : r = [kind |-> p[2], feats |-> F]
    BY <2>1, ReplyType
  <2>3. out # <<>> /\ out' = Tail(out) /\ in' = Append(in, r) /\ UNCHANGED hand
    BY <1>5, <2>1, <2>2 DEF ServerReplies
  <2>4. Within(out', A) /\ Head(out) \in A
    BY <1>1, <2>3, WithinTail
  <2>5. r \in B
    BY <2>1, <2>2, <2>4
  <2>6. Within(in', B)
    BY <1>1, <2>3, <2>5, WithinAppended
  <2> QED
    BY <2>3, <2>4, <2>6
<1>6. CASE ServerReads
  <2>1. out # <<>> /\ out' = Tail(out) /\ UNCHANGED <<in, hand>>
    BY <1>6 DEF ServerReads
  <2> QED
    BY <1>1, <2>1, WithinTail
<1>7. ASSUME NEW t \in Threads, DiscBye(t)
      PROVE  Carries(A, B)'
  <2>1. PICK m \in ToServer : m.req = "bye" /\ (out' = out \/ out' = Append(out, m))
    <3>1. [req |-> "bye", tls |-> HaveTls /\ m_encryptionActive,
           zip |-> HaveZlib /\ m_compressionActive] \in ToServer
      BY NegotiationAssumption DEF ToServer, Request, TypeOK
    <3> QED
      BY <1>7, <3>1 DEF DiscBye, Send, SendAs
  <2>2. m \in A
    BY <2>1
  <2>3. Within(out', A)
    BY <1>1, <2>1, <2>2, WithinAppended
  <2> QED
    BY <1>7, <2>3 DEF DiscBye
<1>8. ASSUME NEW t \in Threads, Teardown(t)
      PROVE  Carries(A, B)'
  <2>1. DiscClose(t) => out' = <<>> /\ in' = <<>> /\ UNCHANGED hand
    BY DEF DiscClose
  <2>2. DiscClear(t) \/ DiscFlags(t) \/ DiscNote(t) => UNCHANGED <<out, in, hand>>
    BY DEF DiscClear, DiscFlags, DiscNote, net
  <2> QED
    BY <1>2, <1>3, <1>7, <1>8, <2>1, <2>2 DEF Teardown
<1>9. ReceiveEnd => out' = <<>> /\ in' = <<>> /\ UNCHANGED hand
  BY DEF ReceiveEnd
<1>10. Loop \/ Logout \/ ServerGivesUp \/ Break \/ UNCHANGED vars => UNCHANGED <<out, in, hand>>
  BY DEF Loop, Logout, ServerGivesUp, Break, vars, net
<1> QED
  BY <1>2, <1>3, <1>4, <1>5, <1>6, <1>8, <1>9, <1>10 DEF Server, Threads

\* A handler that sends a message of A, or nothing.
LEMMA CarriedByHandler ==
  ASSUME TypeOK, NEW A, NEW B, Within(out, A), Within(in, B), NEW k, Handling(k),
         UNCHANGED out \/ \E r \in Request : /\ Sends(r)
                                             /\ \A m \in ToServer : m.req = r => m \in A
  PROVE  Carries(A, B)'
<1>1. UNCHANGED in /\ hand' = Nothing
  BY DEF Handling
<1>2. CASE UNCHANGED out
  BY <1>1, <1>2 DEF Carries
<1>3. ASSUME NEW r \in Request, Sends(r), \A m \in ToServer : m.req = r => m \in A
      PROVE  Carries(A, B)'
  <2>1. PICK m \in ToServer : m \in A /\ (out' = out \/ out' = Append(out, m))
    BY <1>3 DEF Sends
  <2>2. out \in Seq(ToServer)
    BY DEF TypeOK
  <2>3. Within(out', A)
    BY <2>1, <2>2, WithinAppended
  <2> QED
    BY <1>1, <2>3 DEF Carries
<1> QED
  BY <1>2, <1>3

\* A handler sends nothing, or one request.
LEMMA HandlerSends ==
  ASSUME NEW k, Asks(k) \/ Reports(k) \/ GivesUp(k) \/ Drops(k)
  PROVE  \/ UNCHANGED out \/ Sends("presence")
         \/ \E r \in Request \ Clear : /\ Sends(r) /\ (r = "starttls" => HaveTls)
                                       /\ k \in {"bound", "session"} => r \in {"session", "roster"}
  BY DEF Asks, Reports, GivesUp, Drops

\* Only a client that has TLS asks for it.
TlsAsked    == {m \in ToServer : m.req = "starttls" => HaveTls}
TlsAnswered == {r \in ToClient : r.kind = "proceed" => HaveTls}

LEMMA StepKeepsTlsAsked ==
  TypeOK /\ Carries(TlsAsked, TlsAnswered) /\ [Next]_vars => Carries(TlsAsked, TlsAnswered)'
<1> SUFFICES ASSUME TypeOK, Carries(TlsAsked, TlsAnswered), [Next]_vars
             PROVE  Carries(TlsAsked, TlsAnswered)'
  OBVIOUS
<1>1. CASE Login
  <2>1. PICK m \in TlsAsked : out' = <<m>>
    <3>1. [req |-> "header", tls |-> HaveTls /\ m_encryptionActive,
           zip |-> HaveZlib /\ m_compressionActive] \in TlsAsked
      BY NegotiationAssumption DEF TlsAsked, ToServer, Request, TypeOK
    <3> QED
      BY <1>1, <3>1 DEF Login
  <2>2. in' = <<>> /\ UNCHANGED hand
    BY <1>1 DEF Login
  <2> QED
    BY <2>1, <2>2, WithinEmpty, OneOfThem DEF Carries, Within
<1>2. CASE Handle
  <2>1. PICK k \in Reply : Handling(k) /\ (Asks(k) \/ Reports(k) \/ GivesUp(k) \/ Drops(k))
    BY <1>2, HandleDoes
  <2>2. \A r \in Request : (r = "starttls" => HaveTls) => \A m \in ToServer : m.req = r => m \in TlsAsked
    BY DEF TlsAsked
  <2>3. "presence" \in Request
    BY DEF Request
  <2> QED
    BY <2>1, <2>2, <2>3, HandlerSends, CarriedByHandler DEF Carries
<1>3. CASE ~Login /\ ~Handle
  <2>1. \A m \in ToServer : m.req = "bye" => m \in TlsAsked
    BY DEF TlsAsked
  <2>2. \A m \in TlsAsked, p \in Protocol, r \in ToClient :
          p[1] = m.req /\ r.kind = p[2] => r \in TlsAnswered
    BY ProtocolFacts DEF TlsAsked, TlsAnswered, TlsStage
  <2> QED
    BY <1>3, <2>1, <2>2, CarriedOn DEF Next, Receiver, Finished
<1> QED
  BY <1>1, <1>2, <1>3

\* Once a resource is bound, the negotiation has only the session and the roster to ask
\* for: an offer of features never finds a resource bound.
LateAsked    == {m \in ToServer : m.req \in Clear \union {"session", "roster"}}
LateAnswered == {r \in ToClient : r.kind \in {"streamend", "session", "sessionerror",
                                              "roster", "rostererror"}}
BoundIsLate  == up /\ m_resourceBound => Carries(LateAsked, LateAnswered)

\* A patient user's connection that is gone leaves no resource bound behind it.
Unbound == Patient /\ ~up => ~m_resourceBound \/ \E t \in Threads : td[t] \in {"flags", "note"}

\* The receiver ends a connection that is up before it tells so.
EndAfterClose == td["rx"] \in {"flags", "note"} => ~up

LEMMA StepKeepsUnbound ==
  ASSUME TypeOK, Undisturbed => NegInv, Unbound, [Next]_vars
  PROVE  Unbound'
<1> USE DEF Unbound
<1>1. Patient' => Patient
  BY LoginsGrow, NegotiationAssumption DEF Patient, TypeOK
<1>2. CASE Login
  BY <1>2 DEF Login
<1>3. CASE Handle
  <2>1. PICK k \in Reply : /\ Handling(k) /\ m_resourceBound' = (m_resourceBound \/ k = "bound")
                           /\ Asks(k) \/ Reports(k) \/ GivesUp(k) \/ Drops(k)
    BY <1>3, HandleDoes
  <2>2. Patient /\ k = "bound" => up
    BY <2>1, HandlingHeld DEF Undisturbed, Held, Trying
  <2>3. UNCHANGED up /\ td["rx"] = "no" /\ td'["user"] = td["user"]
    BY <2>1 DEF Handling, Asks, Reports, GivesUp, Drops, TypeOK, Threads
  <2> QED
    BY <1>1, <2>1, <2>2, <2>3 DEF Threads
<1>4. CASE ReceiveEnd
  BY <1>4 DEF ReceiveEnd, TypeOK, Threads
<1>5. CASE Logout
  BY <1>1, <1>5 DEF Logout, login, TypeOK, Threads
<1>6. ASSUME NEW t \in Threads, Teardown(t)
      PROVE  Unbound'
  <2>1. CASE DiscClear(t) \/ DiscNote(t)
    BY <2>1 DEF DiscClear, DiscNote
  <2>2. CASE DiscBye(t)
    BY <1>1, <2>2 DEF DiscBye, login, TypeOK
  <2>3. CASE DiscClose(t) \/ DiscFlags(t)
    BY <2>3 DEF DiscClose, DiscFlags, TypeOK
  <2> QED
    BY <1>6, <2>1, <2>2, <2>3 DEF Teardown
<1>7. CASE Loop \/ Receive \/ Server \/ Break \/ UNCHANGED vars
  BY <1>1, <1>7 DEF Loop, Receive, Server, ServerReplies, ServerReads, ServerGivesUp, Break,
              vars, login
<1> QED
  BY <1>2, <1>3, <1>4, <1>5, <1>6, <1>7 DEF Next, Receiver, Finished, Threads

LEMMA StepKeepsEndAfterClose ==
  ASSUME TypeOK, EndAfterClose, [Next]_vars
  PROVE  EndAfterClose'
<1> USE DEF EndAfterClose
<1>1. CASE Login \/ ReceiveEnd \/ Logout
  BY <1>1 DEF Login, ReceiveEnd, Logout, TypeOK, Threads
<1>2. CASE Handle
  <2>1. PICK k \in Reply : Handling(k) /\ (Asks(k) \/ Reports(k) \/ GivesUp(k) \/ Drops(k))
    BY <1>2, HandleDoes
  <2> QED
    BY <2>1 DEF Handling, Asks, Reports, GivesUp, Drops, TypeOK, Threads
<1>3. ASSUME NEW t \in Threads, Teardown(t)
      PROVE  EndAfterClose'
  BY <1>3 DEF Teardown, DiscClear, DiscBye, DiscClose, DiscFlags, DiscNote, TypeOK, Threads
<1>4. CASE Loop \/ Receive \/ Server \/ Break \/ UNCHANGED vars
  BY <1>4 DEF Loop, Receive, Server, ServerReplies, ServerReads, ServerGivesUp, Break, vars
<1> QED
  BY <1>1, <1>2, <1>3, <1>4 DEF Next, Receiver, Finished, Threads

LEMMA StepKeepsBoundIsLate ==
  ASSUME MaxLogins <= PatientLogins + 1,
         TypeOK, Turn, Unbound, BoundIsLate, [Next]_vars
  PROVE  BoundIsLate'
<1> USE DEF BoundIsLate
<1>1. CASE Login
  <2>1. Patient /\ ~up /\ \A t \in Threads : td[t] = "no"
    BY <1>1, NegotiationAssumption DEF Login, Patient, TypeOK, Threads
  <2> QED
    BY <1>1, <2>1 DEF Unbound, Login, login
<1>2. CASE Handle
  <2>1. PICK k \in Reply : /\ Handling(k) /\ m_resourceBound' = (m_resourceBound \/ k = "bound")
                           /\ Asks(k) \/ Reports(k) \/ GivesUp(k) \/ Drops(k)
    BY <1>2, HandleDoes
  <2>2. UNCHANGED up /\ hand \in ToClient /\ hand.kind = k
    BY <2>1 DEF Handling, Turn, TypeOK
  <2> SUFFICES ASSUME up, m_resourceBound \/ k = "bound"
               PROVE  Carries(LateAsked, LateAnswered)'
    BY <2>1, <2>2
  <2>3. CASE k = "bound"
    <3>1. At(out, Questions) = {} /\ At(in, Answers) = {}
      BY <2>2, <2>3 DEF Turn, Answers
    <3>2. /\ \A i \in DOMAIN out : out[i] \in ToServer
          /\ \A i \in DOMAIN in : in[i] \in ToClient
      BY ElementOfSeq, LenProperties DEF TypeOK
    <3>3. Within(out, LateAsked) /\ Within(in, LateAnswered)
      BY <3>1, <3>2 DEF At, Within, Questions, Answers, LateAsked, LateAnswered
    <3>4. UNCHANGED out \/ \E r \in Clear \union {"session", "roster"} : Sends(r)
      BY <2>1, <2>3, HandlerSends DEF Clear
    <3>5. \A r \in Clear \union {"session", "roster"} :
            r \in Request /\ \A m \in ToServer : m.req = r => m \in LateAsked
      BY DEF LateAsked, Clear, Request
    <3> QED
      BY <2>1, <3>3, <3>4, <3>5, CarriedByHandler
  <2>4. CASE m_resourceBound
    <3>1. Within(out, LateAsked) /\ Within(in, LateAnswered) /\ hand \in LateAnswered
      BY <2>2, <2>4, NothingInHand DEF Carries
    <3>2. k \in {"streamend", "session", "sessionerror", "roster", "rostererror"}
      BY <2>2, <3>1 DEF LateAnswered
    <3>3. UNCHANGED out \/ \E r \in Clear \union {"session", "roster"} : Sends(r)
      BY <2>1, <3>2 DEF Asks, Reports, GivesUp, Drops, Clear
    <3>4. \A r \in Clear \union {"session", "roster"} :
            r \in Request /\ \A m \in ToServer : m.req = r => m \in LateAsked
      BY DEF LateAsked, Clear, Request
    <3> QED
      BY <2>1, <3>1, <3>3, <3>4, CarriedByHandler
  <2> QED
    BY <2>3, <2>4
<1>3. CASE ~Login /\ ~Handle
  <2>1. (up' => up) /\ (m_resourceBound' => m_resourceBound)
    <3>1. up' => up
      BY <1>3, LoginsGrow
    <3>2. ASSUME NEW t \in Threads, Teardown(t) PROVE m_resourceBound' => m_resourceBound
      BY <3>2 DEF Teardown, DiscClear, DiscBye, DiscClose, DiscFlags, DiscNote, login
    <3>3. CASE Loop \/ Receive \/ ReceiveEnd \/ Logout \/ Server \/ Break \/ UNCHANGED vars
      BY <3>3 DEF Loop, Receive, ReceiveEnd, Logout, Server, ServerReplies, ServerReads,
                  ServerGivesUp, Break, vars, login
    <3> QED
      BY <1>3, <3>1, <3>2, <3>3 DEF Next, Receiver, Finished, Threads
  <2>2. \A m \in ToServer : m.req = "bye" => m \in LateAsked
    BY DEF LateAsked, Clear
  <2>3. \A m \in LateAsked, p \in Protocol, r \in ToClient :
          p[1] = m.req /\ r.kind = p[2] => r \in LateAnswered
    BY DEF Protocol, LateAsked, LateAnswered, Clear
  <2> QED
    BY <1>3, <2>1, <2>2, <2>3, CarriedOn DEF Next, Receiver, Finished
<1> QED
  BY <1>1, <1>2, <1>3

\* LoginInHand in the terms of the invariants above.
LEMMA UnderWay ==
  ASSUME NEW q \in Seq(ToServer), NEW a \in Seq(ToClient), NEW h \in ToClient \union {Nothing}
  PROVE  /\ (\E i \in DOMAIN q : q[i].req \notin {"presence", "bye"}) <=> At(q, Questions) # {}
         /\ (\E i \in DOMAIN a : a[i].kind # "streamend") <=> At(a, Answers) # {}
         /\ h.kind \notin {"streamend", "nothing"} <=> h \in Answers
<1>1. /\ \A i \in DOMAIN q : q[i] \in ToServer
      /\ \A i \in DOMAIN a : a[i] \in ToClient
  BY ElementOfSeq, LenProperties
<1>2. (\E i \in DOMAIN q : q[i].req \notin {"presence", "bye"}) <=> At(q, Questions) # {}
  BY <1>1 DEF At, Questions, Clear
<1>3. (\E i \in DOMAIN a : a[i].kind # "streamend") <=> At(a, Answers) # {}
  BY <1>1 DEF At, Answers
<1>4. h.kind \notin {"streamend", "nothing"} <=> h \in Answers
  BY DEF Answers, Nothing, ToClient, Reply
<1> QED
  BY <1>2, <1>3, <1>4

\* A question or an answer that has just been sent is under way.
LEMMA UnderWayNow ==
  ASSUME NEW T, NEW S, NEW q \in Seq(T), NEW m \in T, m \in S
  PROVE  At(Append(q, m), S) # {}
<1>1. Len(q) + 1 \in DOMAIN Append(q, m) /\ Append(q, m)[Len(q) + 1] = m
  BY AppendProperties, LenProperties
<1> QED
  BY <1>1 DEF At

LEMMA StepKeepsInHand ==
  ASSUME TypeOK, TypeOK', Turn, Turn', EndAfterClose, BoundIsLate,
         Carries(TlsAsked, TlsAnswered), ~Ignored, LoginInHand, [Next]_vars
  PROVE  LoginInHand'
<1> DEFINE InHand == \/ At(out, Questions) # {} \/ At(in, Answers) # {}
                     \/ hand \in Answers \/ td["rx"] # "no"
<1>1. /\ LoginInHand <=> (up /\ peer /\ told = 0 => InHand)
      /\ LoginInHand' <=> (up' /\ peer' /\ told' = 0 => InHand')
  BY UnderWay DEF LoginInHand, TypeOK
<1>2. out \in Seq(ToServer) /\ in \in Seq(ToClient)
  BY DEF TypeOK
<1> SUFFICES ASSUME up', peer', told' = 0 PROVE InHand'
  BY <1>1
<1>3. CASE Login
  <2>1. PICK m \in Questions : out' = <<m>>
    <3>1. [req |-> "header", tls |-> HaveTls /\ m_encryptionActive,
           zip |-> HaveZlib /\ m_compressionActive] \in Questions
      BY NegotiationAssumption DEF Questions, ToServer, Request, Clear, TypeOK
    <3> QED
      BY <1>3, <3>1 DEF Login
  <2>2. 1 \in At(out', Questions)
    BY <2>1, OneOfThem DEF At
  <2> QED
    BY <2>2
<1>4. ASSUME ~Login PROVE InHand'
  <2>1. CASE Handle
    <3>1. PICK k \in Reply : Handling(k) /\ (Asks(k) \/ Reports(k) \/ GivesUp(k) \/ Drops(k))
      BY <2>1, HandleDoes
    <3>2. /\ hand \in ToClient /\ hand.kind = k /\ up /\ peer /\ UNCHANGED in
          /\ td["rx"] = "no" /\ told \in Nat
      BY <3>1 DEF Handling, Turn, TypeOK
    <3>3. CASE Asks(k)
      <4>1. PICK m \in Questions : out' = Append(out, m)
        BY <3>2, <3>3 DEF Asks, Sends, Questions
      <4>2. m \in ToServer
        BY DEF Questions
      <4>3. At(Append(out, m), Questions) # {}
        BY <1>2, <4>2, UnderWayNow
      <4> QED
        BY <4>1, <4>3
    <3>4. ~Reports(k)
      BY <3>2 DEF Reports
    <3>5. CASE GivesUp(k)
      BY <3>5 DEF GivesUp, TypeOK, Threads
    <3>6. CASE Drops(k)
      <4>1. k = "streamend"
        BY <3>2, <3>6, NothingInHand DEF Drops, BoundIsLate, Carries, LateAnswered, TlsAnswered
      <4>2. InHand /\ hand \notin Answers /\ UNCHANGED out
        BY <3>2, <3>6, <4>1, <1>1 DEF Drops, Answers
      <4> QED
        BY <3>2, <4>2
    <3> QED
      BY <3>1, <3>3, <3>4, <3>5, <3>6
  <2>2. CASE Receive
    <3>1. /\ in # <<>> /\ in' = Tail(in) /\ hand' = Head(in) /\ rx = "recv"
          /\ UNCHANGED <<up, peer, told, out, td>>
      BY <2>2 DEF Receive, hist
    <3>2. InHand /\ hand \notin Answers
      BY <3>1, <1>1, NothingInHand DEF Turn, Answers
    <3> QED
      BY <1>2, <3>1, <3>2, AtTail
  <2>3. CASE ServerReplies
    <3>1. PICK p \in Protocol, F \in SUBSET Feature :
            /\ p[1] = Head(out).req /\ F \in IF p[2] = "features" THEN Offers ELSE {{}}
            /\ in' = Append(in, [kind |-> p[2], feats |-> F])
            /\ peer' = (p[2] # "streamend")
      BY <2>3 DEF ServerReplies, Offers
    <3>2. PICK r \in ToClient : r = [kind |-> p[2], feats |-> F]
      BY <3>1, ReplyType
    <3>3. r \in Answers /\ in' = Append(in, r)
      BY <3>1, <3>2 DEF Answers
    <3>4. At(Append(in, r), Answers) # {}
      BY <1>2, <3>2, <3>3, UnderWayNow
    <3> QED
      BY <3>3, <3>4
  <2>4. CASE ServerReads
    <3>1. /\ out # <<>> /\ out' = Tail(out) /\ Head(out).req = "presence"
          /\ UNCHANGED <<up, peer, told, in, hand, td>>
      BY <2>4 DEF ServerReads, hist
    <3>2. InHand /\ Head(out) \notin Questions
      BY <3>1, <1>1 DEF Questions, Clear
    <3> QED
      BY <1>2, <3>1, <3>2, AtTail
  <2>5. ASSUME NEW t \in Threads, Teardown(t)
        PROVE  InHand'
    <3>1. UNCHANGED <<up, peer, told, hand, in>> /\ ~DiscClose(t)
      BY <2>5 DEF Teardown, DiscClear, DiscBye, DiscClose, DiscFlags, DiscNote, net, hist
    <3>2. InHand
      BY <3>1, <1>1
    <3>3. td["rx"] # "no" => td'["rx"] # "no"
      BY <2>5, <3>1 DEF Teardown, DiscClear, DiscBye, DiscFlags, DiscNote, EndAfterClose,
                        TypeOK, Threads
    <3>4. At(out', Questions) = At(out, Questions)
      <4>1. CASE DiscBye(t)
        <5>1. PICK m \in ToServer : m.req = "bye" /\ (out' = out \/ out' = Append(out, m))
          <6>1. [req |-> "bye", tls |-> HaveTls /\ m_encryptionActive,
                 zip |-> HaveZlib /\ m_compressionActive] \in ToServer
            BY NegotiationAssumption DEF ToServer, Request, TypeOK
          <6> QED
            BY <4>1, <6>1 DEF DiscBye, Send, SendAs
        <5>2. m \notin Questions
          BY <5>1 DEF Questions, Clear
        <5>3. At(Append(out, m), Questions) = At(out, Questions)
          BY <1>2, <5>2, AtAppended
        <5> QED
          BY <5>1, <5>3
      <4>2. CASE DiscClear(t) \/ DiscFlags(t) \/ DiscNote(t)
        BY <4>2 DEF DiscClear, DiscFlags, DiscNote, net
      <4> QED
        BY <2>5, <3>1, <4>1, <4>2 DEF Teardown
    <3> QED
      BY <3>1, <3>2, <3>3, <3>4
  <2>6. CASE Loop \/ Logout \/ UNCHANGED vars
    <3>1. UNCHANGED <<up, peer, told, out, in, hand, td["rx"]>>
      BY <2>6 DEF Loop, Logout, vars, net, hist, TypeOK, Threads
    <3>2. InHand
      BY <3>1, <1>1
    <3> QED
      BY <3>1, <3>2
  <2>7. ~ReceiveEnd /\ ~ServerGivesUp /\ ~Break
    BY DEF ReceiveEnd, ServerGivesUp, Break
  <2> QED
    BY <1>4, <2>1, <2>2, <2>3, <2>4, <2>5, <2>6, <2>7 DEF Next, Receiver, Server, Finished, Threads
<1> QED
  BY <1>3, <1>4

\* As long as the client ignores no answer, a login that has neither succeeded nor lost
\* its server is waiting for something that is under way: the safety half of
\* LoginSettles, for patient users and one impatient user after them.
THEOREM LoginsInHand ==
  ASSUME MaxLogins <= PatientLogins + 1
  PROVE  Spec /\ []~Ignored => []LoginInHand
<1> DEFINE HandInv == /\ EndAfterClose /\ Unbound /\ BoundIsLate
                      /\ Carries(TlsAsked, TlsAnswered)
<1>1. Init => HandInv /\ LoginInHand
  BY WithinEmpty, Zenon DEF Init, EndAfterClose, Unbound, BoundIsLate, Carries, LoginInHand
<1>2. TypeOK /\ Turn /\ (Undisturbed => NegInv) /\ HandInv /\ [Next]_vars => HandInv'
  BY StepKeepsEndAfterClose, StepKeepsUnbound, StepKeepsBoundIsLate, StepKeepsTlsAsked
<1>3. TypeOK /\ Turn /\ HandInv /\ ~Ignored /\ LoginInHand /\ [Next]_vars => LoginInHand'
  BY StepKeepsInHand, StepKeepsType, StepKeepsTurn
<1> QED
  BY <1>1, <1>2, <1>3, NegInvariant, AlwaysTurn, NegotiationTypeCorrect, PTL DEF Spec

=============================================================================
