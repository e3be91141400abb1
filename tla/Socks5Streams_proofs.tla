------------------------- MODULE Socks5Streams_proofs -------------------------
(***************************************************************************)
(* File transfer over SOCKS5: types for any senders and closers; and, for  *)
(* any amount of data that the initiator sends, that each listener is told *)
(* of its stream in order and that no piece of data is lost.               *)
(***************************************************************************)
EXTENDS Socks5Streams, FiniteSetTheorems, SequenceTheorems, TLAPS

No(unit, q) == \A i \in DOMAIN q : q[i] # unit

-----------------------------------------------------------------------------
(* Sequences of units.                                                     *)

LEMMA NoSingle ==
  ASSUME NEW S, NEW m \in S, NEW unit
  PROVE  /\ <<m>> \in Seq(S) /\ <<m>> # <<>> /\ <<>> \in Seq(S)
         /\ No(unit, <<>>) /\ (m # unit => No(unit, <<m>>))
BY DEF No

LEMMA NoAppend ==
  ASSUME NEW S, NEW q \in Seq(S), NEW m \in S, NEW unit
  PROVE  /\ Append(q, m) \in Seq(S)
         /\ No(unit, q) /\ m # unit => No(unit, Append(q, m))
<1>1. /\ Append(q, m) \in Seq(S) /\ Len(Append(q, m)) = Len(q) + 1 /\ Len(q) \in Nat
      /\ \A i \in 1..Len(q) : Append(q, m)[i] = q[i]
      /\ Append(q, m)[Len(q) + 1] = m
  BY AppendProperties, LenProperties
<1>2. DOMAIN q = 1..Len(q) /\ DOMAIN Append(q, m) = 1..(Len(q) + 1)
  BY <1>1, LenProperties
<1> QED
  BY <1>1, <1>2 DEF No

LEMMA SplitUnits ==
  ASSUME NEW S, NEW q \in Seq(S), NEW n \in 1..Len(q)
  PROVE  /\ SubSeq(q, 1, n) \in Seq(S) /\ Len(SubSeq(q, 1, n)) = n
         /\ \A i \in 1..n : SubSeq(q, 1, n)[i] = q[i]
         /\ SubSeq(q, n + 1, Len(q)) \in Seq(S) /\ Len(SubSeq(q, n + 1, Len(q))) = Len(q) - n
         /\ \A i \in 1..(Len(q) - n) : SubSeq(q, n + 1, Len(q))[i] = q[n + i]
<1>1. Len(q) \in Nat /\ DOMAIN q = 1..Len(q) /\ \A i \in 1..Len(q) : q[i] \in S
  BY LenProperties, ElementOfSeq
<1> DEFINE a == SubSeq(q, 1, n)
           b == SubSeq(q, n + 1, Len(q))
<1>2. a \in Seq(S) /\ Len(a) = n /\ \A i \in 1..n : a[i] = q[i]
  BY <1>1, SubSeqProperties
<1>3. /\ b \in Seq(S) /\ Len(b) = Len(q) - n
      /\ \A i \in 1..(Len(q) - n) : b[i] = q[n + i]
  <2>1. n + 1 \in Int /\ Len(q) \in Int /\ \A i \in (n + 1)..Len(q) : q[i] \in S
    BY <1>1
  <2>2. /\ b \in Seq(S) /\ Len(b) = IF n + 1 <= Len(q) THEN Len(q) - (n + 1) + 1 ELSE 0
        /\ \A i \in 1..(Len(q) - (n + 1) + 1) : b[i] = q[n + 1 + i - 1]
    BY <2>1, SubSeqProperties
  <2>3. Len(b) = Len(q) - n
    <3>1. n \in Int /\ Len(q) \in Int /\ n <= Len(q)
      BY <1>1
    <3>2. Len(b) = IF n + 1 <= Len(q) THEN Len(q) - (n + 1) + 1 ELSE 0
      BY <2>2
    <3> HIDE DEF b
    <3> QED
      BY <3>1, <3>2
  <2>4. ASSUME NEW i \in 1..(Len(q) - n) PROVE b[i] = q[n + i]
    <3>1. i \in 1..(Len(q) - (n + 1) + 1) /\ n + 1 + i - 1 = n + i
      BY <1>1
    <3>2. b[i] = q[n + 1 + i - 1]
      BY <2>2, <3>1
    <3> HIDE DEF b
    <3> QED
      BY <3>1, <3>2
  <2> HIDE DEF b
  <2> QED
    BY <2>2, <2>3, <2>4
<1> QED
  BY <1>2, <1>3

LEMMA NoSplit ==
  ASSUME NEW S, NEW q \in Seq(S), NEW n \in 1..Len(q)
  PROVE  /\ SubSeq(q, 1, n) \in Seq(S) /\ SubSeq(q, 1, n) # <<>>
         /\ SubSeq(q, n + 1, Len(q)) \in Seq(S) /\ q # <<>>
         /\ \A unit : No(unit, q) => No(unit, SubSeq(q, 1, n)) /\ No(unit, SubSeq(q, n + 1, Len(q)))
<1>1. Len(q) \in Nat /\ DOMAIN q = 1..Len(q) /\ \A i \in 1..Len(q) : q[i] \in S
  BY LenProperties, ElementOfSeq
<1> DEFINE a == SubSeq(q, 1, n)
           b == SubSeq(q, n + 1, Len(q))
<1>2. a \in Seq(S) /\ Len(a) = n /\ \A i \in 1..n : a[i] = q[i]
  BY SplitUnits
<1>3. /\ b \in Seq(S) /\ Len(b) = Len(q) - n
      /\ \A i \in 1..(Len(q) - n) : b[i] = q[n + i]
  BY SplitUnits
<1>4. DOMAIN a = 1..n /\ DOMAIN b = 1..(Len(q) - n)
  BY <1>1, <1>2, <1>3, LenProperties
<1>5. a # <<>> /\ q # <<>>
  BY <1>1, <1>2
<1>6. ASSUME NEW unit, No(unit, q) PROVE No(unit, a) /\ No(unit, b)
  <2> HIDE DEF a, b
  <2>1. \A i \in 1..Len(q) : q[i] # unit
    BY <1>1, <1>6 DEF No
  <2>2. \A i \in 1..n : a[i] # unit
    BY <1>1, <1>2, <2>1
  <2>3. \A i \in 1..(Len(q) - n) : b[i] # unit
    BY <1>1, <1>3, <2>1
  <2> QED
    BY <1>4, <2>2, <2>3 DEF No
<1> QED
  BY <1>2, <1>3, <1>5, <1>6

LEMMA FirstUnit ==
  ASSUME NEW S, NEW q \in Seq(S), q # <<>>
  PROVE  /\ Head(q) \in S /\ Len(q) \in Nat /\ Len(q) > 0
         /\ \A unit : No(unit, q) => Head(q) # unit
<1>1. Head(q) \in S /\ Head(q) = q[1] /\ DOMAIN q = 1..Len(q) /\ Len(q) \in Nat
  BY HeadTailProperties, LenProperties
<1>2. Len(q) > 0
  BY <1>1, EmptySeq
<1> QED
  BY <1>1, <1>2 DEF No

-----------------------------------------------------------------------------
(* Types.                                                                  *)

\* The hosts that are left to try.
LEMMA HostsLeft ==
  ASSUME NEW h \in {<<>>, <<"proxy">>, Hosts}, h # <<>>
  PROVE  Tail(h) \in {<<>>, <<"proxy">>}
<1>1. Tail(<<"proxy">>) = <<>>
  OBVIOUS
<1>2. Tail(<<"loop", "proxy">>) = <<"proxy">>
  OBVIOUS
<1> QED
  BY <1>1, <1>2 DEF Hosts

LEMMA Placed == I \in End /\ T \in End /\ I # T /\ \A e \in End : Other(e) \in End
BY DEF End, I, T, Other

\* A connection that is cut keeps the types.
LEMMA UnlinkTyped ==
  ASSUME TypeOK, NEW e \in End, Unlink(e)
  PROVE  /\ host' \in [End -> {"none", "no connection", "server", "own", "proxy"}]
         /\ s5' \in [End -> {"disconnected", "connecting", "negotiating", "connected"}]
         /\ cancel' \in [End -> BOOLEAN] /\ wire' \in [End -> Seq(Unit)]
<1>1. Other(e) \in End
  BY Placed
<1>2. wire \in [End -> Seq(Unit)] /\ "eof" \in Unit
  BY DEF TypeOK, Unit
<1>3. Append(wire[Other(e)], "eof") \in Seq(Unit)
  BY <1>1, <1>2, NoAppend
<1>4. wire' \in [End -> Seq(Unit)]
  BY <1>1, <1>2, <1>3 DEF Unlink
<1> QED
  BY <1>4 DEF Unlink, TypeOK

LEMMA Handled == TypeOK => \A e \in End : Handling(e) => chunk' \in [End -> Seq(Unit)]
<1> SUFFICES ASSUME TypeOK, NEW e \in End, Handling(e) PROVE chunk' \in [End -> Seq(Unit)]
  OBVIOUS
<1>1. <<>> \in Seq(Unit)
  BY EmptySeq
<1>2. chunk' = [chunk EXCEPT ![e] = <<>>]
  BY DEF Handling
<1>3. chunk \in [End -> Seq(Unit)]
  BY DEF TypeOK
<1> QED
  BY <1>1, <1>2, <1>3

LEMMA Written == TypeOK => \A e \in End : Writes(e) => sent' \in [End -> 0..MaxData]
<1> SUFFICES ASSUME TypeOK, NEW e \in End, Writes(e) PROVE sent' \in [End -> 0..MaxData]
  OBVIOUS
<1>1. sent[e] \in 0..MaxData /\ sent[e] < MaxData /\ MaxData \in Nat
  BY Socks5Assumption DEF Writes, TypeOK
<1>2. sent[e] + 1 \in 0..MaxData
  BY <1>1
<1> QED
  BY <1>2 DEF Writes, TypeOK

LEMMA TypeIq ==
  ASSUME TypeOK, RequestFt \/ AcceptFt \/ Handlers
  PROVE  TypeOK'
<1> USE Placed DEF TypeOK, Step, IqOnly, Created, TellListener, Message, place, link, obj
<1>1. CASE RequestFt
  BY <1>1 DEF RequestFt
<1>2. CASE AcceptFt
  BY <1>2 DEF AcceptFt
<1>3. CASE HandleDeclined
  BY <1>3 DEF HandleDeclined
<1>4. CASE HandleAccepted
  BY <1>4 DEF HandleAccepted
<1>5. CASE HandleHosts
  BY <1>5 DEF HandleHosts
<1>6. CASE HandleUsedProxy
  BY <1>6 DEF HandleUsedProxy
<1>7. CASE ProxyActivates
  BY <1>7 DEF ProxyActivates
<1>8. CASE Activate
  BY <1>8 DEF Activate
<1>9. CASE HandleNotActivated
  BY <1>9 DEF HandleNotActivated
<1>10. CASE HandleUsedLoop
  <2>1. "eof" \in Unit
    BY DEF Unit
  <2>2. <<"eof">> \in Seq(Unit) /\ <<>> \in Seq(Unit)
    BY <2>1, NoSingle
  <2>3. PICK there \in BOOLEAN :
          /\ Created(I, there)
          /\ host' = [host EXCEPT ![I] = IF there THEN "server" ELSE "no connection"]
          /\ cancel' = [cancel EXCEPT ![I] = ~there]
          /\ wire' = [wire EXCEPT ![I] = IF host[T] = "server" THEN <<>> ELSE <<"eof">>]
    BY <1>10 DEF HandleUsedLoop
  <2>4. wire' \in [End -> Seq(Unit)]
    BY <2>2, <2>3
  <2> QED
    BY <1>10, <2>3, <2>4 DEF HandleUsedLoop
<1> QED
  BY <1>1, <1>2, <1>3, <1>4, <1>5, <1>6, <1>7, <1>8, <1>9, <1>10 DEF Handlers

LEMMA TypeFile ==
  ASSUME TypeOK, NEW e \in End, File(e) \/ Closing(e) \/ Traffic(e) \/ ServerTurn(e) \/ ProxyAnswers(e)
                                \/ SendFtData(e) \/ SendFails(e) \/ CloseFtBytestream(e)
  PROVE  TypeOK'
<1> USE DEF FileAt, CloserAt, TellListener, TellClosed, FileState, place, link, obj
<1>1. CASE RecvS5bFtData(e)
  BY <1>1 DEF RecvS5bFtData, TypeOK, Message
<1>2. CASE ConnectAtOnce(e)
  BY <1>2 DEF ConnectAtOnce, TypeOK, Message
<1>3. CASE Recv(e)
  BY <1>3 DEF Recv, TypeOK, Message
<1>4. CASE Tell(e)
  BY <1>4 DEF Tell, TypeOK, Message
<1>5. CASE HandleReply(e)
  BY <1>5, Handled DEF HandleReply, TypeOK, Message
<1>22. CASE HandleMethod(e)
  BY <1>22, Handled DEF HandleMethod, TypeOK, Message
<1>6. CASE HandleRefusal(e)
  BY <1>6, Handled, ZenonT(60) DEF HandleRefusal, TypeOK, Message
<1>7. CASE CloseFtBytestream(e)
  <2>1. \/ CloserAt(e, "crashed") /\ UNCHANGED obj
        \/ CloserAt(e, "erase") /\ UNCHANGED obj
        \/ /\ CloserAt(e, "lock") /\ UNCHANGED made
           /\ open' = [open EXCEPT ![e] = FALSE] /\ connected' = [connected EXCEPT ![e] = FALSE]
    BY <1>7 DEF CloseFtBytestream
  <2>2. /\ closer' \in [End -> {"idle", "lock", "tell", "erase", "done", "crashed"}]
        /\ made' = made /\ open' \in [End -> BOOLEAN] /\ connected' \in [End -> BOOLEAN]
    BY <2>1, ZenonT(60) DEF TypeOK
  <2> QED
    BY <1>7, <2>2 DEF CloseFtBytestream, TypeOK
<1>8. CASE CloseTell(e)
  BY <1>8 DEF CloseTell, TypeOK, Message
<1>9. CASE CloseErase(e)
  BY <1>9 DEF CloseErase, TypeOK, Message
<1>10. CASE Connected(e)
  <2>1. Leads(Head(try[e])) \in {"none", "server", "own", "proxy"}
    BY DEF Leads
  <2>2. try[e] \in {<<>>, <<"proxy">>, Hosts} /\ try[e] # <<>>
    BY <1>10 DEF Connected, Connecting, TypeOK
  <2>3. Tail(try[e]) \in {<<>>, <<"proxy">>}
    BY <2>2, HostsLeft
  <2> QED
    BY <1>10, <2>1, <2>3 DEF Connected, TypeOK
<1>11. CASE NotConnected(e)
  <2>1. try[e] \in {<<>>, <<"proxy">>, Hosts} /\ try[e] # <<>>
    BY <1>11 DEF NotConnected, Connecting, TypeOK
  <2>2. Tail(try[e]) \in {<<>>, <<"proxy">>}
    BY <2>1, HostsLeft
  <2>3. \/ UNCHANGED <<connected, told, entry, file>>
        \/ /\ connected' = [connected EXCEPT ![e] = TRUE]
           /\ TellClosed(e) /\ FileAt(e, "done")
    BY <1>11 DEF NotConnected
  <2>4. try' \in [End -> {<<>>, <<"proxy">>, Hosts}]
    BY <1>11, <2>2 DEF NotConnected, TypeOK
  <2>5. /\ connected' \in [End -> BOOLEAN] /\ file' \in [End -> FileState]
        /\ told' \in [End -> {"none", "created", "opened", "closed"}]
        /\ entry' \in [End -> BOOLEAN] /\ \A x \in End : entry'[x] => entry[x]
    BY <2>3, ZenonT(60) DEF TypeOK
  <2> QED
    BY <1>11, <2>4, <2>5 DEF NotConnected, TypeOK
<1>12. CASE ProxyAnswers(e)
  <2>1. <<"ok">> \in Seq(Unit) /\ <<"no">> \in Seq(Unit) /\ <<"method">> \in Seq(Unit)
    BY NoSingle DEF Unit
  <2>2. wire' \in [End -> Seq(Unit)]
    BY <1>12, <2>1, ZenonT(60) DEF ProxyAnswers, Replies, TypeOK
  <2>3. faults' \subseteq {"refused", "broken"}
    BY <1>12 DEF ProxyAnswers, TypeOK
  <2> QED
    BY <1>12, <2>2, <2>3 DEF ProxyAnswers, TypeOK
<1>20. CASE Traffic(e)
  BY <1>20 DEF Traffic, TypeOK, Message
<1>21. CASE ServerTurn(e)
  <2>1. <<"ok">> \in Seq(Unit) /\ <<"no">> \in Seq(Unit) /\ <<"method">> \in Seq(Unit)
    BY NoSingle DEF Unit
  <2>2. wire' \in [End -> Seq(Unit)]
    BY <1>21, <2>1, ZenonT(60) DEF ServerTurn, Replies, TypeOK
  <2>3. turn' \in [End -> BOOLEAN]
    BY <1>21 DEF ServerTurn, TypeOK
  <2> QED
    BY <1>21, <2>2, <2>3 DEF ServerTurn, TypeOK
<1>13. CASE Look(e)
  <2>1. CASE entry[e]
    BY <1>13, <2>1 DEF Look, TypeOK
  <2>2. CASE ~entry[e]
    <3>1. Unlink(e) /\ file' = [file EXCEPT ![e] = "crashed"]
      BY <1>13, <2>2 DEF Look
    <3> QED
      BY <1>13, <3>1, UnlinkTyped DEF Look, TypeOK
  <2> QED
    BY <2>1, <2>2
<1>14. CASE HandleEof(e)
  BY <1>14, Handled, UnlinkTyped DEF HandleEof, TypeOK
<1>15. CASE Read(e)
  <2>1. PICK n \in 1..Len(wire[e]) :
          /\ chunk' = [chunk EXCEPT ![e] = SubSeq(wire[e], 1, n)]
          /\ wire' = [wire EXCEPT ![e] = SubSeq(wire[e], n + 1, Len(wire[e]))]
    BY <1>15 DEF Read, TypeOK
  <2>2. wire[e] \in Seq(Unit)
    BY DEF TypeOK
  <2>3. SubSeq(wire[e], 1, n) \in Seq(Unit) /\ SubSeq(wire[e], n + 1, Len(wire[e])) \in Seq(Unit)
    BY <2>2, NoSplit
  <2>4. chunk' \in [End -> Seq(Unit)] /\ wire' \in [End -> Seq(Unit)]
    BY <2>1, <2>3 DEF TypeOK
  <2> QED
    BY <1>15, <2>4 DEF Read, TypeOK
<1>16. CASE HandleData(e)
  <2>1. chunk[e] \in Seq(Unit)
    BY DEF TypeOK
  <2>2. Len(chunk[e]) \in Nat
    BY <2>1, LenProperties
  <2>3. CASE s5[e] = "connected"
    <3>1. got' = [got EXCEPT ![e] = got[e] + Len(chunk[e])]
      BY <1>16, <2>3 DEF HandleData
    <3>2. got[e] + Len(chunk[e]) \in Nat
      <4>1. got[e] \in Nat
        BY DEF TypeOK
      <4> QED
        BY <2>2, <4>1
    <3>3. got' \in [End -> Nat]
      BY <3>1, <3>2 DEF TypeOK
    <3>4. told' = told \/ told' = [told EXCEPT ![e] = "opened"]
      BY <1>16, <2>3 DEF HandleData
    <3>5. told' \in [End -> {"none", "created", "opened", "closed"}]
      BY <3>4 DEF TypeOK
    <3> QED
      BY <1>16, <2>3, <3>3, <3>5, Handled DEF HandleData, TypeOK
  <2>4. CASE s5[e] # "connected"
    BY <1>16, <2>4, Handled DEF HandleData, TypeOK
  <2> QED
    BY <2>3, <2>4
<1>17. CASE SendFtData(e)
  <2>1. Other(e) \in End
    BY Placed
  <2>2. wire[Other(e)] \in Seq(Unit) /\ "data" \in Unit
    BY <2>1 DEF TypeOK, Unit
  <2>3. Append(wire[Other(e)], "data") \in Seq(Unit)
    BY <2>2, NoAppend
  <2>4. wire' \in [End -> Seq(Unit)]
    BY <1>17, <2>3 DEF SendFtData, TypeOK
  <2>5. sent' \in [End -> 0..MaxData]
    BY <1>17, Written DEF SendFtData
  <2> QED
    BY <1>17, <2>4, <2>5 DEF SendFtData, TypeOK
<1>18. CASE SendFails(e)
  <2>5. sent' \in [End -> 0..MaxData]
    BY <1>18, Written DEF SendFails
  <2>6. /\ host' \in [End -> {"none", "no connection", "server", "own", "proxy"}]
        /\ s5' \in [End -> {"disconnected", "connecting", "negotiating", "connected"}]
        /\ cancel' \in [End -> BOOLEAN] /\ wire' \in [End -> Seq(Unit)]
    BY <1>18, UnlinkTyped DEF SendFails, TypeOK
  <2>7. /\ told' \in [End -> {"none", "created", "opened", "closed"}]
        /\ entry' \in [End -> BOOLEAN] /\ \A x \in End : entry'[x] => entry[x]
    BY <1>18, ZenonT(60) DEF SendFails, TypeOK
  <2> QED
    BY <1>18, <2>5, <2>6, <2>7 DEF SendFails, TypeOK
<1>19. CASE CloseLock(e)
  BY <1>19, UnlinkTyped DEF CloseLock, TypeOK
<1> QED
  BY <1>1, <1>2, <1>3, <1>4, <1>5, <1>6, <1>7, <1>8, <1>9, <1>10, <1>11, <1>12, <1>13, <1>14, <1>15, <1>16, <1>17, <1>18, <1>19, <1>20, <1>21,
     <1>22 DEF File, Closing

LEMMA TypeBreak == TypeOK /\ Break => TypeOK'
<1> SUFFICES ASSUME TypeOK, Break PROVE TypeOK'
  OBVIOUS
<1>1. \A e \in End : wire[e] \in Seq(Unit) /\ Append(wire[e], "eof") \in Seq(Unit)
  <2> SUFFICES ASSUME NEW e \in End
               PROVE  wire[e] \in Seq(Unit) /\ Append(wire[e], "eof") \in Seq(Unit)
    OBVIOUS
  <2>1. wire[e] \in Seq(Unit) /\ "eof" \in Unit
    BY DEF TypeOK, Unit
  <2> QED
    BY <2>1, NoAppend
<1>2. wire' \in [End -> Seq(Unit)]
  BY <1>1 DEF Break
<1> QED
  BY <1>2 DEF Break, TypeOK, place, link, obj

LEMMA TypeInit == Init => TypeOK
BY Socks5Assumption, EmptySeq DEF Init, TypeOK, Message, FileState

LEMMA TypeNext == TypeOK /\ [Next]_vars => TypeOK'
<1> SUFFICES ASSUME TypeOK, [Next]_vars PROVE TypeOK'
  OBVIOUS
<1>1. CASE UNCHANGED vars
  BY <1>1 DEF vars, place, link, obj, TypeOK
<1> QED
  BY <1>1, TypeIq, TypeFile, TypeBreak DEF Next

\* The variables keep their types, whoever sends and closes and whatever breaks; in
\* particular a stream that is filed has an object.
THEOREM TransferTyped == Spec => []TypeOK
BY TypeInit, TypeNext, PTL DEF Spec

-----------------------------------------------------------------------------
(* What the listeners are told.                                            *)

\* The words of iq by what they say of the two ends.
Offering   == {"none", "offer", "declined", "accepted", "hosts"}
Used       == {"used loop", "used proxy"}
Activating == {"self", "activate", "activated", "not activated"}

Before == {"off", "find", "connect"}  \* the file thread has no connection yet
After  == {"look", "done", "crashed"} \* nothing that it would tell
Idle   == {"look", "recv", "select", "done"}

Empty(e) == wire[e] = <<>> /\ chunk[e] = <<>>

\* A stream its listener has not heard of has not begun.
Unborn ==
  \A e \in End : told[e] = "none" =>
    file[e] = "off" /\ host[e] = "none" /\ s5[e] = "disconnected" /\ try[e] = <<>> /\ Empty(e)

\* During the SOCKS negotiation nothing but the host's answer is under way.
Answering == {<<"method">>, <<"ok">>, <<"no">>}
Answer(e) == \/ wire[e] = <<>> /\ chunk[e] \in Answering \union {<<>>}
             \/ chunk[e] = <<>> /\ wire[e] \in Answering
Negotiates ==
  /\ \A e \in End : s5[e] \in Shaking => iq = "connecting" /\ told[e] # "none" /\ connected[e] /\ Answer(e)
  /\ s5[T] \in Shaking =>
       /\ told[I] = "none"
       /\ wire[T] = <<"ok">> \/ chunk[T] = <<"ok">> => host[T] \in {"server", "proxy"}

\* Until the initiator has opened its stream the target rests, connected and in silence.
Rests == \/ iq \in Used \union Activating \/ s5[I] \in Shaking
         \/ iq = "connecting" /\ told[I] = "created"
TargetRests ==
  Rests => told[T] = "created" /\ s5[T] = "connected" /\ file[T] \in Idle /\ Empty(T)

\* One thread tells of the end, and no thread of anything later.
TargetInv ==
  /\ told[T] = "closed" => file[T] \in After /\ ~entry[T]
  /\ told[T] \in {"created", "opened"} => entry[T]
  /\ open[T] => told[T] \in {"opened", "closed"}
  /\ file[T] \in Before => told[I] = "none" /\ host[T] = "none" /\ s5[T] = "disconnected" /\ Empty(T)
  /\ iq = "used loop" => host[T] = "server"
  /\ told[I] = "none" => told[T] # "opened" /\ (s5[T] = "connected" => iq \in Used)

InitiatorInv ==
  /\ told[I] = "created" /\ iq # "over" =>
       entry[I] /\ file[I] # "tell" /\ (s5[I] \in Shaking \/ Empty(I))
  /\ told[I] = "closed" /\ iq # "over" => iq = "connecting" /\ file[I] \in After /\ ~entry[I]
  /\ file[I] \in Before /\ try[I] # <<>> =>
       iq = "connecting" /\ told[I] = "created" /\ s5[I] = "disconnected" /\ host[I] = "none"
  /\ No("data", wire[I]) /\ No("data", chunk[I])

\* What the listeners were told goes with the IQs.
InOrder ==
  /\ iq \in Offering => told[T] = "none"
  /\ iq \in Offering \union Used => told[I] = "none"
  /\ iq \in Activating => told[I] = "created"
  /\ told[I] = "opened" => iq = "over"
  /\ told[T] # "none" /\ told[I] = "none" => iq \in Used \union {"connecting"}
  /\ closer[T] = "idle"
  /\ closer[I] # "idle" => iq = "over" /\ told[I] \in {"opened", "closed"}

Held == \A e \in End : file[e] = "handle" => chunk[e] # <<>>

TellInv == Unborn /\ Negotiates /\ TargetRests /\ TargetInv /\ InitiatorInv /\ InOrder /\ Held

\* The hypotheses of the last two theorems: the target neither sends nor closes, and, for
\* what the listeners are told, no connection breaks before the initiator's stream is open.
Receives == Senders \subseteq {I} /\ Closers \subseteq {I}
OneWay == Receives /\ ~Early

LEMMA Ends == I \in End /\ T \in End /\ I # T /\ Other(I) = T /\ Other(T) = I
              /\ \A e \in End : e = I \/ e = T
BY DEF End, I, T, Other

LEMMA Words == /\ Head(<<"ok">>) = "ok" /\ Head(<<"no">>) = "no" /\ Head(<<"method">>) = "method"
               /\ <<"ok">> # <<"no">> /\ <<"ok">> # <<"method">> /\ <<"no">> # <<"method">>
               /\ <<"ok">> # <<>> /\ <<"no">> # <<>> /\ <<"method">> # <<>>
OBVIOUS

\* An answer of the host of e, and a step that leaves all but the turns alone.
HostAnswers(e) ==
  /\ s5[e] \in Shaking /\ Empty(e)
  /\ \E w \in Answering :
       wire' = [wire EXCEPT ![e] = w] /\ (w = <<"ok">> => host[e] \in {"server", "proxy"})
  /\ UNCHANGED <<iq, entry, obj, file, try, link, chunk, closer, told, got, sent>>

Quiet == UNCHANGED <<iq, entry, obj, file, try, link, wire, chunk, closer, told, got, sent, faults>>

LEMMA HostSteps ==
  ASSUME NEW x \in End
  PROVE  /\ ProxyAnswers(x) => HostAnswers(x)
         /\ ServerTurn(x) => Quiet \/ HostAnswers(T)
         /\ Traffic(x) => Quiet
         /\ UNCHANGED vars => Quiet
         /\ ServerTurn(x) => UNCHANGED faults
<1>1. ProxyAnswers(x) => HostAnswers(x)
  BY Words DEF ProxyAnswers, HostAnswers, Replies, Asks, Empty, Answering
<1>2. ServerTurn(x) => Quiet \/ HostAnswers(T)
  <2> SUFFICES ASSUME ServerTurn(x) PROVE Quiet \/ HostAnswers(T)
    OBVIOUS
  <2>1. CASE ~AtServer(x)
    BY <2>1 DEF ServerTurn, Quiet
  <2>2. CASE AtServer(x)
    <3>1. s5[T] \in Shaking /\ Empty(T)
      BY <2>2 DEF AtServer, Asks, Empty
    <3> DEFINE w == <<IF s5[T] = "connecting" THEN "method" ELSE IF x = I THEN "ok" ELSE "no">>
    <3>2. wire' = [wire EXCEPT ![T] = w]
      BY <2>2 DEF ServerTurn, Replies
    <3>3. w \in Answering /\ (w = <<"ok">> => host[T] \in {"server", "proxy"})
      BY <2>2, Words DEF AtServer, Answering
    <3> HIDE DEF w
    <3> QED
      BY <3>1, <3>2, <3>3 DEF HostAnswers, ServerTurn
  <2> QED
    BY <2>1, <2>2
<1>3. (Traffic(x) => Quiet) /\ (UNCHANGED vars => Quiet) /\ (ServerTurn(x) => UNCHANGED faults)
  BY DEF Traffic, Quiet, vars, ServerTurn
<1> QED
  BY <1>1, <1>2, <1>3

USE DEF Shaking, Answering

LEMMA ReadAnswer ==
  ASSUME NEW w \in Answering, NEW n \in 1..Len(w)
  PROVE  SubSeq(w, 1, n) = w /\ SubSeq(w, n + 1, Len(w)) = <<>>
<1>1. Len(w) = 1 /\ n = 1
  <2>1. Len(<<"method">>) = 1 /\ Len(<<"ok">>) = 1 /\ Len(<<"no">>) = 1
    OBVIOUS
  <2>2. Len(w) = 1
    BY <2>1, Zenon
  <2> QED
    BY <2>2
<1>4. w \in Seq(Unit)
  <2>1. <<"ok">> \in Seq(Unit) /\ <<"no">> \in Seq(Unit) /\ <<"method">> \in Seq(Unit)
    BY NoSingle DEF Unit
  <2> QED
    BY <2>1
<1>2. SubSeq(w, 1, Len(w)) = w
  BY <1>4, SubSeqFull
<1>3. SubSeq(w, 2, 1) = <<>>
  BY SubSeqEmpty
<1> QED
  BY <1>1, <1>2, <1>3

LEMMA Known ==
  ASSUME TypeOK, TellInv
  PROVE  /\ DOMAIN entry = End /\ DOMAIN open = End /\ DOMAIN connected = End /\ DOMAIN file = End
         /\ DOMAIN try = End /\ DOMAIN host = End /\ DOMAIN s5 = End /\ DOMAIN wire = End
         /\ DOMAIN chunk = End /\ DOMAIN closer = End /\ DOMAIN told = End
         /\ Unborn /\ Negotiates /\ TargetRests /\ TargetInv /\ InitiatorInv /\ InOrder /\ Held
BY DEF TypeOK, TellInv

LEMMA Phases ==
  ASSUME TypeOK
  PROVE  /\ iq \in Offering \union Used \union Activating \union {"connecting", "over"}
         /\ \A e \in End : told[e] \in {"none", "created", "opened", "closed"}
         /\ \A e \in End : host[e] \in {"none", "no connection", "server", "own", "proxy"}
         /\ \A e \in End : wire[e] \in Seq(Unit) /\ chunk[e] \in Seq(Unit)
BY DEF TypeOK, Message, Offering, Used, Activating

\* An IQ of which no listener is told.
LEMMA TellWords ==
  ASSUME TypeOK, TellInv,
         \/ iq \in Offering /\ iq' \in Offering \union {"over"}
         \/ iq \in Activating /\ iq' \in Activating \union {"over"},
         UNCHANGED <<entry, open, connected, file, try, host, s5, wire, chunk, closer, told>>
  PROVE  TellInv'
<1> USE Ends, Words DEF Offering, Used, Activating, Before, After, Idle, Empty, Answer, Rests
<1>1. Unborn'
  BY Known, Phases DEF Unborn
<1>2. Negotiates'
  BY Known, Phases DEF Negotiates
<1>3. TargetRests'
  BY Known, Phases DEF TargetRests
<1>4. TargetInv'
  BY Known, Phases DEF TargetInv
<1>5. InitiatorInv'
  BY Known, Phases DEF InitiatorInv
<1>6. InOrder'
  BY Known, Phases DEF InOrder
<1>7. Held'
  BY Known, Phases DEF Held
<1> QED
  BY <1>1, <1>2, <1>3, <1>4, <1>5, <1>6, <1>7 DEF TellInv

LEMMA TellHosts ==
  ASSUME TypeOK, TellInv, HandleHosts
  PROVE  TellInv'
<1> USE Ends, Words DEF Offering, Used, Activating, Before, After, Idle, Empty, Answer, Rests
<1>1. /\ iq = "hosts" /\ iq' = "connecting"
      /\ told' = [told EXCEPT ![T] = "created"] /\ entry' = [entry EXCEPT ![T] = TRUE]
      /\ open' = [open EXCEPT ![T] = FALSE] /\ connected' = [connected EXCEPT ![T] = FALSE]
      /\ try' = [try EXCEPT ![T] = Hosts] /\ UNCHANGED <<file, host, s5, wire, chunk, closer>>
  BY DEF HandleHosts, Step, Created, TellListener, link
<1>2. told[I] = "none" /\ told[T] = "none"
  BY <1>1, Known DEF InOrder
<1>3. \A x \in End : /\ file[x] = "off" /\ host[x] = "none" /\ s5[x] = "disconnected"
                   /\ wire[x] = <<>> /\ chunk[x] = <<>> /\ try[I] = <<>>
  BY <1>2, Known DEF Unborn
<1>4. Unborn'
  BY <1>1, <1>2, <1>3, Known, Phases, ZenonT(60) DEF Unborn
<1>5. Negotiates'
  BY <1>1, <1>2, <1>3, Known, Phases DEF Negotiates
<1>6. TargetRests'
  BY <1>1, <1>2, <1>3, Known, Phases DEF TargetRests
<1>7. TargetInv'
  BY <1>1, <1>2, <1>3, Known, Phases DEF TargetInv
<1>8. InitiatorInv'
  BY <1>1, <1>2, <1>3, Known, Phases DEF InitiatorInv
<1>9. InOrder'
  BY <1>1, <1>2, <1>3, Known, Phases DEF InOrder
<1>10. Held'
  BY <1>1, <1>2, <1>3, Known, Phases DEF Held
<1> QED
  BY <1>4, <1>5, <1>6, <1>7, <1>8, <1>9, <1>10 DEF TellInv

LEMMA TellUsedLoop ==
  ASSUME TypeOK, TellInv, HandleUsedLoop
  PROVE  TellInv'
<1> USE Ends, Words DEF Offering, Used, Activating, Before, After, Idle, Empty, Answer, Rests
<1>1. host[T] = "server" /\ told[I] = "none"
  BY Known DEF HandleUsedLoop, Step, TargetInv, InOrder
<1>2. /\ wire' = [wire EXCEPT ![I] = <<>>] /\ host' = [host EXCEPT ![I] = "server"]
      /\ iq = "used loop" /\ iq' = "self"
      /\ made' = [made EXCEPT ![I] = TRUE] /\ connected' = [connected EXCEPT ![I] = FALSE]
      /\ open' = [open EXCEPT ![I] = TRUE]
      /\ entry' = [entry EXCEPT ![I] = TRUE] /\ told' = [told EXCEPT ![I] = "created"]
      /\ UNCHANGED <<file, try, s5, chunk, closer>>
  <2>1. \E there \in {TRUE} :
          /\ Created(I, there)
          /\ host' = [host EXCEPT ![I] = IF there THEN "server" ELSE "no connection"]
          /\ wire' = [wire EXCEPT ![I] = IF host[T] = "server" THEN <<>> ELSE <<"eof">>]
    BY <1>1 DEF HandleUsedLoop, Step
  <2>2. iq = "used loop" /\ iq' = "self" /\ UNCHANGED <<file, try, s5, chunk, closer>>
    BY DEF HandleUsedLoop, Step
  <2>3. /\ made' = [made EXCEPT ![I] = TRUE] /\ connected' = [connected EXCEPT ![I] = FALSE]
        /\ open' = [open EXCEPT ![I] = TRUE]
        /\ entry' = [entry EXCEPT ![I] = TRUE] /\ told' = [told EXCEPT ![I] = "created"]
    BY <2>1 DEF Created, TellListener
  <2>4. wire' = [wire EXCEPT ![I] = <<>>] /\ host' = [host EXCEPT ![I] = "server"]
    BY <1>1, <2>1
  <2> QED
    BY <2>2, <2>3, <2>4
<1>3. No("data", <<>>)
  BY DEF No
<1>4. file[I] = "off" /\ try[I] = <<>> /\ chunk[I] = <<>> /\ wire'[I] = <<>>
  BY <1>1, <1>2, Known DEF Unborn
<1>5. Unborn'
  BY <1>1, <1>2, <1>3, <1>4, Known, Phases DEF Unborn
<1>6. Negotiates'
  BY <1>1, <1>2, <1>3, <1>4, Known, Phases DEF Negotiates
<1>7. TargetRests'
  BY <1>1, <1>2, <1>3, <1>4, Known, Phases DEF TargetRests
<1>8. TargetInv'
  BY <1>1, <1>2, <1>3, <1>4, Known, Phases DEF TargetInv
<1>9. InitiatorInv'
  BY <1>1, <1>2, <1>3, <1>4, Known, Phases DEF InitiatorInv
<1>10. InOrder'
  BY <1>1, <1>2, <1>3, <1>4, Known, Phases DEF InOrder
<1>11. Held'
  BY <1>1, <1>2, <1>3, <1>4, Known, Phases DEF Held
<1> QED
  BY <1>5, <1>6, <1>7, <1>8, <1>9, <1>10, <1>11 DEF TellInv

LEMMA TellUsedProxy ==
  ASSUME TypeOK, TellInv, HandleUsedProxy
  PROVE  TellInv'
<1> USE Ends, Words DEF Offering, Used, Activating, Before, After, Idle, Empty, Answer, Rests
<1>1. /\ iq = "used proxy" /\ iq' = "connecting"
      /\ told' = [told EXCEPT ![I] = "created"] /\ entry' = [entry EXCEPT ![I] = TRUE]
      /\ open' = [open EXCEPT ![I] = FALSE] /\ connected' = [connected EXCEPT ![I] = FALSE]
      /\ try' = [try EXCEPT ![I] = <<"proxy">>] /\ UNCHANGED <<file, host, s5, wire, chunk, closer>>
  BY DEF HandleUsedProxy, Step, Created, TellListener, link
<1>2. /\ told[I] = "none" /\ file[I] = "off" /\ host[I] = "none" /\ s5[I] = "disconnected"
      /\ wire[I] = <<>> /\ chunk[I] = <<>>
  BY <1>1, Known DEF InOrder, Unborn
<1>3. /\ told[T] = "created" /\ s5[T] = "connected" /\ file[T] \in Idle
      /\ wire[T] = <<>> /\ chunk[T] = <<>>
  BY <1>1, Known DEF TargetRests
<1>4. Unborn'
  BY <1>1, <1>2, <1>3, Known, Phases DEF Unborn
<1>5. Negotiates'
  BY <1>1, <1>2, <1>3, Known, Phases DEF Negotiates
<1>6. TargetRests'
  BY <1>1, <1>2, <1>3, Known, Phases DEF TargetRests
<1>7. TargetInv'
  BY <1>1, <1>2, <1>3, Known, Phases DEF TargetInv
<1>8. InitiatorInv'
  BY <1>1, <1>2, <1>3, Known, Phases DEF InitiatorInv
<1>9. InOrder'
  BY <1>1, <1>2, <1>3, Known, Phases DEF InOrder
<1>10. Held'
  BY <1>1, <1>2, <1>3, Known, Phases DEF Held
<1> QED
  BY <1>4, <1>5, <1>6, <1>7, <1>8, <1>9, <1>10 DEF TellInv

LEMMA TellActivate ==
  ASSUME TypeOK, TellInv, Activate
  PROVE  TellInv'
<1> USE Ends, Words DEF Offering, Used, Activating, Before, After, Idle, Empty, Answer, Rests
<1>1. /\ iq \in {"self", "activated"} /\ iq' = "over"
      /\ told' = [told EXCEPT ![I] = "opened"] /\ open' = [open EXCEPT ![I] = TRUE]
      /\ UNCHANGED <<entry, connected, file, try, host, s5, wire, chunk, closer>>
  BY DEF Activate, Step, TellListener, link
<1>2. told[I] = "created" /\ ~(s5[I] \in Shaking) /\ ~(s5[T] \in Shaking)
  BY <1>1, Known DEF InOrder, Negotiates
<1>3. file[I] \in Before => try[I] = <<>>
  BY <1>1, Known DEF InitiatorInv
<1>4. Unborn'
  BY <1>1, <1>2, <1>3, Known, Phases DEF Unborn
<1>5. Negotiates'
  BY <1>1, <1>2, <1>3, Known, Phases DEF Negotiates
<1>6. TargetRests'
  BY <1>1, <1>2, <1>3, Known, Phases DEF TargetRests
<1>7. TargetInv'
  BY <1>1, <1>2, <1>3, Known, Phases DEF TargetInv
<1>8. InitiatorInv'
  BY <1>1, <1>2, <1>3, Known, Phases DEF InitiatorInv
<1>9. InOrder'
  BY <1>1, <1>2, <1>3, Known, Phases DEF InOrder
<1>10. Held'
  BY <1>1, <1>2, <1>3, Known, Phases DEF Held
<1> QED
  BY <1>4, <1>5, <1>6, <1>7, <1>8, <1>9, <1>10 DEF TellInv

LEMMA TellIq ==
  ASSUME TypeOK, TellInv, RequestFt \/ AcceptFt \/ Handlers
  PROVE  TellInv'
<1>1. CASE RequestFt \/ AcceptFt \/ HandleDeclined \/ HandleAccepted
  <2>1. iq \in Offering /\ iq' \in Offering \union {"over"}
    BY <1>1 DEF RequestFt, AcceptFt, HandleDeclined, HandleAccepted, Step, Offering
  <2>2. UNCHANGED <<entry, open, connected, file, try, host, s5, wire, chunk, closer, told>>
    BY <1>1 DEF RequestFt, AcceptFt, HandleDeclined, HandleAccepted, IqOnly, link, obj
  <2> QED
    BY <2>1, <2>2, TellWords
<1>2. CASE ProxyActivates \/ HandleNotActivated
  <2>1. iq \in Activating /\ iq' \in Activating \union {"over"}
    BY <1>2 DEF ProxyActivates, HandleNotActivated, Step, Activating
  <2>2. UNCHANGED <<entry, open, connected, file, try, host, s5, wire, chunk, closer, told>>
    BY <1>2 DEF ProxyActivates, HandleNotActivated, IqOnly, link, obj
  <2> QED
    BY <2>1, <2>2, TellWords
<1> QED
  BY <1>1, <1>2, TellHosts, TellUsedLoop, TellUsedProxy, TellActivate DEF Handlers

\* A socket that is closed: the other end finds the end of the stream, if it was linked.
LEMMA UnlinkKeeps ==
  ASSUME TypeOK, NEW e \in End, Unlink(e)
  PROVE  /\ host' = [host EXCEPT ![e] = "none"] /\ s5' = [s5 EXCEPT ![e] = "disconnected"]
         /\ wire'[e] = wire[e]
         /\ \A x \in End : host[x] = "none" => wire'[x] = wire[x]
         /\ \A x \in End : No("data", wire[x]) => No("data", wire'[x])
<1> USE Ends
<1>1. \A x \in End : wire[x] \in Seq(Unit)
  BY DEF TypeOK
<1>2. "eof" \in Unit /\ "data" # "eof"
  BY DEF Unit
<1>3. ASSUME NEW x \in End, No("data", wire[x]) PROVE No("data", wire'[x])
  <2>1. No("data", Append(wire[x], "eof"))
    BY <1>1, <1>2, <1>3, NoAppend
  <2>2. wire'[x] = wire[x] \/ wire'[x] = Append(wire[x], "eof")
    BY DEF Unlink, TypeOK
  <2> QED
    BY <1>3, <2>1, <2>2
<1>4. wire'[e] = wire[e]
  BY DEF Unlink, TypeOK
<1>5. ASSUME NEW x \in End, host[x] = "none" PROVE wire'[x] = wire[x]
  <2>1. CASE x = e
    BY <1>4, <2>1
  <2>2. CASE x # e
    BY <1>5, <2>2 DEF Unlink, Linked
  <2> QED
    BY <2>1, <2>2
<1> QED
  BY <1>3, <1>4, <1>5 DEF Unlink

LEMMA TellStarts ==
  ASSUME TypeOK, TellInv, Receives, NEW e \in End, RecvS5bFtData(e)
  PROVE  TellInv'
<1> USE Ends, Words DEF Offering, Used, Activating, Before, After, Idle, Empty, Answer, Rests
<1>1. file[e] = "off" /\ told[e] # "none"
  BY DEF RecvS5bFtData
<1>2. /\ file'[e] \in {"find", "done"} /\ \A x \in End : x # e => file'[x] = file[x]
      /\ UNCHANGED <<iq, entry, open, connected, try, host, s5, wire, chunk, closer, told>>
  BY Known DEF RecvS5bFtData, FileAt, CloserAt, TellListener, TellClosed, Handling, place, link, obj
<1>3. Unborn'
  BY <1>1, <1>2, Known, Phases DEF Unborn
<1>4. Negotiates'
  BY <1>1, <1>2, Known, Phases DEF Negotiates
<1>5. TargetRests'
  BY <1>1, <1>2, Known, Phases DEF TargetRests
<1>6. TargetInv'
  BY <1>1, <1>2, Known, Phases DEF TargetInv
<1>7. InitiatorInv'
  BY <1>1, <1>2, Known, Phases DEF InitiatorInv
<1>8. InOrder'
  BY <1>1, <1>2, Known, Phases DEF InOrder
<1>9. Held'
  BY <1>1, <1>2, Known, Phases DEF Held
<1> QED
  BY <1>3, <1>4, <1>5, <1>6, <1>7, <1>8, <1>9 DEF TellInv

LEMMA TellAtOnce ==
  ASSUME TypeOK, TellInv, Receives, NEW e \in End, ConnectAtOnce(e)
  PROVE  TellInv'
<1> USE Ends, Words DEF Offering, Used, Activating, Before, After, Idle, Empty, Answer, Rests
<1>1. file[e] = "connect"
  BY DEF ConnectAtOnce
<1>2. /\ file'[e] \in {"look", "done"} /\ \A x \in End : x # e => file'[x] = file[x]
      /\ UNCHANGED <<iq, entry, open, connected, try, host, s5, wire, chunk, closer, told>>
  BY Known DEF ConnectAtOnce, FileAt, CloserAt, TellListener, TellClosed, Handling, place, link, obj
<1>3. Unborn'
  BY <1>1, <1>2, Known, Phases DEF Unborn
<1>4. Negotiates'
  BY <1>1, <1>2, Known, Phases DEF Negotiates
<1>5. TargetRests'
  BY <1>1, <1>2, Known, Phases DEF TargetRests
<1>6. TargetInv'
  BY <1>1, <1>2, Known, Phases DEF TargetInv
<1>7. InitiatorInv'
  BY <1>1, <1>2, Known, Phases DEF InitiatorInv
<1>8. InOrder'
  BY <1>1, <1>2, Known, Phases DEF InOrder
<1>9. Held'
  BY <1>1, <1>2, Known, Phases DEF Held
<1> QED
  BY <1>3, <1>4, <1>5, <1>6, <1>7, <1>8, <1>9 DEF TellInv

LEMMA TellRecv ==
  ASSUME TypeOK, TellInv, Receives, NEW e \in End, Recv(e)
  PROVE  TellInv'
<1> USE Ends, Words DEF Offering, Used, Activating, Before, After, Idle, Empty, Answer, Rests
<1>1. file[e] = "recv"
  BY DEF Recv
<1>2. /\ file'[e] \in {"select", "done"} /\ \A x \in End : x # e => file'[x] = file[x]
      /\ UNCHANGED <<iq, entry, open, connected, try, host, s5, wire, chunk, closer, told>>
  BY Known DEF Recv, FileAt, CloserAt, TellListener, TellClosed, Handling, place, link, obj
<1>3. Unborn'
  BY <1>1, <1>2, Known, Phases DEF Unborn
<1>4. Negotiates'
  BY <1>1, <1>2, Known, Phases DEF Negotiates
<1>5. TargetRests'
  BY <1>1, <1>2, Known, Phases DEF TargetRests
<1>6. TargetInv'
  BY <1>1, <1>2, Known, Phases DEF TargetInv
<1>7. InitiatorInv'
  BY <1>1, <1>2, Known, Phases DEF InitiatorInv
<1>8. InOrder'
  BY <1>1, <1>2, Known, Phases DEF InOrder
<1>9. Held'
  BY <1>1, <1>2, Known, Phases DEF Held
<1> QED
  BY <1>3, <1>4, <1>5, <1>6, <1>7, <1>8, <1>9 DEF TellInv

LEMMA TellTell ==
  ASSUME TypeOK, TellInv, Receives, NEW e \in End, Tell(e)
  PROVE  TellInv'
<1> USE Ends, Words DEF Offering, Used, Activating, Before, After, Idle, Empty, Answer, Rests
<1>1. file[e] = "tell"
  BY DEF Tell
<1>2. told[e] # "none" /\ (e = T => ~Rests) /\ (e = I => iq = "over")
  BY Known, Phases DEF Unborn, Negotiates, TargetRests, TargetInv, InitiatorInv, InOrder, Held, Tell
<1>3. /\ file' = [file EXCEPT ![e] = "done"]
      /\ told' = [told EXCEPT ![e] = "closed"] /\ entry' = [entry EXCEPT ![e] = FALSE]
      /\ UNCHANGED <<iq, open, connected, try, host, s5, wire, chunk, closer>>
  BY Known DEF Tell, FileAt, CloserAt, TellListener, TellClosed, Handling, place, link, obj
<1>4. Unborn'
  BY <1>1, <1>2, <1>3, Known, Phases DEF Unborn
<1>5. Negotiates'
  BY <1>1, <1>2, <1>3, Known, Phases DEF Negotiates
<1>6. TargetRests'
  BY <1>1, <1>2, <1>3, Known, Phases DEF TargetRests
<1>7. TargetInv'
  BY <1>1, <1>2, <1>3, Known, Phases DEF TargetInv
<1>8. InitiatorInv'
  BY <1>1, <1>2, <1>3, Known, Phases DEF InitiatorInv
<1>9. InOrder'
  BY <1>1, <1>2, <1>3, Known, Phases DEF InOrder
<1>10. Held'
  BY <1>1, <1>2, <1>3, Known, Phases DEF Held
<1> QED
  BY <1>4, <1>5, <1>6, <1>7, <1>8, <1>9, <1>10 DEF TellInv

LEMMA TellClose ==
  ASSUME TypeOK, TellInv, Receives, NEW e \in End, CloseFtBytestream(e)
  PROVE  TellInv'
<1> USE Ends, Words DEF Offering, Used, Activating, Before, After, Idle, Empty, Answer, Rests
<1>1. e = I /\ told[I] = "opened" /\ iq = "over"
  BY Known DEF CloseFtBytestream, Uses, Receives, InOrder
<1>2. UNCHANGED open \/ open' = [open EXCEPT ![e] = FALSE]
  BY DEF CloseFtBytestream, obj
<1>3. UNCHANGED connected \/ connected' = [connected EXCEPT ![e] = FALSE]
  BY DEF CloseFtBytestream, obj
<1>4. CloserAt(e, "crashed") \/ CloserAt(e, "lock") \/ CloserAt(e, "erase")
  BY DEF CloseFtBytestream
<1>5. closer'[T] = closer[T]
  BY <1>1, <1>4, Known DEF CloserAt
<1>6. UNCHANGED <<iq, entry, file, try, host, s5, wire, chunk, told>>
  BY Known DEF CloseFtBytestream, FileAt, CloserAt, TellListener, TellClosed, Handling, place, link, obj
<1>7. Unborn'
  BY <1>1, <1>2, <1>3, <1>4, <1>5, <1>6, Known, Phases DEF Unborn
<1>8. Negotiates'
  BY <1>1, <1>2, <1>3, <1>4, <1>5, <1>6, Known, Phases DEF Negotiates
<1>9. TargetRests'
  BY <1>1, <1>2, <1>3, <1>4, <1>5, <1>6, Known, Phases DEF TargetRests
<1>10. TargetInv'
  BY <1>1, <1>2, <1>3, <1>4, <1>5, <1>6, Known, Phases DEF TargetInv
<1>11. InitiatorInv'
  BY <1>1, <1>2, <1>3, <1>4, <1>5, <1>6, Known, Phases DEF InitiatorInv
<1>12. InOrder'
  BY <1>1, <1>2, <1>3, <1>4, <1>5, <1>6, Known, Phases DEF InOrder
<1>13. Held'
  BY <1>1, <1>2, <1>3, <1>4, <1>5, <1>6, Known, Phases DEF Held
<1> QED
  BY <1>7, <1>8, <1>9, <1>10, <1>11, <1>12, <1>13 DEF TellInv

LEMMA TellCloseTell ==
  ASSUME TypeOK, TellInv, Receives, NEW e \in End, CloseTell(e)
  PROVE  TellInv'
<1> USE Ends, Words DEF Offering, Used, Activating, Before, After, Idle, Empty, Answer, Rests
<1>1. closer[e] = "tell" /\ e = I /\ iq = "over" /\ told[I] # "none"
  BY Known DEF CloseTell, InOrder
<1>2. /\ closer' = [closer EXCEPT ![e] = "erase"]
      /\ told' = [told EXCEPT ![e] = "closed"] /\ entry' = [entry EXCEPT ![e] = FALSE]
      /\ UNCHANGED <<iq, open, connected, file, try, host, s5, wire, chunk>>
  BY Known DEF CloseTell, FileAt, CloserAt, TellListener, TellClosed, Handling, place, link, obj
<1>3. Unborn'
  BY <1>1, <1>2, Known, Phases DEF Unborn
<1>4. Negotiates'
  BY <1>1, <1>2, Known, Phases DEF Negotiates
<1>5. TargetRests'
  BY <1>1, <1>2, Known, Phases DEF TargetRests
<1>6. TargetInv'
  BY <1>1, <1>2, Known, Phases DEF TargetInv
<1>7. InitiatorInv'
  BY <1>1, <1>2, Known, Phases DEF InitiatorInv
<1>8. InOrder'
  BY <1>1, <1>2, Known, Phases DEF InOrder
<1>9. Held'
  BY <1>1, <1>2, Known, Phases DEF Held
<1> QED
  BY <1>3, <1>4, <1>5, <1>6, <1>7, <1>8, <1>9 DEF TellInv

LEMMA TellErase ==
  ASSUME TypeOK, TellInv, Receives, NEW e \in End, CloseErase(e)
  PROVE  TellInv'
<1> USE Ends, Words DEF Offering, Used, Activating, Before, After, Idle, Empty, Answer, Rests
<1>1. closer[e] = "erase" /\ e = I /\ iq = "over" /\ told[I] \in {"opened", "closed"}
  BY Known DEF CloseErase, InOrder
<1>2. /\ closer' = [closer EXCEPT ![e] = "done"]
      /\ entry' = [entry EXCEPT ![e] = FALSE]
      /\ UNCHANGED <<iq, told, open, connected, file, try, host, s5, wire, chunk>>
  BY Known DEF CloseErase, FileAt, CloserAt, TellListener, TellClosed, Handling, place, link, obj
<1>3. Unborn'
  BY <1>1, <1>2, Known, Phases DEF Unborn
<1>4. Negotiates'
  BY <1>1, <1>2, Known, Phases DEF Negotiates
<1>5. TargetRests'
  BY <1>1, <1>2, Known, Phases DEF TargetRests
<1>6. TargetInv'
  BY <1>1, <1>2, Known, Phases DEF TargetInv
<1>7. InitiatorInv'
  BY <1>1, <1>2, Known, Phases DEF InitiatorInv
<1>8. InOrder'
  BY <1>1, <1>2, Known, Phases DEF InOrder
<1>9. Held'
  BY <1>1, <1>2, Known, Phases DEF Held
<1> QED
  BY <1>3, <1>4, <1>5, <1>6, <1>7, <1>8, <1>9 DEF TellInv

LEMMA TellConnected ==
  ASSUME TypeOK, TellInv, Receives, NEW e \in End, Connected(e)
  PROVE  TellInv'
<1> USE Ends, Words DEF Offering, Used, Activating, Before, After, Idle, Empty, Answer, Rests
<1>1. file[e] = "connect" /\ try[e] # <<>>
  BY DEF Connected, Connecting
<1>2. /\ iq = "connecting" /\ told[e] # "none" /\ Empty(e) /\ (e = T => ~Rests /\ told[I] = "none")
      /\ (e = I => told[I] = "created")
  BY <1>1, Known, Phases, ZenonT(60) DEF Unborn, Negotiates, TargetRests, TargetInv, InitiatorInv, InOrder, Held
<1>3. Leads(Head(try[e])) \in {"server", "own", "proxy"}
  BY DEF Connected, Leads
<1>4. /\ file' = [file EXCEPT ![e] = "look"] /\ host' = [host EXCEPT ![e] = Leads(Head(try[e]))]
      /\ try' = [try EXCEPT ![e] = Tail(try[e])] /\ s5' = [s5 EXCEPT ![e] = "connecting"]
      /\ connected' = [connected EXCEPT ![e] = TRUE]
      /\ UNCHANGED <<iq, entry, open, wire, chunk, closer, told>>
  BY Known DEF Connected, FileAt, CloserAt, TellListener, TellClosed, Handling, place, link, obj
<1>5. Unborn'
  BY <1>1, <1>2, <1>3, <1>4, Known, Phases DEF Unborn
<1>6. Negotiates'
  BY <1>1, <1>2, <1>3, <1>4, Known, Phases, ZenonT(60) DEF Negotiates
<1>7. TargetRests'
  BY <1>1, <1>2, <1>3, <1>4, Known, Phases DEF TargetRests
<1>8. TargetInv'
  BY <1>1, <1>2, <1>3, <1>4, Known, Phases DEF TargetInv
<1>9. InitiatorInv'
  BY <1>1, <1>2, <1>3, <1>4, Known, Phases DEF InitiatorInv
<1>10. InOrder'
  BY <1>1, <1>2, <1>3, <1>4, Known, Phases DEF InOrder
<1>11. Held'
  BY <1>1, <1>2, <1>3, <1>4, Known, Phases DEF Held
<1> QED
  BY <1>5, <1>6, <1>7, <1>8, <1>9, <1>10, <1>11 DEF TellInv

LEMMA TellNotConnected ==
  ASSUME TypeOK, TellInv, Receives, NEW e \in End, NotConnected(e)
  PROVE  TellInv'
<1> USE Ends, Words DEF Offering, Used, Activating, Before, After, Idle, Empty, Answer, Rests
<1>1. file[e] = "connect" /\ try[e] # <<>>
  BY DEF NotConnected, Connecting
<1>2. /\ iq = "connecting" /\ told[e] # "none" /\ Empty(e) /\ (e = T => ~Rests /\ told[I] = "none")
      /\ (e = I => told[I] = "created")
  BY <1>1, Known, Phases, ZenonT(60) DEF Unborn, Negotiates, TargetRests, TargetInv, InitiatorInv, InOrder, Held
<1>3. /\ try' = [try EXCEPT ![e] = Tail(try[e])]
      /\ UNCHANGED <<iq, open, host, s5, wire, chunk, closer>>
  BY DEF NotConnected, link, obj
<1>4. ASSUME UNCHANGED <<connected, told, entry, file>> PROVE TellInv'
  <2>1. Unborn'
    BY <1>1, <1>2, <1>3, <1>4, Known, Phases DEF Unborn
  <2>2. Negotiates'
    BY <1>1, <1>2, <1>3, <1>4, Known, Phases DEF Negotiates
  <2>3. TargetRests'
    BY <1>1, <1>2, <1>3, <1>4, Known, Phases DEF TargetRests
  <2>4. TargetInv'
    BY <1>1, <1>2, <1>3, <1>4, Known, Phases DEF TargetInv
  <2>5. InitiatorInv'
    BY <1>1, <1>2, <1>3, <1>4, Known, Phases DEF InitiatorInv
  <2>6. InOrder'
    BY <1>1, <1>2, <1>3, <1>4, Known, Phases DEF InOrder
  <2>7. Held'
    BY <1>1, <1>2, <1>3, <1>4, Known, Phases DEF Held
  <2> QED
    BY <2>1, <2>2, <2>3, <2>4, <2>5, <2>6, <2>7 DEF TellInv
<1>5. ASSUME connected' = [connected EXCEPT ![e] = TRUE], file' = [file EXCEPT ![e] = "done"],
           told' = [told EXCEPT ![e] = "closed"], entry' = [entry EXCEPT ![e] = FALSE]
     PROVE TellInv'
  <2>1. Unborn'
    BY <1>1, <1>2, <1>3, <1>5, Known, Phases DEF Unborn
  <2>2. Negotiates'
    BY <1>1, <1>2, <1>3, <1>5, Known, Phases DEF Negotiates
  <2>3. TargetRests'
    BY <1>1, <1>2, <1>3, <1>5, Known, Phases DEF TargetRests
  <2>4. TargetInv'
    BY <1>1, <1>2, <1>3, <1>5, Known, Phases DEF TargetInv
  <2>5. InitiatorInv'
    BY <1>1, <1>2, <1>3, <1>5, Known, Phases DEF InitiatorInv
  <2>6. InOrder'
    BY <1>1, <1>2, <1>3, <1>5, Known, Phases DEF InOrder
  <2>7. Held'
    BY <1>1, <1>2, <1>3, <1>5, Known, Phases DEF Held
  <2> QED
    BY <2>1, <2>2, <2>3, <2>4, <2>5, <2>6, <2>7 DEF TellInv
<1> QED
  BY <1>4, <1>5 DEF NotConnected, FileAt, CloserAt, TellListener, TellClosed, Handling, place, link, obj

LEMMA NotResting ==
  ASSUME TypeOK, TellInv, ~Rests
  PROVE  told[I] = "created" => iq = "over"
BY Known, Phases DEF Rests, InOrder, Offering, Used, Activating

LEMMA Handles ==
  ASSUME TypeOK, TellInv, NEW e \in End, file[e] = "handle"
  PROVE  /\ chunk[e] # <<>> /\ told[e] # "none" /\ (e = T => told[T] # "closed" /\ ~Rests)
         /\ (e = I => iq = "over" \/ (told[I] = "created" /\ iq = "connecting" /\ s5[I] \in Shaking))
         /\ s5[e] \in Shaking =>
              iq = "connecting" /\ wire[e] = <<>> /\ chunk[e] \in Answering
<1> USE Ends, Words DEF Offering, Used, Activating, Before, After, Idle, Empty, Answer, Rests
<1>1. chunk[e] # <<>>
  BY Known DEF Held
<1>2. told[e] # "none"
  BY Known DEF Unborn
<1>3. e = T => told[T] # "closed" /\ ~Rests
  BY <1>1, Known DEF TargetInv, TargetRests
<1>4. s5[e] \in Shaking => iq = "connecting" /\ wire[e] = <<>> /\ chunk[e] \in Answering
  BY <1>1, Known DEF Negotiates
<1>5. e = I => iq = "over" \/ (told[I] = "created" /\ iq = "connecting" /\ s5[I] \in Shaking)
  <2>1. CASE told[I] = "created"
    BY <1>1, <1>4, <2>1, Known DEF InitiatorInv
  <2>2. CASE told[I] = "closed"
    BY <2>2, Known DEF InitiatorInv
  <2>3. CASE told[I] = "opened"
    BY <2>3, Known DEF InOrder
  <2> QED
    BY <1>2, <2>1, <2>2, <2>3, Phases
<1> QED
  BY <1>1, <1>2, <1>3, <1>4, <1>5

LEMMA TellLook ==
  ASSUME TypeOK, TellInv, Receives, NEW e \in End, Look(e)
  PROVE  TellInv'
<1> USE Ends, Words DEF Offering, Used, Activating, Before, After, Idle, Empty, Answer, Rests
<1>1. file[e] \in {"find", "look"}
  BY DEF Look
<1>2. ASSUME entry[e],
           file' = [file EXCEPT ![e] = IF file[e] = "find" THEN "connect" ELSE "recv"],
           UNCHANGED <<iq, entry, open, connected, try, host, s5, wire, chunk, closer, told>>
      PROVE TellInv'
  <2>1. Unborn'
    BY <1>1, <1>2, Known, Phases DEF Unborn
  <2>2. Negotiates'
    BY <1>1, <1>2, Known, Phases DEF Negotiates
  <2>3. TargetRests'
    BY <1>1, <1>2, Known, Phases DEF TargetRests
  <2>4. TargetInv'
    BY <1>1, <1>2, Known, Phases DEF TargetInv
  <2>5. InitiatorInv'
    BY <1>1, <1>2, Known, Phases DEF InitiatorInv
  <2>6. InOrder'
    BY <1>1, <1>2, Known, Phases DEF InOrder
  <2>7. Held'
    BY <1>1, <1>2, Known, Phases DEF Held
  <2> QED
    BY <2>1, <2>2, <2>3, <2>4, <2>5, <2>6, <2>7 DEF TellInv
<1>3. ASSUME ~entry[e], file' = [file EXCEPT ![e] = "crashed"], Unlink(e),
           UNCHANGED <<iq, entry, open, connected, try, chunk, closer, told>>
      PROVE TellInv'
  <2>1. /\ told[e] # "none" /\ (e = T => told[T] = "closed" /\ ~Rests)
        /\ e = I => iq = "over" \/ (told[I] = "closed" /\ iq = "connecting")
    <3>1. told[e] # "none"
      BY <1>1, Known DEF Unborn
    <3>2. told[e] \in {"created", "opened", "closed"}
      BY <3>1, Phases
    <3>3. e = T => told[T] = "closed"
      BY <1>3, <3>2, Known DEF TargetInv
    <3>4. e = T => ~Rests
      BY <3>3, Known DEF TargetRests
    <3>5. e = I => iq = "over" \/ (told[I] = "closed" /\ iq = "connecting")
      BY <1>3, <3>2, Known DEF InitiatorInv, InOrder
    <3> QED
      BY <3>1, <3>3, <3>4, <3>5
  <2>2. /\ host' = [host EXCEPT ![e] = "none"] /\ s5' = [s5 EXCEPT ![e] = "disconnected"]
        /\ wire'[e] = wire[e] /\ (\A x \in End : host[x] = "none" => wire'[x] = wire[x])
        /\ \A x \in End : No("data", wire[x]) => No("data", wire'[x])
    BY <1>3, UnlinkKeeps
  <2>3. e = T => (told[I] = "created" => iq = "over")
    BY <2>1, NotResting
  <2>4. \A x \in End : s5'[x] \notin Shaking
    BY <2>1, <2>2, Known DEF Negotiates
  <2>5. Unborn'
    <3> SUFFICES ASSUME NEW x \in End, told[x] = "none"
                 PROVE  (/\ file[x] = "off" /\ host[x] = "none" /\ s5[x] = "disconnected"
                         /\ try[x] = <<>> /\ Empty(x))'
      BY <1>3 DEF Unborn
    <3>1. x # e /\ file[x] = "off" /\ host[x] = "none" /\ s5[x] = "disconnected"
          /\ try[x] = <<>> /\ wire[x] = <<>> /\ chunk[x] = <<>>
      BY <2>1, Known DEF Unborn
    <3> QED
      BY <3>1, <1>3, <2>2, Known
  <2>6. Negotiates'
    BY <1>1, <1>3, <2>1, <2>2, <2>3, <2>4, Known, Phases DEF Negotiates
  <2>7. TargetRests'
    BY <1>1, <1>3, <2>1, <2>2, <2>3, <2>4, Known, Phases DEF TargetRests
  <2>8. TargetInv'
    BY <1>1, <1>3, <2>1, <2>2, <2>3, <2>4, Known, Phases DEF TargetInv
  <2>9. InitiatorInv'
    BY <1>1, <1>3, <2>1, <2>2, <2>3, <2>4, Known, Phases DEF InitiatorInv
  <2>10. InOrder'
    BY <1>1, <1>3, <2>1, <2>2, <2>3, <2>4, Known, Phases DEF InOrder
  <2>11. Held'
    BY <1>1, <1>3, <2>1, <2>2, <2>3, <2>4, Known, Phases DEF Held
  <2> QED
    BY <2>5, <2>6, <2>7, <2>8, <2>9, <2>10, <2>11 DEF TellInv
<1> QED
  BY <1>2, <1>3 DEF Look, FileAt, CloserAt, TellListener, TellClosed, Handling, place, link, obj

LEMMA TellRead ==
  ASSUME TypeOK, TellInv, Receives, NEW e \in End, Read(e)
  PROVE  TellInv'
<1> USE Ends, Words DEF Offering, Used, Activating, Before, After, Idle, Empty, Answer, Rests
<1>1. file[e] = "select"
  BY DEF Read
<1>2. PICK n \in 1..Len(wire[e]) :
          /\ chunk' = [chunk EXCEPT ![e] = SubSeq(wire[e], 1, n)]
          /\ wire' = [wire EXCEPT ![e] = SubSeq(wire[e], n + 1, Len(wire[e]))]
  BY DEF Read
<1>3. /\ wire[e] # <<>> /\ SubSeq(wire[e], 1, n) # <<>>
      /\ \A unit : No(unit, wire[e]) => /\ No(unit, SubSeq(wire[e], 1, n))
                                        /\ No(unit, SubSeq(wire[e], n + 1, Len(wire[e])))
  BY Phases, NoSplit
<1>4. /\ told[e] # "none" /\ (e = T => ~Rests)
      /\ (e = I => iq = "over" \/ (told[I] = "created" /\ s5[I] \in Shaking))
  BY <1>1, <1>3, Known, Phases DEF Unborn, Negotiates, TargetRests, TargetInv, InitiatorInv, InOrder, Held
<1>5. s5[e] \in Shaking => /\ chunk'[e] \in Answering /\ wire'[e] = <<>>
                              /\ chunk'[e] = wire[e] /\ chunk[e] = <<>>
  BY <1>2, <1>3, ReadAnswer, Known DEF Negotiates
<1>6. /\ chunk'[e] # <<>> /\ (No("data", wire[e]) => No("data", chunk'[e]) /\ No("data", wire'[e]))
      /\ \A x \in End : x # e => chunk'[x] = chunk[x] /\ wire'[x] = wire[x]
  BY <1>2, <1>3, Known
<1>7. \A x \in End : s5[x] \in Shaking =>
           \/ wire'[x] = <<>> /\ chunk'[x] \in Answering \union {<<>>}
           \/ chunk'[x] = <<>> /\ wire'[x] \in Answering
  BY <1>5, <1>6, Known DEF Negotiates
<1>8. wire'[T] = <<"ok">> \/ chunk'[T] = <<"ok">> =>
           s5[T] \notin Shaking \/ wire[T] = <<"ok">> \/ chunk[T] = <<"ok">>
  BY <1>5, <1>6
<1>9. /\ file' = [file EXCEPT ![e] = "handle"]
      /\ UNCHANGED <<iq, entry, open, connected, try, host, s5, closer, told>>
  BY Known DEF Read, FileAt, CloserAt, TellListener, TellClosed, Handling, place, link, obj
<1>10. Unborn'
  BY <1>1, <1>2, <1>3, <1>4, <1>5, <1>6, <1>7, <1>8, <1>9, Known, Phases, ZenonT(60) DEF Unborn
<1>11. Negotiates'
  <2>1. \A x \in End : s5[x] \in Shaking => (iq = "connecting" /\ told[x] # "none" /\ connected[x] /\ Answer(x))'
    BY <1>7, <1>9, Known DEF Negotiates
  <2>2. s5[T] \in Shaking => told[I] = "none"
    BY Known DEF Negotiates
  <2>3. s5[T] \in Shaking /\ (wire'[T] = <<"ok">> \/ chunk'[T] = <<"ok">>) => host[T] \in {"server", "proxy"}
    BY <1>8, Known DEF Negotiates
  <2> QED
    BY <1>9, <2>1, <2>2, <2>3 DEF Negotiates
<1>12. TargetRests'
  BY <1>1, <1>2, <1>3, <1>4, <1>5, <1>6, <1>7, <1>8, <1>9, Known, Phases DEF TargetRests
<1>13. TargetInv'
  BY <1>1, <1>2, <1>3, <1>4, <1>5, <1>6, <1>7, <1>8, <1>9, Known, Phases DEF TargetInv
<1>14. InitiatorInv'
  BY <1>1, <1>2, <1>3, <1>4, <1>5, <1>6, <1>7, <1>8, <1>9, Known, Phases DEF InitiatorInv
<1>15. InOrder'
  BY <1>1, <1>2, <1>3, <1>4, <1>5, <1>6, <1>7, <1>8, <1>9, Known, Phases DEF InOrder
<1>16. Held'
  BY <1>1, <1>2, <1>3, <1>4, <1>5, <1>6, <1>7, <1>8, <1>9, Known, Phases DEF Held
<1> QED
  BY <1>10, <1>11, <1>12, <1>13, <1>14, <1>15, <1>16 DEF TellInv

LEMMA TellEof ==
  ASSUME TypeOK, TellInv, Receives, NEW e \in End, HandleEof(e)
  PROVE  TellInv'
<1> USE Ends, Words DEF Offering, Used, Activating, Before, After, Idle, Empty, Answer, Rests
<1>1. /\ file[e] = "handle" /\ chunk[e] # <<>> /\ told[e] # "none" /\ (e = T => told[T] # "closed" /\ ~Rests)
      /\ (e = I => iq = "over" \/ (told[I] = "created" /\ iq = "connecting" /\ s5[I] \in Shaking))
      /\ s5[e] \in Shaking =>
           iq = "connecting" /\ wire[e] = <<>> /\ chunk[e] \in Answering
  <2>1. file[e] = "handle"
    BY DEF HandleEof, Handling
  <2> QED
    BY <2>1, Handles
<1>2. s5[e] \notin Shaking /\ (e = I => iq = "over")
  <2>1. Head(chunk[e]) = "eof"
    BY DEF HandleEof
  <2>2. s5[e] \notin Shaking
    BY <1>1, <2>1
  <2> QED
    BY <1>1, <2>2
<1>3. /\ host' = [host EXCEPT ![e] = "none"] /\ s5' = [s5 EXCEPT ![e] = "disconnected"]
      /\ wire'[e] = wire[e] /\ (\A x \in End : host[x] = "none" => wire'[x] = wire[x])
      /\ \A x \in End : No("data", wire[x]) => No("data", wire'[x])
  BY UnlinkKeeps DEF HandleEof
<1>4. e = T => (told[I] = "created" => iq = "over")
  BY <1>1, NotResting
<1>5. \A x \in End : s5'[x] \notin Shaking
  BY <1>1, <1>2, <1>3, Known DEF Negotiates
<1>6. /\ file'[e] \in {"tell", "done"} /\ \A x \in End : x # e => file'[x] = file[x]
  BY Known DEF HandleEof, FileAt
<1>7. No("data", <<>>)
  BY DEF No
<1>8. /\ chunk' = [chunk EXCEPT ![e] = <<>>]
      /\ UNCHANGED <<iq, entry, open, connected, try, closer, told>>
  BY Known DEF HandleEof, FileAt, CloserAt, TellListener, TellClosed, Handling, place, link, obj
<1>9. Unborn'
  <2> SUFFICES ASSUME NEW x \in End, told[x] = "none"
               PROVE  (/\ file[x] = "off" /\ host[x] = "none" /\ s5[x] = "disconnected"
                       /\ try[x] = <<>> /\ Empty(x))'
    BY <1>8 DEF Unborn
  <2>1. x # e /\ file[x] = "off" /\ host[x] = "none" /\ s5[x] = "disconnected"
        /\ try[x] = <<>> /\ wire[x] = <<>> /\ chunk[x] = <<>>
    BY <1>1, Known DEF Unborn
  <2> QED
    BY <2>1, <1>3, <1>6, <1>8, Known
<1>10. Negotiates'
  BY <1>1, <1>2, <1>3, <1>4, <1>5, <1>6, <1>7, <1>8, Known, Phases DEF Negotiates
<1>11. TargetRests'
  BY <1>1, <1>2, <1>3, <1>4, <1>5, <1>6, <1>7, <1>8, Known, Phases DEF TargetRests
<1>12. TargetInv'
  BY <1>1, <1>2, <1>3, <1>4, <1>5, <1>6, <1>7, <1>8, Known, Phases DEF TargetInv
<1>13. InitiatorInv'
  BY <1>1, <1>2, <1>3, <1>4, <1>5, <1>6, <1>7, <1>8, Known, Phases DEF InitiatorInv
<1>14. InOrder'
  BY <1>1, <1>2, <1>3, <1>4, <1>5, <1>6, <1>7, <1>8, Known, Phases DEF InOrder
<1>15. Held'
  BY <1>1, <1>2, <1>3, <1>4, <1>5, <1>6, <1>7, <1>8, Known, Phases, ZenonT(60) DEF Held
<1> QED
  BY <1>9, <1>10, <1>11, <1>12, <1>13, <1>14, <1>15 DEF TellInv

LEMMA TellMethod ==
  ASSUME TypeOK, TellInv, Receives, NEW e \in End, HandleMethod(e)
  PROVE  TellInv'
<1> USE Ends, Words DEF Offering, Used, Activating, Before, After, Idle, Empty, Answer, Rests
<1>1. /\ file[e] = "handle" /\ chunk[e] # <<>> /\ told[e] # "none" /\ (e = T => told[T] # "closed" /\ ~Rests)
      /\ (e = I => iq = "over" \/ (told[I] = "created" /\ iq = "connecting" /\ s5[I] \in Shaking))
      /\ s5[e] \in Shaking =>
           iq = "connecting" /\ wire[e] = <<>> /\ chunk[e] \in Answering
  <2>1. file[e] = "handle"
    BY DEF HandleMethod, Handling
  <2> QED
    BY <2>1, Handles
<1>2. /\ s5[e] \in Shaking /\ iq = "connecting" /\ wire[e] = <<>> /\ connected[e] /\ (e = I => Rests)
      /\ (e = T => told[I] = "none")
  BY <1>1, Known, Phases DEF Negotiates, HandleMethod
<1>3. No("data", <<>>)
  BY DEF No
<1>4. /\ chunk' = [chunk EXCEPT ![e] = <<>>] /\ file' = [file EXCEPT ![e] = "look"]
      /\ s5' = [s5 EXCEPT ![e] = "negotiating"]
      /\ UNCHANGED <<iq, entry, open, connected, try, host, wire, closer, told>>
  BY Known DEF HandleMethod, FileAt, CloserAt, TellListener, TellClosed, Handling, place, link, obj
<1>5. \A x \in End : s5'[x] \in Shaking <=> s5[x] \in Shaking
  BY <1>2, <1>4, Known
<1>6. Unborn'
  <2> SUFFICES ASSUME NEW x \in End, told[x] = "none"
               PROVE  (/\ file[x] = "off" /\ host[x] = "none" /\ s5[x] = "disconnected"
                       /\ try[x] = <<>> /\ Empty(x))'
    BY <1>4 DEF Unborn
  <2> QED
    BY <1>1, <1>4, Known DEF Unborn
<1>7. Negotiates'
  <2>1. s5[T] \in Shaking => told[I] = "none"
    BY Known DEF Negotiates
  <2>2. \A x \in End : s5[x] \in Shaking => (iq = "connecting" /\ told[x] # "none" /\ connected[x] /\ Answer(x))'
    <3> SUFFICES ASSUME NEW x \in End, s5[x] \in Shaking
                 PROVE  (iq = "connecting" /\ told[x] # "none" /\ connected[x] /\ Answer(x))'
      OBVIOUS
    <3>1. iq = "connecting" /\ told[x] # "none" /\ connected[x] /\ Answer(x)
      BY Known DEF Negotiates
    <3>2. wire'[x] = wire[x] /\ (chunk'[x] = chunk[x] \/ (chunk'[x] = <<>> /\ wire[x] = <<>>))
      BY <1>2, <1>4, Known
    <3> QED
      BY <1>4, <3>1, <3>2
  <2>3. s5[T] \in Shaking /\ (wire'[T] = <<"ok">> \/ chunk'[T] = <<"ok">>) => host[T] \in {"server", "proxy"}
    <3>1. wire'[T] = wire[T] /\ (chunk'[T] = chunk[T] \/ chunk'[T] = <<>>)
      BY <1>4, Known
    <3> QED
      BY <3>1, Known DEF Negotiates
  <2> QED
    BY <1>4, <1>5, <2>1, <2>2, <2>3 DEF Negotiates
<1>8. TargetRests'
  BY <1>1, <1>2, <1>4, <1>5, Known, Phases DEF TargetRests
<1>9. TargetInv'
  BY <1>1, <1>2, <1>4, <1>5, Known, Phases DEF TargetInv
<1>10. InitiatorInv'
  BY <1>1, <1>2, <1>3, <1>4, <1>5, Known, Phases DEF InitiatorInv
<1>11. InOrder'
  BY <1>1, <1>2, <1>4, <1>5, Known, Phases DEF InOrder
<1>12. Held'
  BY <1>1, <1>2, <1>4, <1>5, Known, Phases DEF Held
<1> QED
  BY <1>6, <1>7, <1>8, <1>9, <1>10, <1>11, <1>12 DEF TellInv

LEMMA TellReply ==
  ASSUME TypeOK, TellInv, Receives, NEW e \in End, HandleReply(e)
  PROVE  TellInv'
<1> USE Ends, Words DEF Offering, Used, Activating, Before, After, Idle, Empty, Answer, Rests
<1>1. /\ file[e] = "handle" /\ chunk[e] # <<>> /\ told[e] # "none" /\ (e = T => told[T] # "closed" /\ ~Rests)
      /\ (e = I => iq = "over" \/ (told[I] = "created" /\ iq = "connecting" /\ s5[I] \in Shaking))
      /\ s5[e] \in Shaking =>
           iq = "connecting" /\ wire[e] = <<>> /\ chunk[e] \in Answering
  <2>1. file[e] = "handle"
    BY DEF HandleReply, Handling
  <2> QED
    BY <2>1, Handles
<1>2. /\ s5[e] \in Shaking /\ iq = "connecting" /\ wire[e] = <<>> /\ chunk[e] = <<"ok">> /\ (e = I => Rests)
      /\ (e = T => told[I] = "none" /\ told[T] = "created" /\ host[T] \in {"server", "proxy"})
  <2>1. Head(chunk[e]) = "ok" /\ s5[e] \in Shaking
    BY DEF HandleReply
  <2>2. chunk[e] = <<"ok">>
    BY <1>1, <2>1
  <2>3. e = T => told[I] = "none" /\ host[T] \in {"server", "proxy"}
    BY <2>1, <2>2, Known DEF Negotiates
  <2>4. e = T => told[T] = "created"
    BY <1>1, <2>3, Known, Phases DEF TargetInv
  <2> QED
    BY <1>1, <2>1, <2>2, <2>3, <2>4
<1>3. \A x \in End : s5'[x] \notin Shaking
  <2>1. s5' = [s5 EXCEPT ![e] = "connected"]
    BY DEF HandleReply
  <2> QED
    BY <1>1, <1>2, <2>1, Known DEF Negotiates
<1>4. iq' = IF e = I THEN "activate" ELSE IF host[T] = "proxy" THEN "used proxy" ELSE "used loop"
  BY DEF HandleReply
<1>5. No("data", <<>>)
  BY DEF No
<1>6. /\ chunk' = [chunk EXCEPT ![e] = <<>>] /\ file' = [file EXCEPT ![e] = "look"]
      /\ s5' = [s5 EXCEPT ![e] = "connected"]
      /\ UNCHANGED <<entry, open, connected, try, host, wire, closer, told>>
  BY Known DEF HandleReply, FileAt, CloserAt, TellListener, TellClosed, Handling, place, link, obj
<1>7. Unborn'
  BY <1>1, <1>2, <1>3, <1>4, <1>5, <1>6, Known, Phases DEF Unborn
<1>8. Negotiates'
  BY <1>1, <1>2, <1>3, <1>4, <1>5, <1>6, Known, Phases DEF Negotiates
<1>9. TargetRests'
  BY <1>1, <1>2, <1>3, <1>4, <1>5, <1>6, Known, Phases DEF TargetRests
<1>10. TargetInv'
  BY <1>1, <1>2, <1>3, <1>4, <1>5, <1>6, Known, Phases DEF TargetInv
<1>11. InitiatorInv'
  BY <1>1, <1>2, <1>3, <1>4, <1>5, <1>6, Known, Phases DEF InitiatorInv
<1>12. InOrder'
  BY <1>1, <1>2, <1>3, <1>4, <1>5, <1>6, Known, Phases DEF InOrder
<1>13. Held'
  BY <1>1, <1>2, <1>3, <1>4, <1>5, <1>6, Known, Phases DEF Held
<1> QED
  BY <1>7, <1>8, <1>9, <1>10, <1>11, <1>12, <1>13 DEF TellInv

LEMMA TellRefusal ==
  ASSUME TypeOK, TellInv, Receives, NEW e \in End, HandleRefusal(e)
  PROVE  TellInv'
<1> USE Ends, Words DEF Offering, Used, Activating, Before, After, Idle, Empty, Answer, Rests
<1>1. /\ file[e] = "handle" /\ chunk[e] # <<>> /\ told[e] # "none" /\ (e = T => told[T] # "closed" /\ ~Rests)
      /\ (e = I => iq = "over" \/ (told[I] = "created" /\ iq = "connecting" /\ s5[I] \in Shaking))
      /\ s5[e] \in Shaking =>
           iq = "connecting" /\ wire[e] = <<>> /\ chunk[e] \in Answering
  <2>1. file[e] = "handle"
    BY DEF HandleRefusal, Handling
  <2> QED
    BY <2>1, Handles
<1>2. /\ s5[e] \in Shaking /\ iq = "connecting" /\ wire[e] = <<>> /\ connected[e] /\ (e = I => Rests)
      /\ (e = T => told[I] = "none")
  BY <1>1, Known, Phases DEF Unborn, Negotiates, TargetRests, TargetInv, InitiatorInv, InOrder, Held, HandleRefusal
<1>3. /\ told' = [told EXCEPT ![e] = "closed"] /\ entry' = [entry EXCEPT ![e] = FALSE]
  BY <1>2 DEF HandleRefusal, TellClosed, TellListener
<1>4. No("data", <<>>)
  BY DEF No
<1>5. /\ chunk' = [chunk EXCEPT ![e] = <<>>] /\ file' = [file EXCEPT ![e] = "look"]
      /\ UNCHANGED <<iq, open, connected, try, host, s5, wire, closer>>
  BY Known DEF HandleRefusal, FileAt, CloserAt, TellListener, TellClosed, Handling, place, link, obj
<1>6. Unborn'
  BY <1>1, <1>2, <1>3, <1>4, <1>5, Known, Phases DEF Unborn
<1>7. Negotiates'
  BY <1>1, <1>2, <1>3, <1>4, <1>5, Known, Phases DEF Negotiates
<1>8. TargetRests'
  BY <1>1, <1>2, <1>3, <1>4, <1>5, Known, Phases DEF TargetRests
<1>9. TargetInv'
  BY <1>1, <1>2, <1>3, <1>4, <1>5, Known, Phases DEF TargetInv
<1>10. InitiatorInv'
  BY <1>1, <1>2, <1>3, <1>4, <1>5, Known, Phases DEF InitiatorInv
<1>11. InOrder'
  BY <1>1, <1>2, <1>3, <1>4, <1>5, Known, Phases DEF InOrder
<1>12. Held'
  BY <1>1, <1>2, <1>3, <1>4, <1>5, Known, Phases DEF Held
<1> QED
  BY <1>6, <1>7, <1>8, <1>9, <1>10, <1>11, <1>12 DEF TellInv

LEMMA TellData ==
  ASSUME TypeOK, TellInv, Receives, NEW e \in End, HandleData(e)
  PROVE  TellInv'
<1> USE Ends, Words DEF Offering, Used, Activating, Before, After, Idle, Empty, Answer, Rests
<1>1. /\ file[e] = "handle" /\ chunk[e] # <<>> /\ told[e] # "none" /\ (e = T => told[T] # "closed" /\ ~Rests)
      /\ (e = I => iq = "over" \/ (told[I] = "created" /\ iq = "connecting" /\ s5[I] \in Shaking))
      /\ s5[e] \in Shaking =>
           iq = "connecting" /\ wire[e] = <<>> /\ chunk[e] \in Answering
  <2>1. file[e] = "handle"
    BY DEF HandleData, Handling
  <2> QED
    BY <2>1, Handles
<1>2. /\ s5[e] \notin Shaking /\ e = T
  <2>1. Head(chunk[e]) = "data" /\ s5[e] \notin Shaking
    BY DEF HandleData
  <2>2. No("data", chunk[I]) /\ chunk[e] \in Seq(Unit)
    BY Known, Phases DEF InitiatorInv
  <2>3. chunk[e] # <<>>
    BY <1>1
  <2>4. No("data", chunk[e]) => Head(chunk[e]) # "data"
    <3> HIDE DEF I, T, End, Unit
    <3> QED
      BY <2>2, <2>3, FirstUnit
  <2> QED
    BY <2>1, <2>2, <2>4
<1>3. No("data", <<>>)
  BY DEF No
<1>4. /\ chunk' = [chunk EXCEPT ![e] = <<>>] /\ file' = [file EXCEPT ![e] = "look"]
      /\ UNCHANGED <<iq, entry, connected, try, host, s5, wire, closer>>
  BY DEF HandleData, Handling, FileAt, link, place
<1>5. ASSUME UNCHANGED <<open, told>> PROVE TellInv'
  <2>1. Unborn'
    BY <1>1, <1>2, <1>3, <1>4, <1>5, Known, Phases DEF Unborn
  <2>2. Negotiates'
    BY <1>1, <1>2, <1>3, <1>4, <1>5, Known, Phases DEF Negotiates
  <2>3. TargetRests'
    BY <1>1, <1>2, <1>3, <1>4, <1>5, Known, Phases DEF TargetRests
  <2>4. TargetInv'
    BY <1>1, <1>2, <1>3, <1>4, <1>5, Known, Phases DEF TargetInv
  <2>5. InitiatorInv'
    BY <1>1, <1>2, <1>3, <1>4, <1>5, Known, Phases DEF InitiatorInv
  <2>6. InOrder'
    BY <1>1, <1>2, <1>3, <1>4, <1>5, Known, Phases DEF InOrder
  <2>7. Held'
    BY <1>1, <1>2, <1>3, <1>4, <1>5, Known, Phases DEF Held
  <2> QED
    BY <2>1, <2>2, <2>3, <2>4, <2>5, <2>6, <2>7 DEF TellInv
<1>6. ASSUME open[T], open' = [open EXCEPT ![T] = TRUE], UNCHANGED told
     PROVE TellInv'
  <2>1. Unborn'
    BY <1>1, <1>2, <1>3, <1>4, <1>6, Known, Phases DEF Unborn
  <2>2. Negotiates'
    BY <1>1, <1>2, <1>3, <1>4, <1>6, Known, Phases DEF Negotiates
  <2>3. TargetRests'
    BY <1>1, <1>2, <1>3, <1>4, <1>6, Known, Phases DEF TargetRests
  <2>4. TargetInv'
    BY <1>1, <1>2, <1>3, <1>4, <1>6, Known, Phases DEF TargetInv
  <2>5. InitiatorInv'
    BY <1>1, <1>2, <1>3, <1>4, <1>6, Known, Phases DEF InitiatorInv
  <2>6. InOrder'
    BY <1>1, <1>2, <1>3, <1>4, <1>6, Known, Phases DEF InOrder
  <2>7. Held'
    BY <1>1, <1>2, <1>3, <1>4, <1>6, Known, Phases DEF Held
  <2> QED
    BY <2>1, <2>2, <2>3, <2>4, <2>5, <2>6, <2>7 DEF TellInv
<1>7. ASSUME s5[T] = "connected", open' = [open EXCEPT ![T] = TRUE],
           told' = [told EXCEPT ![T] = "opened"]
      PROVE TellInv'
  <2>1. told[I] # "none"
    BY <1>1, <1>7, Known, Phases DEF Unborn, Negotiates, TargetRests, TargetInv, InitiatorInv, InOrder, Held
  <2>2. Unborn'
    BY <1>1, <1>2, <1>3, <1>4, <1>7, <2>1, Known, Phases DEF Unborn
  <2>3. Negotiates'
    BY <1>1, <1>2, <1>3, <1>4, <1>7, <2>1, Known, Phases DEF Negotiates
  <2>4. TargetRests'
    BY <1>1, <1>2, <1>3, <1>4, <1>7, <2>1, Known, Phases DEF TargetRests
  <2>5. TargetInv'
    BY <1>1, <1>2, <1>3, <1>4, <1>7, <2>1, Known, Phases DEF TargetInv
  <2>6. InitiatorInv'
    BY <1>1, <1>2, <1>3, <1>4, <1>7, <2>1, Known, Phases DEF InitiatorInv
  <2>7. InOrder'
    BY <1>1, <1>2, <1>3, <1>4, <1>7, <2>1, Known, Phases DEF InOrder
  <2>8. Held'
    BY <1>1, <1>2, <1>3, <1>4, <1>7, <2>1, Known, Phases DEF Held
  <2> QED
    BY <2>2, <2>3, <2>4, <2>5, <2>6, <2>7, <2>8 DEF TellInv
<1> QED
  BY <1>2, <1>5, <1>6, <1>7, Known DEF HandleData, FileAt, CloserAt, TellListener, TellClosed, Handling, place, link, obj

LEMMA TellAnswers ==
  ASSUME TypeOK, TellInv, Receives, NEW e \in End, HostAnswers(e)
  PROVE  TellInv'
<1> USE Ends, Words DEF Offering, Used, Activating, Before, After, Idle, Empty, Answer, Rests
<1>1. /\ s5[e] \in Shaking /\ iq = "connecting" /\ Empty(e) /\ told[e] # "none" /\ (e = T => ~Rests)
  BY Known, Phases DEF Unborn, Negotiates, TargetRests, TargetInv, InitiatorInv, InOrder, Held, HostAnswers
<1>2. /\ wire'[e] \in Answering /\ (wire'[e] = <<"ok">> => host[e] \in {"server", "proxy"})
      /\ \A x \in End : x # e => wire'[x] = wire[x]
  BY Known DEF HostAnswers
<1>3. No("data", wire'[e])
  BY <1>2 DEF No
<1>4. UNCHANGED <<iq, entry, open, connected, file, try, host, s5, chunk, closer, told>>
  BY Known DEF HostAnswers, FileAt, CloserAt, TellListener, TellClosed, Handling, place, link, obj
<1>5. Unborn'
  BY <1>1, <1>2, <1>3, <1>4, Known, Phases DEF Unborn
<1>6. Negotiates'
  BY <1>1, <1>2, <1>3, <1>4, Known, Phases, ZenonT(60) DEF Negotiates
<1>7. TargetRests'
  BY <1>1, <1>2, <1>3, <1>4, Known, Phases DEF TargetRests
<1>8. TargetInv'
  BY <1>1, <1>2, <1>3, <1>4, Known, Phases DEF TargetInv
<1>9. InitiatorInv'
  BY <1>1, <1>2, <1>3, <1>4, Known, Phases DEF InitiatorInv
<1>10. InOrder'
  BY <1>1, <1>2, <1>3, <1>4, Known, Phases DEF InOrder
<1>11. Held'
  BY <1>1, <1>2, <1>3, <1>4, Known, Phases DEF Held
<1> QED
  BY <1>5, <1>6, <1>7, <1>8, <1>9, <1>10, <1>11 DEF TellInv

LEMMA TellSends ==
  ASSUME TypeOK, TellInv, Receives, NEW e \in End, SendFtData(e)
  PROVE  TellInv'
<1> USE Ends, Words DEF Offering, Used, Activating, Before, After, Idle, Empty, Answer, Rests
<1>1. e = I /\ told[I] = "opened" /\ iq = "over"
  BY Known DEF SendFtData, Writes, Uses, Receives, InOrder
<1>2. ~Rests
  BY <1>1, Known DEF Negotiates
<1>3. /\ wire'[I] = wire[I] /\ (host[T] = "none" => wire'[T] = wire[T])
  BY <1>1, Known DEF SendFtData, Linked
<1>4. UNCHANGED <<iq, entry, open, connected, file, try, host, s5, chunk, closer, told>>
  BY Known DEF SendFtData, FileAt, CloserAt, TellListener, TellClosed, Handling, place, link, obj
<1>5. Unborn'
  BY <1>1, <1>2, <1>3, <1>4, Known, Phases DEF Unborn
<1>6. Negotiates'
  BY <1>1, <1>2, <1>3, <1>4, Known, Phases DEF Negotiates
<1>7. TargetRests'
  BY <1>1, <1>2, <1>3, <1>4, Known, Phases DEF TargetRests
<1>8. TargetInv'
  BY <1>1, <1>2, <1>3, <1>4, Known, Phases DEF TargetInv
<1>9. InitiatorInv'
  BY <1>1, <1>2, <1>3, <1>4, Known, Phases DEF InitiatorInv
<1>10. InOrder'
  BY <1>1, <1>2, <1>3, <1>4, Known, Phases DEF InOrder
<1>11. Held'
  BY <1>1, <1>2, <1>3, <1>4, Known, Phases DEF Held
<1> QED
  BY <1>5, <1>6, <1>7, <1>8, <1>9, <1>10, <1>11 DEF TellInv

LEMMA TellFails ==
  ASSUME TypeOK, TellInv, Receives, NEW e \in End, SendFails(e)
  PROVE  TellInv'
<1> USE Ends, Words DEF Offering, Used, Activating, Before, After, Idle, Empty, Answer, Rests
<1>1. e = I /\ told[I] = "opened" /\ iq = "over"
  BY Known DEF SendFails, Writes, Uses, Receives, InOrder
<1>2. UNCHANGED <<iq, open, connected, file, try, chunk, closer>>
  BY DEF SendFails, obj
<1>3. /\ s5' = [s5 EXCEPT ![e] = "disconnected"] /\ host'[T] = host[T]
      /\ wire'[e] = wire[e] /\ (\A x \in End : host[x] = "none" => wire'[x] = wire[x])
      /\ \A x \in End : No("data", wire[x]) => No("data", wire'[x])
  <2>1. UNCHANGED <<host, wire>> \/ Unlink(e)
    BY DEF SendFails
  <2>2. s5' = [s5 EXCEPT ![e] = "disconnected"]
    BY DEF SendFails, Unlink
  <2>3. CASE UNCHANGED <<host, wire>>
    BY <2>2, <2>3
  <2>4. CASE Unlink(e)
    BY <1>1, <2>4, UnlinkKeeps, Known
  <2> QED
    BY <2>1, <2>3, <2>4
<1>4. ASSUME UNCHANGED <<told, entry>> PROVE TellInv'
  <2>1. Unborn'
    BY <1>1, <1>2, <1>3, <1>4, Known, Phases, ZenonT(60) DEF Unborn
  <2>2. Negotiates'
    BY <1>1, <1>2, <1>3, <1>4, Known, Phases DEF Negotiates
  <2>3. TargetRests'
    BY <1>1, <1>2, <1>3, <1>4, Known, Phases DEF TargetRests
  <2>4. TargetInv'
    BY <1>1, <1>2, <1>3, <1>4, Known, Phases DEF TargetInv
  <2>5. InitiatorInv'
    BY <1>1, <1>2, <1>3, <1>4, Known, Phases DEF InitiatorInv
  <2>6. InOrder'
    BY <1>1, <1>2, <1>3, <1>4, Known, Phases DEF InOrder
  <2>7. Held'
    BY <1>1, <1>2, <1>3, <1>4, Known, Phases DEF Held
  <2> QED
    BY <2>1, <2>2, <2>3, <2>4, <2>5, <2>6, <2>7 DEF TellInv
<1>5. ASSUME told' = [told EXCEPT ![e] = "closed"], entry' = [entry EXCEPT ![e] = FALSE]
      PROVE TellInv'
  <2>1. Unborn'
    BY <1>1, <1>2, <1>3, <1>5, Known, Phases, ZenonT(60) DEF Unborn
  <2>2. Negotiates'
    BY <1>1, <1>2, <1>3, <1>5, Known, Phases DEF Negotiates
  <2>3. TargetRests'
    BY <1>1, <1>2, <1>3, <1>5, Known, Phases DEF TargetRests
  <2>4. TargetInv'
    BY <1>1, <1>2, <1>3, <1>5, Known, Phases DEF TargetInv
  <2>5. InitiatorInv'
    BY <1>1, <1>2, <1>3, <1>5, Known, Phases DEF InitiatorInv
  <2>6. InOrder'
    BY <1>1, <1>2, <1>3, <1>5, Known, Phases DEF InOrder
  <2>7. Held'
    BY <1>1, <1>2, <1>3, <1>5, Known, Phases DEF Held
  <2> QED
    BY <2>1, <2>2, <2>3, <2>4, <2>5, <2>6, <2>7 DEF TellInv
<1> QED
  BY <1>4, <1>5 DEF SendFails, FileAt, CloserAt, TellListener, TellClosed, Handling, place, link, obj

LEMMA TellLock ==
  ASSUME TypeOK, TellInv, Receives, NEW e \in End, CloseLock(e)
  PROVE  TellInv'
<1> USE Ends, Words DEF Offering, Used, Activating, Before, After, Idle, Empty, Answer, Rests
<1>1. closer[e] = "lock" /\ e = I /\ iq = "over" /\ told[I] # "none"
  BY Known DEF CloseLock, InOrder
<1>2. /\ host' = [host EXCEPT ![e] = "none"] /\ s5' = [s5 EXCEPT ![e] = "disconnected"]
      /\ wire'[e] = wire[e] /\ (\A x \in End : host[x] = "none" => wire'[x] = wire[x])
      /\ \A x \in End : No("data", wire[x]) => No("data", wire'[x])
  BY UnlinkKeeps DEF CloseLock
<1>3. /\ closer' = [closer EXCEPT ![e] = "tell"]
      /\ UNCHANGED <<iq, entry, open, connected, file, try, chunk, told>>
  BY Known DEF CloseLock, FileAt, CloserAt, TellListener, TellClosed, Handling, place, link, obj
<1>4. Unborn'
  BY <1>1, <1>2, <1>3, Known, Phases, ZenonT(60) DEF Unborn
<1>5. Negotiates'
  BY <1>1, <1>2, <1>3, Known, Phases DEF Negotiates
<1>6. TargetRests'
  BY <1>1, <1>2, <1>3, Known, Phases DEF TargetRests
<1>7. TargetInv'
  BY <1>1, <1>2, <1>3, Known, Phases DEF TargetInv
<1>8. InitiatorInv'
  BY <1>1, <1>2, <1>3, Known, Phases DEF InitiatorInv
<1>9. InOrder'
  BY <1>1, <1>2, <1>3, Known, Phases DEF InOrder
<1>10. Held'
  BY <1>1, <1>2, <1>3, Known, Phases DEF Held
<1> QED
  BY <1>4, <1>5, <1>6, <1>7, <1>8, <1>9, <1>10 DEF TellInv

LEMMA TellBreak ==
  ASSUME TypeOK, TellInv, OneWay, Break
  PROVE  TellInv'
<1> USE Ends, Words DEF Offering, Used, Activating, Before, After, Idle, Empty, Answer, Rests
<1>1. iq = "over" /\ told[I] # "none"
  BY DEF Break, OneWay
<1>2. ~Rests
  BY <1>1, Known DEF Negotiates
<1>3. \A x \in End : host[x] = "none" => wire'[x] = wire[x]
  BY DEF Break
<1>4. No("data", wire[I]) => No("data", wire'[I])
  <2>1. wire[I] \in Seq(Unit) /\ "eof" \in Unit
    BY Phases DEF Unit
  <2>2. wire'[I] = wire[I] \/ wire'[I] = Append(wire[I], "eof")
    BY DEF Break
  <2> QED
    BY <2>1, <2>2, NoAppend
<1>5. UNCHANGED <<iq, entry, open, connected, file, try, host, s5, chunk, closer, told>>
  BY Known DEF Break, FileAt, CloserAt, TellListener, TellClosed, Handling, place, link, obj
<1>6. Unborn'
  BY <1>1, <1>2, <1>3, <1>4, <1>5, Known, Phases DEF Unborn
<1>7. Negotiates'
  BY <1>1, <1>2, <1>3, <1>4, <1>5, Known, Phases DEF Negotiates
<1>8. TargetRests'
  BY <1>1, <1>2, <1>3, <1>4, <1>5, Known, Phases DEF TargetRests
<1>9. TargetInv'
  BY <1>1, <1>2, <1>3, <1>4, <1>5, Known, Phases DEF TargetInv
<1>10. InitiatorInv'
  BY <1>1, <1>2, <1>3, <1>4, <1>5, Known, Phases DEF InitiatorInv
<1>11. InOrder'
  BY <1>1, <1>2, <1>3, <1>4, <1>5, Known, Phases DEF InOrder
<1>12. Held'
  BY <1>1, <1>2, <1>3, <1>4, <1>5, Known, Phases DEF Held
<1> QED
  BY <1>6, <1>7, <1>8, <1>9, <1>10, <1>11, <1>12 DEF TellInv

LEMMA TellInit == Init => TypeOK /\ TellInv
<1> SUFFICES ASSUME Init PROVE TypeOK /\ TellInv
  OBVIOUS
<1> USE Ends DEF Offering, Used, Activating, Before, After, Idle, Empty, Answer, Rests
<1>1. TypeOK
  BY TypeInit
<1>2. No("data", <<>>)
  BY DEF No
<1>3. Unborn /\ Negotiates /\ Held
  BY DEF Init, Unborn, Negotiates, Held
<1>4. TargetRests /\ TargetInv
  BY DEF Init, TargetRests, TargetInv
<1>5. InitiatorInv /\ InOrder
  BY <1>2 DEF Init, InitiatorInv, InOrder
<1> QED
  BY <1>1, <1>3, <1>4, <1>5 DEF TellInv

LEMMA TellSteps == TypeOK /\ TellInv /\ Receives /\ [Next]_vars => TellInv' \/ Break
<1> SUFFICES ASSUME TypeOK, TellInv, Receives, [Next]_vars, ~Break PROVE TellInv'
  OBVIOUS
<1>1. CASE RequestFt \/ AcceptFt \/ Handlers
  BY <1>1, TellIq
<1>2. ASSUME NEW e \in End, File(e) PROVE TellInv'
  BY <1>2, TellStarts, TellAtOnce, TellConnected, TellNotConnected, TellLook, TellRecv, TellRead, TellEof,
     TellTell, TellMethod, TellReply, TellRefusal, TellData DEF File
<1>3. ASSUME NEW e \in End, HostAnswers(e) \/ SendFtData(e) \/ SendFails(e) PROVE TellInv'
  BY <1>3, TellAnswers, TellSends, TellFails
<1>6. CASE Quiet
  BY <1>6, ZenonT(60) DEF Quiet, obj, link, TellInv, Unborn, Negotiates, TargetRests, Rests, TargetInv, InitiatorInv,
     InOrder, Held, Answer, Empty, No
<1>7. ASSUME NEW e \in End, Traffic(e) \/ ServerTurn(e) \/ ProxyAnswers(e) PROVE TellInv'
  BY <1>3, <1>6, <1>7, HostSteps, Ends
<1>4. ASSUME NEW e \in End, CloseFtBytestream(e) \/ Closing(e) PROVE TellInv'
  BY <1>4, TellClose, TellLock, TellCloseTell, TellErase DEF Closing
<1>5. CASE UNCHANGED vars
  BY <1>5, <1>6, HostSteps, Ends
<1> QED
  BY <1>1, <1>2, <1>3, <1>4, <1>5, <1>7 DEF Next

LEMMA TellNext == TypeOK /\ TellInv /\ OneWay /\ [Next]_vars => TellInv'
BY TellSteps, TellBreak DEF OneWay

-----------------------------------------------------------------------------
(* The contract with each listener.                                        *)

\* A step of StreamContract for the listener of e, or none.
Contract(e) ==
  \/ told'[e] = told[e] /\ got'[e] = got[e]
  \/ told[e] = "none" /\ told'[e] = "created" /\ got'[e] = got[e]
  \/ told[e] = "created" /\ told'[e] = "opened" /\ got'[e] = got[e]
  \/ told[e] \in {"created", "opened"} /\ told'[e] = "opened" /\ got'[e] > got[e]
  \/ told[e] \in {"created", "opened"} /\ told'[e] = "closed" /\ got'[e] = got[e]

LEMMA ContractCreated ==
  ASSUME TypeOK, TellInv, HandleHosts \/ HandleUsedLoop \/ HandleUsedProxy, NEW x \in End
  PROVE  Contract(x)
<1>1. got' = got
  BY DEF HandleHosts, HandleUsedLoop, HandleUsedProxy
<1>2. CASE HandleHosts
  <2>1. told[T] = "none" /\ told' = [told EXCEPT ![T] = "created"]
    BY <1>2, Known DEF HandleHosts, Step, Created, TellListener, InOrder, Offering
  <2> QED
    BY <1>1, <2>1, Known DEF Contract
<1>3. CASE HandleUsedLoop \/ HandleUsedProxy
  <2>1. told[I] = "none" /\ told' = [told EXCEPT ![I] = "created"]
    BY <1>3, Known DEF HandleUsedLoop, HandleUsedProxy, Step, Created, TellListener, InOrder, Used
  <2> QED
    BY <1>1, <2>1, Known DEF Contract
<1> QED
  BY <1>2, <1>3

LEMMA ContractClosed ==
  ASSUME TypeOK, TellInv, NEW e \in End, told[e] # "none", TellListener(e, "closed"), got' = got, NEW x \in End
  PROVE  Contract(x)
BY Known, Phases DEF Contract, TellListener

LEMMA ContractData ==
  ASSUME TypeOK, TellInv, Receives, NEW e \in End, HandleData(e), NEW x \in End
  PROVE  Contract(x)
<1> USE Ends
<1>1. Head(chunk[e]) = "data" /\ file[e] = "handle"
  BY DEF HandleData, Handling
<1>2. chunk[e] # <<>> /\ chunk[e] \in Seq(Unit)
  BY <1>1, Handles, Phases
<1>3. e = T
  <2>1. No("data", chunk[I])
    BY Known DEF InitiatorInv
  <2> QED
    BY <1>1, <1>2, <2>1, FirstUnit
<1>4. told[T] \in {"created", "opened"}
  BY <1>1, <1>3, Handles, Phases
<1>5. CASE UNCHANGED <<told, got>>
  BY <1>5 DEF Contract
<1>6. CASE ~(UNCHANGED <<told, got>>)
  <2>1. s5[T] = "connected"
    BY <1>3, <1>6 DEF HandleData
  <2>2. got' = [got EXCEPT ![T] = @ + Len(chunk[T])]
    BY <1>3, <2>1 DEF HandleData
  <2>3. got'[T] > got[T] /\ \A y \in End : y # T => got'[y] = got[y]
    <3>1. Len(chunk[T]) \in Nat /\ Len(chunk[T]) > 0
      BY <1>2, <1>3
    <3>2. got \in [End -> Nat]
      BY DEF TypeOK
    <3> QED
      BY <2>2, <3>1, <3>2
  <2>4. CASE open[T]
    <3>1. told[T] = "opened" /\ told' = told
      BY <1>3, <1>4, <2>1, <2>4, Known DEF HandleData, TargetInv
    <3> QED
      BY <2>3, <3>1 DEF Contract
  <2>5. CASE ~open[T]
    <3>1. told' = [told EXCEPT ![T] = "opened"]
      BY <1>3, <2>1, <2>5 DEF HandleData, TellListener
    <3> QED
      BY <1>4, <2>3, <3>1, Known DEF Contract
  <2> QED
    BY <2>4, <2>5
<1> QED
  BY <1>5, <1>6

LEMMA ContractNext == TypeOK /\ TellInv /\ OneWay /\ [Next]_vars => \A x \in End : Contract(x)
<1> SUFFICES ASSUME TypeOK, TellInv, OneWay, [Next]_vars, NEW x \in End PROVE Contract(x)
  OBVIOUS
<1> USE DEF OneWay
<1>1. CASE UNCHANGED <<told, got>>
  BY <1>1 DEF Contract
<1>2. CASE RequestFt \/ AcceptFt \/ HandleDeclined \/ HandleAccepted \/ ProxyActivates \/ HandleNotActivated
           \/ Break \/ UNCHANGED vars
  BY <1>1, <1>2 DEF RequestFt, AcceptFt, HandleDeclined, HandleAccepted, ProxyActivates, HandleNotActivated,
     IqOnly, Break, vars
<1>3. CASE HandleHosts \/ HandleUsedLoop \/ HandleUsedProxy
  BY <1>3, ContractCreated
<1>4. CASE Activate
  <2>1. told[I] = "created" /\ told' = [told EXCEPT ![I] = "opened"] /\ got' = got
    BY <1>4, Known DEF Activate, Step, TellListener, InOrder, Activating
  <2> QED
    BY <2>1, Ends, Known DEF Contract
<1>5. ASSUME NEW e \in End, File(e) PROVE Contract(x)
  <2>1. CASE RecvS5bFtData(e) \/ ConnectAtOnce(e) \/ Connected(e) \/ Look(e) \/ Recv(e) \/ Read(e)
             \/ HandleEof(e) \/ HandleMethod(e) \/ HandleReply(e)
    BY <1>1, <2>1 DEF RecvS5bFtData, ConnectAtOnce, Connected, Look, Recv, Read, HandleEof, HandleMethod, HandleReply
  <2>2. CASE HandleData(e)
    BY <2>2, ContractData
  <2>3. CASE NotConnected(e) \/ Tell(e) \/ HandleRefusal(e)
    <3>1. got' = got
      BY <2>3 DEF NotConnected, Tell, HandleRefusal
    <3>2. file[e] # "off"
      BY <2>3 DEF NotConnected, Connecting, Tell, HandleRefusal, Handling
    <3>3. told[e] # "none"
      BY <3>2, Known DEF Unborn
    <3>4. told' = told \/ TellListener(e, "closed")
      BY <2>3 DEF NotConnected, Tell, HandleRefusal, TellClosed
    <3> QED
      BY <1>1, <3>1, <3>3, <3>4, ContractClosed
  <2> QED
    BY <1>5, <2>1, <2>2, <2>3 DEF File
<1>6. ASSUME NEW e \in End, SendFails(e) \/ CloseTell(e) PROVE Contract(x)
  <2>1. got' = got
    BY <1>6 DEF SendFails, CloseTell
  <2>2. told[e] # "none"
    BY <1>6, Known, Ends DEF SendFails, Writes, Uses, CloseTell, InOrder, End
  <2>3. told' = told \/ TellListener(e, "closed")
    BY <1>6 DEF SendFails, CloseTell, TellClosed
  <2> QED
    BY <1>1, <2>1, <2>2, <2>3, ContractClosed
<1>7. ASSUME NEW e \in End, \/ Traffic(e) \/ ServerTurn(e) \/ ProxyAnswers(e) \/ SendFtData(e)
                            \/ CloseFtBytestream(e) \/ CloseLock(e) \/ CloseErase(e)
      PROVE  Contract(x)
  BY <1>1, <1>7 DEF Traffic, ServerTurn, ProxyAnswers, SendFtData, CloseFtBytestream, CloseLock, CloseErase
<1> QED
  BY <1>2, <1>3, <1>4, <1>5, <1>6, <1>7 DEF Next, Handlers, Closing

\* While the target only receives, each listener is told of the stream, of its
\* opening, of its data and of its end in this order, and of nothing after the end,
\* although the receive loop, the file thread and the application tell it.
THEOREM ListenersToldInOrder == ASSUME OneWay PROVE Spec => ImplementsContract
<1> DEFINE Both == TypeOK /\ TellInv
<1>1. Init => Both /\ Initiator!Init /\ Target!Init
  BY TellInit, Ends DEF Init, Initiator!Init, Target!Init
<1>2. Both /\ [Next]_vars => Both'
  BY TellNext, TypeNext
<1>3. Both /\ [Next]_vars =>
        /\ [Initiator!Next]_<<told[I], got[I]>>
        /\ [Target!Next]_<<told[T], got[T]>>
  <2> SUFFICES ASSUME Both, [Next]_vars
               PROVE  /\ [Initiator!Next]_<<told[I], got[I]>>
                      /\ [Target!Next]_<<told[T], got[T]>>
    OBVIOUS
  <2>1. Contract(I) /\ Contract(T)
    BY ContractNext, Ends
  <2>2. [Initiator!Next]_<<told[I], got[I]>>
    BY <2>1 DEF Contract, Initiator!Next, Initiator!Create, Initiator!Open, Initiator!Receive, Initiator!Close
  <2>3. [Target!Next]_<<told[T], got[T]>>
    BY <2>1 DEF Contract, Target!Next, Target!Create, Target!Open, Target!Receive, Target!Close
  <2> QED
    BY <2>2, <2>3
<1> QED
  BY <1>1, <1>2, <1>3, PTL DEF Spec, ImplementsContract, Initiator!Spec, Target!Spec

-----------------------------------------------------------------------------
(* What is counted.                                                        *)

LEMMA DataCount ==
  ASSUME NEW S, NEW q \in Seq(S)
  PROVE  DataIn(q) \in Nat /\ (No("data", q) => DataIn(q) = 0)
<1> DEFINE at == {i \in DOMAIN q : q[i] = "data"}
<1>1. DOMAIN q = 1..Len(q) /\ Len(q) \in Nat
  BY LenProperties
<1>2. IsFiniteSet(1..Len(q))
  BY <1>1, FS_Interval
<1>3. IsFiniteSet(at)
  BY <1>1, <1>2, FS_Subset
<1>4. No("data", q) => at = {}
  BY DEF No
<1> QED
  BY <1>3, <1>4, FS_CardinalityType, FS_EmptySet DEF DataIn

LEMMA DataAppended ==
  ASSUME NEW S, NEW q \in Seq(S), NEW m \in S
  PROVE  DataIn(Append(q, m)) = DataIn(q) + (IF m = "data" THEN 1 ELSE 0)
<1> DEFINE at(s) == {i \in DOMAIN s : s[i] = "data"}
           n == Len(q) + 1
<1>1. /\ Append(q, m) \in Seq(S) /\ Len(Append(q, m)) = n /\ Len(q) \in Nat
      /\ \A i \in 1..Len(q) : Append(q, m)[i] = q[i]
      /\ Append(q, m)[n] = m
  BY AppendProperties, LenProperties
<1>2. DOMAIN q = 1..Len(q) /\ DOMAIN Append(q, m) = 1..n
  BY <1>1, LenProperties
<1>3. IsFiniteSet(1..Len(q))
  BY <1>1, FS_Interval
<1>4. IsFiniteSet(at(q)) /\ n \notin at(q)
  BY <1>1, <1>2, <1>3, FS_Subset
<1>5. CASE m = "data"
  <2>1. at(Append(q, m)) = at(q) \cup {n}
    BY <1>1, <1>2, <1>5
  <2>2. Cardinality(at(q) \cup {n}) = Cardinality(at(q)) + 1
    BY <1>4, FS_AddElement
  <2> QED
    BY <1>5, <2>1, <2>2 DEF DataIn
<1>6. CASE m # "data"
  <2>1. at(Append(q, m)) = at(q)
    BY <1>1, <1>2, <1>6
  <2>2. Cardinality(at(q)) \in Nat
    BY <1>4, FS_CardinalityType
  <2>3. DataIn(Append(q, m)) = DataIn(q) /\ DataIn(q) \in Nat
    BY <2>1, <2>2 DEF DataIn
  <2> QED
    BY <1>6, <2>3
<1> QED
  BY <1>5, <1>6

\* Data, and perhaps the end after it.
Stream(q) == \A i \in DOMAIN q : q[i] = "data" \/ (q[i] = "eof" /\ i = Len(q))

LEMMA StreamCount ==
  ASSUME NEW S, NEW q \in Seq(S), Stream(q)
  PROVE  DataIn(q) = IF No("eof", q) THEN Len(q) ELSE Len(q) - 1
<1> DEFINE at == {i \in DOMAIN q : q[i] = "data"}
<1>1. DOMAIN q = 1..Len(q) /\ Len(q) \in Nat
  BY LenProperties
<1>2. CASE No("eof", q)
  <2>1. at = 1..Len(q)
    BY <1>1, <1>2 DEF Stream, No
  <2>2. Cardinality(1..Len(q)) = Len(q)
    BY <1>1, FS_Interval, SMTT(30)
  <2> QED
    BY <1>2, <2>1, <2>2 DEF DataIn
<1>3. CASE ~No("eof", q)
  <2>1. Len(q) > 0 /\ q[Len(q)] = "eof"
    BY <1>1, <1>3 DEF Stream, No
  <2>2. at = 1..(Len(q) - 1)
    BY <1>1, <2>1 DEF Stream
  <2>3. Cardinality(1..(Len(q) - 1)) = Len(q) - 1
    BY <1>1, <2>1, FS_Interval
  <2> QED
    BY <1>3, <2>2, <2>3 DEF DataIn
<1> QED
  BY <1>2, <1>3

\* What a chunk may hold, and what is behind it.
InTransit(c, w) == Stream(w) /\ ((Stream(c) /\ No("eof", c)) \/ (c = <<"eof">> /\ w = <<>>))

LEMMA TransitEmpty ==
  /\ InTransit(<<>>, <<>>) /\ No("eof", <<>>) /\ No("data", <<>>) /\ DataIn(<<>>) = 0
  /\ No("data", <<"eof">>) /\ No("data", <<"ok">>) /\ No("data", <<"no">>)
  /\ No("data", <<"method">>)
<1>1. <<>> \in Seq({}) /\ No("data", <<>>)
  BY NoSingle DEF No
<1>2. DataIn(<<>>) = 0
  BY <1>1, DataCount
<1> QED
  BY <1>1, <1>2 DEF InTransit, Stream, No

LEMMA StreamAppended ==
  ASSUME NEW S, NEW q \in Seq(S), NEW m \in S, m \in {"data", "eof"}, Stream(q), No("eof", q)
  PROVE  Stream(Append(q, m)) /\ (m = "data" => No("eof", Append(q, m)))
<1>1. /\ Append(q, m) \in Seq(S) /\ Len(Append(q, m)) = Len(q) + 1 /\ Len(q) \in Nat
      /\ \A i \in 1..Len(q) : Append(q, m)[i] = q[i]
      /\ Append(q, m)[Len(q) + 1] = m
  BY AppendProperties, LenProperties
<1>2. DOMAIN q = 1..Len(q) /\ DOMAIN Append(q, m) = 1..(Len(q) + 1)
  BY <1>1, LenProperties
<1>3. \A i \in 1..Len(q) : q[i] = "data"
  BY <1>2 DEF Stream, No
<1> QED
  BY <1>1, <1>2, <1>3 DEF Stream, No

\* A read of a stream takes data alone or the end alone, and loses nothing.
LEMMA StreamRead ==
  ASSUME NEW S, NEW q \in Seq(S), Stream(q), NEW n \in 1..Len(q),
         n = 1 \/ \A i \in 1..n : q[i] # "eof"
  PROVE  /\ InTransit(SubSeq(q, 1, n), SubSeq(q, n + 1, Len(q)))
         /\ DataIn(SubSeq(q, 1, n)) + DataIn(SubSeq(q, n + 1, Len(q))) = DataIn(q)
         /\ \A unit : No(unit, q) => No(unit, SubSeq(q, 1, n)) /\ No(unit, SubSeq(q, n + 1, Len(q)))
<1> DEFINE a == SubSeq(q, 1, n)
           b == SubSeq(q, n + 1, Len(q))
<1>1. Len(q) \in Nat /\ DOMAIN q = 1..Len(q) /\ n \in Nat /\ n > 0 /\ n <= Len(q)
  BY LenProperties
<1>2. /\ a \in Seq(S) /\ Len(a) = n /\ \A i \in 1..n : a[i] = q[i]
      /\ b \in Seq(S) /\ Len(b) = Len(q) - n /\ \A i \in 1..(Len(q) - n) : b[i] = q[n + i]
  BY SplitUnits
<1>3. DOMAIN a = 1..n /\ DOMAIN b = 1..(Len(q) - n)
  BY <1>2, LenProperties
<1>4. \A unit : No(unit, q) => No(unit, a) /\ No(unit, b)
  BY NoSplit
<1> HIDE DEF a, b
<1>5. Stream(b)
  <2> SUFFICES ASSUME NEW i \in 1..(Len(q) - n)
               PROVE  b[i] = "data" \/ (b[i] = "eof" /\ i = Len(b))
    BY <1>3 DEF Stream
  <2>1. n + i \in DOMAIN q /\ b[i] = q[n + i]
    BY <1>1, <1>2
  <2>2. q[n + i] = "data" \/ (q[n + i] = "eof" /\ n + i = Len(q))
    BY <2>1 DEF Stream
  <2>3. n + i = Len(q) => i = Len(b)
    <3>1. Len(b) = Len(q) - n
      BY <1>2
    <3>2. Len(q) \in Nat /\ n \in Nat /\ i \in Int
      BY <1>1
    <3> QED
      BY <3>1, <3>2
  <2> QED
    BY <2>1, <2>2, <2>3
<1>6. CASE q[1] = "eof"
  <2>1. Len(q) = 1 /\ n = 1
    BY <1>1, <1>6 DEF Stream
  <2>2. a = <<"eof">> /\ b = <<>>
    <3>1. Len(a) = 1 /\ a[1] = "eof" /\ Len(b) = 0
      BY <1>2, <1>6, <2>1
    <3> QED
      BY <1>2, <3>1, EmptySeq
  <2>3. No("data", q) /\ No("data", a)
    BY <1>1, <1>6, <2>1, <2>2, TransitEmpty DEF No
  <2>4. DataIn(a) = 0 /\ DataIn(b) = 0 /\ DataIn(q) = 0
    BY <1>2, <2>2, <2>3, DataCount, TransitEmpty
  <2> QED
    BY <1>4, <1>5, <2>2, <2>4 DEF InTransit, a, b
<1>7. CASE q[1] # "eof"
  <2>1. \A i \in 1..n : q[i] = "data"
    BY <1>1, <1>7 DEF Stream
  <2>2. Stream(a) /\ No("eof", a)
    BY <1>2, <1>3, <2>1 DEF Stream, No
  <2>3. DataIn(a) = n
    BY <1>2, <2>2, StreamCount
  <2>4. No("eof", b) <=> No("eof", q)
    <3>1. ASSUME No("eof", b) PROVE No("eof", q)
      <4> SUFFICES ASSUME NEW i \in 1..Len(q) PROVE q[i] # "eof"
        BY <1>1 DEF No
      <4>1. CASE i \in 1..n
        BY <2>1, <4>1
      <4>2. CASE i \notin 1..n
        <5>1. i - n \in 1..(Len(q) - n) /\ n + (i - n) = i
          BY <1>1, <4>2
        <5>2. b[i - n] = q[i]
          BY <1>2, <5>1
        <5> QED
          BY <1>3, <3>1, <5>1, <5>2 DEF No
      <4> QED
        BY <4>1, <4>2
    <3> QED
      BY <1>4, <3>1
  <2>5. DataIn(b) = DataIn(q) - n
    BY <1>1, <1>2, <1>5, <2>4, StreamCount
  <2>6. DataIn(a) + DataIn(b) = DataIn(q)
    <3>1. DataIn(q) \in Nat
      BY DataCount
    <3> QED
      BY <1>1, <2>3, <2>5, <3>1
  <2> QED
    BY <1>4, <1>5, <2>2, <2>6 DEF InTransit, a, b
<1> QED
  BY <1>6, <1>7

-----------------------------------------------------------------------------
(* The data of the initiator on its way to the target's listener.          *)

Carrier == {"server", "proxy"}

\* The ends meet at one host before the initiator's stream is open, and the target
\* stays there, ready for data, as long as the initiator does.
Paired ==
  /\ try[I] \in {<<>>, <<"proxy">>}
  /\ iq = "used proxy" => host[T] = "proxy"
  /\ iq = "connecting" /\ told[I] = "created" => host[T] = "proxy"
  /\ s5[I] \in Shaking => host[I] = "proxy" /\ host[T] = "proxy"
  /\ iq \in Activating => host[I] = host[T] /\ host[I] \in Carrier
  /\ told[I] = "opened" /\ host[I] \in Carrier => host[T] = host[I] /\ s5[T] = "connected"

\* Data is under way only after the IQs, behind it the end of a stream that the
\* initiator has left, and it meets a negotiated connection.
Carried ==
  /\ iq # "over" => sent[I] = 0 /\ got[T] = 0 /\ No("data", wire[T]) /\ No("data", chunk[T])
  /\ iq = "over" => InTransit(chunk[T], wire[T])
  /\ iq = "over" /\ ~(No("eof", wire[T]) /\ No("eof", chunk[T])) => host[I] = "none"
  /\ ~(No("data", wire[T]) /\ No("data", chunk[T])) => s5[T] = "connected"

\* Nothing is left when the target's listener is told of the end.
Finished ==
  told[T] = "closed" \/ file[T] = "tell" =>
    /\ No("data", wire[T]) /\ No("data", chunk[T])
    /\ iq = "over" => host[I] = "none"

Emptied == chunk[T] # <<>> => file[T] = "handle"

Conserved == got[T] + DataIn(chunk[T]) + DataIn(wire[T]) = sent[I]

Flow == Paired /\ Carried /\ Finished /\ Emptied /\ Conserved

\* It holds as long as the network does.
FlowInv == "broken" \notin faults => TellInv /\ Flow

\* A step that leaves the target's data where it is.
LEMMA FlowStill ==
  ASSUME Flow,
         wire'[T] = wire[T], chunk'[T] = chunk[T], UNCHANGED <<sent, got>>,
         s5'[T] = s5[T] \/ (No("data", wire[T]) /\ No("data", chunk[T])),
         chunk[T] # <<>> => file'[T] = file[T],
         told'[T] = "closed" \/ file'[T] = "tell" =>
           told[T] = "closed" \/ file[T] = "tell" \/ (Empty(T) /\ iq' # "over"),
         iq = "over" => iq' = "over" /\ (host[I] = "none" => host'[I] = "none"),
         iq # "over" /\ iq' = "over" => Empty(T) /\ told'[T] # "closed" /\ file'[T] # "tell"
  PROVE  Carried' /\ Finished' /\ Emptied' /\ Conserved'
<1> USE TransitEmpty DEF Flow
<1>1. Carried'
  BY DEF Carried, Empty
<1>2. Finished'
  BY DEF Finished, Empty
<1>3. Emptied'
  BY DEF Emptied
<1>4. Conserved'
  BY DEF Conserved
<1> QED
  BY <1>1, <1>2, <1>3, <1>4

LEMMA FlowWords ==
  ASSUME TypeOK, TellInv, Flow, RequestFt \/ AcceptFt \/ HandleDeclined \/ HandleAccepted
  PROVE  Flow'
<1> USE Ends DEF Offering, Used, Activating, Empty
<1>1. iq \in Offering /\ iq' \in Offering \union {"over"}
  BY DEF RequestFt, AcceptFt, HandleDeclined, HandleAccepted, Step
<1>2. UNCHANGED <<file, try, host, s5, wire, chunk, told, got, sent>>
  BY DEF RequestFt, AcceptFt, HandleDeclined, HandleAccepted, IqOnly, link
<1>3. told[T] = "none" /\ told[I] = "none"
  BY <1>1, Known DEF InOrder
<1>4. file[T] = "off" /\ Empty(T) /\ s5[I] = "disconnected"
  BY <1>3, Known DEF Unborn
<1>5. Carried' /\ Finished' /\ Emptied' /\ Conserved'
  BY <1>1, <1>2, <1>3, <1>4, FlowStill
<1>6. Paired'
  BY <1>1, <1>2, <1>3, <1>4 DEF Flow, Paired
<1> QED
  BY <1>5, <1>6 DEF Flow

LEMMA FlowActivating ==
  ASSUME TypeOK, TellInv, Flow, ProxyActivates \/ HandleNotActivated \/ Activate
  PROVE  Flow'
<1> USE Ends DEF Offering, Used, Activating, Empty, Rests, Idle
<1>1. iq \in Activating /\ iq' \in Activating \union {"over"}
  BY DEF ProxyActivates, HandleNotActivated, Activate, Step
<1>2. /\ UNCHANGED <<file, try, host, s5, wire, chunk, got, sent>>
      /\ told' = told \/ told' = [told EXCEPT ![I] = "opened"]
  BY DEF ProxyActivates, HandleNotActivated, Activate, IqOnly, TellListener, link
<1>3. Rests /\ told[I] = "created"
  BY <1>1, Known DEF InOrder
<1>4. told[T] = "created" /\ s5[T] = "connected" /\ file[T] \in Idle /\ Empty(T)
  BY <1>3, Known DEF TargetRests
<1>5. told'[T] = told[T] /\ s5[I] \notin Shaking
  BY <1>1, <1>2, Known DEF Negotiates
<1>6. Carried' /\ Finished' /\ Emptied' /\ Conserved'
  BY <1>1, <1>2, <1>4, <1>5, FlowStill
<1>7. Paired'
  BY <1>1, <1>2, <1>3, <1>4, <1>5 DEF Flow, Paired
<1> QED
  BY <1>6, <1>7 DEF Flow

LEMMA FlowCreated ==
  ASSUME TypeOK, TellInv, Flow, HandleHosts \/ HandleUsedLoop \/ HandleUsedProxy
  PROVE  Flow'
<1> USE Ends DEF Offering, Used, Activating, Empty, Rests, Idle
<1>1. UNCHANGED <<file, s5, chunk, got, sent>>
  BY DEF HandleHosts, HandleUsedLoop, HandleUsedProxy, link
<1>2. told[I] = "none" /\ s5[I] = "disconnected"
  <2>1. told[I] = "none"
    BY Known DEF HandleHosts, HandleUsedLoop, HandleUsedProxy, Step, InOrder
  <2> QED
    BY <2>1, Known DEF Unborn
<1>3. CASE HandleHosts
  <2>1. /\ iq = "hosts" /\ iq' = "connecting" /\ UNCHANGED <<host, wire>>
        /\ told' = [told EXCEPT ![T] = "created"] /\ try' = [try EXCEPT ![T] = Hosts]
    BY <1>3 DEF HandleHosts, Step, Created, TellListener, link
  <2>2. told'[T] = "created" /\ told'[I] = "none" /\ try'[I] = try[I] /\ file[T] = "off"
    BY <1>2, <2>1, Known DEF InOrder, Unborn
  <2>3. Carried' /\ Finished' /\ Emptied' /\ Conserved'
    BY <1>1, <2>1, <2>2, FlowStill
  <2>4. Paired'
    BY <1>1, <1>2, <2>1, <2>2 DEF Flow, Paired
  <2> QED
    BY <2>3, <2>4 DEF Flow
<1>4. CASE HandleUsedLoop
  <2>1. host[T] = "server" /\ iq = "used loop" /\ iq' = "self" /\ UNCHANGED try
    BY <1>4, Known DEF HandleUsedLoop, Step, TargetInv
  <2>2. /\ wire' = [wire EXCEPT ![I] = <<>>] /\ host' = [host EXCEPT ![I] = "server"]
        /\ told' = [told EXCEPT ![I] = "created"]
    BY <1>4, <2>1 DEF HandleUsedLoop, Created, TellListener
  <2>3. /\ wire'[T] = wire[T] /\ host'[I] = "server" /\ host'[T] = "server"
        /\ told'[I] = "created" /\ told'[T] = told[T]
    BY <2>1, <2>2, Known
  <2>4. Carried' /\ Finished' /\ Emptied' /\ Conserved'
    BY <1>1, <2>1, <2>3, FlowStill
  <2>5. Paired'
    BY <1>1, <1>2, <2>1, <2>3 DEF Flow, Paired, Carrier
  <2> QED
    BY <2>4, <2>5 DEF Flow
<1>5. CASE HandleUsedProxy
  <2>1. /\ iq = "used proxy" /\ iq' = "connecting" /\ UNCHANGED <<host, wire>>
        /\ told' = [told EXCEPT ![I] = "created"] /\ try' = [try EXCEPT ![I] = <<"proxy">>]
    BY <1>5 DEF HandleUsedProxy, Step, Created, TellListener, link
  <2>2. told'[T] = told[T] /\ told'[I] = "created" /\ try'[I] = <<"proxy">>
    BY <2>1, Known
  <2>3. Carried' /\ Finished' /\ Emptied' /\ Conserved'
    BY <1>1, <2>1, <2>2, FlowStill
  <2>4. Paired'
    BY <1>1, <1>2, <2>1, <2>2 DEF Flow, Paired
  <2> QED
    BY <2>3, <2>4 DEF Flow
<1> QED
  BY <1>3, <1>4, <1>5

\* The steps of the threads that neither connect, read, nor leave.
LEMMA FlowIdle ==
  ASSUME TypeOK, TellInv, Receives, Flow, NEW e \in End,
         \/ RecvS5bFtData(e) \/ ConnectAtOnce(e) \/ Recv(e) \/ Tell(e)
         \/ CloseFtBytestream(e) \/ CloseTell(e) \/ CloseErase(e)
         \/ (Look(e) /\ entry[e])
  PROVE  Flow'
<1> USE Ends DEF Empty
<1>1. UNCHANGED <<iq, try, host, s5, wire, chunk, got, sent>>
  BY DEF RecvS5bFtData, ConnectAtOnce, Recv, Tell, CloseFtBytestream, CloseTell, CloseErase, Look, link
<1>2. told' = told \/ told' = [told EXCEPT ![e] = "closed"]
  BY DEF RecvS5bFtData, ConnectAtOnce, Recv, Tell, CloseFtBytestream, CloseTell, CloseErase, Look,
     TellClosed, TellListener
<1>3. file' = file \/ (file[e] # "handle" /\ \E f \in FileState \ {"tell"} : file' = [file EXCEPT ![e] = f])
  BY DEF RecvS5bFtData, ConnectAtOnce, Recv, Tell, CloseFtBytestream, CloseTell, CloseErase, Look,
     FileAt, FileState
<1>4. told'[T] = told[T] \/ (told'[T] = "closed" /\ file[T] = "tell")
  <2>1. CASE Tell(e)
    BY <1>2, <2>1, Known DEF Tell
  <2>2. CASE CloseTell(e)
    <3>1. e = I
      BY <2>2, Known DEF CloseTell, InOrder
    <3> QED
      BY <1>2, <3>1, Known
  <2>3. CASE ~Tell(e) /\ ~CloseTell(e)
    BY <2>3 DEF RecvS5bFtData, ConnectAtOnce, Recv, CloseFtBytestream, CloseErase, Look
  <2> QED
    BY <2>1, <2>2, <2>3
<1>5. /\ file'[T] = "tell" => file[T] = "tell"
      /\ chunk[T] # <<>> => file'[T] = file[T]
  BY <1>3, Known DEF Flow, Emptied
<1>6. told'[I] = told[I] \/ told'[I] = "closed"
  BY <1>2, Known
<1>7. Carried' /\ Finished' /\ Emptied' /\ Conserved'
  BY <1>1, <1>4, <1>5, FlowStill
<1>8. Paired'
  BY <1>1, <1>6 DEF Flow, Paired
<1> QED
  BY <1>7, <1>8 DEF Flow

LEMMA FlowConnected ==
  ASSUME TypeOK, TellInv, Flow, NEW e \in End, Connected(e)
  PROVE  Flow'
<1> USE Ends DEF Before, Empty, Offering, Used, Activating, Rests
<1>1. file[e] = "connect" /\ try[e] # <<>> /\ Leads(Head(try[e])) # "none"
  BY DEF Connected, Connecting
<1>2. /\ host' = [host EXCEPT ![e] = Leads(Head(try[e]))] /\ try' = [try EXCEPT ![e] = Tail(try[e])]
      /\ s5' = [s5 EXCEPT ![e] = "connecting"] /\ file' = [file EXCEPT ![e] = "look"]
      /\ UNCHANGED <<iq, wire, chunk, told, got, sent>>
  BY DEF Connected, FileAt
<1>3. told[e] # "none"
  BY <1>1, Known DEF Unborn
<1>4. CASE e = T
  <2>1. told[I] = "none" /\ Empty(T) /\ iq \in Used \union {"connecting"}
    BY <1>1, <1>3, <1>4, Known DEF TargetInv, InOrder
  <2>2. ~Rests
    BY <1>1, <1>4, Known DEF TargetRests, Idle
  <2>3. iq = "connecting" /\ s5[I] \notin Shaking
    BY <2>1, <2>2
  <2>4. host'[I] = host[I] /\ try'[I] = try[I] /\ s5'[I] = s5[I] /\ file'[T] = "look"
    BY <1>2, <1>4, Known
  <2>5. No("data", wire[T]) /\ No("data", chunk[T])
    BY <2>1, TransitEmpty
  <2>6. Carried' /\ Finished' /\ Emptied' /\ Conserved'
    BY <1>2, <2>1, <2>3, <2>4, <2>5, FlowStill
  <2>7. Paired'
    BY <1>2, <2>1, <2>3, <2>4 DEF Flow, Paired
  <2> QED
    BY <2>6, <2>7 DEF Flow
<1>5. CASE e = I
  <2>1. iq = "connecting" /\ told[I] = "created"
    BY <1>1, <1>5, Known DEF InitiatorInv
  <2>2. try[I] = <<"proxy">> /\ host[T] = "proxy"
    BY <1>1, <1>5, <2>1 DEF Flow, Paired
  <2>3. Head(<<"proxy">>) = "proxy" /\ Tail(<<"proxy">>) = <<>>
    OBVIOUS
  <2>4. Leads(Head(try[e])) = "proxy"
    BY <1>1, <1>5, <2>2, <2>3 DEF Leads
  <2>5. /\ host'[I] = "proxy" /\ host'[T] = host[T] /\ try'[I] = <<>>
        /\ s5'[T] = s5[T] /\ file'[T] = file[T]
    BY <1>2, <1>5, <2>2, <2>3, <2>4, Known
  <2>6. Carried' /\ Finished' /\ Emptied' /\ Conserved'
    BY <1>2, <2>1, <2>5, FlowStill
  <2>7. Paired'
    BY <1>2, <2>1, <2>2, <2>5 DEF Flow, Paired
  <2> QED
    BY <2>6, <2>7 DEF Flow
<1> QED
  BY <1>4, <1>5

LEMMA FlowNotConnected ==
  ASSUME TypeOK, TellInv, Flow, NEW e \in End, NotConnected(e)
  PROVE  Flow'
<1> USE Ends DEF Before, Empty, Offering, Used, Activating, Rests
<1>1. file[e] = "connect" /\ try[e] # <<>>
  BY DEF NotConnected, Connecting
<1>2. /\ try' = [try EXCEPT ![e] = Tail(try[e])]
      /\ UNCHANGED <<iq, host, s5, wire, chunk, got, sent>>
  BY DEF NotConnected, link
<1>3. \/ UNCHANGED <<told, file>>
      \/ told' = [told EXCEPT ![e] = "closed"] /\ file' = [file EXCEPT ![e] = "done"]
  BY DEF NotConnected, TellClosed, TellListener, FileAt
<1>4. e = T => iq # "over" /\ Empty(T)
  <2>1. told[e] # "none"
    BY <1>1, Known DEF Unborn
  <2> QED
    BY <1>1, <2>1, Known DEF TargetInv, InOrder
<1>5. try'[I] \in {<<>>, <<"proxy">>}
  <2>1. CASE e = T
    BY <1>2, <2>1, Known DEF Flow, Paired
  <2>2. CASE e = I
    <3>1. try[I] = <<"proxy">>
      BY <1>1, <2>2 DEF Flow, Paired
    <3>2. Tail(<<"proxy">>) = <<>>
      OBVIOUS
    <3> QED
      BY <1>2, <2>2, <3>1, <3>2, Known
  <2> QED
    BY <2>1, <2>2
<1>6. /\ told'[T] = told[T] \/ (told'[T] = "closed" /\ e = T)
      /\ told'[I] = told[I] \/ told'[I] = "closed"
      /\ file'[T] = file[T] \/ (file'[T] = "done" /\ e = T)
  BY <1>3, Known
<1>7. Carried' /\ Finished' /\ Emptied' /\ Conserved'
  BY <1>2, <1>4, <1>6, FlowStill
<1>8. Paired'
  BY <1>2, <1>5, <1>6 DEF Flow, Paired
<1> QED
  BY <1>7, <1>8 DEF Flow

LEMMA FlowAnswers ==
  ASSUME TypeOK, TellInv, Flow, NEW e \in End, HostAnswers(e)
  PROVE  Flow'
<1> USE Ends
<1>1. s5[e] \in Shaking /\ wire[e] = <<>> /\ chunk[e] = <<>> /\ iq = "connecting"
  BY Known DEF HostAnswers, Negotiates, Empty
<1>2. wire' = [wire EXCEPT ![e] = <<"method">>] \/ wire' = [wire EXCEPT ![e] = <<"ok">>]
      \/ wire' = [wire EXCEPT ![e] = <<"no">>]
  BY DEF HostAnswers
<1>3. UNCHANGED <<iq, file, try, host, s5, chunk, told, got, sent>>
  BY DEF HostAnswers, link
<1>4. Paired'
  BY <1>3 DEF Flow, Paired, Activating
<1>5. CASE e = I
  <2>1. wire'[T] = wire[T]
    BY <1>2, <1>5, Known
  <2>2. Carried' /\ Finished' /\ Emptied' /\ Conserved'
    BY <1>1, <1>3, <2>1, FlowStill
  <2> QED
    BY <1>4, <2>2 DEF Flow
<1>6. CASE e = T
  <2>1. wire'[T] \in Answering
    BY <1>2, <1>6, Known
  <2>2. wire'[T] \in Seq(Unit)
    BY <2>1, NoSingle DEF Unit
  <2>3. No("data", wire'[T]) /\ DataIn(wire'[T]) = 0 /\ DataIn(wire[T]) = 0
    BY <1>1, <1>6, <2>1, <2>2, TransitEmpty, DataCount
  <2>4. Carried'
    BY <1>1, <1>3, <1>6, <2>3 DEF Flow, Carried
  <2>5. Finished' /\ Emptied'
    BY <1>1, <1>3, <1>6, <2>3 DEF Flow, Finished, Emptied
  <2>6. Conserved'
    BY <1>1, <1>3, <1>6, <2>3 DEF Flow, Conserved
  <2> QED
    BY <1>4, <2>4, <2>5, <2>6 DEF Flow
<1> QED
  BY <1>5, <1>6

LEMMA FlowRead ==
  ASSUME TypeOK, TellInv, Flow, NEW e \in End, Read(e)
  PROVE  Flow'
<1> USE Ends
<1>1. file[e] = "select" /\ file' = [file EXCEPT ![e] = "handle"]
      /\ UNCHANGED <<iq, try, host, s5, told, got, sent>>
  BY DEF Read, FileAt, link
<1>2. PICK n \in 1..Len(wire[e]) :
          /\ n = 1 \/ \A i \in 1..n : wire[e][i] # "eof"
          /\ chunk' = [chunk EXCEPT ![e] = SubSeq(wire[e], 1, n)]
          /\ wire' = [wire EXCEPT ![e] = SubSeq(wire[e], n + 1, Len(wire[e]))]
  BY DEF Read
<1>3. Paired'
  BY <1>1 DEF Flow, Paired
<1>4. CASE e = I
  <2>1. wire'[T] = wire[T] /\ chunk'[T] = chunk[T] /\ file'[T] = file[T]
    BY <1>1, <1>2, <1>4, Known
  <2>2. Carried' /\ Finished' /\ Emptied' /\ Conserved'
    BY <1>1, <2>1, FlowStill
  <2> QED
    BY <1>3, <2>2 DEF Flow
<1>5. CASE e = T
  <2> DEFINE w == wire[T]
             c == SubSeq(w, 1, n)
             r == SubSeq(w, n + 1, Len(w))
  <2>1. chunk[T] = <<>>
    BY <1>1, <1>5, Known DEF Flow, Emptied
  <2>2. chunk'[T] = c /\ wire'[T] = r /\ file'[T] = "handle" /\ w \in Seq(Unit)
    BY <1>1, <1>2, <1>5, Known, Phases
  <2>3. n \in 1..Len(w) /\ (n = 1 \/ \A i \in 1..n : w[i] # "eof")
    BY <1>2, <1>5
  <2>4. /\ c \in Seq(Unit) /\ r \in Seq(Unit)
        /\ \A unit : No(unit, w) => No(unit, c) /\ No(unit, r)
    BY <2>2, <2>3, NoSplit
  <2>5. iq = "over" => Stream(w)
    BY <2>1 DEF Flow, Carried, InTransit
  <2>6. iq = "over" => InTransit(c, r) /\ DataIn(c) + DataIn(r) = DataIn(w)
    BY <2>2, <2>3, <2>5, StreamRead
  <2>7. iq # "over" => DataIn(c) = 0 /\ DataIn(r) = 0 /\ DataIn(w) = 0
    <3> SUFFICES ASSUME iq # "over" PROVE DataIn(c) = 0 /\ DataIn(r) = 0 /\ DataIn(w) = 0
      OBVIOUS
    <3>1. No("data", w)
      BY DEF Flow, Carried
    <3> HIDE DEF c, r, w
    <3> QED
      BY <2>2, <2>4, <3>1, DataCount
  <2>8. DataIn(c) \in Nat /\ DataIn(r) \in Nat /\ DataIn(w) \in Nat /\ DataIn(chunk[T]) = 0
    <3> HIDE DEF c, r, w
    <3> QED
      BY <2>1, <2>2, <2>4, DataCount, TransitEmpty
  <2> HIDE DEF c, r
  <2>9. Carried'
    BY <1>1, <2>2, <2>4, <2>6 DEF Flow, Carried
  <2>10. Finished' /\ Emptied'
    BY <1>1, <1>5, <2>2, <2>4, Known DEF Flow, Finished, Emptied
  <2>11. Conserved'
    <3>1. got[T] + 0 + DataIn(w) = sent[I] /\ got[T] \in Nat
      BY <2>8 DEF Flow, Conserved, TypeOK
    <3>2. DataIn(c) + DataIn(r) = DataIn(w)
      BY <2>6, <2>7
    <3>3. got[T] + DataIn(c) + DataIn(r) = sent[I]
      <4> HIDE DEF w
      <4> QED
        BY <2>8, <3>1, <3>2
    <3> QED
      BY <1>1, <2>2, <3>3 DEF Conserved
  <2> QED
    BY <1>3, <2>9, <2>10, <2>11 DEF Flow
<1> QED
  BY <1>4, <1>5

\* The target's file thread has dealt with what was no data.
LEMMA FlowTaken ==
  ASSUME TypeOK, Flow, chunk'[T] = <<>>, wire'[T] = wire[T], UNCHANGED <<sent, got>>,
         No("data", chunk[T]), No("data", wire[T]),
         iq # "over" => iq' # "over",
         iq = "over" => iq' = iq /\ chunk[T] = <<"eof">> /\ wire[T] = <<>> /\ host'[I] = host[I]
  PROVE  Carried' /\ Finished' /\ Emptied' /\ Conserved'
<1> USE TransitEmpty DEF Flow
<1>1. Carried'
  BY DEF Carried
<1>2. iq = "over" => host[I] = "none"
  <2>1. ~No("eof", <<"eof">>)
    BY DEF No
  <2> QED
    BY <2>1 DEF Carried
<1>3. Finished'
  BY <1>2 DEF Finished
<1>4. Emptied'
  BY DEF Emptied
<1>5. DataIn(chunk[T]) = 0
  <2>1. chunk[T] \in Seq(Unit)
    BY Phases, Ends
  <2> QED
    BY <2>1, DataCount
<1>6. Conserved'
  BY <1>5 DEF Conserved
<1> QED
  BY <1>1, <1>3, <1>4, <1>6

LEMMA FlowMethod ==
  ASSUME TypeOK, TellInv, Flow, NEW e \in End, HandleMethod(e)
  PROVE  Flow'
<1> USE Ends DEF Offering, Used, Activating
<1>1. s5[e] \in Shaking /\ iq = "connecting" /\ wire[e] = <<>> /\ file[e] = "handle"
      /\ chunk[e] \in Answering
  <2>1. file[e] = "handle" /\ s5[e] \in Shaking
    BY DEF HandleMethod, Handling
  <2> QED
    BY <2>1, Handles
<1>2. /\ chunk' = [chunk EXCEPT ![e] = <<>>] /\ file' = [file EXCEPT ![e] = "look"]
      /\ s5' = [s5 EXCEPT ![e] = "negotiating"]
      /\ UNCHANGED <<iq, wire, try, host, told, got, sent>>
  BY DEF HandleMethod, Handling, FileAt
<1>3. Paired'
  <2>1. s5'[I] \in Shaking => s5[I] \in Shaking
    BY <1>1, <1>2, Known
  <2>2. told[I] # "opened"
    BY <1>1, Known DEF InOrder
  <2> QED
    BY <1>2, <2>1, <2>2 DEF Flow, Paired
<1>4. CASE e = I
  <2>1. chunk'[T] = chunk[T] /\ file'[T] = file[T] /\ s5'[T] = s5[T]
    BY <1>2, <1>4, Known
  <2>2. Carried' /\ Finished' /\ Emptied' /\ Conserved'
    BY <1>1, <1>2, <2>1, FlowStill
  <2> QED
    BY <1>3, <2>2 DEF Flow
<1>5. CASE e = T
  <2>1. chunk'[T] = <<>> /\ No("data", chunk[T]) /\ No("data", wire[T])
    BY <1>1, <1>2, <1>5, Known, TransitEmpty
  <2>2. Carried' /\ Finished' /\ Emptied' /\ Conserved'
    BY <1>1, <1>2, <2>1, FlowTaken
  <2> QED
    BY <1>3, <2>2 DEF Flow
<1> QED
  BY <1>4, <1>5

LEMMA FlowReply ==
  ASSUME TypeOK, TellInv, Flow, NEW e \in End, HandleReply(e) \/ HandleRefusal(e)
  PROVE  Flow'
<1> USE Ends DEF Offering, Used, Activating
<1>1. s5[e] \in Shaking /\ iq = "connecting" /\ wire[e] = <<>> /\ file[e] = "handle"
      /\ chunk[e] \in Answering
  <2>1. file[e] = "handle" /\ s5[e] \in Shaking
    BY DEF HandleReply, HandleRefusal, Handling
  <2> QED
    BY <2>1, Handles
<1>2. /\ chunk' = [chunk EXCEPT ![e] = <<>>] /\ file' = [file EXCEPT ![e] = "look"]
      /\ UNCHANGED <<wire, try, host, got, sent>>
  BY DEF HandleReply, HandleRefusal, Handling, FileAt
<1>3. \/ /\ iq' = IF e = I THEN "activate" ELSE IF host[T] = "proxy" THEN "used proxy" ELSE "used loop"
         /\ s5' = [s5 EXCEPT ![e] = "connected"] /\ told' = told
      \/ UNCHANGED <<iq, s5>> /\ (told' = told \/ told' = [told EXCEPT ![e] = "closed"])
  BY DEF HandleReply, HandleRefusal, TellClosed, TellListener
<1>4. iq' # "over"
  BY <1>1, <1>3
<1>5. Paired'
  <2>1. told'[I] = told[I] \/ told'[I] = "closed"
    BY <1>3, Known
  <2>2. s5'[I] \in Shaking => s5[I] \in Shaking
    BY <1>3, Known
  <2>3. told[I] # "opened"
    BY <1>1, Known DEF InOrder
  <2>4. CASE UNCHANGED <<iq, s5>>
    BY <1>2, <2>1, <2>3, <2>4 DEF Flow, Paired
  <2>5. CASE iq' = IF e = I THEN "activate" ELSE IF host[T] = "proxy" THEN "used proxy" ELSE "used loop"
    <3>1. iq' = "used proxy" => host[T] = "proxy"
      BY <2>5
    <3>2. iq' \in Activating => e = I
      BY <2>5
    <3>3. e = I => host[I] = "proxy" /\ host[T] = "proxy"
      BY <1>1 DEF Flow, Paired
    <3>4. iq' # "connecting"
      BY <2>5
    <3> QED
      BY <1>2, <2>1, <2>2, <2>3, <3>1, <3>2, <3>3, <3>4 DEF Flow, Paired, Carrier
  <2> QED
    BY <1>3, <2>4, <2>5
<1>6. CASE e = I
  <2>1. chunk'[T] = chunk[T] /\ file'[T] = file[T] /\ s5'[T] = s5[T] /\ told'[T] = told[T]
    BY <1>2, <1>3, <1>6, Known
  <2>2. Carried' /\ Finished' /\ Emptied' /\ Conserved'
    BY <1>1, <1>2, <1>4, <2>1, FlowStill
  <2> QED
    BY <1>5, <2>2 DEF Flow
<1>7. CASE e = T
  <2>1. chunk'[T] = <<>> /\ No("data", chunk[T]) /\ No("data", wire[T])
    BY <1>1, <1>2, <1>7, Known, TransitEmpty
  <2>2. Carried' /\ Finished' /\ Emptied' /\ Conserved'
    BY <1>1, <1>2, <1>4, <2>1, FlowTaken
  <2> QED
    BY <1>5, <2>2 DEF Flow
<1> QED
  BY <1>6, <1>7

\* The target leaves: only when the initiator has left before, or never came.
LEMMA TargetGone ==
  ASSUME TypeOK, TellInv, Flow, Unlink(T), ~Rests, UNCHANGED <<iq, told, try>>,
         iq = "over" => host[I] = "none"
  PROVE  Paired'
<1> USE Ends DEF Offering, Used, Activating, Rests
<1>1. host' = [host EXCEPT ![T] = "none"] /\ s5' = [s5 EXCEPT ![T] = "disconnected"]
  BY UnlinkKeeps
<1>2. host'[I] = host[I] /\ s5'[I] = s5[I]
  BY <1>1, Known
<1>3. told[I] = "opened" => host[I] = "none"
  BY Known DEF InOrder
<1>4. told[I] = "created" => iq = "over"
  BY NotResting
<1> QED
  BY <1>2, <1>3, <1>4 DEF Flow, Paired, Carrier

\* The initiator leaves: the target finds the end of the stream behind the data.
LEMMA InitiatorGone ==
  ASSUME TypeOK, TellInv, Flow, "broken" \notin faults, Unlink(I), iq \in {"connecting", "over"},
         UNCHANGED <<iq, told, try, sent, got>>, chunk'[T] = chunk[T], file'[T] = file[T]
  PROVE  Flow'
<1> USE Ends
<1>1. host' = [host EXCEPT ![I] = "none"] /\ s5' = [s5 EXCEPT ![I] = "disconnected"]
  BY UnlinkKeeps
<1>2. host'[I] = "none" /\ host'[T] = host[T] /\ s5'[I] = "disconnected" /\ s5'[T] = s5[T]
  BY <1>1, Known
<1>3. Paired'
  BY <1>2 DEF Flow, Paired, Carrier, Activating
<1>4. wire'[T] = IF Linked THEN Append(wire[T], "eof") ELSE wire[T]
  BY Known DEF Unlink
<1>5. CASE ~Linked
  <2>1. wire'[T] = wire[T]
    BY <1>4, <1>5
  <2>2. Carried' /\ Finished' /\ Emptied' /\ Conserved'
    BY <1>2, <2>1, FlowStill
  <2> QED
    BY <1>3, <2>2 DEF Flow
<1>6. CASE Linked
  <2>1. wire'[T] = Append(wire[T], "eof") /\ host[I] # "none"
    BY <1>4, <1>6 DEF Linked
  <2>2. wire[T] \in Seq(Unit) /\ "eof" \in Unit /\ "data" # "eof"
    BY Phases DEF Unit
  <2>3. No("data", wire[T]) => No("data", wire'[T])
    BY <2>1, <2>2, NoAppend
  <2>4. DataIn(wire'[T]) = DataIn(wire[T])
    <3>1. DataIn(wire'[T]) = DataIn(wire[T]) + 0 /\ DataIn(wire[T]) \in Nat
      BY <2>1, <2>2, DataAppended, DataCount
    <3> QED
      BY <3>1
  <2>5. iq = "over" => No("eof", wire[T]) /\ No("eof", chunk[T])
    BY <2>1 DEF Flow, Carried
  <2>6. ~No("eof", <<"eof">>)
    BY DEF No
  <2>7. iq = "over" => Stream(wire[T]) /\ Stream(chunk[T])
    BY <2>5, <2>6 DEF Flow, Carried, InTransit
  <2>8. iq = "over" => InTransit(chunk[T], wire'[T])
    BY <2>1, <2>2, <2>5, <2>7, StreamAppended DEF InTransit
  <2>9. Carried'
    BY <1>2, <2>3, <2>8 DEF Flow, Carried
  <2>10. Finished' /\ Emptied'
    BY <1>2, <2>3 DEF Flow, Finished, Emptied
  <2>11. Conserved'
    BY <2>4 DEF Flow, Conserved
  <2> QED
    BY <1>3, <2>9, <2>10, <2>11 DEF Flow
<1> QED
  BY <1>5, <1>6

LEMMA FlowLock ==
  ASSUME TypeOK, TellInv, Flow, "broken" \notin faults, NEW e \in End, CloseLock(e)
  PROVE  Flow'
<1>1. e = I /\ iq = "over"
  BY Known, Ends DEF CloseLock, InOrder
<1>2. Unlink(I) /\ UNCHANGED <<iq, told, try, sent, got, chunk, file>>
  BY <1>1 DEF CloseLock
<1> QED
  BY <1>1, <1>2, InitiatorGone

LEMMA FlowCrashed ==
  ASSUME TypeOK, TellInv, Flow, "broken" \notin faults, NEW e \in End, Look(e), ~entry[e]
  PROVE  Flow'
<1> USE Ends DEF Idle, After
<1>1. file[e] \in {"find", "look"} /\ file' = [file EXCEPT ![e] = "crashed"] /\ Unlink(e)
      /\ UNCHANGED <<iq, told, try, sent, got, chunk>>
  BY DEF Look, FileAt
<1>2. told[e] # "none"
  BY <1>1, Known DEF Unborn
<1>3. CASE e = I
  <2>1. iq = "over" \/ iq = "connecting"
    BY <1>2, <1>3, Known, Phases DEF InitiatorInv, InOrder
  <2>2. file'[T] = file[T]
    BY <1>1, <1>3, Known
  <2> QED
    BY <1>1, <1>3, <2>1, <2>2, InitiatorGone
<1>4. CASE e = T
  <2>1. told[T] = "closed"
    BY <1>2, <1>4, Known, Phases DEF TargetInv
  <2>2. ~Rests
    BY <2>1, Known DEF TargetRests
  <2>3. No("data", wire[T]) /\ No("data", chunk[T]) /\ (iq = "over" => host[I] = "none")
    BY <2>1 DEF Flow, Finished
  <2>4. chunk[T] = <<>>
    BY <1>1, <1>4 DEF Flow, Emptied
  <2>5. wire'[T] = wire[T] /\ host'[I] = host[I]
    <3>1. wire'[T] = wire[T] /\ host' = [host EXCEPT ![T] = "none"]
      BY <1>1, <1>4, UnlinkKeeps
    <3> QED
      BY <3>1, Known
  <2>6. Carried' /\ Finished' /\ Emptied' /\ Conserved'
    BY <1>1, <2>1, <2>3, <2>4, <2>5, FlowStill
  <2>7. Paired'
    BY <1>1, <1>4, <2>2, <2>3, TargetGone
  <2> QED
    BY <2>6, <2>7 DEF Flow
<1> QED
  BY <1>3, <1>4

LEMMA FlowEof ==
  ASSUME TypeOK, TellInv, Flow, "broken" \notin faults, NEW e \in End, HandleEof(e)
  PROVE  Flow'
<1> USE Ends
<1>1. file[e] = "handle" /\ Head(chunk[e]) = "eof" /\ Unlink(e)
      /\ chunk' = [chunk EXCEPT ![e] = <<>>]
      /\ UNCHANGED <<iq, told, try, sent, got>>
  BY DEF HandleEof, Handling
<1>2. chunk[e] # <<>> /\ chunk[e] \in Seq(Unit)
  BY <1>1, Handles, Phases
<1>3. CASE e = I
  <2>1. iq = "over" \/ iq = "connecting"
    BY <1>1, <1>3, Handles
  <2>2. chunk'[T] = chunk[T]
    BY <1>1, <1>3, Known
  <2>3. file'[T] = file[T]
    BY <1>3, Known DEF HandleEof, FileAt
  <2> QED
    BY <1>1, <1>3, <2>1, <2>2, <2>3, InitiatorGone
<1>4. CASE e = T
  <2>1. ~Rests
    BY <1>1, <1>4, Handles
  <2>2. ~No("eof", chunk[T])
    BY <1>1, <1>2, <1>4, FirstUnit
  <2>3. iq = "over" => chunk[T] = <<"eof">> /\ wire[T] = <<>> /\ host[I] = "none"
    BY <2>2 DEF Flow, Carried, InTransit
  <2>4. No("data", chunk[T]) /\ No("data", wire[T])
    BY <2>3, TransitEmpty DEF Flow, Carried
  <2>5. wire'[T] = wire[T] /\ host'[I] = host[I] /\ chunk'[T] = <<>>
    <3>1. wire'[T] = wire[T] /\ host' = [host EXCEPT ![T] = "none"]
      BY <1>1, <1>4, UnlinkKeeps
    <3> QED
      BY <1>1, <1>4, <3>1, Known
  <2>6. Carried' /\ Finished' /\ Emptied' /\ Conserved'
    BY <1>1, <2>3, <2>4, <2>5, FlowTaken
  <2>7. Paired'
    BY <1>1, <1>4, <2>1, <2>3, TargetGone
  <2> QED
    BY <2>6, <2>7 DEF Flow
<1> QED
  BY <1>3, <1>4

\* The target's listener is told of every piece of data in the chunk.
LEMMA FlowData ==
  ASSUME TypeOK, TellInv, Flow, NEW e \in End, HandleData(e)
  PROVE  Flow'
<1> USE Ends
<1>1. file[e] = "handle" /\ Head(chunk[e]) = "data"
      /\ chunk' = [chunk EXCEPT ![e] = <<>>] /\ file' = [file EXCEPT ![e] = "look"]
      /\ UNCHANGED <<iq, try, host, s5, wire, sent>>
  BY DEF HandleData, Handling, FileAt, link
<1>2. chunk[e] # <<>> /\ chunk[e] \in Seq(Unit)
  BY <1>1, Handles, Phases
<1>3. ~No("data", chunk[e])
  BY <1>1, <1>2, FirstUnit
<1>4. e = T
  BY <1>3, Known DEF InitiatorInv
<1>5. iq = "over" /\ s5[T] = "connected" /\ told[T] # "closed"
  BY <1>3, <1>4 DEF Flow, Carried, Finished
<1>6. /\ got' = [got EXCEPT ![T] = got[T] + Len(chunk[T])]
      /\ told' = told \/ told' = [told EXCEPT ![T] = "opened"]
  BY <1>4, <1>5 DEF HandleData, TellListener
<1>7. /\ got'[T] = got[T] + Len(chunk[T]) /\ chunk'[T] = <<>> /\ file'[T] = "look"
      /\ told'[T] # "closed" /\ told'[I] = told[I]
  <2>1. DOMAIN got = End
    BY DEF TypeOK
  <2> QED
    BY <1>1, <1>4, <1>5, <1>6, <2>1, Known
<1>8. Stream(wire[T]) /\ Stream(chunk[T]) /\ No("eof", chunk[T])
  <2>1. InTransit(chunk[T], wire[T])
    BY <1>5 DEF Flow, Carried
  <2>2. chunk[T] # <<"eof">>
    BY <1>3, <1>4, TransitEmpty
  <2> QED
    BY <2>1, <2>2 DEF InTransit
<1>9. DataIn(chunk[T]) = Len(chunk[T])
  BY <1>2, <1>4, <1>8, StreamCount
<1>10. Paired'
  BY <1>1, <1>7 DEF Flow, Paired
<1>11. Carried'
  <2>1. InTransit(<<>>, wire[T])
    BY <1>8, TransitEmpty DEF InTransit
  <2> QED
    BY <1>1, <1>5, <1>7, <2>1, TransitEmpty DEF Flow, Carried
<1>12. Finished' /\ Emptied'
  BY <1>7 DEF Finished, Emptied
<1>13. Conserved'
  <2>1. got[T] \in Nat /\ DataIn(chunk[T]) \in Nat /\ DataIn(wire[T]) \in Nat
    BY <1>2, <1>4, Phases, DataCount DEF TypeOK
  <2>2. got'[T] + 0 + DataIn(wire[T]) = sent[I]
    BY <1>7, <1>9, <2>1 DEF Flow, Conserved
  <2> QED
    BY <1>1, <1>7, <2>2, TransitEmpty DEF Conserved
<1> QED
  BY <1>10, <1>11, <1>12, <1>13 DEF Flow

\* What is sent goes to the end of what is under way; no send of an initiator that has
\* not left fails.
LEMMA FlowSent ==
  ASSUME TypeOK, TellInv, Receives, Flow, "broken" \notin faults, NEW e \in End,
         SendFtData(e) \/ SendFails(e)
  PROVE  Flow'
<1> USE Ends
<1>1. e = I /\ told[I] = "opened" /\ host[I] \in Carrier
      /\ sent' = [sent EXCEPT ![I] = sent[I] + 1]
  BY DEF SendFtData, SendFails, Writes, Uses, Receives, Carrier
<1>2. host[T] = host[I] /\ s5[T] = "connected" /\ iq = "over" /\ host[I] # "none"
  BY <1>1, Known DEF Flow, Paired, InOrder, Carrier
<1>3. Linked
  BY <1>1, <1>2 DEF Linked, Carrier
<1>4. SendFtData(I)
  BY <1>1, <1>3 DEF SendFails
<1>5. /\ wire' = [wire EXCEPT ![T] = Append(wire[T], "data")]
      /\ UNCHANGED <<iq, file, try, host, s5, chunk, told, got>>
  BY <1>3, <1>4 DEF SendFtData, link
<1>6. wire'[T] = Append(wire[T], "data") /\ wire[T] \in Seq(Unit) /\ "data" \in Unit
  BY <1>5, Known, Phases DEF Unit
<1>7. No("eof", wire[T]) /\ No("eof", chunk[T])
  BY <1>2 DEF Flow, Carried
<1>8. Stream(wire[T]) /\ Stream(chunk[T])
  <2>1. ~No("eof", <<"eof">>)
    BY DEF No
  <2> QED
    BY <1>2, <1>7, <2>1 DEF Flow, Carried, InTransit
<1>9. Stream(wire'[T]) /\ No("eof", wire'[T])
  BY <1>6, <1>7, <1>8, StreamAppended
<1>10. Paired'
  BY <1>5 DEF Flow, Paired
<1>11. Carried'
  BY <1>2, <1>5, <1>7, <1>8, <1>9 DEF Carried, InTransit
<1>12. Finished' /\ Emptied'
  BY <1>2, <1>5 DEF Flow, Finished, Emptied
<1>13. Conserved'
  <2>1. DataIn(wire'[T]) = DataIn(wire[T]) + 1
    BY <1>6, DataAppended
  <2>2. got[T] \in Nat /\ DataIn(chunk[T]) \in Nat /\ DataIn(wire[T]) \in Nat
    BY Phases, DataCount DEF TypeOK
  <2>3. sent'[I] = sent[I] + 1 /\ sent[I] \in Nat
    <3>1. sent \in [End -> 0..MaxData]
      BY DEF TypeOK
    <3> QED
      BY <1>1, <3>1
  <2>4. got[T] + DataIn(chunk[T]) + DataIn(wire[T]) = sent[I]
    BY DEF Flow, Conserved
  <2>5. got[T] + DataIn(chunk[T]) + DataIn(wire'[T]) = sent'[I]
    BY <2>1, <2>2, <2>3, <2>4
  <2> QED
    BY <1>5, <2>5 DEF Conserved
<1> QED
  BY <1>10, <1>11, <1>12, <1>13 DEF Flow

LEMMA FlowInit == Init => FlowInv
<1> SUFFICES ASSUME Init PROVE Flow
  BY TellInit DEF FlowInv
<1> USE Ends, TransitEmpty
<1>1. Paired
  BY DEF Init, Paired, Activating
<1>2. Carried
  BY DEF Init, Carried
<1>3. Finished /\ Emptied
  BY DEF Init, Finished, Emptied
<1>4. Conserved
  BY DEF Init, Conserved
<1> QED
  BY <1>1, <1>2, <1>3, <1>4 DEF Flow

LEMMA FlowNext == TypeOK /\ Receives /\ FlowInv /\ [Next]_vars => FlowInv'
<1> SUFFICES ASSUME TypeOK, Receives, FlowInv, [Next]_vars, "broken" \notin faults'
             PROVE  TellInv' /\ Flow'
  BY DEF FlowInv
<1>1. "broken" \notin faults /\ ~Break
  <2>1. CASE Break
    BY <2>1 DEF Break
  <2>2. CASE UNCHANGED faults
    BY <2>1, <2>2 DEF Break
  <2>3. CASE ProxyActivates \/ \E e \in End : ProxyAnswers(e)
    BY <2>1, <2>3 DEF ProxyActivates, ProxyAnswers
  <2>4. CASE RequestFt \/ AcceptFt \/ Handlers
    BY <2>2, <2>3, <2>4 DEF Handlers, RequestFt, AcceptFt, HandleDeclined, HandleAccepted, HandleHosts,
       HandleUsedLoop, HandleUsedProxy, Activate, HandleNotActivated, IqOnly
  <2>5. ASSUME NEW e \in End, File(e) PROVE "broken" \notin faults /\ ~Break
    <3>1. UNCHANGED faults
      BY <2>5 DEF File, RecvS5bFtData, ConnectAtOnce, Connected, NotConnected, Look, Recv, Read, HandleEof,
         Tell, HandleMethod, HandleReply, HandleRefusal, HandleData
    <3> QED
      BY <2>2, <3>1
  <2>6. ASSUME NEW e \in End, \/ Closing(e) \/ SendFtData(e) \/ SendFails(e) \/ CloseFtBytestream(e)
                              \/ Traffic(e) \/ ServerTurn(e)
        PROVE  "broken" \notin faults /\ ~Break
    <3>1. UNCHANGED faults
      BY <2>6 DEF Closing, CloseLock, CloseTell, CloseErase, SendFtData, SendFails, CloseFtBytestream,
         Traffic, ServerTurn
    <3> QED
      BY <2>2, <3>1
  <2>7. CASE UNCHANGED vars
    BY <2>2, <2>7 DEF vars
  <2> QED
    BY <2>1, <2>3, <2>4, <2>5, <2>6, <2>7 DEF Next
<1>2. Flow
  BY <1>1 DEF FlowInv
<1>3. TellInv
  BY <1>1 DEF FlowInv
<1>4. ASSUME RequestFt \/ AcceptFt \/ Handlers PROVE Flow'
  BY <1>2, <1>3, <1>4, FlowWords, FlowActivating, FlowCreated DEF Handlers
<1>5. ASSUME NEW e \in End, File(e) PROVE Flow'
  <2>1. CASE Look(e)
    BY <1>1, <1>2, <1>3, <2>1, FlowIdle, FlowCrashed
  <2>2. CASE ~Look(e)
    BY <1>1, <1>2, <1>3, <1>5, <2>2, FlowIdle, FlowConnected, FlowNotConnected, FlowRead, FlowEof, FlowMethod,
       FlowReply, FlowData
       DEF File
  <2> QED
    BY <2>1, <2>2
<1>6. ASSUME NEW e \in End, HostAnswers(e) \/ SendFtData(e) \/ SendFails(e) PROVE Flow'
  BY <1>1, <1>2, <1>3, <1>6, FlowAnswers, FlowSent
<1>11. ASSUME Quiet PROVE Flow'
  BY <1>2, <1>11, ZenonT(60) DEF Quiet, link, Flow, Paired, Carried, Finished, Emptied, Conserved, InTransit, Stream,
     No, DataIn
<1>12. ASSUME NEW e \in End, Traffic(e) \/ ServerTurn(e) \/ ProxyAnswers(e) PROVE Flow'
  BY <1>6, <1>11, <1>12, HostSteps, Ends
<1>7. ASSUME NEW e \in End, CloseFtBytestream(e) \/ Closing(e) PROVE Flow'
  BY <1>1, <1>2, <1>3, <1>7, FlowIdle, FlowLock DEF Closing
<1>8. ASSUME UNCHANGED vars PROVE Flow'
  BY <1>8, <1>11, HostSteps, Ends
<1>9. Flow'
  BY <1>1, <1>4, <1>5, <1>6, <1>7, <1>8, <1>12 DEF Next
<1>10. TellInv'
  BY <1>1, <1>3, TellSteps
<1> QED
  BY <1>9, <1>10

\* While the target only receives, no piece of data is lost: neither to the SOCKS
\* negotiation, whose reply is read with whatever is behind it, nor when the initiator
\* takes over the connection of its server, nor when it closes with data under way.
THEOREM NoDataLost == ASSUME Receives PROVE Spec => []NothingLost
<1>1. Init => TypeOK /\ FlowInv
  BY TellInit, FlowInit
<1>2. TypeOK /\ FlowInv /\ [Next]_vars => (TypeOK /\ FlowInv)'
  BY FlowNext, TypeNext
<1>3. TypeOK /\ FlowInv => NothingLost
  <2> SUFFICES ASSUME TypeOK, Flow PROVE NothingLost
    BY DEF FlowInv, NothingLost
  <2>1. got[T] + DataIn(chunk[T]) + DataIn(wire[T]) = sent[I] /\ got[T] \in Nat
    BY Ends DEF TypeOK, Flow, Conserved
  <2>2. wire[T] \in Seq(Unit) /\ chunk[T] \in Seq(Unit)
    BY Phases, Ends
  <2>3. told[T] = "closed" => DataIn(chunk[T]) = 0 /\ DataIn(wire[T]) = 0
    BY <2>2, DataCount DEF Flow, Finished
  <2>4. told[T] = "closed" => got[T] = sent[I]
    BY <2>1, <2>3
  <2> QED
    BY <2>1, <2>4 DEF NothingLost
<1> QED
  BY <1>1, <1>2, <1>3, PTL DEF Spec

=============================================================================
