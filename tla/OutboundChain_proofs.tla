-------------------------- MODULE OutboundChain_proofs --------------------------
(***************************************************************************)
(* Type correctness of OutboundChain, the integrity of blocks on the       *)
(* socket, and what arrives there: every stanza whose send() has returned, *)
(* and once.  For any set of sending threads, any layers, any number of    *)
(* stanzas and pieces; where turns are needed the theorem says over which  *)
(* layer.                                                                  *)
(***************************************************************************)
EXTENDS OutboundChain, SequenceTheorems, TLAPS

\* What is about to be deflated is there.
HasData == \A t \in Senders : pc[t] = "deflate" => data[t] # <<>>

\* A thread is at ::send exactly while it holds m_sendMutex.
Owns == \A t \in Senders : pc[t] = "io" <=> sendOwner = t

\* While a block is under way it is not all taken, and the piece that was taken
\* last is its own.
UnderWay ==
  sendOwner # NoSender =>
    /\ piece < Pieces
    /\ piece > 0 => /\ wire # <<>>
                    /\ wire[Len(wire)] = [body |-> data[sendOwner], part |-> piece]

ChainInv == TypeOK /\ HasData /\ Owns /\ UnderWay /\ BlocksContiguous

-----------------------------------------------------------------------------
(* The sequences the layers build.                                         *)

\* A block of one unit.
LEMMA OneUnit ==
  ASSUME NEW u \in Unit
  PROVE  <<u>> \in Seq(Unit) /\ <<u>> # <<>>
  OBVIOUS

\* Numbering the record of every unit leaves a sequence of units.
LEMMA NumberedIsSeq ==
  ASSUME NEW s \in Seq(Unit), NEW r \in Nat
  PROVE  [i \in DOMAIN s |-> [s[i] EXCEPT !.rec = r]] \in Seq(Unit)
<1>1. DOMAIN s = 1..Len(s) /\ Len(s) \in Nat /\ s \in [1..Len(s) -> Unit]
  BY LenProperties
<1>2. \A i \in 1..Len(s) : [s[i] EXCEPT !.rec = r] \in Unit
  BY <1>1 DEF Unit
<1>3. [i \in DOMAIN s |-> [s[i] EXCEPT !.rec = r]] \in [1..Len(s) -> Unit]
  BY <1>1, <1>2
<1> QED
  BY <1>1, <1>3

\* What is left of the buffer is a sequence of units.
LEMMA RestIsSeq ==
  ASSUME NEW s \in Seq(Unit), NEW k \in Nat
  PROVE  SubSeq(s, k + 1, Len(s)) \in Seq(Unit)
<1>1. Len(s) \in Nat /\ \A i \in (k + 1)..Len(s) : s[i] \in Unit
  BY LenProperties
<1> QED
  BY <1>1, SubSeqProperties

-----------------------------------------------------------------------------

LEMMA InitChain == Init => ChainInv
<1> SUFFICES ASSUME Init PROVE ChainInv
  OBVIOUS
<1>1. TypeOK
  BY ChainAssumption DEF Init, TypeOK, Label
<1>2. HasData /\ Owns /\ UnderWay /\ BlocksContiguous
  BY ChainAssumption DEF Init, HasData, Owns, UnderWay, BlocksContiguous
<1> QED
  BY <1>1, <1>2 DEF ChainInv

\* A step of a thread that is not at the socket, before or after.
LEMMA AwayFromSocket ==
  ASSUME ChainInv, NEW t \in Senders, NEW label \in Label \ {"io", "deflate"},
         Goto(t, label), pc[t] # "io", UNCHANGED sock,
         \A u \in Senders \ {t} : data'[u] = data[u]
  PROVE  HasData' /\ Owns' /\ UnderWay' /\ BlocksContiguous'
<1>1. pc' = [pc EXCEPT ![t] = label] /\ pc \in [Senders -> Label]
  BY DEF Goto, ChainInv, TypeOK
<1>2. sendOwner' = sendOwner /\ piece' = piece /\ wire' = wire
  BY DEF sock
<1>3. sendOwner # t /\ sendOwner \in Senders \union {NoSender}
  BY DEF ChainInv, Owns, TypeOK
<1>4. HasData'
  BY <1>1 DEF ChainInv, HasData
<1>5. Owns'
  BY <1>1, <1>2, <1>3 DEF ChainInv, Owns
<1>6. UnderWay'
  BY <1>2, <1>3 DEF ChainInv, UnderWay
<1>7. BlocksContiguous'
  BY <1>2 DEF ChainInv, BlocksContiguous
<1> QED
  BY <1>4, <1>5, <1>6, <1>7

\* The layers above the socket.
LEMMA LayersKeepChain ==
  ASSUME ChainInv, NEW t \in Senders,
         \/ Deflate(t) \/ TlsAppend(t) \/ TlsWrite(t) \/ TlsErase(t)
         \/ TlsPull(t) \/ TlsPush(t)
  PROVE  ChainInv'
<1> USE DEF ChainInv
<1>0. TypeOK
  OBVIOUS
<1>1. CASE Deflate(t)
  <2>1. Head(data[t]) \in Unit /\ zseq + 1 \in Nat
    <3>1. data[t] \in Seq(Unit) /\ data[t] # <<>> /\ zseq \in Nat
      BY <1>1 DEF TypeOK, HasData, Deflate
    <3> QED
      BY <3>1, HeadTailProperties
  <2> DEFINE new == [Head(data[t]) EXCEPT !.z = zseq + 1]
  <2>2. new \in Unit
    BY <2>1 DEF Unit
  <2>3. <<new>> \in Seq(Unit)
    BY <2>2, OneUnit
  <2>4. data' = [data EXCEPT ![t] = <<new>>] /\ Below \in Label \ {"io", "deflate"}
    BY <1>1 DEF Deflate, Below, Label
  <2> HIDE DEF new
  <2>5. TypeOK'
    BY <1>1, <2>1, <2>3, <2>4 DEF TypeOK, Deflate, Goto, tls, sock
  <2> QED
    BY <1>1, <2>4, <2>5, AwayFromSocket DEF Deflate, TypeOK
<1>2. CASE TlsAppend(t)
  <2>1. m_sendBuffer \o data[t] \in Seq(Unit) /\ <<>> \in Seq(Unit)
    BY DEF TypeOK
  <2>2. TypeOK'
    BY <1>2, <2>1 DEF TypeOK, TlsAppend, Goto, Label, sock
  <2> QED
    BY <1>2, <2>2, AwayFromSocket DEF TlsAppend, TypeOK, Label
<1>3. CASE TlsWrite(t)
  <2>1. CASE m_sendBuffer = <<>>
    <3>1. Goto(t, "idle") /\ UNCHANGED <<got, rseq, m_nbio>>
      BY <1>3, <2>1 DEF TlsWrite
    <3>2. TypeOK'
      BY <1>3, <3>1 DEF TypeOK, TlsWrite, Goto, Label, sock
    <3> QED
      BY <1>3, <3>1, <3>2, AwayFromSocket DEF TlsWrite, TypeOK, Label
  <2>2. CASE m_sendBuffer # <<>>
    <3> DEFINE rec == [i \in DOMAIN m_sendBuffer |-> [m_sendBuffer[i] EXCEPT !.rec = rseq + 1]]
    <3>1. m_sendBuffer \in Seq(Unit) /\ rseq + 1 \in Nat
      BY DEF TypeOK
    <3>2. rec \in Seq(Unit) /\ rseq + 1 \in Nat
      BY <3>1, NumberedIsSeq
    <3>3. /\ Goto(t, "erase") /\ rseq' = rseq + 1 /\ m_nbio' = m_nbio \o rec
          /\ got' = [got EXCEPT ![t] = Len(m_sendBuffer)]
      BY <1>3, <2>2 DEF TlsWrite
    <3> HIDE DEF rec
    <3>4. m_nbio \o rec \in Seq(Unit) /\ Len(m_sendBuffer) \in Nat
      BY <3>2 DEF TypeOK
    <3>5. TypeOK'
      BY <1>3, <3>2, <3>3, <3>4 DEF TypeOK, TlsWrite, Goto, Label, sock
    <3> QED
      BY <1>3, <3>3, <3>5, AwayFromSocket DEF TlsWrite, TypeOK, Label
  <2> QED
    BY <2>1, <2>2
<1>4. CASE TlsErase(t)
  <2>1. got[t] \in Nat /\ SubSeq(m_sendBuffer, got[t] + 1, Len(m_sendBuffer)) \in Seq(Unit)
    BY RestIsSeq DEF TypeOK
  <2>2. m_sendBuffer' \in Seq(Unit)
    BY <1>4, <2>1 DEF TlsErase
  <2>3. TypeOK'
    BY <1>4, <2>2 DEF TypeOK, TlsErase, Goto, Label, sock
  <2> QED
    BY <1>4, <2>3, AwayFromSocket DEF TlsErase, TypeOK, Label
<1>5. CASE TlsPull(t)
  <2>1. m_nbio \in Seq(Unit) /\ m_buf \in Seq(Unit) /\ <<>> \in Seq(Unit)
    BY DEF TypeOK
  <2>2. \/ m_nbio' = m_nbio /\ m_buf' = m_buf
        \/ m_nbio' = <<>> /\ m_buf' = m_nbio
    BY <1>5 DEF TlsPull
  <2>3. m_nbio' \in Seq(Unit) /\ m_buf' \in Seq(Unit)
    BY <2>1, <2>2
  <2>4. PICK label \in {"write", "push"} : Goto(t, label)
    BY <1>5 DEF TlsPull
  <2>5. TypeOK'
    BY <1>5, <2>3, <2>4 DEF TypeOK, TlsPull, Goto, Label, sock
  <2> QED
    BY <1>5, <2>4, <2>5, AwayFromSocket DEF TlsPull, TypeOK, Label
<1>6. CASE TlsPush(t)
  <2>1. TypeOK'
    BY <1>6 DEF TypeOK, TlsPush, Goto, Label, tls, sock
  <2> QED
    BY <1>6, <2>1, AwayFromSocket DEF TlsPush, TypeOK, Label
<1> QED
  BY <1>1, <1>2, <1>3, <1>4, <1>5, <1>6

\* A new stanza: the thread was outside, so it owns nothing.
LEMMA CallKeepsChain ==
  ASSUME ChainInv, NEW t \in Senders, Call(t)
  PROVE  ChainInv'
<1> USE DEF ChainInv
<1> DEFINE new == [from |-> t, n |-> n[t] + 1, z |-> 0, rec |-> 0]
<1>1. n[t] \in Nat /\ n[t] + 1 \in 0..MaxStanzas /\ MaxStanzas \in Nat
  BY ChainAssumption DEF TypeOK, Call
<1>2. new \in Unit
  BY <1>1 DEF Unit
<1>3. <<new>> \in Seq(Unit) /\ <<new>> # <<>>
  BY <1>2, OneUnit
<1>4. data' = [data EXCEPT ![t] = <<new>>]
  BY DEF Call
<1> HIDE DEF new
<1>5. PICK label \in {"deflate", "append", "lock"} : Goto(t, label)
  BY DEF Call, Below
<1>6. TypeOK'
  <2>1. pc' \in [Senders -> Label]
    BY <1>5 DEF TypeOK, Goto, Label
  <2>2. n' \in [Senders -> 0..MaxStanzas] /\ data' \in [Senders -> Seq(Unit)]
    BY <1>1, <1>3, <1>4 DEF TypeOK, Call
  <2> QED
    BY <2>1, <2>2 DEF TypeOK, Call, tls, sock
<1>7. sendOwner # t
  BY DEF Call, Owns
<1>8. HasData'
  BY <1>3, <1>4, <1>5 DEF TypeOK, HasData, Goto
<1>9. Owns'
  BY <1>5, <1>7 DEF TypeOK, Owns, Call, Goto, sock
<1>10. UnderWay' /\ BlocksContiguous'
  BY <1>4, <1>7 DEF TypeOK, UnderWay, BlocksContiguous, Call, sock
<1> QED
  BY <1>6, <1>8, <1>9, <1>10

\* The mutex is free when it is taken, and a block begins with its first piece.
LEMMA SendLockKeepsChain ==
  ASSUME ChainInv, NEW t \in Senders, SendLock(t)
  PROVE  ChainInv'
<1> USE DEF ChainInv
<1>1. TypeOK'
  BY ChainAssumption DEF TypeOK, SendLock, Goto, Label, tls
<1>2. HasData'
  BY DEF TypeOK, HasData, SendLock, Goto
<1>3. Owns'
  BY ChainAssumption DEF TypeOK, Owns, SendLock, Goto
<1>4. UnderWay' /\ BlocksContiguous'
  BY ChainAssumption DEF UnderWay, BlocksContiguous, SendLock
<1> QED
  BY <1>1, <1>2, <1>3, <1>4

\* A piece is taken: it is the first, or follows the piece before it.
LEMMA SendIoKeepsChain ==
  ASSUME ChainInv, NEW t \in Senders, SendIo(t)
  PROVE  ChainInv'
<1> USE DEF ChainInv
<1> DEFINE Taken == [body : Seq(Unit), part : 1..Pieces]
           new   == [body |-> data[t], part |-> piece + 1]
<1>1. sendOwner = t /\ t # NoSender
  BY ChainAssumption DEF Owns, SendIo
<1>2. piece \in Nat /\ Pieces \in Nat /\ piece < Pieces
  BY <1>1, ChainAssumption DEF TypeOK, UnderWay
<1>3. new \in Taken /\ wire \in Seq(Taken)
  BY <1>2 DEF TypeOK
<1>4. wire' = Append(wire, new) /\ piece' = piece + 1
  BY DEF SendIo
<1>5. new.part = piece + 1 /\ new.body = data[t]
  OBVIOUS
<1>6. piece > 0 => wire # <<>> /\ wire[Len(wire)] = [new EXCEPT !.part = piece]
  BY <1>1 DEF UnderWay
<1>7. piece + 1 \in 0..Pieces
  BY <1>2
<1> HIDE DEF Taken, new
<1>8. /\ wire' \in Seq(Taken) /\ Len(wire') = Len(wire) + 1 /\ Len(wire) \in Nat
      /\ \A i \in 1..Len(wire) : wire'[i] = wire[i]
      /\ wire'[Len(wire) + 1] = new
      /\ wire' # <<>>
  BY <1>3, <1>4, AppendProperties
<1>9. BlocksContiguous'
  <2> SUFFICES ASSUME NEW i \in DOMAIN wire', wire'[i].part > 1
               PROVE  i > 1 /\ wire'[i - 1] = [wire'[i] EXCEPT !.part = @ - 1]
    BY DEF BlocksContiguous
  <2>1. DOMAIN wire' = 1..(Len(wire) + 1) /\ DOMAIN wire = 1..Len(wire)
    BY <1>3, <1>8, LenProperties
  <2>2. CASE i \in 1..Len(wire)
    <3>1. i > 1 /\ wire[i - 1] = [wire[i] EXCEPT !.part = @ - 1]
      BY <1>8, <2>1, <2>2 DEF BlocksContiguous
    <3> QED
      BY <1>8, <2>2, <3>1
  <2>3. CASE i = Len(wire) + 1
    <3>1. piece > 0 /\ wire'[i] = new
      BY <1>2, <1>5, <1>8, <2>3
    <3>2. wire # <<>> /\ wire[Len(wire)] = [new EXCEPT !.part = piece]
      BY <1>6, <3>1
    <3>3. Len(wire) \in 1..Len(wire)
      BY <1>3, <1>8, <3>2
    <3>4. [new EXCEPT !.part = @ - 1] = [new EXCEPT !.part = piece]
      BY <1>2, <1>5
    <3> QED
      BY <1>8, <2>3, <3>1, <3>2, <3>3, <3>4
  <2> QED
    BY <1>8, <2>1, <2>2, <2>3
<1>10. CASE piece + 1 < Pieces
  <2>1. UNCHANGED <<mode, pc, sendOwner, data, n, got, zseq, tls>>
    BY <1>10 DEF SendIo
  <2>2. TypeOK'
    <3>1. wire' \in Seq([body : Seq(Unit), part : 1..Pieces]) /\ piece' \in 0..Pieces
      BY <1>4, <1>7, <1>8 DEF Taken
    <3> QED
      BY <2>1, <3>1 DEF TypeOK, tls
  <2>3. HasData' /\ Owns'
    BY <2>1 DEF HasData, Owns
  <2>4. UnderWay'
    BY <1>1, <1>2, <1>4, <1>8, <1>10, <2>1 DEF UnderWay, new
  <2> QED
    BY <1>9, <2>2, <2>3, <2>4
<1>11. CASE ~(piece + 1 < Pieces)
  <2>1. PICK label \in {"pull", "idle"} : Goto(t, label)
    BY <1>11 DEF SendIo
  <2>2. sendOwner' = NoSender /\ data' = [data EXCEPT ![t] = <<>>]
        /\ UNCHANGED <<mode, n, got, zseq, tls>>
    BY <1>11 DEF SendIo
  <2>3. pc' \in [Senders -> Label] /\ data' \in [Senders -> Seq(Unit)]
    <3>1. data \in [Senders -> Seq(Unit)] /\ pc \in [Senders -> Label] /\ <<>> \in Seq(Unit)
      BY DEF TypeOK
    <3> QED
      BY <2>1, <2>2, <3>1 DEF Goto, Label
  <2>4. wire' \in Seq([body : Seq(Unit), part : 1..Pieces]) /\ piece' \in 0..Pieces
    BY <1>4, <1>7, <1>8 DEF Taken
  <2>5. TypeOK'
    BY <2>2, <2>3, <2>4 DEF TypeOK, tls
  <2>6. HasData'
    BY <2>1, <2>2 DEF TypeOK, HasData, Goto
  <2>7. Owns'
    BY <1>1, <2>1, <2>2, ChainAssumption DEF TypeOK, Owns, Goto
  <2>8. UnderWay'
    BY <2>2 DEF UnderWay
  <2> QED
    BY <1>9, <2>5, <2>6, <2>7, <2>8
<1> QED
  BY <1>10, <1>11

LEMMA StepKeepsChain == ChainInv /\ [Next]_vars => ChainInv'
<1> SUFFICES ASSUME ChainInv, [Next]_vars PROVE ChainInv'
  OBVIOUS
<1>1. ASSUME NEW t \in Senders, Call(t) PROVE ChainInv'
  BY <1>1, CallKeepsChain
<1>2. ASSUME NEW t \in Senders, Work(t) PROVE ChainInv'
  BY <1>2, LayersKeepChain, SendLockKeepsChain, SendIoKeepsChain DEF Work
<1>3. CASE UNCHANGED vars
  BY <1>3 DEF vars, tls, sock, ChainInv, TypeOK, HasData, Owns, UnderWay, BlocksContiguous
<1> QED
  BY <1>1, <1>2, <1>3 DEF Next, Finished

THEOREM ChainInvariant == Spec => []ChainInv
  BY InitChain, StepKeepsChain, PTL DEF Spec

\* Every reachable state of the chain has the types.
THEOREM ChainTypeCorrect == Spec => []TypeOK
  BY ChainInvariant, PTL DEF ChainInv

\* However many threads send at once and however short the writes of ::send are,
\* the pieces of one block follow one another: it is m_sendMutex, held over the
\* whole loop of ConnectionTCPBase::send, that does it, and no turns are needed.
THEOREM BlocksNeverMix == Spec => []BlocksContiguous
  BY ChainInvariant, PTL DEF ChainInv

-----------------------------------------------------------------------------
(* What arrives.                                                           *)

\* Over TLS the application sends from one thread at a time.
TlsInTurns == mode.tls => Serial

\* The block of a stanza that is under way, wherever the call has got to: with
\* the thread, in m_sendBuffer, in the BIO pair or in m_buf.
Under(t) ==
  CASE pc[t] \in {"deflate", "append", "lock", "io"} -> data[t]
    [] pc[t] = "write"             -> m_sendBuffer
    [] pc[t] \in {"erase", "pull"} -> m_nbio
    [] pc[t] = "push"              -> m_buf
    [] OTHER                       -> <<>>

\* The stanza that a block on the wire is.
Stanza(i) == wire[i].body[1]

\* Where turns are taken, one thread at most is in a call.
OneAtATime ==
  Serial /\ mode.tls
    => \A t, u \in Senders : pc[t] # "idle" /\ pc[u] # "idle" => t = u

\* A call is in a layer that is active.
InLayer ==
  \A t \in Senders :
    /\ pc[t] = "deflate" => mode.zlib
    /\ pc[t] \in {"append", "write", "erase", "pull", "push"} => mode.tls

\* Nothing is left in OpenSSLBase but by a thread between SSL_write and BIO_read,
\* and what SSL_write took is all there was.
TlsEmpty ==
  /\ m_sendBuffer = <<>> \/ \E t \in Senders : pc[t] \in {"write", "erase"}
  /\ m_nbio = <<>> \/ \E t \in Senders : pc[t] \in {"erase", "pull"}
  /\ \A t \in Senders : pc[t] = "erase" => got[t] = Len(m_sendBuffer)

\* What is under way of a thread is its last stanza; at these places there is one.
UnderIsLast ==
  \A t \in Senders :
    /\ Len(Under(t)) <= 1
    /\ Under(t) # <<>> => Under(t)[1].from = t /\ Under(t)[1].n = n[t] /\ n[t] > 0
    /\ pc[t] \notin {"idle", "write", "pull"} => Under(t) # <<>>

\* A block on the wire is one stanza, and one that its thread has begun.
OneEach ==
  \A i \in DOMAIN wire : Len(wire[i].body) = 1 /\ Stanza(i).n <= n[Stanza(i).from]

\* Every stanza but one that is under way is on the wire, and none is there twice.
Sent(t, k) == \E i \in Whole : Stanza(i).from = t /\ Stanza(i).n = k

SentOnce ==
  /\ \A i, j \in Whole : Stanza(i).from = Stanza(j).from /\ Stanza(i).n = Stanza(j).n => i = j
  /\ \A t \in Senders : \A k \in 1..n[t] : Sent(t, k) <=> ~(k = n[t] /\ Under(t) # <<>>)

CallInv == OneAtATime /\ InLayer /\ TlsEmpty /\ UnderIsLast /\ OneEach /\ SentOnce

\* Inductive: over TLS it takes the turns.
ArriveInv == ChainInv /\ (TlsInTurns => CallInv)


LEMMA UnderTyped ==
  ASSUME TypeOK, NEW t \in Senders
  PROVE  Under(t) \in Seq(Unit)
<1>1. <<>> \in Seq(Unit) /\ data[t] \in Seq(Unit)
  BY DEF TypeOK
<1> QED
  BY <1>1 DEF TypeOK, Under

LEMMA StanzaIsUnit ==
  ASSUME TypeOK, OneEach, NEW i \in DOMAIN wire
  PROVE  Stanza(i) \in Unit
<1> DEFINE Taken == [body : Seq(Unit), part : 1..Pieces]
<1>1. wire \in Seq(Taken)
  BY DEF TypeOK
<1>2. wire[i] \in Taken
  <2> HIDE DEF Taken
  <2> QED
    BY <1>1
<1>3. wire[i].body \in Seq(Unit) /\ Len(wire[i].body) = 1
  BY <1>2 DEF OneEach
<1> DEFINE b == wire[i].body
<1>4. b[1] \in Unit
  <2>1. b \in Seq(Unit) /\ Len(b) = 1
    BY <1>3
  <2> HIDE DEF b
  <2> QED
    BY <2>1
<1> QED
  BY <1>4 DEF Stanza

LEMMA InitCall == Init => CallInv
<1> SUFFICES ASSUME Init PROVE CallInv
  OBVIOUS
<1>1. \A t \in Senders : pc[t] = "idle" /\ n[t] = 0 /\ Under(t) = <<>>
  BY DEF Init, Under
<1>2. DOMAIN wire = {} /\ Whole = {}
  BY DEF Init, Whole
<1>3. OneAtATime /\ InLayer /\ TlsEmpty
  BY <1>1 DEF Init, OneAtATime, InLayer, TlsEmpty
<1>4. UnderIsLast /\ OneEach /\ SentOnce
  BY <1>1, <1>2 DEF UnderIsLast, OneEach, SentOnce
<1> QED
  BY <1>3, <1>4 DEF CallInv

\* A step of a thread that is in a call leaves the stanzas of the others alone:
\* over TLS there are none, and elsewhere they are not in OpenSSLBase.
LEMMA OthersKept ==
  ASSUME TypeOK, OneAtATime, InLayer, TlsInTurns, NEW t \in Senders, pc[t] # "idle",
         NEW label \in Label, Goto(t, label), mode' = mode,
         \A u \in Senders \ {t} : data'[u] = data[u],
         mode.tls \/ UNCHANGED tls
  PROVE  \A u \in Senders \ {t} : pc'[u] = pc[u] /\ Under(u)' = Under(u)
<1> SUFFICES ASSUME NEW u \in Senders \ {t}
             PROVE  pc'[u] = pc[u] /\ Under(u)' = Under(u)
  OBVIOUS
<1>1. pc'[u] = pc[u]
  BY DEF TypeOK, Goto
<1>2. CASE mode.tls
  <2>1. pc[u] = "idle"
    BY <1>2 DEF OneAtATime, TlsInTurns
  <2> QED
    BY <1>1, <2>1 DEF Under
<1>3. CASE ~mode.tls
  <2>1. pc[u] \notin {"append", "write", "erase", "pull", "push"}
    BY <1>3 DEF InLayer
  <2> QED
    BY <1>1, <2>1 DEF Under
<1> QED
  BY <1>2, <1>3

\* What a step inside a call does to the stanza: it is moved, and the wire is left
\* alone.
Carries(t) ==
  /\ UNCHANGED <<mode, n>> /\ Whole' = Whole
  /\ \A i \in DOMAIN wire' :
       /\ Len(wire'[i].body) = 1
       /\ Stanza(i)'.n <= n[Stanza(i)'.from]
       /\ i \in Whole => Stanza(i)' = Stanza(i)
  /\ pc[t] # "idle" /\ pc'[t] # "deflate"
  /\ \A u \in Senders \ {t} : pc'[u] = pc[u] /\ Under(u)' = Under(u)
  /\ Len(Under(t)') = Len(Under(t)) /\ Under(t)' \in Seq(Unit)
  /\ Under(t) # <<>> => /\ Under(t)'[1].from = Under(t)[1].from
                        /\ Under(t)'[1].n = Under(t)[1].n

Arrives == OneEach /\ SentOnce

\* A step that only carries a stanza on loses none and doubles none.
LEMMA CarriedArrives ==
  ASSUME TypeOK, TypeOK', CallInv, NEW t \in Senders, Carries(t)
  PROVE  /\ OneAtATime' /\ Arrives'
         /\ \A u \in Senders :
              /\ Len(Under(u)') <= 1
              /\ Under(u)' # <<>> => /\ Under(u)'[1].from = u
                                     /\ Under(u)'[1].n = n'[u] /\ n'[u] > 0
<1> USE DEF CallInv
<1>1. /\ mode' = mode /\ n' = n /\ Whole' = Whole
      /\ \A i \in Whole : Stanza(i)' = Stanza(i)
  <2>1. \A i \in Whole' : i \in DOMAIN wire'
    BY DEF Whole
  <2> QED
    BY <2>1 DEF Carries, TypeOK
<1>2. \A u \in Senders : Under(u) \in Seq(Unit) /\ (Under(u)' = <<>> <=> Under(u) = <<>>)
  <2>1. \A u \in Senders : Under(u) \in Seq(Unit)
    BY UnderTyped
  <2>2. Under(t)' = <<>> <=> Under(t) = <<>>
    BY <2>1 DEF Carries
  <2> QED
    BY <2>1, <2>2 DEF Carries
<1>3. OneAtATime'
  BY <1>1 DEF Carries, OneAtATime
<1>4. ASSUME NEW u \in Senders
      PROVE  /\ Len(Under(u)') <= 1
             /\ Under(u)' # <<>> => /\ Under(u)'[1].from = u
                                    /\ Under(u)'[1].n = n'[u] /\ n'[u] > 0
  BY <1>1, <1>2 DEF Carries, UnderIsLast
<1>5. OneEach'
  BY <1>1 DEF Carries, OneEach
<1>6. SentOnce'
  <2>1. \A u \in Senders : \A k \in Nat : Sent(u, k)' <=> Sent(u, k)
    BY <1>1 DEF Sent
  <2>2. \A u \in Senders : n[u] \in Nat
    BY DEF TypeOK
  <2> QED
    BY <1>1, <1>2, <2>1, <2>2 DEF SentOnce
<1> QED
  BY <1>3, <1>4, <1>5, <1>6 DEF Arrives

-----------------------------------------------------------------------------
(* The steps inside a call.                                                *)

\* A block that is not empty and has no more than one stanza has one.
LEMMA Single ==
  ASSUME NEW s \in Seq(Unit), s # <<>>, Len(s) <= 1
  PROVE  Len(s) = 1 /\ s[1] \in Unit
<1> DEFINE k == Len(s)
<1>1. k \in Nat /\ k <= 1
  BY LenProperties
<1>2. k # 0
  BY EmptySeq
<1>3. \A i \in 1..k : s[i] \in Unit
  BY LenProperties
<1> HIDE DEF k
<1>4. k = 1
  BY <1>1, <1>2
<1>5. s[1] \in Unit
  BY <1>3, <1>4
<1> QED
  BY <1>4, <1>5 DEF k

Placed == InLayer /\ TlsEmpty /\ \A t \in Senders :
            pc[t] \notin {"idle", "write", "pull"} => Under(t) # <<>>

\* What every step above the socket leaves alone is enough to carry a stanza on.
LEMMA CarriesFrom ==
  ASSUME TypeOK, TypeOK', CallInv, TlsInTurns,
         NEW t \in Senders, pc[t] # "idle", NEW label \in Label \ {"deflate"}, Goto(t, label),
         UNCHANGED <<mode, n, wire>>,
         \A u \in Senders \ {t} : data'[u] = data[u],
         mode.tls \/ UNCHANGED tls,
         Len(Under(t)') = Len(Under(t)),
         Under(t) # <<>> => /\ Under(t)'[1].from = Under(t)[1].from
                            /\ Under(t)'[1].n = Under(t)[1].n
  PROVE  Carries(t)
<1>1. \A u \in Senders \ {t} : pc'[u] = pc[u] /\ Under(u)' = Under(u)
  BY OthersKept DEF CallInv
<1>2. Whole' = Whole /\ DOMAIN wire' = DOMAIN wire /\ \A i \in DOMAIN wire : Stanza(i)' = Stanza(i)
  BY DEF Whole, Stanza
<1>3. Under(t)' \in Seq(Unit)
  <2>1. <<>> \in Seq(Unit) /\ data'[t] \in Seq(Unit)
    BY DEF TypeOK
  <2> QED
    BY <2>1 DEF TypeOK, Under
<1>4. pc'[t] # "deflate"
  BY DEF Goto, TypeOK
<1> QED
  BY <1>1, <1>2, <1>3, <1>4 DEF Carries, CallInv, OneEach

\* What is given to a layer comes out of it: the steps above the socket.
LEMMA LayersCarry ==
  ASSUME ChainInv, ChainInv', CallInv, TlsInTurns, NEW t \in Senders,
         \/ Deflate(t) \/ TlsAppend(t) \/ TlsWrite(t) \/ TlsErase(t)
         \/ TlsPull(t) \/ TlsPush(t)
  PROVE  Carries(t) /\ Placed'
<1> USE DEF CallInv
<1>0. TypeOK /\ TypeOK' /\ Len(Under(t)) <= 1 /\ Under(t) \in Seq(Unit)
  BY UnderTyped DEF ChainInv, UnderIsLast
<1>a. ASSUME mode.tls, pc[t] # "idle" PROVE \A u \in Senders \ {t} : pc[u] = "idle"
  BY <1>a DEF OneAtATime, TlsInTurns
<1>b. \A u \in Senders \ {t} : pc[u] \notin {"idle", "write", "pull"} => Under(u) # <<>>
  BY DEF UnderIsLast
<1>1. CASE Deflate(t)
  <2> DEFINE new == [Head(data[t]) EXCEPT !.z = zseq + 1]
  <2>1. data[t] \in Seq(Unit) /\ data[t] # <<>> /\ Under(t) = data[t] /\ Len(data[t]) = 1
    <3>1. pc[t] = "deflate"
      BY <1>1 DEF Deflate
    <3>2. Under(t) = data[t] /\ data[t] # <<>>
      BY <3>1 DEF Under, ChainInv, HasData
    <3> QED
      BY <1>0, <3>2, Single
  <2>2. Head(data[t]) \in Unit /\ Head(data[t]) = Under(t)[1]
    BY <1>0, <2>1 DEF TypeOK
  <2>3. new.from = Under(t)[1].from /\ new.n = Under(t)[1].n
    BY <2>2 DEF Unit
  <2>4. data'[t] = <<new>> /\ \A u \in Senders \ {t} : data'[u] = data[u]
    BY <1>0, <1>1 DEF Deflate, TypeOK
  <2>5. Below \in {"append", "lock"} /\ Goto(t, Below) /\ (Below = "append" => mode.tls)
    BY <1>1 DEF Deflate, Below
  <2> HIDE DEF new
  <2>6. Under(t)' = <<new>>
    BY <1>0, <2>4, <2>5 DEF Under, Goto, TypeOK
  <2>7. Carries(t)
    BY <1>0, <1>1, <2>1, <2>3, <2>4, <2>5, <2>6, CarriesFrom DEF Deflate, Label, sock
  <2>8. Placed'
    <3>1. pc' = [pc EXCEPT ![t] = Below] /\ pc \in [Senders -> Label] /\ pc[t] = "deflate"
          /\ mode' = mode /\ UNCHANGED tls /\ got' = got
      BY <1>0, <1>1, <2>5 DEF Deflate, Goto, TypeOK
    <3>2. InLayer'
      BY <2>5, <3>1 DEF InLayer
    <3>3. TlsEmpty'
      BY <2>5, <3>1 DEF TlsEmpty, tls
    <3> QED
      BY <1>b, <2>6, <2>7, <3>2, <3>3 DEF Placed, Carries
  <2> QED
    BY <2>7, <2>8
<1>2. CASE TlsAppend(t)
  <2>1. mode.tls /\ pc[t] # "idle" /\ Under(t) = data[t] /\ Under(t) # <<>>
    BY <1>2 DEF TlsAppend, InLayer, Under, UnderIsLast
  <2>2. m_sendBuffer = <<>> /\ m_nbio = <<>>
    BY <1>2, <1>a, <2>1 DEF TlsAppend, TlsEmpty
  <2>3. m_sendBuffer' = data[t] /\ Goto(t, "write")
    BY <1>0, <1>2, <2>1, <2>2 DEF TlsAppend
  <2>4. Under(t)' = Under(t)
    BY <1>0, <2>1, <2>3 DEF Under, Goto, TypeOK
  <2>5. Carries(t)
    BY <1>0, <1>2, <2>1, <2>3, <2>4, CarriesFrom DEF TlsAppend, Label, sock, TypeOK
  <2>6. Placed'
    BY <1>0, <1>2, <1>a, <1>b, <2>1, <2>2, <2>3, <2>4, <2>5
    DEF Placed, Carries, InLayer, TlsEmpty, TlsAppend, Goto, TypeOK
  <2> QED
    BY <2>5, <2>6
<1>3. CASE TlsWrite(t)
  <2>1. mode.tls /\ pc[t] # "idle" /\ Under(t) = m_sendBuffer /\ m_nbio = <<>>
    BY <1>3, <1>a DEF TlsWrite, InLayer, Under, TlsEmpty
  <2>2. CASE m_sendBuffer = <<>>
    <3>1. Goto(t, "idle") /\ UNCHANGED <<mode, n, data, got, zseq, tls, sock>>
      BY <1>3, <2>2 DEF TlsWrite, tls
    <3>2. Under(t) = <<>> /\ Under(t)' = <<>>
      BY <1>0, <2>1, <2>2, <3>1 DEF Under, Goto, TypeOK
    <3>3. Carries(t)
      BY <1>0, <1>3, <2>1, <3>1, <3>2, CarriesFrom DEF TlsWrite, Label, sock
    <3>4. Placed'
      BY <1>0, <1>a, <1>b, <2>1, <2>2, <3>1, <3>3
      DEF Placed, Carries, InLayer, TlsEmpty, Goto, TypeOK, tls
    <3> QED
      BY <3>3, <3>4
  <2>3. CASE m_sendBuffer # <<>>
    <3> DEFINE rec == [i \in DOMAIN m_sendBuffer |-> [m_sendBuffer[i] EXCEPT !.rec = rseq + 1]]
    <3>1. m_sendBuffer \in Seq(Unit) /\ Len(m_sendBuffer) = 1 /\ m_sendBuffer[1] \in Unit
      BY <1>0, <2>1, <2>3, Single
    <3>2. DOMAIN m_sendBuffer = 1..1
      BY <3>1
    <3>3. rec[1].from = m_sendBuffer[1].from /\ rec[1].n = m_sendBuffer[1].n
          /\ rec[1].z = m_sendBuffer[1].z
      BY <3>1, <3>2 DEF Unit
    <3>4. rec \in Seq(Unit) /\ Len(rec) = 1
      <4>1. rseq + 1 \in Nat
        BY <1>0 DEF TypeOK
      <4>2. rec \in Seq(Unit)
        BY <3>1, <4>1, NumberedIsSeq
      <4>3. DOMAIN rec = 1..1
        BY <3>2
      <4> HIDE DEF rec
      <4> QED
        BY <4>2, <4>3
    <3>5. /\ Goto(t, "erase") /\ m_nbio' = m_nbio \o rec
          /\ got' = [got EXCEPT ![t] = Len(m_sendBuffer)]
          /\ UNCHANGED <<mode, n, data, zseq, m_sendBuffer, m_buf, sock>>
      BY <1>3, <2>3 DEF TlsWrite
    <3> HIDE DEF rec
    <3>6. m_nbio' = rec
      BY <2>1, <3>4, <3>5
    <3>7. Under(t)' = rec /\ rec # <<>>
      <4>1. pc'[t] = "erase"
        BY <1>0, <3>5 DEF Goto, TypeOK
      <4>2. Under(t)' = m_nbio'
        BY <4>1 DEF Under
      <4>3. rec # <<>>
        BY <3>4, EmptySeq, SMTT(30)
      <4> QED
        BY <3>6, <4>2, <4>3
    <3>8. Carries(t)
      BY <1>0, <1>3, <2>1, <3>1, <3>3, <3>4, <3>5, <3>7, CarriesFrom DEF TlsWrite, Label, sock
    <3>9. InLayer' /\ TlsEmpty'
      BY <1>0, <1>a, <2>1, <3>5, <3>8 DEF Carries, InLayer, TlsEmpty, Goto, TypeOK
    <3>10. Placed'
      BY <1>b, <3>7, <3>8, <3>9 DEF Placed, Carries
    <3> QED
      BY <3>8, <3>10
  <2> QED
    BY <2>2, <2>3
<1>4. CASE TlsErase(t)
  <2>1. mode.tls /\ pc[t] = "erase" /\ Under(t) = m_nbio /\ got[t] = Len(m_sendBuffer)
    BY <1>4 DEF TlsErase, InLayer, Under, TlsEmpty
  <2>2. m_sendBuffer' = <<>> /\ Goto(t, "pull")
        /\ UNCHANGED <<mode, n, data, got, zseq, rseq, m_nbio, m_buf, sock>>
    BY <1>0, <1>4, <2>1 DEF TlsErase, TypeOK
  <2>3. Under(t)' = Under(t)
    BY <1>0, <2>1, <2>2 DEF Under, Goto, TypeOK
  <2>4. Carries(t)
    BY <1>0, <2>1, <2>2, <2>3, CarriesFrom DEF Label, sock
  <2>5. Placed'
    BY <1>0, <1>a, <1>b, <2>1, <2>2, <2>4 DEF Placed, Carries, InLayer, TlsEmpty, Goto, TypeOK
  <2> QED
    BY <2>4, <2>5
<1>5. CASE TlsPull(t)
  <2>1. mode.tls /\ pc[t] = "pull" /\ Under(t) = m_nbio /\ m_sendBuffer = <<>>
    BY <1>5, <1>a DEF TlsPull, InLayer, Under, TlsEmpty
  <2>2. CASE m_nbio = <<>>
    <3>1. Goto(t, "write") /\ UNCHANGED <<mode, n, data, got, zseq, tls, sock>>
      BY <1>5, <2>2 DEF TlsPull, tls
    <3>2. Under(t) = <<>> /\ Under(t)' = <<>>
      BY <1>0, <2>1, <2>2, <3>1 DEF Under, Goto, TypeOK, tls
    <3>3. Carries(t)
      BY <1>0, <2>1, <3>1, <3>2, CarriesFrom DEF Label, sock
    <3>4. Placed'
      BY <1>0, <1>a, <1>b, <2>1, <2>2, <3>1, <3>3
      DEF Placed, Carries, InLayer, TlsEmpty, Goto, TypeOK, tls
    <3> QED
      BY <3>3, <3>4
  <2>3. CASE m_nbio # <<>>
    <3>1. Goto(t, "push") /\ m_buf' = m_nbio /\ m_nbio' = <<>>
          /\ UNCHANGED <<mode, n, data, got, zseq, m_sendBuffer, rseq, sock>>
      BY <1>5, <2>3 DEF TlsPull
    <3>2. Under(t)' = Under(t)
      BY <1>0, <2>1, <3>1 DEF Under, Goto, TypeOK
    <3>3. Carries(t)
      BY <1>0, <2>1, <3>1, <3>2, CarriesFrom DEF Label, sock
    <3>4. Placed'
      BY <1>0, <1>a, <1>b, <2>1, <2>3, <3>1, <3>2, <3>3
      DEF Placed, Carries, InLayer, TlsEmpty, Goto, TypeOK
    <3> QED
      BY <3>3, <3>4
  <2> QED
    BY <2>2, <2>3
<1>6. CASE TlsPush(t)
  <2>1. mode.tls /\ pc[t] = "push" /\ Under(t) = m_buf /\ Under(t) # <<>>
    BY <1>6 DEF TlsPush, InLayer, Under, UnderIsLast
  <2>2. data' = [data EXCEPT ![t] = m_buf] /\ Goto(t, "lock")
        /\ UNCHANGED <<mode, n, got, zseq, tls, sock>>
    BY <1>6 DEF TlsPush
  <2>3. Under(t)' = Under(t)
    BY <1>0, <2>1, <2>2 DEF Under, Goto, TypeOK
  <2>4. Carries(t)
    BY <1>0, <2>1, <2>2, <2>3, CarriesFrom DEF Label, sock, TypeOK
  <2>5. Placed'
    BY <1>0, <1>a, <1>b, <2>1, <2>2, <2>3, <2>4
    DEF Placed, Carries, InLayer, TlsEmpty, Goto, TypeOK, tls
  <2> QED
    BY <2>4, <2>5
<1> QED
  BY <1>1, <1>2, <1>3, <1>4, <1>5, <1>6

\* A new stanza is under way, with the next number.
LEMMA CallArrives ==
  ASSUME ChainInv, ChainInv', CallInv, TlsInTurns, NEW t \in Senders, Call(t)
  PROVE  CallInv'
<1> USE DEF CallInv
<1> DEFINE new == [from |-> t, n |-> n[t] + 1, z |-> 0, rec |-> 0]
<1>1. TypeOK /\ TypeOK' /\ n[t] \in Nat /\ MaxStanzas \in Nat
  <2>1. n \in [Senders -> 0..MaxStanzas] /\ MaxStanzas \in Nat
    BY ChainAssumption DEF ChainInv, TypeOK
  <2> QED
    BY <2>1 DEF ChainInv
<1>2. /\ pc[t] = "idle" /\ data' = [data EXCEPT ![t] = <<new>>]
      /\ n' = [n EXCEPT ![t] = @ + 1] /\ UNCHANGED <<mode, got, zseq, tls, sock>>
      /\ Serial /\ mode.tls => \A u \in Senders : pc[u] = "idle"
  BY DEF Call
<1>3. PICK label \in {"deflate", "append", "lock"} :
        /\ Goto(t, label)
        /\ label = "deflate" <=> mode.zlib
        /\ label = "append" => mode.tls
  BY DEF Call, Below
<1>4. new.from = t /\ new.n = n[t] + 1 /\ new.z = 0
  OBVIOUS
<1> HIDE DEF new
<1>5. Under(t)' = <<new>> /\ Under(t) = <<>>
  BY <1>1, <1>2, <1>3 DEF Under, Goto, TypeOK
<1>6. \A u \in Senders \ {t} : pc'[u] = pc[u] /\ Under(u)' = Under(u) /\ n'[u] = n[u]
  BY <1>1, <1>2, <1>3 DEF Under, Goto, TypeOK, tls
<1>7. /\ Whole' = Whole /\ DOMAIN wire' = DOMAIN wire
      /\ \A i : Stanza(i)' = Stanza(i) /\ wire'[i] = wire[i]
  BY <1>2 DEF Whole, Stanza, sock
<1>8. n'[t] = n[t] + 1 /\ pc'[t] = label /\ n' \in [Senders -> Nat] /\ n \in [Senders -> Nat]
  <2>1. n \in [Senders -> 0..MaxStanzas] /\ n' \in [Senders -> 0..MaxStanzas]
    BY <1>1, <1>2 DEF TypeOK
  <2>2. \A i \in 0..MaxStanzas : i \in Nat
    BY <1>1
  <2>3. n \in [Senders -> Nat] /\ n' \in [Senders -> Nat]
    BY <2>1, <2>2
  <2>4. pc'[t] = label
    BY <1>1, <1>3 DEF TypeOK, Goto
  <2> QED
    BY <1>2, <2>3, <2>4
<1>9. OneAtATime'
  BY <1>2, <1>6 DEF OneAtATime
<1>10. InLayer' /\ TlsEmpty'
  <2>1. InLayer'
    BY <1>2, <1>3, <1>6, <1>8 DEF InLayer
  <2>2. TlsEmpty'
    BY <1>2, <1>3, <1>6, <1>8 DEF TlsEmpty, tls
  <2> QED
    BY <2>1, <2>2
<1>11. UnderIsLast'
  <2> SUFFICES ASSUME NEW u \in Senders
               PROVE  /\ Len(Under(u)') <= 1
                      /\ Under(u)' # <<>> => Under(u)'[1].from = u /\ Under(u)'[1].n = n'[u] /\ n'[u] > 0
                      /\ pc'[u] \notin {"idle", "write", "pull"} => Under(u)' # <<>>
    BY DEF UnderIsLast
  <2>1. CASE u = t
    <3>1. Len(<<new>>) = 1 /\ <<new>>[1] = new /\ <<new>> # <<>>
      OBVIOUS
    <3>2. n'[t] > 0
      BY <1>1, <1>8
    <3>3. Under(t)'[1].from = t /\ Under(t)'[1].n = n'[t] /\ Len(Under(t)') = 1
      BY <1>4, <1>5, <1>8, <3>1
    <3>4. Under(t)' # <<>>
      BY <1>5, <3>1
    <3> QED
      BY <2>1, <3>2, <3>3, <3>4
  <2>2. CASE u # t
    BY <1>6, <2>2 DEF UnderIsLast
  <2> QED
    BY <2>1, <2>2
<1>12. ASSUME NEW i \in DOMAIN wire PROVE Stanza(i) \in Unit
  BY <1>1, StanzaIsUnit
<1>13. OneEach'
  <2> SUFFICES ASSUME NEW i \in DOMAIN wire
               PROVE  Len(wire[i].body) = 1 /\ Stanza(i).n <= n'[Stanza(i).from]
    BY <1>7 DEF OneEach
  <2>1. Len(wire[i].body) = 1 /\ Stanza(i).n <= n[Stanza(i).from]
    BY DEF OneEach
  <2>2. Stanza(i).from \in Senders /\ Stanza(i).n \in Nat
    BY <1>12 DEF Unit
  <2> QED
    BY <1>6, <1>8, <2>1, <2>2
<1>14. SentOnce'
  <2>1. \A u \in Senders : \A k : Sent(u, k)' <=> Sent(u, k)
    BY <1>7 DEF Sent
  <2>2. ASSUME NEW k \in Nat, Sent(t, k) PROVE k <= n[t]
    <3>1. PICK i \in Whole : Stanza(i).from = t /\ Stanza(i).n = k
      BY <2>2 DEF Sent
    <3> QED
      BY <3>1 DEF OneEach, Whole
  <2>3. ASSUME NEW k \in 1..n'[t]
        PROVE  Sent(t, k) <=> ~(k = n'[t] /\ Under(t)' # <<>>)
    <3>1. CASE k = n[t] + 1
      BY <1>5, <1>8, <1>1, <2>2, <3>1
    <3>2. CASE k # n[t] + 1
      BY <1>1, <1>5, <1>8, <3>2 DEF SentOnce
    <3> QED
      BY <3>1, <3>2
  <2>4. ASSUME NEW u \in Senders \ {t}, NEW k \in 1..n'[u]
        PROVE  Sent(u, k) <=> ~(k = n'[u] /\ Under(u)' # <<>>)
    BY <1>6 DEF SentOnce
  <2>5. \A i, j \in Whole : Stanza(i).from = Stanza(j).from /\ Stanza(i).n = Stanza(j).n => i = j
    BY DEF SentOnce
  <2>6. \A u \in Senders : \A k \in 1..n'[u] : Sent(u, k)' <=> ~(k = n'[u] /\ Under(u)' # <<>>)
    BY <2>1, <2>3, <2>4
  <2> QED
    BY <1>7, <2>5, <2>6 DEF SentOnce
<1> QED
  BY <1>9, <1>10, <1>11, <1>13, <1>14

\* The mutex is taken: the stanza stays where it is.
LEMMA SendLockCarries ==
  ASSUME ChainInv, ChainInv', CallInv, TlsInTurns, NEW t \in Senders, SendLock(t)
  PROVE  Carries(t) /\ Placed'
<1> USE DEF CallInv
<1>1. TypeOK /\ TypeOK' /\ pc[t] = "lock" /\ Goto(t, "io")
      /\ UNCHANGED <<mode, n, data, got, zseq, tls, wire>>
  BY DEF ChainInv, SendLock
<1>2. Under(t)' = Under(t) /\ Under(t) # <<>>
  <2>1. pc'[t] = "io"
    BY <1>1 DEF Goto, TypeOK
  <2>2. Under(t) = data[t] /\ Under(t)' = data[t]
    BY <1>1, <2>1 DEF Under
  <2> QED
    BY <1>1, <2>2 DEF UnderIsLast
<1>3. Carries(t)
  BY <1>1, <1>2, CarriesFrom DEF Label
<1>4. InLayer' /\ TlsEmpty'
  BY <1>1 DEF InLayer, TlsEmpty, Goto, TypeOK, tls
<1> QED
  BY <1>2, <1>3, <1>4 DEF Placed, Carries, UnderIsLast

\* A step that carries a stanza on keeps the invariant.
LEMMA CarriesKeeps ==
  ASSUME TypeOK, TypeOK', CallInv, NEW t \in Senders, Carries(t), Placed'
  PROVE  CallInv'
<1>1. UnderIsLast'
  BY CarriedArrives DEF Placed, UnderIsLast
<1>2. InLayer' /\ TlsEmpty'
  BY DEF Placed
<1> QED
  BY <1>1, <1>2, CarriedArrives DEF CallInv, Arrives

\* What a piece adds to the wire.
LEMMA PieceTaken ==
  ASSUME ChainInv, NEW t \in Senders, SendIo(t)
  PROVE  /\ Len(wire) \in Nat /\ DOMAIN wire = 1..Len(wire)
         /\ DOMAIN wire' = 1..(Len(wire) + 1)
         /\ \A i \in 1..Len(wire) : wire'[i] = wire[i]
         /\ wire'[Len(wire) + 1] = [body |-> data[t], part |-> piece + 1]
         /\ Whole' = IF piece + 1 < Pieces THEN Whole ELSE Whole \union {Len(wire) + 1}
<1> DEFINE Taken == [body : Seq(Unit), part : 1..Pieces]
           new   == [body |-> data[t], part |-> piece + 1]
<1>1. sendOwner = t /\ t # NoSender
  BY ChainAssumption DEF ChainInv, Owns, SendIo
<1>2. piece \in Nat /\ Pieces \in Nat /\ piece < Pieces
  BY <1>1, ChainAssumption DEF ChainInv, TypeOK, UnderWay
<1>3. new \in Taken /\ wire \in Seq(Taken)
  BY <1>2 DEF ChainInv, TypeOK
<1>4. wire' = Append(wire, new)
  BY DEF SendIo
<1>5. new.part = piece + 1
  OBVIOUS
<1> HIDE DEF Taken, new
<1>6. /\ Len(wire) \in Nat /\ DOMAIN wire = 1..Len(wire)
      /\ DOMAIN wire' = 1..(Len(wire) + 1)
      /\ \A i \in 1..Len(wire) : wire'[i] = wire[i]
      /\ wire'[Len(wire) + 1] = new
  BY <1>3, <1>4, AppendProperties, LenProperties
<1>7. \A i : i \in Whole' <=> i \in Whole \/ (i = Len(wire) + 1 /\ ~(piece + 1 < Pieces))
  BY <1>2, <1>5, <1>6 DEF Whole
<1>8. Whole' = IF piece + 1 < Pieces THEN Whole ELSE Whole \union {Len(wire) + 1}
  BY <1>7
<1> QED
  BY <1>6, <1>8 DEF new

\* A piece that is not the last leaves the stanza under way.
LEMMA PieceCarries ==
  ASSUME ChainInv, ChainInv', CallInv, TlsInTurns, NEW t \in Senders, SendIo(t),
         piece + 1 < Pieces
  PROVE  Carries(t) /\ Placed'
<1> USE DEF CallInv
<1>1. TypeOK /\ TypeOK' /\ pc[t] = "io" /\ UNCHANGED <<mode, pc, n, data, got, zseq, tls>>
  BY DEF ChainInv, SendIo
<1>2. Under(t) = data[t] /\ Under(t) # <<>> /\ Under(t) \in Seq(Unit)
  BY <1>1, UnderTyped DEF Under, UnderIsLast
<1>3. \A u \in Senders : pc'[u] = pc[u] /\ Under(u)' = Under(u)
  BY <1>1 DEF Under, tls
<1>4. Len(data[t]) = 1 /\ data[t][1].n <= n[data[t][1].from]
  <2>1. Len(Under(t)) <= 1 /\ Under(t)[1].from = t /\ Under(t)[1].n = n[t]
    BY <1>2 DEF UnderIsLast
  <2>2. n[t] \in 0..MaxStanzas /\ MaxStanzas \in Nat
    BY <1>1, ChainAssumption DEF TypeOK
  <2> QED
    BY <1>2, <2>1, <2>2, Single
<1>5. Whole' = Whole
  BY PieceTaken
<1>6. ASSUME NEW i \in DOMAIN wire'
      PROVE  /\ Len(wire'[i].body) = 1
             /\ Stanza(i)'.n <= n[Stanza(i)'.from]
             /\ i \in Whole => Stanza(i)' = Stanza(i)
  <2>1. CASE i \in DOMAIN wire
    BY <2>1, PieceTaken DEF Stanza, OneEach
  <2>2. CASE i = Len(wire) + 1
    <3>1. Len(wire) \in Nat /\ DOMAIN wire = 1..Len(wire)
          /\ wire'[Len(wire) + 1] = [body |-> data[t], part |-> piece + 1]
      BY PieceTaken
    <3>2. i \notin DOMAIN wire /\ wire'[i].body = data[t]
      BY <2>2, <3>1
    <3>3. i \notin Whole
      BY <3>2 DEF Whole
    <3> QED
      BY <1>4, <3>2, <3>3 DEF Stanza
  <2>3. i \in 1..(Len(wire) + 1) /\ DOMAIN wire = 1..Len(wire) /\ Len(wire) \in Nat
    BY PieceTaken
  <2>4. i \in DOMAIN wire \/ i = Len(wire) + 1
    BY <2>3
  <2> QED
    BY <2>1, <2>2, <2>4
<1>7. Carries(t)
  BY <1>1, <1>2, <1>3, <1>5, <1>6 DEF Carries
<1>8. InLayer' /\ TlsEmpty'
  BY <1>1 DEF InLayer, TlsEmpty, tls
<1> QED
  BY <1>1, <1>3, <1>7, <1>8 DEF Placed, UnderIsLast

\* The last piece: the stanza is on the wire, after all that was there.
LEMMA LastPieceArrives ==
  ASSUME ChainInv, ChainInv', CallInv, TlsInTurns, NEW t \in Senders, SendIo(t),
         ~(piece + 1 < Pieces)
  PROVE  CallInv'
<1> USE DEF CallInv
<1> DEFINE last == data[t][1]
<1>0. PICK L : L = Len(wire) + 1
  OBVIOUS
<1>1. /\ TypeOK /\ TypeOK' /\ pc[t] = "io" /\ UNCHANGED <<mode, n, got, zseq, tls>>
      /\ data' = [data EXCEPT ![t] = <<>>]
  BY DEF ChainInv, SendIo
<1>2. PICK label \in {"pull", "idle"} : Goto(t, label) /\ (label = "pull" => mode.tls)
  BY DEF SendIo
<1>3. Under(t) = data[t] /\ Under(t) # <<>> /\ Under(t) \in Seq(Unit) /\ Len(Under(t)) <= 1
  BY <1>1, UnderTyped DEF Under, UnderIsLast
<1>4. Len(data[t]) = 1 /\ last \in Unit /\ last.from = t /\ last.n = n[t] /\ n[t] > 0
  BY <1>3, Single DEF UnderIsLast
<1>5. mode.tls => \A u \in Senders : u # t => pc[u] = "idle"
  BY <1>1 DEF OneAtATime, TlsInTurns
<1>6. \A u \in Senders \ {t} : pc'[u] = pc[u] /\ Under(u)' = Under(u)
  BY <1>1, <1>2 DEF Under, Goto, TypeOK, tls
<1>7. pc'[t] = label /\ Under(t)' = <<>>
  <2>1. pc'[t] = label
    BY <1>1, <1>2 DEF Goto, TypeOK
  <2>2. mode.tls => m_nbio = <<>>
    BY <1>1, <1>5 DEF TlsEmpty
  <2> QED
    BY <1>1, <1>2, <2>1, <2>2 DEF Under, tls
<1>8. /\ Len(wire) \in Nat /\ DOMAIN wire = 1..Len(wire) /\ DOMAIN wire' = 1..L
      /\ \A i \in DOMAIN wire : wire'[i] = wire[i]
      /\ wire'[L].body = data[t]
      /\ Whole' = Whole \union {L}
  <2>1. /\ Len(wire) \in Nat /\ DOMAIN wire = 1..Len(wire)
        /\ DOMAIN wire' = 1..(Len(wire) + 1)
        /\ \A i \in 1..Len(wire) : wire'[i] = wire[i]
        /\ wire'[Len(wire) + 1] = [body |-> data[t], part |-> piece + 1]
        /\ Whole' = IF piece + 1 < Pieces THEN Whole ELSE Whole \union {Len(wire) + 1}
    BY PieceTaken
  <2> QED
    BY <1>0, <2>1
<1>9. Stanza(L)' = last /\ \A i \in DOMAIN wire : Stanza(i)' = Stanza(i)
  BY <1>8 DEF Stanza
<1>10. /\ \A i \in Whole : i \in DOMAIN wire /\ i < L /\ i \in Nat
       /\ \A i \in DOMAIN wire' : i \in DOMAIN wire \/ i = L
       /\ ~(L < L) /\ \A i \in Whole : ~(L < i)
       /\ DOMAIN wire' = DOMAIN wire \union {L} /\ L \notin DOMAIN wire
  <2>1. \A i \in Whole : i \in DOMAIN wire
    BY DEF Whole
  <2> QED
    BY <1>0, <1>8, <2>1
<1>11. \A i \in DOMAIN wire : Stanza(i) \in Unit
  BY <1>1, StanzaIsUnit
<1> HIDE DEF last
<1>12. OneAtATime'
  BY <1>1, <1>6 DEF OneAtATime
<1>13. InLayer' /\ TlsEmpty'
  <2>1. InLayer'
    BY <1>1, <1>2, <1>6, <1>7 DEF InLayer
  <2>2. TlsEmpty'
    BY <1>1, <1>2, <1>6, <1>7 DEF TlsEmpty, tls
  <2> QED
    BY <2>1, <2>2
<1>14. UnderIsLast'
  <2>1. Len(<<>>) = 0
    OBVIOUS
  <2> QED
    BY <1>1, <1>2, <1>6, <1>7, <2>1 DEF UnderIsLast
<1>a. n[t] \in Nat
  <2>1. n \in [Senders -> 0..MaxStanzas] /\ MaxStanzas \in Nat
    BY <1>1, ChainAssumption DEF TypeOK
  <2> QED
    BY <2>1
<1>15. OneEach'
  <2>1. n[t] <= n[t] /\ n' = n
    BY <1>1, <1>a
  <2> SUFFICES ASSUME NEW i \in DOMAIN wire'
               PROVE  Len(wire'[i].body) = 1 /\ Stanza(i)'.n <= n[Stanza(i)'.from]
    BY <2>1 DEF OneEach
  <2>2. CASE i \in DOMAIN wire
    BY <1>8, <1>9, <2>2 DEF OneEach
  <2>3. CASE i = L
    BY <1>4, <1>8, <1>9, <2>1, <2>3 DEF Stanza
  <2> QED
    BY <1>10, <2>2, <2>3
<1>16. SentOnce'
  <2>1. ~Sent(t, n[t])
    <3>1. n[t] \in 1..n[t]
      BY <1>4, <1>a
    <3> QED
      BY <1>3, <3>1 DEF SentOnce
  <2>2. \A i \in Whole : ~(Stanza(i).from = last.from /\ Stanza(i).n = last.n)
    BY <1>4, <2>1 DEF Sent
  <2>3. \A i, j \in Whole' :
          Stanza(i)'.from = Stanza(j)'.from /\ Stanza(i)'.n = Stanza(j)'.n => i = j
    <3>1. \A i \in Whole' : i = L \/ (i \in Whole /\ i \in DOMAIN wire)
      BY <1>8, <1>10
    <3> QED
      BY <1>9, <2>2, <3>1 DEF SentOnce
  <2>4. ASSUME NEW u \in Senders, NEW k \in 1..n[u]
        PROVE  Sent(u, k)' <=> Sent(u, k) \/ (u = t /\ k = n[t])
    BY <1>4, <1>8, <1>9, <1>10 DEF Sent
  <2>5. ASSUME NEW u \in Senders, NEW k \in 1..n'[u]
        PROVE  Sent(u, k)' <=> ~(k = n'[u] /\ Under(u)' # <<>>)
    <3>1. CASE u = t
      BY <1>1, <1>3, <1>7, <2>4, <2>5, <3>1 DEF SentOnce
    <3>2. CASE u # t
      BY <1>1, <1>6, <2>4, <2>5, <3>2 DEF SentOnce
    <3> QED
      BY <3>1, <3>2
  <2> QED
    BY <2>3, <2>5 DEF SentOnce
<1> QED
  BY <1>12, <1>13, <1>14, <1>15, <1>16

LEMMA StepArrives == ArriveInv /\ [Next]_vars => ArriveInv'
<1> SUFFICES ASSUME ArriveInv, [Next]_vars PROVE ArriveInv'
  OBVIOUS
<1>1. ChainInv /\ ChainInv'
  BY StepKeepsChain DEF ArriveInv
<1>2. TypeOK /\ TypeOK' /\ mode' = mode
  BY <1>1 DEF ChainInv, Next, Call, Work, Deflate, TlsAppend, TlsWrite, TlsErase, TlsPull,
              TlsPush, SendLock, SendIo, Finished, vars
<1>3. SUFFICES ASSUME TlsInTurns PROVE CallInv'
  BY <1>1, <1>2 DEF ArriveInv, TlsInTurns
<1>4. CallInv
  BY <1>3 DEF ArriveInv
<1>5. ASSUME NEW t \in Senders, Call(t) PROVE CallInv'
  BY <1>1, <1>3, <1>4, <1>5, CallArrives
<1>6. ASSUME NEW t \in Senders, Work(t) PROVE CallInv'
  <2>1. CASE SendLock(t)
    BY <1>1, <1>2, <1>3, <1>4, <2>1, SendLockCarries, CarriesKeeps
  <2>2. CASE SendIo(t)
    <3>1. CASE piece + 1 < Pieces
      BY <1>1, <1>2, <1>3, <1>4, <2>2, <3>1, PieceCarries, CarriesKeeps
    <3>2. CASE ~(piece + 1 < Pieces)
      BY <1>1, <1>3, <1>4, <2>2, <3>2, LastPieceArrives
    <3> QED
      BY <3>1, <3>2
  <2>3. CASE \/ Deflate(t) \/ TlsAppend(t) \/ TlsWrite(t) \/ TlsErase(t)
             \/ TlsPull(t) \/ TlsPush(t)
    BY <1>1, <1>2, <1>3, <1>4, <2>3, LayersCarry, CarriesKeeps
  <2> QED
    BY <1>6, <2>1, <2>2, <2>3 DEF Work
<1>7. CASE UNCHANGED vars
  BY <1>4, <1>7 DEF vars, tls, sock, CallInv, OneAtATime, InLayer, TlsEmpty, UnderIsLast,
     OneEach, SentOnce, Under, Sent, Stanza, Whole
<1> QED
  BY <1>5, <1>6, <1>7 DEF Next, Finished

THEOREM ArriveInvariant == Spec => []ArriveInv
<1>1. Init => ArriveInv
  BY InitChain, InitCall DEF ArriveInv
<1> QED
  BY <1>1, StepArrives, PTL DEF Spec

\* A block that has one stanza has one place.
LEMMA PlacesAre ==
  ASSUME OneEach
  PROVE  /\ \A i \in Whole : <<i, 1>> \in Places /\ OnWire(<<i, 1>>) = Stanza(i)
         /\ \A p \in Places : p[1] \in Whole /\ p = <<p[1], 1>> /\ OnWire(p) = Stanza(p[1])
<1>1. \A i \in Whole : DOMAIN wire[i].body = {1}
  <2> SUFFICES ASSUME NEW i \in Whole PROVE DOMAIN wire[i].body = {1}
    OBVIOUS
  <2>1. Len(wire[i].body) = 1
    BY DEF Whole, OneEach
  <2> QED
    BY <2>1
<1>2. \A p : p \in Places <=> \E i \in Whole : p = <<i, 1>>
  BY <1>1 DEF Places
<1> QED
  BY <1>2 DEF OnWire, Stanza

\* A stanza whose send() has returned is on the wire, whole: over the bare socket
\* and over compression however many threads send, over TLS where they take turns.
THEOREM ReturnedHasBeenSent == Spec => [](TlsInTurns => ReturnedIsSent)
<1>1. ArriveInv => (TlsInTurns => ReturnedIsSent)
  <2> SUFFICES ASSUME CallInv, TypeOK, NEW t \in Senders, NEW k \in 1..n[t],
                      k < n[t] \/ pc[t] = "idle"
               PROVE  \E p \in Places : OnWire(p).from = t /\ OnWire(p).n = k
    BY DEF ArriveInv, ChainInv, ReturnedIsSent
  <2>1. ~(k = n[t] /\ Under(t) # <<>>)
    <3>1. n[t] \in Nat
      BY ChainAssumption DEF TypeOK
    <3> QED
      BY <3>1 DEF Under
  <2>2. PICK i \in Whole : Stanza(i).from = t /\ Stanza(i).n = k
    BY <2>1 DEF CallInv, SentOnce, Sent
  <2> QED
    BY <2>2, PlacesAre DEF CallInv
<1> QED
  BY <1>1, ArriveInvariant, PTL

\* No stanza is on the wire twice, under the same condition.
THEOREM SentNeverTwice == Spec => [](TlsInTurns => EncryptedOnce)
<1>1. ArriveInv => (TlsInTurns => EncryptedOnce)
  BY PlacesAre DEF ArriveInv, CallInv, SentOnce, EncryptedOnce
<1> QED
  BY <1>1, ArriveInvariant, PTL

-----------------------------------------------------------------------------
(* Why a call comes to its end.                                            *)

\* As long as somebody is in a call, somebody has a step to make.
THEOREM NeverStuck == Spec => []SomebodyMoves
<1>1. ChainInv => SomebodyMoves
  BY DEF ChainInv, TypeOK, Owns, SomebodyMoves
<1> QED
  BY <1>1, ChainInvariant, PTL

\* What is left, label by label.
LEMMA LeftIs ==
  ASSUME TypeOK, NEW t \in Senders
  PROVE  /\ pc[t] = "idle"    => Left(t) = 0
         /\ pc[t] = "deflate" => Left(t) = Pieces + 10
         /\ pc[t] = "append"  => Left(t) = Pieces + 9
         /\ pc[t] = "write"   => Left(t) = IF m_sendBuffer = <<>> THEN 1 ELSE Pieces + 8
         /\ pc[t] = "erase"   => Left(t) = Pieces + 7
         /\ pc[t] = "pull"    => Left(t) = IF m_nbio = <<>> THEN 2 ELSE Pieces + 6
         /\ pc[t] = "push"    => Left(t) = Pieces + 5
         /\ pc[t] = "lock"    => Left(t) = Pieces + 4
         /\ pc[t] = "io"      => Left(t) = Pieces + 3 - piece
  BY DEF Left

\* The call itself: between SSL_write and the socket there is nothing left in
\* OpenSSLBase that would keep the loop of encrypt() going.
LEMMA OwnLeft ==
  ASSUME ChainInv, ChainInv', CallInv, TlsInTurns, NEW t \in Senders, Work(t)
  PROVE  Left(t)' < Left(t)
<1>1. TypeOK /\ TypeOK' /\ Pieces \in Nat /\ Pieces > 0 /\ piece \in Nat
  <2>1. TypeOK /\ TypeOK'
    BY DEF ChainInv
  <2>2. piece \in 0..Pieces
    BY <2>1 DEF TypeOK
  <2> QED
    BY <2>1, <2>2, ChainAssumption
<1>2. /\ pc'[t] = "idle"    => Left(t)' = 0
      /\ pc'[t] = "append"  => Left(t)' = Pieces + 9
      /\ pc'[t] = "write"   => Left(t)' = IF m_sendBuffer' = <<>> THEN 1 ELSE Pieces + 8
      /\ pc'[t] = "erase"   => Left(t)' = Pieces + 7
      /\ pc'[t] = "pull"    => Left(t)' = IF m_nbio' = <<>> THEN 2 ELSE Pieces + 6
      /\ pc'[t] = "push"    => Left(t)' = Pieces + 5
      /\ pc'[t] = "lock"    => Left(t)' = Pieces + 4
      /\ pc'[t] = "io"      => Left(t)' = Pieces + 3 - piece'
  BY DEF Left
<1>3. mode.tls /\ pc[t] # "idle" => \A u \in Senders \ {t} : pc[u] = "idle"
  BY DEF CallInv, OneAtATime, TlsInTurns
<1>4. CASE Deflate(t) \/ TlsAppend(t)
  <2>1. \/ pc[t] = "deflate" /\ pc'[t] \in {"append", "lock"}
        \/ pc[t] = "append" /\ pc'[t] = "write"
    BY <1>1, <1>4 DEF Deflate, TlsAppend, Goto, Below, TypeOK
  <2> QED
    BY <1>1, <1>2, <2>1, LeftIs
<1>5. CASE TlsWrite(t)
  <2>1. /\ pc[t] = "write"
        /\ IF m_sendBuffer = <<>> THEN pc'[t] = "idle" ELSE pc'[t] = "erase"
    BY <1>1, <1>5 DEF TlsWrite, Goto, TypeOK
  <2> QED
    BY <1>1, <1>2, <2>1, LeftIs
<1>6. CASE TlsErase(t)
  <2>1. pc[t] = "erase" /\ pc'[t] = "pull"
    BY <1>1, <1>6 DEF TlsErase, Goto, TypeOK
  <2> QED
    BY <1>1, <1>2, <2>1, LeftIs
<1>7. CASE TlsPull(t)
  <2>1. mode.tls /\ pc[t] = "pull"
    BY <1>7 DEF TlsPull, CallInv, InLayer
  <2>2. m_sendBuffer = <<>> /\ UNCHANGED m_sendBuffer
    BY <1>3, <1>7, <2>1 DEF TlsPull, CallInv, TlsEmpty
  <2>3. IF m_nbio = <<>> THEN pc'[t] = "write" ELSE pc'[t] = "push"
    BY <1>1, <1>7 DEF TlsPull, Goto, TypeOK
  <2> QED
    BY <1>1, <1>2, <2>1, <2>2, <2>3, LeftIs
<1>8. CASE TlsPush(t)
  <2>1. pc[t] = "push" /\ pc'[t] = "lock"
    BY <1>1, <1>8 DEF TlsPush, Goto, TypeOK
  <2> QED
    BY <1>1, <1>2, <2>1, LeftIs
<1>9. CASE SendLock(t)
  <2>1. pc[t] = "lock" /\ pc'[t] = "io" /\ piece' = 0
    BY <1>1, <1>9 DEF SendLock, Goto, TypeOK
  <2> QED
    BY <1>1, <1>2, <2>1, LeftIs
<1>10. CASE SendIo(t)
  <2>1. pc[t] = "io" /\ piece < Pieces /\ piece' = piece + 1 /\ UNCHANGED m_nbio
    BY <1>10, ChainAssumption DEF SendIo, ChainInv, Owns, UnderWay, tls
  <2>2. CASE piece + 1 < Pieces
    <3>1. pc' = pc
      BY <1>10, <2>2 DEF SendIo
    <3> QED
      BY <1>1, <1>2, <2>1, <3>1, LeftIs
  <2>3. CASE ~(piece + 1 < Pieces)
    <3>1. pc'[t] = IF mode.tls THEN "pull" ELSE "idle"
      BY <1>1, <1>10, <2>3 DEF SendIo, Goto, TypeOK
    <3>2. mode.tls => m_nbio = <<>>
      BY <1>3, <2>1 DEF CallInv, TlsEmpty
    <3> QED
      BY <1>1, <1>2, <2>1, <3>1, <3>2, LeftIs
  <2> QED
    BY <2>2, <2>3
<1> QED
  BY <1>4, <1>5, <1>6, <1>7, <1>8, <1>9, <1>10 DEF Work

\* The others: over TLS they are in no call, and elsewhere only the thread at ::send
\* depends on what is shared.
LEMMA OthersLeft ==
  ASSUME ChainInv, CallInv, TlsInTurns, NEW t \in Senders, NEW u \in Senders \ {t}, Work(t)
  PROVE  Left(u)' = Left(u)
<1>1. pc[t] # "idle" /\ pc'[u] = pc[u]
  BY DEF Work, Deflate, TlsAppend, TlsWrite, TlsErase, TlsPull, TlsPush, SendLock, SendIo,
         Goto, ChainInv, TypeOK
<1>2. CASE mode.tls
  <2>1. pc[u] = "idle"
    BY <1>1, <1>2 DEF CallInv, OneAtATime, TlsInTurns
  <2> QED
    BY <1>1, <2>1 DEF Left
<1>3. CASE ~mode.tls
  <2>1. pc[u] \in {"idle", "deflate", "lock", "io"}
    BY <1>3 DEF CallInv, InLayer, ChainInv, TypeOK, Label
  <2>2. pc[u] = "io" => UNCHANGED piece
    <3>1. SendLock(t) \/ SendIo(t) => pc[u] # "io"
      BY ChainAssumption DEF SendLock, SendIo, ChainInv, Owns
    <3> QED
      BY <3>1 DEF Work, Deflate, TlsAppend, TlsWrite, TlsErase, TlsPull, TlsPush, sock
  <2> QED
    BY <1>1, <2>1, <2>2 DEF Left
<1> QED
  BY <1>2, <1>3

\* Each step of a call brings its end nearer and takes no other call back: a call is
\* over after Pieces + 10 steps of its own at most, over TLS where they take turns.
THEOREM EachStepCounts == Spec => CallsRunOut
<1>1. ArriveInv /\ ArriveInv' /\ [Next]_vars
      => [(mode.tls => Serial) =>
            \A t \in Senders : Work(t) => /\ Left(t)' < Left(t)
                                          /\ \A u \in Senders \ {t} : Left(u)' = Left(u)]_vars
  BY OwnLeft, OthersLeft DEF ArriveInv, TlsInTurns
<1> QED
  BY <1>1, ArriveInvariant, PTL DEF Spec, CallsRunOut

=============================================================================
