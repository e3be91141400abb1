----------------------------- MODULE OutboundChain -----------------------------
(***************************************************************************)
(* The way of a stanza from ClientBase::send to the socket, when several   *)
(* threads send on one connection: optional compression (CompressionZlib), *)
(* optional encryption (OpenSSLBase), and ConnectionTCPBase::send.         *)
(*                                                                         *)
(* Any thread may send: the receiver answers stanzas and the application   *)
(* calls the facade.  m_compressMutex covers the deflate step only, the    *)
(* TLS object has no mutex at all on this path, m_sendMutex covers one     *)
(* call of ConnectionTCPBase::send.  The connection stays up here.         *)
(***************************************************************************)
EXTENDS Naturals, Sequences

CONSTANTS
  Senders,    \* the threads that send
  NoSender,   \* the owner of a free mutex
  Modes,      \* the layers that the login negotiated: a set of [zlib, tls]
  MaxStanzas, \* bound: stanzas per sender
  Pieces,     \* bound: a block is taken by ::send in at most so many pieces
  Serial      \* TRUE: over TLS, whose buffers nothing guards, one thread sends at a
              \* time; over zlib and over the bare socket any number always may

ASSUME ChainAssumption ==
  /\ NoSender \notin Senders
  /\ Modes \subseteq [zlib : BOOLEAN, tls : BOOLEAN] /\ Serial \in BOOLEAN
  /\ MaxStanzas \in Nat /\ Pieces \in Nat \ {0}

\* The n-th stanza of a thread; z is its place in the deflate stream and rec
\* the number of the TLS record it is in (0: not compressed, not encrypted).
Unit == [from : Senders, n : Nat, z : Nat, rec : Nat]

VARIABLES
  mode,          \* m_compressionActive and m_encryptionActive (handshake done)
  pc,            \* per thread: where it is in the call
  n,             \* per thread: stanzas it has begun to send
  data,          \* per thread: the block it carries, a sequence of units
  got,           \* per thread: what SSL_write returned
  zseq,          \* blocks deflated so far
  m_sendBuffer,  \* OpenSSLBase::m_sendBuffer
  rseq, m_nbio,  \* TLS records made so far, and those in the BIO pair
  m_buf,         \* OpenSSLBase::m_buf
  sendOwner,     \* holder of ConnectionTCPBase::m_sendMutex
  piece,         \* pieces of the current block that ::send has taken
  wire           \* what the socket has taken: [body, part]

tls  == <<m_sendBuffer, rseq, m_nbio, m_buf>>
sock == <<sendOwner, piece, wire>>
vars == <<mode, pc, n, data, got, zseq, tls, sock>>

Label == {"idle", "deflate", "append", "write", "erase", "pull", "push", "lock", "io"}

TypeOK ==
  /\ mode \in Modes
  /\ pc \in [Senders -> Label] /\ n \in [Senders -> 0..MaxStanzas]
  /\ data \in [Senders -> Seq(Unit)] /\ got \in [Senders -> Nat]
  /\ zseq \in Nat
  /\ m_sendBuffer \in Seq(Unit) /\ rseq \in Nat
  /\ m_nbio \in Seq(Unit) /\ m_buf \in Seq(Unit)
  /\ sendOwner \in Senders \union {NoSender} /\ piece \in 0..Pieces
  /\ wire \in Seq([body : Seq(Unit), part : 1..Pieces])

Init ==
  /\ mode \in Modes
  /\ pc = [t \in Senders |-> "idle"] /\ n = [t \in Senders |-> 0]
  /\ data = [t \in Senders |-> <<>>] /\ got = [t \in Senders |-> 0]
  /\ zseq = 0
  /\ m_sendBuffer = <<>> /\ rseq = 0 /\ m_nbio = <<>> /\ m_buf = <<>>
  /\ sendOwner = NoSender /\ piece = 0 /\ wire = <<>>

Goto(t, label) == pc' = [pc EXCEPT ![t] = label]

Below == IF mode.tls THEN "append" ELSE "lock"

-----------------------------------------------------------------------------
\* ClientBase::send: the first layer that is active.
Call(t) ==
  /\ pc[t] = "idle" /\ n[t] < MaxStanzas
  /\ Serial /\ mode.tls => \A u \in Senders : pc[u] = "idle"
  /\ n' = [n EXCEPT ![t] = @ + 1]
  /\ data' = [data EXCEPT ![t] = <<[from |-> t, n |-> n[t] + 1, z |-> 0, rec |-> 0]>>]
  /\ Goto(t, IF mode.zlib THEN "deflate" ELSE Below)
  /\ UNCHANGED <<mode, got, zseq, tls, sock>>

\* The section under m_compressMutex; the result is handed on after it.
Deflate(t) ==
  /\ pc[t] = "deflate"
  /\ zseq' = zseq + 1
  /\ data' = [data EXCEPT ![t] = <<[Head(data[t]) EXCEPT !.z = zseq + 1]>>]
  /\ Goto(t, Below)
  /\ UNCHANGED <<mode, n, got, tls, sock>>

\* OpenSSLBase::encrypt: m_sendBuffer += data.
TlsAppend(t) ==
  /\ pc[t] = "append"
  /\ m_sendBuffer' = m_sendBuffer \o data[t]
  /\ data' = [data EXCEPT ![t] = <<>>]
  /\ Goto(t, "write")
  /\ UNCHANGED <<mode, n, got, zseq, rseq, m_nbio, m_buf, sock>>

\* SSL_write of the whole buffer makes a record; of an empty one it ends the loop.
TlsWrite(t) ==
  /\ pc[t] = "write"
  /\ \/ /\ m_sendBuffer = <<>>
        /\ Goto(t, "idle")
        /\ UNCHANGED <<got, rseq, m_nbio>>
     \/ /\ m_sendBuffer # <<>>
        /\ rseq' = rseq + 1
        /\ m_nbio' = m_nbio \o [i \in DOMAIN m_sendBuffer |->
                                  [m_sendBuffer[i] EXCEPT !.rec = rseq + 1]]
        /\ got' = [got EXCEPT ![t] = Len(m_sendBuffer)]
        /\ Goto(t, "erase")
  /\ UNCHANGED <<mode, n, data, zseq, m_sendBuffer, m_buf, sock>>

\* Mutant of TlsErase: what has been written is not taken out of the buffer.
TlsEraseLate(t) ==
  /\ pc[t] = "erase"
  /\ m_sendBuffer' = IF m_nbio = <<>> THEN <<>> ELSE m_sendBuffer
  /\ Goto(t, "pull")
  /\ UNCHANGED <<mode, n, data, got, zseq, rseq, m_nbio, m_buf, sock>>

TlsErase(t) ==
  /\ pc[t] = "erase"
  /\ m_sendBuffer' = IF got[t] < Len(m_sendBuffer)
                     THEN SubSeq(m_sendBuffer, got[t] + 1, Len(m_sendBuffer)) ELSE <<>>
  /\ Goto(t, "pull")
  /\ UNCHANGED <<mode, n, data, got, zseq, rseq, m_nbio, m_buf, sock>>

\* pushFunc: BIO_read into m_buf, or nothing is pending and SSL_write is next.
TlsPull(t) ==
  /\ pc[t] = "pull"
  /\ \/ /\ m_nbio = <<>>
        /\ Goto(t, "write")
        /\ UNCHANGED <<m_nbio, m_buf>>
     \/ /\ m_nbio # <<>>
        /\ m_buf' = m_nbio /\ m_nbio' = <<>>
        /\ Goto(t, "push")
  /\ UNCHANGED <<mode, n, data, got, zseq, m_sendBuffer, rseq, sock>>

\* handleEncryptedData( std::string( m_buf, frombio ) ).
TlsPush(t) ==
  /\ pc[t] = "push"
  /\ data' = [data EXCEPT ![t] = m_buf]
  /\ Goto(t, "lock")
  /\ UNCHANGED <<mode, n, got, zseq, tls, sock>>

\* Mutant of SendLock: ConnectionTCPBase::send without its mutex.
SendLockNot(t) ==
  /\ pc[t] = "lock"
  /\ sendOwner' = t /\ piece' = IF sendOwner = NoSender THEN 0 ELSE piece
  /\ Goto(t, "io")
  /\ UNCHANGED <<mode, n, data, got, zseq, tls, wire>>

SendLock(t) ==
  /\ pc[t] = "lock" /\ sendOwner = NoSender
  /\ sendOwner' = t /\ piece' = 0
  /\ Goto(t, "io")
  /\ UNCHANGED <<mode, n, data, got, zseq, tls, wire>>

\* Mutant of SendIo: the last piece is never taken and the loop goes on.
SendIoZero(t) ==
  /\ pc[t] = "io"
  /\ IF piece + 1 < Pieces
     THEN piece' = piece + 1 /\ wire' = Append(wire, [body |-> data[t], part |-> piece + 1])
     ELSE UNCHANGED <<piece, wire>>
  /\ UNCHANGED <<mode, pc, n, data, got, zseq, tls, sendOwner>>

\* Mutant of SendIo: a block that ::send takes in part is taken for sent.
SendIoShort(t) ==
  /\ pc[t] = "io"
  /\ piece' = piece + 1
  /\ wire' = Append(wire, [body |-> data[t], part |-> piece + 1])
  /\ sendOwner' = NoSender
  /\ data' = [data EXCEPT ![t] = <<>>]
  /\ Goto(t, IF mode.tls THEN "pull" ELSE "idle")
  /\ UNCHANGED <<mode, n, got, zseq, tls>>

\* ::send takes the next piece of the block; after the last one the mutex goes.
SendIo(t) ==
  /\ pc[t] = "io"
  /\ piece' = piece + 1
  /\ wire' = Append(wire, [body |-> data[t], part |-> piece + 1])
  /\ IF piece + 1 < Pieces
     THEN UNCHANGED <<mode, pc, sendOwner, data>>
     ELSE /\ sendOwner' = NoSender
          /\ data' = [data EXCEPT ![t] = <<>>]
          /\ Goto(t, IF mode.tls THEN "pull" ELSE "idle")
  /\ UNCHANGED <<mode, n, got, zseq, tls>>

Work(t) ==
  \/ Deflate(t) \/ TlsAppend(t) \/ TlsWrite(t) \/ TlsErase(t) \/ TlsPull(t)
  \/ TlsPush(t) \/ SendLock(t) \/ SendIo(t)

Finished == (\A t \in Senders : pc[t] = "idle" /\ n[t] = MaxStanzas) /\ UNCHANGED vars

Next == (\E t \in Senders : Call(t) \/ Work(t)) \/ Finished

Spec == Init /\ [][Next]_vars

\* Threads inside a call are scheduled.
FairSpec == Spec /\ \A t \in Senders : WF_vars(Work(t))

-----------------------------------------------------------------------------
(* Properties.                                                             *)

\* The pieces of one block follow one another on the wire: no other thread's
\* bytes get between them although ::send may take a block in several pieces.
BlocksContiguous ==
  \A i \in DOMAIN wire :
    wire[i].part > 1 => i > 1 /\ wire[i - 1] = [wire[i] EXCEPT !.part = @ - 1]

\* The units on the wire: a block is there when its last piece is, and a unit has
\* the place of its block and its own in the block.
Whole      == {i \in DOMAIN wire : wire[i].part = Pieces}
Places     == UNION {{i} \X DOMAIN wire[i].body : i \in Whole}
OnWire(p)  == wire[p[1]].body[p[2]]
Ahead(p, q) == p[1] < q[1] \/ (p[1] = q[1] /\ p[2] < q[2])

\* Every call of send() returns, although callers wait for one another's mutex.
SendReturns == \A t \in Senders : (pc[t] # "idle") ~> (pc[t] = "idle")

\* What SendReturns rests on: as long as somebody is in a call, somebody has a step to
\* make, for whoever waits for m_sendMutex waits for a thread at ::send.
SomebodyMoves ==
  (\E t \in Senders : pc[t] # "idle")
    => \E t \in Senders : pc[t] \notin {"idle", "lock"} \/ (pc[t] = "lock" /\ sendOwner = NoSender)

\* The steps a call has left at most, when nobody meets it in OpenSSLBase.
Left(t) ==
  [deflate |-> Pieces + 10, append |-> Pieces + 9,
   write |-> IF m_sendBuffer = <<>> THEN 1 ELSE Pieces + 8, erase |-> Pieces + 7,
   pull |-> IF m_nbio = <<>> THEN 2 ELSE Pieces + 6, push |-> Pieces + 5,
   lock |-> Pieces + 4, io |-> Pieces + 3 - piece, idle |-> 0][pc[t]]

\* And each step of a call brings it nearer to its end, encrypt()'s loop and the partial
\* writes of ::send included, without taking another call back.
CallsRunOut ==
  [][(mode.tls => Serial) =>
       \A t \in Senders : Work(t) => /\ Left(t)' < Left(t)
                                     /\ \A u \in Senders \ {t} : Left(u)' = Left(u)]_vars

\* "The function returns only after all data has been sent", in several layers:
\* a stanza whose send() has returned is on the wire, whole.
ReturnedIsSent ==
  \A t \in Senders : \A k \in 1..n[t] :
    k < n[t] \/ pc[t] = "idle"
      => \E p \in Places : OnWire(p).from = t /\ OnWire(p).n = k

\* The far end inflates one stream, so blocks must come in the order of deflation.  In
\* no run, for it is violated: the mutex is released before the block is handed on.
ZlibInOrder ==
  \A p, q \in Places : Ahead(p, q) /\ mode.zlib => OnWire(p).z < OnWire(q).z

\* What is given to encrypt() is encrypted and pushed once.
EncryptedOnce ==
  \A p, q \in Places :
    OnWire(p).from = OnWire(q).from /\ OnWire(p).n = OnWire(q).n => p = q

=============================================================================
