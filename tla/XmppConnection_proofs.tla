------------------------- MODULE XmppConnection_proofs -------------------------
(***************************************************************************)
(* Proofs about XmppConnection for any number of threads and any bounds.   *)
(***************************************************************************)
EXTENDS XmppConnection, TLAPS

\* The per-thread control state is well typed.
ControlType(p, r, w) ==
  /\ p \in [Threads -> Label]
  /\ r \in [Threads -> [send: SendBack, clean: CleanBack, down: DownBack, disc: DiscBack]]
  /\ w \in [Threads -> [down: ConnectionError, disc: ConnectionError]]

(* The calls keep the program counters, return labels and reasons typed.   *)
LEMMA GotoType ==
  ASSUME TypeOK, NEW t \in Threads, NEW l \in Label, Goto(t, l)
  PROVE  ControlType(pc', ret', why')
  BY DEF Goto, TypeOK, ControlType

LEMMA ReturnType ==
  ASSUME TypeOK, NEW t \in Threads, NEW c \in {"send", "clean", "down", "disc"}, Return(t, c)
  PROVE  ControlType(pc', ret', why')
<1>1. ret[t][c] \in Label
  BY DEF TypeOK, SendBack, CleanBack, DownBack, DiscBack, Label, LoginLabels, DiscLabels, DownLabels
<1>2. "idle" \in SendBack /\ "idle" \in CleanBack /\ "idle" \in DownBack /\ "idle" \in DiscBack
  BY DEF SendBack, CleanBack, DownBack, DiscBack
<1>3. "None" \in ConnectionError
  BY DEF ConnectionError
<1> HIDE DEF SendBack, CleanBack, DownBack, DiscBack, ConnectionError, Label
<1>4. CASE c = "send"  BY <1>1, <1>2, <1>3, <1>4 DEF Return, TypeOK, ControlType
<1>5. CASE c = "clean" BY <1>1, <1>2, <1>3, <1>5 DEF Return, TypeOK, ControlType
<1>6. CASE c = "down"  BY <1>1, <1>2, <1>3, <1>6 DEF Return, TypeOK, ControlType
<1>7. CASE c = "disc"  BY <1>1, <1>2, <1>3, <1>7 DEF Return, TypeOK, ControlType
<1> QED BY <1>4, <1>5, <1>6, <1>7

LEMMA CallSendType ==
  ASSUME TypeOK, NEW t \in Threads, NEW b \in SendBack, CallSend(t, b)
  PROVE  ControlType(pc', ret', why')
<1>1. "sd_state" \in Label
  BY DEF Label, SendLabels
<1> QED BY <1>1 DEF CallSend, TypeOK, ControlType

LEMMA CallDownType ==
  ASSUME TypeOK, NEW t \in Threads, NEW r \in ConnectionError, NEW b \in DownBack,
         CallDown(t, r, b)
  PROVE  ControlType(pc', ret', why')
<1>1. "cl_send" \in Label /\ "hd_note" \in CleanBack
  BY DEF Label, CleanupLabels, CleanBack
<1>2. pc' \in [Threads -> Label]
  BY <1>1 DEF CallDown, TypeOK
<1>3. why' \in [Threads -> [down: ConnectionError, disc: ConnectionError]]
  BY DEF CallDown, TypeOK
<1>4. ret' \in [Threads -> [send: SendBack, clean: CleanBack, down: DownBack, disc: DiscBack]]
  BY <1>1 DEF CallDown, TypeOK
<1> QED BY <1>2, <1>3, <1>4 DEF ControlType

LEMMA CallDiscType ==
  ASSUME TypeOK, NEW t \in Threads, NEW r \in ConnectionError, NEW b \in DiscBack,
         CallDisc(t, r, b)
  PROVE  ControlType(pc', ret', why')
<1>1. "dc_clear" \in Label
  BY DEF Label, DiscLabels
<1> QED BY <1>1 DEF CallDisc, TypeOK, ControlType

-----------------------------------------------------------------------------
(* Type correctness.                                                       *)

LEMMA InitType == Init => TypeOK
<1> SUFFICES ASSUME Init PROVE TypeOK
  OBVIOUS
<1>1. pc \in [Threads -> Label]
  BY DEF Init, Label
<1>2. "idle" \in SendBack /\ "idle" \in CleanBack /\ "idle" \in DownBack /\ "idle" \in DiscBack
  BY DEF SendBack, CleanBack, DownBack, DiscBack
<1>3. ret \in [Threads -> [send: SendBack, clean: CleanBack, down: DownBack, disc: DiscBack]]
  BY <1>2 DEF Init
<1>4. why \in [Threads -> [down: ConnectionError, disc: ConnectionError]]
  BY DEF Init, ConnectionError
<1> QED BY <1>1, <1>3, <1>4 DEF Init, TypeOK, ConnectionState

LEMMA StepType == ASSUME TypeOK, NEW t \in Threads, Step(t) PROVE TypeOK'
<1>1. CASE ConnectState(t)
  BY <1>1, GotoType
  DEF ConnectState, ControlType, TypeOK, ConnectionState, conn, locks, net, hist, Label, LoginLabels, SendLabels, CleanupLabels, DownLabels, DiscLabels
<1>2. CASE ConnectLock(t)
  BY <1>2, GotoType
  DEF ConnectLock, ControlType, TypeOK, ConnectionState, conn, locks, net, hist, Label, LoginLabels, SendLabels, CleanupLabels, DownLabels, DiscLabels
<1>3. CASE ConnectAccepted(t)
  <2>1. ControlType(pc', ret', why')
    BY <1>3, GotoType DEF ConnectAccepted, Label, LoginLabels
  <2>2. m_socket' \in Nat /\ opened' \in Nat
    BY <1>3 DEF ConnectAccepted, TypeOK
  <2> QED BY <1>3, <2>1, <2>2 DEF ConnectAccepted, TypeOK, ControlType, conn, locks, net, hist
<1>4. CASE ConnectRefused(t)
  BY <1>4, GotoType
  DEF ConnectRefused, ControlType, TypeOK, ConnectionState, conn, locks, net, hist, Label, LoginLabels, SendLabels, CleanupLabels, DownLabels, DiscLabels
<1>5. CASE ConnectCheck(t)
  <2>1. ControlType(pc', ret', why')
    BY <1>5, GotoType, CallDownType
    DEF ConnectCheck, Label, LoginLabels, DownBack, SendBack, ConnectionError
  <2> QED BY <1>5, <2>1 DEF ConnectCheck, TypeOK, ControlType, conn, locks, net, hist
<1>6. CASE ConnectSetState(t)
  BY <1>6, GotoType
  DEF ConnectSetState, ControlType, TypeOK, ConnectionState, conn, locks, net, hist, Label, LoginLabels, SendLabels, CleanupLabels, DownLabels, DiscLabels
<1>7. CASE ConnectOpen(t)
  <2>1. ControlType(pc', ret', why')
    BY <1>7, CallSendType DEF ConnectOpen, SendBack
  <2> QED BY <1>7, <2>1 DEF ConnectOpen, TypeOK, ControlType, locks, net, hist
<1>8. CASE LoginLoop(t)
  BY <1>8, GotoType
  DEF LoginLoop, ControlType, TypeOK, ConnectionState, conn, locks, net, hist, Label, LoginLabels, SendLabels, CleanupLabels, DownLabels, DiscLabels
<1>9. CASE RecvState(t)
  BY <1>9, GotoType
  DEF RecvState, ControlType, TypeOK, ConnectionState, conn, locks, net, hist, Label, LoginLabels, SendLabels, CleanupLabels, DownLabels, DiscLabels
<1>10. CASE RecvLock(t)
  BY <1>10, GotoType
  DEF RecvLock, ControlType, TypeOK, ConnectionState, conn, locks, net, hist, Label, LoginLabels, SendLabels, CleanupLabels, DownLabels, DiscLabels
<1>11. CASE RecvData(t)
  <2>1. ControlType(pc', ret', why')
    BY <1>11, GotoType DEF RecvData, Label, LoginLabels
  <2>2. PICK s \in Sendable :
          /\ msg' = [msg EXCEPT ![t] = s]
          /\ srv' = IF s = "success" THEN "authed" ELSE IF s = "roster" THEN "ready" ELSE srv
          /\ plain' = IF s = "plain" THEN plain + 1 ELSE plain
    BY <1>11 DEF RecvData
  <2>3. s \in Stanza
    BY BoundsAssumption DEF Sendable
  <2>4. msg' \in [Threads -> Stanza \union {"none"}]
    BY <2>2, <2>3 DEF TypeOK
  <2>5. srv' \in {"new", "authed", "ready"} /\ plain' \in Nat
    BY <2>2 DEF TypeOK
  <2> QED BY <1>11, <2>1, <2>4, <2>5 DEF RecvData, TypeOK, ControlType, conn, locks, net, hist
<1>12. CASE RecvEnd(t)
  BY <1>12, CallDownType
  DEF RecvEnd, ControlType, TypeOK, ConnectionState, conn, locks, net, hist, DownBack, SendBack, ConnectionError
<1>13. CASE RecvEof(t)
  BY <1>13, GotoType
  DEF RecvEof, ControlType, TypeOK, ConnectionState, conn, locks, net, hist, Label, LoginLabels, SendLabels, CleanupLabels, DownLabels, DiscLabels
<1>14. CASE HandleData(t)
  <2>1. ControlType(pc', ret', why')
    <3>1. ASSUME NEW b \in SendBack, CallSend(t, b) PROVE ControlType(pc', ret', why')
      BY <3>1, CallSendType
    <3>2. ASSUME NEW r \in ConnectionError, CallDisc(t, r, "rx_state")
          PROVE  ControlType(pc', ret', why')
      BY <3>2, CallDiscType DEF DiscBack
    <3>3. ASSUME Goto(t, "rx_state") PROVE ControlType(pc', ret', why')
      BY <3>3, GotoType DEF Label, LoginLabels
    <3> QED BY <1>14, <3>1, <3>2, <3>3 DEF HandleData, SendBack, ConnectionError
  <2>2. m_authed' \in BOOLEAN
    BY <1>14 DEF HandleData, TypeOK
  <2>3. msg' \in [Threads -> Stanza \union {"none"}]
    BY <1>14 DEF HandleData, TypeOK
  <2> QED BY <1>14, <2>1, <2>2, <2>3 DEF HandleData, TypeOK, ControlType, conn, locks, net, hist
<1>15. CASE Online(t)
  BY <1>15, CallSendType
  DEF Online, ControlType, TypeOK, ConnectionState, conn, locks, net, hist, SendBack
<1>16. CASE ParseError(t)
  BY <1>16, CallDiscType
  DEF ParseError, ControlType, TypeOK, ConnectionState, conn, locks, net, hist, DiscBack, ConnectionError
<1>17. CASE SendState(t)
  BY <1>17, GotoType, ReturnType
  DEF SendState, ControlType, TypeOK, ConnectionState, conn, locks, net, hist, Label, LoginLabels, SendLabels, CleanupLabels, DownLabels, DiscLabels
<1>18. CASE SendLock(t)
  BY <1>18, GotoType, ReturnType
  DEF SendLock, ControlType, TypeOK, ConnectionState, conn, locks, net, hist, Label, LoginLabels, SendLabels, CleanupLabels, DownLabels, DiscLabels
<1>19. CASE SendIo(t)
  <2>1. CASE Return(t, "send")
    <3>1. ControlType(pc', ret', why')
      BY <2>1, ReturnType
    <3>2. bye' \in BOOLEAN
      BY <1>19 DEF SendIo, TypeOK
    <3> QED BY <1>19, <3>1, <3>2 DEF SendIo, TypeOK, ControlType, conn, locks, net, hist
  <2>2. CASE ~Return(t, "send")
    <3>1. /\ pc'  = [pc EXCEPT ![t] = "cl_send"]
          /\ ret' = [ret EXCEPT ![t] = [@ EXCEPT !["send"] = "idle", !["clean"] = "hd_note",
                                                 !["down"] = ret[t]["send"]]]
          /\ why' = [why EXCEPT ![t]["down"] = "IoError"]
          /\ bye' = bye
      BY <1>19, <2>2 DEF SendIo
    <3>2. /\ ret[t].send \in DownBack /\ "idle" \in SendBack /\ "hd_note" \in CleanBack
          /\ "IoError" \in ConnectionError /\ "cl_send" \in Label
      BY DEF TypeOK, DownBack, SendBack, CleanBack, ConnectionError, Label, CleanupLabels
    <3>3. pc' \in [Threads -> Label]
      BY <3>1, <3>2 DEF TypeOK
    <3>4. why' \in [Threads -> [down: ConnectionError, disc: ConnectionError]]
      BY <3>1, <3>2 DEF TypeOK
    <3>5. ret' \in [Threads -> [send: SendBack, clean: CleanBack, down: DownBack, disc: DiscBack]]
      BY <3>1, <3>2 DEF TypeOK
    <3>6. bye' \in BOOLEAN
      BY <3>1 DEF TypeOK
    <3>7. /\ sendOwner' = NoThread
          /\ UNCHANGED <<conn, recvOwner, m_authed, msg, opened, peer, srv, plain, hist>>
      BY <1>19 DEF SendIo
    <3> QED BY <3>3, <3>4, <3>5, <3>6, <3>7 DEF TypeOK, conn, hist
  <2> QED BY <2>1, <2>2
<1>20. CASE CleanupSend(t)
  BY <1>20, GotoType, ReturnType
  DEF CleanupSend, ControlType, TypeOK, ConnectionState, conn, locks, net, hist, Label, LoginLabels, SendLabels, CleanupLabels, DownLabels, DiscLabels
<1>21. CASE CleanupRecv(t)
  BY <1>21, GotoType, ReturnType
  DEF CleanupRecv, ControlType, TypeOK, ConnectionState, conn, locks, net, hist, Label, LoginLabels, SendLabels, CleanupLabels, DownLabels, DiscLabels
<1>22. CASE CleanupClose(t)
  BY <1>22, ReturnType
  DEF CleanupClose, ControlType, TypeOK, ConnectionState, conn, locks, net, hist
<1>23. CASE DownNotify(t)
  BY <1>23, ReturnType
  DEF DownNotify, ControlType, TypeOK, ConnectionState, conn, locks, net, hist
<1>24. CASE DiscClear(t)
  <2>1. ControlType(pc', ret', why')
    BY <1>24, GotoType, CallSendType, ReturnType
    DEF DiscClear, Label, DiscLabels, SendBack
  <2> QED BY <1>24, <2>1 DEF DiscClear, TypeOK, ControlType, conn, locks, net, hist
<1>25. CASE DiscLock(t)
  BY <1>25, GotoType
  DEF DiscLock, ControlType, TypeOK, ConnectionState, conn, locks, net, hist, Label, LoginLabels, SendLabels, CleanupLabels, DownLabels, DiscLabels
<1>26. CASE DiscCancel(t)
  BY <1>26
  DEF DiscCancel, ControlType, TypeOK, ConnectionState, conn, locks, net, hist, Label, CleanupLabels, CleanBack
<1>27. CASE DiscNotify(t)
  BY <1>27, ReturnType
  DEF DiscNotify, ControlType, TypeOK, ConnectionState, conn, locks, net, hist
<1> QED
  BY <1>1, <1>2, <1>3, <1>4, <1>5, <1>6, <1>7, <1>8, <1>9, <1>10, <1>11, <1>12, <1>13, <1>14, <1>15, <1>16, <1>17, <1>18, <1>19, <1>20, <1>21, <1>22, <1>23, <1>24, <1>25, <1>26, <1>27 DEF Step

LEMMA NextType == TypeOK /\ [Next]_vars => TypeOK'
<1> SUFFICES ASSUME TypeOK, [Next]_vars PROVE TypeOK'
  OBVIOUS
<1>1. ASSUME NEW t \in Threads, Step(t) PROVE TypeOK'
  BY <1>1, StepType
<1>2. ASSUME NEW t \in LoginThreads, Login(t) PROVE TypeOK'
  <2>1. t \in Threads /\ "cn_state" \in Label
    BY DEF Threads, Label, LoginLabels
  <2>2. ControlType(pc', ret', why')
    BY <1>2, <2>1, GotoType DEF Login
  <2> QED BY <1>2, <2>2 DEF Login, TypeOK, ControlType, conn, locks, net
<1>3. ASSUME NEW t \in AppThreads, AppLogout(t) PROVE TypeOK'
  <2>1. t \in Threads /\ "UserDisconnected" \in ConnectionError /\ "idle" \in DiscBack
    BY DEF Threads, ConnectionError, DiscBack
  <2>2. ControlType(pc', ret', why')
    BY <1>3, <2>1, CallDiscType DEF AppLogout
  <2> QED BY <1>3, <2>2 DEF AppLogout, TypeOK, ControlType, conn, locks, net
<1>4. ASSUME NEW t \in AppThreads, AppSend(t) PROVE TypeOK'
  <2>1. t \in Threads /\ "idle" \in SendBack
    BY DEF Threads, SendBack
  <2>2. ControlType(pc', ret', why')
    BY <1>4, <2>1, CallSendType DEF AppSend
  <2> QED BY <1>4, <2>2 DEF AppSend, TypeOK, ControlType, conn, locks, net, hist
<1>5. CASE PeerClose
  BY <1>5 DEF PeerClose, TypeOK, conn, locks, hist
<1>6. CASE Finished
  BY <1>6 DEF Finished, vars, TypeOK, conn, locks, net, hist
<1>7. CASE UNCHANGED vars
  BY <1>7 DEF vars, TypeOK, conn, locks, net, hist
<1> QED BY <1>1, <1>2, <1>3, <1>4, <1>5, <1>6, <1>7 DEF Next

\* Every variable of the connection keeps its type, whatever the threads do.
THEOREM TypeCorrect == Spec => []TypeOK
  BY InitType, NextType, PTL DEF Spec

-----------------------------------------------------------------------------
(* The two mutexes: who holds one is where the code holds it.              *)

\* A thread owns a mutex exactly between its lock and its unlock.
LockInv ==
  \A t \in Threads : /\ sendOwner = t <=> pc[t] \in SendHeld
                     /\ recvOwner = t <=> pc[t] \in RecvHeld

\* No call returns into a critical section.
LEMMA BackFree ==
  ASSUME TypeOK, NEW t \in Threads, NEW c \in {"send", "clean", "down", "disc"}
  PROVE  ret[t][c] \notin SendHeld \union RecvHeld
  BY DEF TypeOK, SendBack, CleanBack, DownBack, DiscBack, SendHeld, RecvHeld

LEMMA StepLocks == ASSUME TypeOK, LockInv, NEW t \in Threads, Step(t) PROVE LockInv'
<1>1. CASE ConnectState(t)
  BY <1>1, ThreadsAssumption
  DEF ConnectState, Goto, LockInv, TypeOK, SendHeld, RecvHeld, conn, locks, net
<1>2. CASE ConnectLock(t)
  BY <1>2, ThreadsAssumption
  DEF ConnectLock, Goto, LockInv, TypeOK, SendHeld, RecvHeld, conn, locks, net
<1>3. CASE ConnectAccepted(t)
  BY <1>3, ThreadsAssumption
  DEF ConnectAccepted, Goto, LockInv, TypeOK, SendHeld, RecvHeld, conn, locks, net
<1>4. CASE ConnectRefused(t)
  BY <1>4, ThreadsAssumption
  DEF ConnectRefused, Goto, LockInv, TypeOK, SendHeld, RecvHeld, conn, locks, net
<1>5. CASE ConnectCheck(t)
  BY <1>5, ThreadsAssumption
  DEF ConnectCheck, Goto, CallDown, LockInv, TypeOK, SendHeld, RecvHeld, conn, locks, net
<1>6. CASE ConnectSetState(t)
  BY <1>6, ThreadsAssumption
  DEF ConnectSetState, Goto, LockInv, TypeOK, SendHeld, RecvHeld, conn, locks, net
<1>7. CASE ConnectOpen(t)
  BY <1>7, ThreadsAssumption
  DEF ConnectOpen, CallSend, LockInv, TypeOK, SendHeld, RecvHeld, conn, locks, net
<1>8. CASE LoginLoop(t)
  BY <1>8, ThreadsAssumption
  DEF LoginLoop, Goto, LockInv, TypeOK, SendHeld, RecvHeld, conn, locks, net
<1>9. CASE RecvState(t)
  BY <1>9, ThreadsAssumption
  DEF RecvState, Goto, LockInv, TypeOK, SendHeld, RecvHeld, conn, locks, net
<1>10. CASE RecvLock(t)
  BY <1>10, ThreadsAssumption
  DEF RecvLock, Goto, LockInv, TypeOK, SendHeld, RecvHeld, conn, locks, net
<1>11. CASE RecvData(t)
  BY <1>11, ThreadsAssumption
  DEF RecvData, Goto, LockInv, TypeOK, SendHeld, RecvHeld, conn, locks, net
<1>12. CASE RecvEnd(t)
  BY <1>12, ThreadsAssumption
  DEF RecvEnd, CallDown, LockInv, TypeOK, SendHeld, RecvHeld, conn, locks, net
<1>13. CASE RecvEof(t)
  BY <1>13, ThreadsAssumption
  DEF RecvEof, Goto, LockInv, TypeOK, SendHeld, RecvHeld, conn, locks, net
<1>14. CASE HandleData(t)
  BY <1>14, ThreadsAssumption
  DEF HandleData, Goto, CallSend, CallDisc, LockInv, TypeOK, SendHeld, RecvHeld, conn, locks, net
<1>15. CASE Online(t)
  BY <1>15, ThreadsAssumption
  DEF Online, CallSend, LockInv, TypeOK, SendHeld, RecvHeld, conn, locks, net
<1>16. CASE ParseError(t)
  BY <1>16, ThreadsAssumption
  DEF ParseError, CallDisc, LockInv, TypeOK, SendHeld, RecvHeld, conn, locks, net
<1>17. CASE SendState(t)
  BY <1>17, ThreadsAssumption, BackFree
  DEF SendState, Goto, Return, LockInv, TypeOK, SendHeld, RecvHeld, conn, locks, net
<1>18. CASE SendLock(t)
  BY <1>18, ThreadsAssumption, BackFree
  DEF SendLock, Goto, Return, LockInv, TypeOK, SendHeld, RecvHeld, conn, locks, net
<1>19. CASE SendIo(t)
  BY <1>19, ThreadsAssumption, BackFree
  DEF SendIo, Return, LockInv, TypeOK, SendHeld, RecvHeld, conn, locks, net
<1>20. CASE CleanupSend(t)
  BY <1>20, ThreadsAssumption, BackFree
  DEF CleanupSend, Goto, Return, LockInv, TypeOK, SendHeld, RecvHeld, conn, locks, net
<1>21. CASE CleanupRecv(t)
  BY <1>21, ThreadsAssumption, BackFree
  DEF CleanupRecv, Goto, Return, LockInv, TypeOK, SendHeld, RecvHeld, conn, locks, net
<1>22. CASE CleanupClose(t)
  BY <1>22, ThreadsAssumption, BackFree
  DEF CleanupClose, Return, LockInv, TypeOK, SendHeld, RecvHeld, conn, locks, net
<1>23. CASE DownNotify(t)
  BY <1>23, ThreadsAssumption, BackFree
  DEF DownNotify, Return, LockInv, TypeOK, SendHeld, RecvHeld, conn, locks, net
<1>24. CASE DiscClear(t)
  BY <1>24, ThreadsAssumption, BackFree
  DEF DiscClear, Goto, CallSend, Return, LockInv, TypeOK, SendHeld, RecvHeld, conn, locks, net
<1>25. CASE DiscLock(t)
  BY <1>25, ThreadsAssumption
  DEF DiscLock, Goto, LockInv, TypeOK, SendHeld, RecvHeld, conn, locks, net
<1>26. CASE DiscCancel(t)
  BY <1>26, ThreadsAssumption
  DEF DiscCancel, LockInv, TypeOK, SendHeld, RecvHeld, conn, locks, net
<1>27. CASE DiscNotify(t)
  BY <1>27, ThreadsAssumption, BackFree
  DEF DiscNotify, Return, LockInv, TypeOK, SendHeld, RecvHeld, conn, locks, net
<1> QED
  BY <1>1, <1>2, <1>3, <1>4, <1>5, <1>6, <1>7, <1>8, <1>9, <1>10, <1>11, <1>12, <1>13, <1>14, <1>15, <1>16, <1>17, <1>18, <1>19, <1>20, <1>21, <1>22, <1>23, <1>24, <1>25, <1>26, <1>27 DEF Step


LEMMA NextLocks == TypeOK /\ LockInv /\ [Next]_vars => LockInv'
<1> SUFFICES ASSUME TypeOK, LockInv, [Next]_vars PROVE LockInv'
  OBVIOUS
<1>1. ASSUME NEW t \in Threads, Step(t) PROVE LockInv'
  BY <1>1, StepLocks
<1>2. ASSUME NEW t \in LoginThreads, Login(t) PROVE LockInv'
  BY <1>2 DEF Login, Goto, LockInv, TypeOK, SendHeld, RecvHeld, Threads, locks
<1>3. ASSUME NEW t \in AppThreads, AppLogout(t) PROVE LockInv'
  BY <1>3 DEF AppLogout, CallDisc, LockInv, TypeOK, SendHeld, RecvHeld, Threads, locks
<1>4. ASSUME NEW t \in AppThreads, AppSend(t) PROVE LockInv'
  BY <1>4 DEF AppSend, CallSend, LockInv, TypeOK, SendHeld, RecvHeld, Threads, locks
<1>5. CASE PeerClose
  BY <1>5 DEF PeerClose, LockInv, locks
<1>6. CASE UNCHANGED vars
  BY <1>6 DEF vars, LockInv, locks
<1> QED BY <1>1, <1>2, <1>3, <1>4, <1>5, <1>6 DEF Next, Finished

LEMMA InitLocks == Init => LockInv
  BY ThreadsAssumption DEF Init, LockInv, SendHeld, RecvHeld

LEMMA LocksCorrect == Spec => []LockInv
  BY InitType, NextType, InitLocks, NextLocks, PTL DEF Spec

\* Whoever waits for a mutex waits for a thread that waits for none, for any number of
\* threads that log in, send and log out at any time.
THEOREM NobodyDeadlocks == Spec => []NoDeadlock
<1>1. TypeOK /\ LockInv => NoDeadlock
  <2> SUFFICES ASSUME TypeOK, LockInv PROVE NoDeadlock
    OBVIOUS
  <2>1. sendOwner # NoThread => sendOwner \in Threads /\ pc[sendOwner] \in SendHeld
    BY DEF TypeOK, LockInv
  <2>2. recvOwner # NoThread => recvOwner \in Threads /\ pc[recvOwner] \in RecvHeld
    BY DEF TypeOK, LockInv
  <2> QED
    BY <2>1, <2>2 DEF NoDeadlock, SendHeld, RecvHeld
<1> QED
  BY <1>1, TypeCorrect, LocksCorrect, PTL

-----------------------------------------------------------------------------
(* The descriptor: the inductive invariant behind SocketNotClosedUnderUse. *)

\* A thread inside select()/recv() or send() has an open descriptor, and a
\* thread inside DNS::connect has none to lose.
DescriptorInv ==
  \A t \in Threads : /\ pc[t] \in {"rx_sel", "sd_io"} => m_socket # 0
                     /\ pc[t] = "cn_dns" => m_socket = 0

LEMMA BackOutside ==
  ASSUME TypeOK, NEW t \in Threads, NEW c \in {"send", "clean", "down", "disc"}
  PROVE  ret[t][c] \notin {"rx_sel", "sd_io", "cn_dns"}
  BY DEF TypeOK, SendBack, CleanBack, DownBack, DiscBack

LEMMA StepDescriptor ==
  ASSUME TypeOK, LockInv, DescriptorInv, NEW t \in Threads, Step(t)
  PROVE  DescriptorInv'
<1>1. CASE ConnectState(t)
  BY <1>1, ThreadsAssumption
  DEF LockInv, ConnectState, Goto, DescriptorInv, TypeOK, SendHeld, RecvHeld, conn, locks, net
<1>2. CASE ConnectLock(t)
  BY <1>2, ThreadsAssumption
  DEF LockInv, ConnectLock, Goto, DescriptorInv, TypeOK, SendHeld, RecvHeld, conn, locks, net
<1>3. CASE ConnectAccepted(t)
  BY <1>3, ThreadsAssumption
  DEF LockInv, ConnectAccepted, Goto, DescriptorInv, TypeOK, SendHeld, RecvHeld, conn, locks, net
<1>4. CASE ConnectRefused(t)
  BY <1>4, ThreadsAssumption
  DEF LockInv, ConnectRefused, Goto, DescriptorInv, TypeOK, SendHeld, RecvHeld, conn, locks, net
<1>5. CASE ConnectCheck(t)
  BY <1>5, ThreadsAssumption
  DEF LockInv, ConnectCheck, Goto, CallDown, DescriptorInv, TypeOK, SendHeld, RecvHeld, conn, locks, net
<1>6. CASE ConnectSetState(t)
  BY <1>6, ThreadsAssumption
  DEF LockInv, ConnectSetState, Goto, DescriptorInv, TypeOK, SendHeld, RecvHeld, conn, locks, net
<1>7. CASE ConnectOpen(t)
  BY <1>7, ThreadsAssumption
  DEF LockInv, ConnectOpen, CallSend, DescriptorInv, TypeOK, SendHeld, RecvHeld, conn, locks, net
<1>8. CASE LoginLoop(t)
  BY <1>8, ThreadsAssumption
  DEF LockInv, LoginLoop, Goto, DescriptorInv, TypeOK, SendHeld, RecvHeld, conn, locks, net
<1>9. CASE RecvState(t)
  BY <1>9, ThreadsAssumption
  DEF LockInv, RecvState, Goto, DescriptorInv, TypeOK, SendHeld, RecvHeld, conn, locks, net
<1>10. CASE RecvLock(t)
  BY <1>10, ThreadsAssumption
  DEF LockInv, RecvLock, Goto, DescriptorInv, TypeOK, SendHeld, RecvHeld, conn, locks, net
<1>11. CASE RecvData(t)
  BY <1>11, ThreadsAssumption
  DEF LockInv, RecvData, Goto, DescriptorInv, TypeOK, SendHeld, RecvHeld, conn, locks, net
<1>12. CASE RecvEnd(t)
  BY <1>12, ThreadsAssumption
  DEF LockInv, RecvEnd, CallDown, DescriptorInv, TypeOK, SendHeld, RecvHeld, conn, locks, net
<1>13. CASE RecvEof(t)
  BY <1>13, ThreadsAssumption
  DEF LockInv, RecvEof, Goto, DescriptorInv, TypeOK, SendHeld, RecvHeld, conn, locks, net
<1>14. CASE HandleData(t)
  BY <1>14, ThreadsAssumption
  DEF LockInv, HandleData, Goto, CallSend, CallDisc, DescriptorInv, TypeOK, SendHeld, RecvHeld, conn, locks, net
<1>15. CASE Online(t)
  BY <1>15, ThreadsAssumption
  DEF LockInv, Online, CallSend, DescriptorInv, TypeOK, SendHeld, RecvHeld, conn, locks, net
<1>16. CASE ParseError(t)
  BY <1>16, ThreadsAssumption
  DEF LockInv, ParseError, CallDisc, DescriptorInv, TypeOK, SendHeld, RecvHeld, conn, locks, net
<1>17. CASE SendState(t)
  BY <1>17, ThreadsAssumption, BackOutside
  DEF LockInv, SendState, Goto, Return, DescriptorInv, TypeOK, SendHeld, RecvHeld, conn, locks, net
<1>18. CASE SendLock(t)
  BY <1>18, ThreadsAssumption, BackOutside
  DEF LockInv, SendLock, Goto, Return, DescriptorInv, TypeOK, SendHeld, RecvHeld, conn, locks, net
<1>19. CASE SendIo(t)
  BY <1>19, ThreadsAssumption, BackOutside
  DEF LockInv, SendIo, Return, DescriptorInv, TypeOK, SendHeld, RecvHeld, conn, locks, net
<1>20. CASE CleanupSend(t)
  BY <1>20, ThreadsAssumption, BackOutside
  DEF LockInv, CleanupSend, Goto, Return, DescriptorInv, TypeOK, SendHeld, RecvHeld, conn, locks, net
<1>21. CASE CleanupRecv(t)
  BY <1>21, ThreadsAssumption, BackOutside
  DEF LockInv, CleanupRecv, Goto, Return, DescriptorInv, TypeOK, SendHeld, RecvHeld, conn, locks, net
<1>22. CASE CleanupClose(t)
  BY <1>22, ThreadsAssumption, BackOutside
  DEF LockInv, CleanupClose, Return, DescriptorInv, TypeOK, SendHeld, RecvHeld, conn, locks, net
<1>23. CASE DownNotify(t)
  BY <1>23, ThreadsAssumption, BackOutside
  DEF LockInv, DownNotify, Return, DescriptorInv, TypeOK, SendHeld, RecvHeld, conn, locks, net
<1>24. CASE DiscClear(t)
  BY <1>24, ThreadsAssumption, BackOutside
  DEF LockInv, DiscClear, Goto, CallSend, Return, DescriptorInv, TypeOK, SendHeld, RecvHeld, conn, locks, net
<1>25. CASE DiscLock(t)
  BY <1>25, ThreadsAssumption
  DEF LockInv, DiscLock, Goto, DescriptorInv, TypeOK, SendHeld, RecvHeld, conn, locks, net
<1>26. CASE DiscCancel(t)
  BY <1>26, ThreadsAssumption
  DEF LockInv, DiscCancel, DescriptorInv, TypeOK, SendHeld, RecvHeld, conn, locks, net
<1>27. CASE DiscNotify(t)
  BY <1>27, ThreadsAssumption, BackOutside
  DEF LockInv, DiscNotify, Return, DescriptorInv, TypeOK, SendHeld, RecvHeld, conn, locks, net
<1> QED
  BY <1>1, <1>2, <1>3, <1>4, <1>5, <1>6, <1>7, <1>8, <1>9, <1>10, <1>11, <1>12, <1>13, <1>14, <1>15, <1>16, <1>17, <1>18, <1>19, <1>20, <1>21, <1>22, <1>23, <1>24, <1>25, <1>26, <1>27 DEF LockInv, Step

LEMMA NextDescriptor ==
  TypeOK /\ LockInv /\ DescriptorInv /\ [Next]_vars => DescriptorInv'
<1> SUFFICES ASSUME TypeOK, LockInv, DescriptorInv, [Next]_vars PROVE DescriptorInv'
  OBVIOUS
<1>1. ASSUME NEW t \in Threads, Step(t) PROVE DescriptorInv'
  BY <1>1, StepDescriptor
<1>2. ASSUME NEW t \in LoginThreads, Login(t) PROVE DescriptorInv'
  BY <1>2 DEF Login, Goto, DescriptorInv, TypeOK, Threads, conn
<1>3. ASSUME NEW t \in AppThreads, AppLogout(t) PROVE DescriptorInv'
  BY <1>3 DEF AppLogout, CallDisc, DescriptorInv, TypeOK, Threads, conn
<1>4. ASSUME NEW t \in AppThreads, AppSend(t) PROVE DescriptorInv'
  BY <1>4 DEF AppSend, CallSend, DescriptorInv, TypeOK, Threads, conn
<1>5. CASE PeerClose
  BY <1>5 DEF PeerClose, DescriptorInv, conn
<1>6. CASE UNCHANGED vars
  BY <1>6 DEF vars, DescriptorInv, conn
<1> QED BY <1>1, <1>2, <1>3, <1>4, <1>5, <1>6 DEF Next, Finished

LEMMA InitDescriptor == Init => DescriptorInv
  BY DEF Init, DescriptorInv

LEMMA DescriptorCorrect == Spec => [](TypeOK /\ LockInv /\ DescriptorInv)
  BY InitType, NextType, InitLocks, NextLocks, InitDescriptor, NextDescriptor, PTL DEF Spec

-----------------------------------------------------------------------------
(* The refinement of SocketUse.                                            *)

\* The threads that are inside a system call on the descriptor.
Using == {t \in Threads : pc[t] \in {"rx_sel", "sd_io"}}

SUvars == <<m_socket, opened, Using>>

\* No thread enters or leaves a system call, the descriptor stays.
SameUse ==
  /\ \A u \in Threads : pc'[u] \in {"rx_sel", "sd_io"} <=> pc[u] \in {"rx_sel", "sd_io"}
  /\ UNCHANGED <<m_socket, opened>>

LEMMA UsingSame == SameUse => UNCHANGED SUvars
  BY DEF SameUse, SUvars, Using

LEMMA StepRefines ==
  ASSUME TypeOK, LockInv, DescriptorInv, NEW t \in Threads, Step(t)
  PROVE  SU!Next \/ UNCHANGED SUvars
<1>1. CASE ConnectState(t)
  <2>1. SameUse
    BY <1>1 DEF SameUse, ConnectState, Goto, TypeOK, conn, net
  <2> QED BY <2>1, UsingSame
<1>2. CASE ConnectLock(t)
  <2>1. SameUse
    BY <1>2 DEF SameUse, ConnectLock, Goto, TypeOK, conn, net
  <2> QED BY <2>1, UsingSame
<1>3. CASE ConnectAccepted(t)
  <2>1. m_socket = 0 /\ m_socket' = opened + 1 /\ opened' = opened + 1
    BY <1>3 DEF DescriptorInv, ConnectAccepted, Goto, TypeOK, conn, net
  <2>2. Using' = Using
    BY <1>3 DEF Using, ConnectAccepted, Goto, TypeOK, conn, net
  <2> QED BY <2>1, <2>2 DEF SU!Next, SU!Open, Using
<1>4. CASE ConnectRefused(t)
  <2>1. SameUse
    BY <1>4 DEF SameUse, ConnectRefused, Goto, TypeOK, conn, net
  <2> QED BY <2>1, UsingSame
<1>5. CASE ConnectCheck(t)
  <2>1. SameUse
    BY <1>5 DEF SameUse, ConnectCheck, Goto, CallDown, TypeOK, conn, net
  <2> QED BY <2>1, UsingSame
<1>6. CASE ConnectSetState(t)
  <2>1. SameUse
    BY <1>6 DEF SameUse, ConnectSetState, Goto, TypeOK, conn, net
  <2> QED BY <2>1, UsingSame
<1>7. CASE ConnectOpen(t)
  <2>1. SameUse
    BY <1>7 DEF SameUse, ConnectOpen, CallSend, TypeOK, conn, net
  <2> QED BY <2>1, UsingSame
<1>8. CASE LoginLoop(t)
  <2>1. SameUse
    BY <1>8 DEF SameUse, LoginLoop, Goto, TypeOK, conn, net
  <2> QED BY <2>1, UsingSame
<1>9. CASE RecvState(t)
  <2>1. SameUse
    BY <1>9 DEF SameUse, RecvState, Goto, TypeOK, conn, net
  <2> QED BY <2>1, UsingSame
<1>10. CASE RecvLock(t)
  <2>1. CASE m_cancel \/ m_socket = 0
    <3>1. SameUse
      BY <1>10, <2>1 DEF SameUse, RecvLock, Goto, TypeOK, conn, net
    <3> QED BY <3>1, UsingSame
  <2>2. CASE ~(m_cancel \/ m_socket = 0)
    <3>1. m_socket # 0 /\ t \notin Using /\ Using' = Using \union {t} /\ UNCHANGED <<m_socket, opened>>
      BY <1>10, <2>2 DEF Using, RecvLock, Goto, TypeOK, conn, net
    <3> QED BY <3>1 DEF SU!Next, SU!Enter, Using
  <2> QED BY <2>1, <2>2
<1>11. CASE RecvData(t)
  <2>1. t \in Using /\ Using' = Using \ {t} /\ UNCHANGED <<m_socket, opened>>
    BY <1>11 DEF Using, RecvData, Goto, TypeOK, conn, net
  <2> QED BY <2>1 DEF SU!Next, SU!Leave, Using
<1>12. CASE RecvEnd(t)
  <2>1. t \in Using /\ Using' = Using \ {t} /\ UNCHANGED <<m_socket, opened>>
    BY <1>12 DEF Using, RecvEnd, CallDown, TypeOK, conn, net
  <2> QED BY <2>1 DEF SU!Next, SU!Leave, Using
<1>13. CASE RecvEof(t)
  <2>1. SameUse
    BY <1>13 DEF SameUse, RecvEof, Goto, TypeOK, conn, net
  <2> QED BY <2>1, UsingSame
<1>14. CASE HandleData(t)
  <2>1. SameUse
    BY <1>14 DEF SameUse, HandleData, Goto, CallSend, CallDisc, TypeOK, conn, net
  <2> QED BY <2>1, UsingSame
<1>15. CASE Online(t)
  <2>1. SameUse
    BY <1>15 DEF SameUse, Online, CallSend, TypeOK, conn, net
  <2> QED BY <2>1, UsingSame
<1>16. CASE ParseError(t)
  <2>1. SameUse
    BY <1>16 DEF SameUse, ParseError, CallDisc, TypeOK, conn, net
  <2> QED BY <2>1, UsingSame
<1>17. CASE SendState(t)
  <2>1. SameUse
    BY <1>17, BackOutside DEF SameUse, SendState, Goto, Return, TypeOK, conn, net
  <2> QED BY <2>1, UsingSame
<1>18. CASE SendLock(t)
  <2>1. CASE m_socket = 0
    <3>1. SameUse
      BY <1>18, <2>1, BackOutside DEF SameUse, SendLock, Goto, Return, TypeOK, conn, net
    <3> QED BY <3>1, UsingSame
  <2>2. CASE ~(m_socket = 0)
    <3>1. m_socket # 0 /\ t \notin Using /\ Using' = Using \union {t} /\ UNCHANGED <<m_socket, opened>>
      BY <1>18, <2>2 DEF Using, SendLock, Goto, Return, TypeOK, conn, net
    <3> QED BY <3>1 DEF SU!Next, SU!Enter, Using
  <2> QED BY <2>1, <2>2
<1>19. CASE SendIo(t)
  <2>1. t \in Using /\ Using' = Using \ {t} /\ UNCHANGED <<m_socket, opened>>
    BY <1>19, BackOutside DEF Using, SendIo, Return, TypeOK, conn, net
  <2> QED BY <2>1 DEF SU!Next, SU!Leave, Using
<1>20. CASE CleanupSend(t)
  <2>1. SameUse
    BY <1>20, BackOutside DEF SameUse, CleanupSend, Goto, Return, TypeOK, conn, net
  <2> QED BY <2>1, UsingSame
<1>21. CASE CleanupRecv(t)
  <2>1. SameUse
    BY <1>21, BackOutside DEF SameUse, CleanupRecv, Goto, Return, TypeOK, conn, net
  <2> QED BY <2>1, UsingSame
<1>22. CASE CleanupClose(t)
  <2>1. Using = {}
    BY <1>22, ThreadsAssumption DEF CleanupClose, Using, LockInv, SendHeld, RecvHeld
  <2>2. Using' = Using /\ m_socket' = 0 /\ opened' = opened
    BY <1>22, BackOutside DEF Using, CleanupClose, Return, TypeOK, conn, net
  <2>3. CASE m_socket # 0
    BY <2>1, <2>2, <2>3 DEF SU!Next, SU!Close, Using
  <2>4. CASE m_socket = 0
    BY <2>2, <2>4 DEF SUvars
  <2> QED BY <2>3, <2>4
<1>23. CASE DownNotify(t)
  <2>1. SameUse
    BY <1>23, BackOutside DEF SameUse, DownNotify, Return, TypeOK, conn, net
  <2> QED BY <2>1, UsingSame
<1>24. CASE DiscClear(t)
  <2>1. SameUse
    BY <1>24, BackOutside DEF SameUse, DiscClear, Goto, CallSend, Return, TypeOK, conn, net
  <2> QED BY <2>1, UsingSame
<1>25. CASE DiscLock(t)
  <2>1. SameUse
    BY <1>25 DEF SameUse, DiscLock, Goto, TypeOK, conn, net
  <2> QED BY <2>1, UsingSame
<1>26. CASE DiscCancel(t)
  <2>1. SameUse
    BY <1>26 DEF SameUse, DiscCancel, TypeOK, conn, net
  <2> QED BY <2>1, UsingSame
<1>27. CASE DiscNotify(t)
  <2>1. SameUse
    BY <1>27, BackOutside DEF SameUse, DiscNotify, Return, TypeOK, conn, net
  <2> QED BY <2>1, UsingSame
<1> QED
  BY <1>1, <1>2, <1>3, <1>4, <1>5, <1>6, <1>7, <1>8, <1>9, <1>10, <1>11, <1>12, <1>13, <1>14, <1>15, <1>16, <1>17, <1>18, <1>19, <1>20, <1>21, <1>22, <1>23, <1>24, <1>25, <1>26, <1>27 DEF Step

LEMMA NextRefines ==
  TypeOK /\ LockInv /\ DescriptorInv /\ [Next]_vars => SU!Next \/ UNCHANGED SUvars
<1> SUFFICES ASSUME TypeOK, LockInv, DescriptorInv, [Next]_vars
             PROVE  SU!Next \/ UNCHANGED SUvars
  OBVIOUS
<1>1. ASSUME NEW t \in Threads, Step(t) PROVE SU!Next \/ UNCHANGED SUvars
  BY <1>1, StepRefines
<1>2. ASSUME NEW t \in LoginThreads, Login(t) PROVE UNCHANGED SUvars
  <2>1. SameUse
    BY <1>2 DEF SameUse, Login, Goto, TypeOK, Threads, conn, net
  <2> QED BY <2>1, UsingSame
<1>3. ASSUME NEW t \in AppThreads, AppLogout(t) PROVE UNCHANGED SUvars
  <2>1. SameUse
    BY <1>3 DEF SameUse, AppLogout, CallDisc, TypeOK, Threads, conn, net
  <2> QED BY <2>1, UsingSame
<1>4. ASSUME NEW t \in AppThreads, AppSend(t) PROVE UNCHANGED SUvars
  <2>1. SameUse
    BY <1>4 DEF SameUse, AppSend, CallSend, TypeOK, Threads, conn, net
  <2> QED BY <2>1, UsingSame
<1>5. CASE PeerClose
  <2>1. SameUse
    BY <1>5 DEF SameUse, PeerClose, conn
  <2> QED BY <2>1, UsingSame
<1>6. CASE UNCHANGED vars
  <2>1. SameUse
    BY <1>6 DEF SameUse, vars, conn, net
  <2> QED BY <2>1, UsingSame
<1> QED BY <1>1, <1>2, <1>3, <1>4, <1>5, <1>6 DEF Next, Finished

LEMMA InitRefines == Init => SU!Init
  BY DEF Init, SU!Init

\* The threads use the descriptor as SocketUse allows, for every number of
\* threads: it is opened when there is none, used while it is open, closed
\* when nobody uses it.
THEOREM SocketUseImplemented == Spec => ImplementsSocketUse
<1>1. TypeOK /\ LockInv /\ DescriptorInv /\ [Next]_vars => [SU!Next]_SUvars
  BY NextRefines
<1>2. SU!Spec <=> SU!Init /\ [][SU!Next]_SUvars
  BY DEF SU!Spec, SUvars, Using
<1> QED
  BY <1>1, <1>2, InitRefines, DescriptorCorrect, PTL DEF Spec, ImplementsSocketUse

\* cleanup() never closes the descriptor under a select(), recv() or send().
THEOREM SocketSafe == Spec => SocketNotClosedUnderUse
<1>1. TypeOK /\ LockInv /\ DescriptorInv /\ [Next]_vars
      => [m_socket # 0 /\ m_socket' # m_socket =>
            \A t \in Threads : pc[t] \notin {"rx_sel", "sd_io"}]_vars
  <2> SUFFICES ASSUME TypeOK, LockInv, DescriptorInv, [Next]_vars,
                      m_socket # 0, m_socket' # m_socket
               PROVE  \A t \in Threads : pc[t] \notin {"rx_sel", "sd_io"}
    OBVIOUS
  <2>1. SU!Next \/ UNCHANGED SUvars
    BY NextRefines
  <2>2. Using = {}
    BY <2>1 DEF SU!Next, SU!Open, SU!Close, SU!Enter, SU!Leave, SUvars, Using
  <2> QED BY <2>2 DEF Using
<1> QED BY <1>1, DescriptorCorrect, PTL DEF Spec, SocketNotClosedUnderUse

-----------------------------------------------------------------------------
(* The end of a connection is reported.                                    *)

\* t is on its way to an end notification.
Tearing(t) ==
  \/ pc[t] \in CleanupLabels \union {"hd_note", "dc_lock", "dc_cancel", "dc_note"}
  \/ pc[t] \in SendLabels /\ ret[t]["send"] = "dc_lock"

\* t has found a connection and is in the receive loop or on its way to it.
Connects == {"cn_check", "cn_conn", "cn_open"}
Receives == {"lg_ok", "rx_state", "rx_lock", "rx_sel", "rx_data", "rx_online", "rx_bad",
             "dc_clear"}
Serving(t) ==
  \/ pc[t] \in Connects \union Receives
  \/ pc[t] \in SendLabels /\ ret[t]["send"] # "dc_lock"

\* A connection that the receive loop will find, and go on with.
Live ==
  /\ m_state # "Disconnected" /\ m_socket # 0
  /\ m_cancel => \E u \in LoginThreads : pc[u] \in Connects

\* A connection that was accepted and not reported as ended is being torn down,
\* or it is alive and a login thread serves it.
Watched ==
  opened > 0 /\ ~ended => \/ \E t \in Threads : Tearing(t)
                          \/ Live /\ \E t \in LoginThreads : Serving(t)

\* What calls return to: a cleanup to a notification, a login thread to its loop;
\* an application thread never enters the loop.
FrameOf(t) ==
  /\ pc[t] \in CleanupLabels => ret[t]["clean"] # "idle"
  /\ t \in LoginThreads => /\ pc[t] \in SendLabels => ret[t]["send"] # "idle"
                           /\ pc[t] = "dc_clear" => ret[t]["disc"] # "idle"
  /\ t \notin LoginThreads => /\ pc[t] \notin LoginLabels /\ ret[t]["send"] \notin LoginLabels
                              /\ ret[t]["down"] \notin LoginLabels /\ ret[t]["disc"] = "idle"
Frames == \A t \in Threads : FrameOf(t)

\* The state stays while a thread is connecting under the send mutex.
Named == \A t \in Threads : pc[t] = "cn_dns" => m_state # "Disconnected"

\* A step of t moves no other thread.
Others(t) == \A u \in Threads \ {t} : pc'[u] = pc[u] /\ ret'[u] = ret[u]

LEMMA StepOthers == ASSUME TypeOK, NEW t \in Threads, Step(t) PROVE Others(t)
<1>1. ASSUME NEW l, Goto(t, l) PROVE Others(t)
  BY <1>1 DEF Goto, Others, TypeOK
<1>2. ASSUME NEW c, Return(t, c) PROVE Others(t)
  BY <1>2 DEF Return, Others, TypeOK
<1>3. ASSUME NEW b, CallSend(t, b) PROVE Others(t)
  BY <1>3 DEF CallSend, Others, TypeOK
<1>4. ASSUME NEW r, NEW b, CallDown(t, r, b) PROVE Others(t)
  BY <1>4 DEF CallDown, Others, TypeOK
<1>5. ASSUME NEW r, NEW b, CallDisc(t, r, b) PROVE Others(t)
  BY <1>5 DEF CallDisc, Others, TypeOK
<1>6. CASE SendIo(t) \/ DiscCancel(t)
  BY <1>2, <1>6 DEF SendIo, DiscCancel, Others, TypeOK
<1>7. CASE \/ ConnectState(t) \/ ConnectLock(t) \/ ConnectAccepted(t) \/ ConnectRefused(t)
           \/ ConnectCheck(t) \/ ConnectSetState(t) \/ ConnectOpen(t) \/ LoginLoop(t)
  BY <1>1, <1>3, <1>4, <1>7
  DEF ConnectState, ConnectLock, ConnectAccepted, ConnectRefused, ConnectCheck, ConnectSetState,
      ConnectOpen, LoginLoop
<1>8. CASE \/ RecvState(t) \/ RecvLock(t) \/ RecvData(t) \/ RecvEnd(t) \/ RecvEof(t)
           \/ HandleData(t) \/ Online(t) \/ ParseError(t)
  BY <1>1, <1>3, <1>4, <1>5, <1>8
  DEF RecvState, RecvLock, RecvData, RecvEnd, RecvEof, HandleData, Online, ParseError
<1>9. CASE \/ SendState(t) \/ SendLock(t) \/ CleanupSend(t) \/ CleanupRecv(t) \/ CleanupClose(t)
           \/ DownNotify(t) \/ DiscClear(t) \/ DiscLock(t) \/ DiscNotify(t)
  BY <1>1, <1>2, <1>3, <1>9
  DEF SendState, SendLock, CleanupSend, CleanupRecv, CleanupClose, DownNotify, DiscClear, DiscLock,
      DiscNotify
<1> QED
  BY <1>6, <1>7, <1>8, <1>9 DEF Step

\* A return label never lies inside a send or a cleanup.
LEMMA OwnBack ==
  ASSUME TypeOK, NEW t \in Threads
  PROVE  /\ ret[t]["send"] \notin SendLabels \union CleanupLabels \union {"dc_clear"}
         /\ ret[t]["clean"] \notin SendLabels \union CleanupLabels \union {"dc_clear"} \union LoginLabels
         /\ ret[t]["down"] \notin SendLabels \union CleanupLabels \union {"dc_clear"}
         /\ ret[t]["disc"] \notin SendLabels \union CleanupLabels \union {"dc_clear"}
  BY DEF TypeOK, SendBack, CleanBack, DownBack, DiscBack, SendLabels, CleanupLabels, LoginLabels

\* t's own calls return where FrameOf says.
LEMMA StepFrame == ASSUME TypeOK, NEW t \in Threads, FrameOf(t), Step(t) PROVE FrameOf(t)'
<1> USE DEF FrameOf, TypeOK, SendLabels, CleanupLabels, LoginLabels
<1>1. CASE ConnectState(t)
  BY <1>1 DEF ConnectState, Goto
<1>2. CASE ConnectLock(t)
  BY <1>2 DEF ConnectLock, Goto
<1>3. CASE ConnectAccepted(t)
  BY <1>3 DEF ConnectAccepted, Goto
<1>4. CASE ConnectRefused(t)
  BY <1>4 DEF ConnectRefused, Goto
<1>5. CASE ConnectCheck(t)
  BY <1>5 DEF ConnectCheck, Goto, CallDown
<1>6. CASE ConnectSetState(t)
  BY <1>6 DEF ConnectSetState, Goto
<1>7. CASE ConnectOpen(t)
  BY <1>7 DEF ConnectOpen, CallSend
<1>8. CASE LoginLoop(t)
  BY <1>8 DEF LoginLoop, Goto
<1>9. CASE RecvState(t)
  BY <1>9 DEF RecvState, Goto
<1>10. CASE RecvLock(t)
  BY <1>10 DEF RecvLock, Goto
<1>11. CASE RecvData(t)
  BY <1>11 DEF RecvData, Goto
<1>12. CASE RecvEnd(t)
  BY <1>12 DEF RecvEnd, CallDown
<1>13. CASE RecvEof(t)
  BY <1>13 DEF RecvEof, Goto
<1>14. CASE HandleData(t)
  BY <1>14 DEF HandleData, Goto, CallSend, CallDisc
<1>15. CASE Online(t)
  BY <1>15 DEF Online, CallSend
<1>16. CASE ParseError(t)
  BY <1>16 DEF ParseError, CallDisc
<1>17. CASE SendState(t)
  BY <1>17, OwnBack DEF SendState, Goto, Return
<1>18. CASE SendLock(t)
  BY <1>18, OwnBack DEF SendLock, Goto, Return
<1>19. CASE SendIo(t)
  <2>1. CASE pc' = [pc EXCEPT ![t] = "cl_send"]
    BY <1>19, <2>1, OwnBack DEF SendIo, Return
  <2>2. CASE Return(t, "send")
    BY <1>19, <2>2, OwnBack DEF SendIo, Return
  <2> QED
    BY <1>19, <2>1, <2>2 DEF SendIo
<1>20. CASE CleanupSend(t)
  BY <1>20, OwnBack DEF CleanupSend, Goto, Return
<1>21. CASE CleanupRecv(t)
  BY <1>21, OwnBack DEF CleanupRecv, Goto, Return
<1>22. CASE CleanupClose(t)
  BY <1>22, OwnBack DEF CleanupClose, Return
<1>23. CASE DownNotify(t)
  BY <1>23, OwnBack DEF DownNotify, Return
<1>24. CASE DiscClear(t)
  BY <1>24, OwnBack DEF DiscClear, Goto, CallSend, Return
<1>25. CASE DiscLock(t)
  BY <1>25 DEF DiscLock, Goto
<1>26. CASE DiscCancel(t)
  BY <1>26 DEF DiscCancel
<1>27. CASE DiscNotify(t)
  BY <1>27, OwnBack DEF DiscNotify, Return
<1> QED
  BY <1>1, <1>2, <1>3, <1>4, <1>5, <1>6, <1>7, <1>8, <1>9, <1>10, <1>11, <1>12, <1>13, <1>14, <1>15, <1>16, <1>17, <1>18, <1>19, <1>20, <1>21, <1>22, <1>23, <1>24, <1>25, <1>26, <1>27 DEF Step

\* The state that a connecting thread has set stays: cleanup needs the send mutex.
LEMMA StepNamed == ASSUME TypeOK, LockInv, Named, NEW t \in Threads, Step(t) PROVE Named'
<1>1. ASSUME m_state' # "Disconnected" \/ m_state' = m_state, pc'[t] # "cn_dns" PROVE Named'
  BY <1>1, StepOthers DEF Named, Others
<1>2. CASE ConnectLock(t)
  <2>1. CASE m_state' = "Connecting"
    BY <1>2, <2>1 DEF Named
  <2>2. CASE m_state' # "Connecting"
    BY <1>1, <1>2, <2>2 DEF ConnectLock, Goto, TypeOK
  <2> QED
    BY <2>1, <2>2
<1>3. CASE CleanupClose(t)
  <2>1. \A u \in Threads : u # t => pc[u] # "cn_dns"
    BY <1>3, ThreadsAssumption DEF CleanupClose, LockInv, SendHeld
  <2>2. pc'[t] # "cn_dns"
    BY <1>3, BackOutside DEF CleanupClose, Return, TypeOK
  <2> QED
    BY <2>1, <2>2, StepOthers DEF Named, Others
<1>4. CASE ConnectState(t) \/ ConnectAccepted(t) \/ ConnectRefused(t) \/ ConnectCheck(t) \/ ConnectSetState(t) \/ ConnectOpen(t) \/ LoginLoop(t)
  BY <1>1, <1>4, BackOutside
  DEF ConnectState, ConnectAccepted, ConnectRefused, ConnectCheck, ConnectSetState, ConnectOpen, LoginLoop, CallDown, CallSend, Goto, TypeOK, conn
<1>5. CASE RecvState(t) \/ RecvLock(t) \/ RecvData(t) \/ RecvEnd(t) \/ RecvEof(t) \/ HandleData(t) \/ Online(t) \/ ParseError(t)
  BY <1>1, <1>5, BackOutside
  DEF RecvState, RecvLock, RecvData, RecvEnd, RecvEof, HandleData, Online, ParseError, CallDisc, CallDown, CallSend, Goto, TypeOK, conn
<1>6. CASE SendState(t) \/ SendLock(t) \/ SendIo(t) \/ CleanupSend(t) \/ CleanupRecv(t) \/ DownNotify(t)
  BY <1>1, <1>6, BackOutside
  DEF SendState, SendLock, SendIo, CleanupSend, CleanupRecv, DownNotify, Goto, Return, TypeOK, conn
<1>7. CASE DiscClear(t) \/ DiscLock(t) \/ DiscCancel(t) \/ DiscNotify(t)
  BY <1>1, <1>7, BackOutside
  DEF DiscClear, DiscLock, DiscCancel, DiscNotify, CallSend, Goto, Return, TypeOK, conn
<1> QED
  BY <1>2, <1>3, <1>4, <1>5, <1>6, <1>7 DEF Step

\* What a step of t may do to a connection while others watch it.
KeepsWatch(t) ==
  /\ opened' = opened /\ ended' = ended /\ ~Tearing(t)
  /\ Live => /\ m_state' # "Disconnected" /\ m_socket' = m_socket
             /\ m_cancel' => m_cancel
             /\ pc[t] \in Connects /\ m_cancel' => pc'[t] \in Connects
             /\ t \in LoginThreads /\ Serving(t) => Serving(t)' \/ (m_cancel /\ pc[t] \notin Connects)

LEMMA WatchKept ==
  ASSUME TypeOK, Watched, NEW t \in Threads, Others(t),
         Tearing(t)' \/ ended' \/ KeepsWatch(t)
  PROVE  Watched'
<1>1. CASE Tearing(t)' \/ ended'
  BY <1>1 DEF Watched
<1>2. CASE KeepsWatch(t)
  <2> SUFFICES ASSUME opened' > 0, ~ended'
               PROVE  \/ \E u \in Threads : Tearing(u)'
                      \/ Live' /\ \E u \in LoginThreads : Serving(u)'
    BY DEF Watched
  <2>1. opened > 0 /\ ~ended /\ ~Tearing(t)
    BY <1>2 DEF KeepsWatch
  <2>2. \A u \in Threads \ {t} : (Tearing(u) <=> Tearing(u)') /\ (Serving(u) <=> Serving(u)')
                                 /\ (pc[u] \in Connects <=> pc'[u] \in Connects)
    BY DEF Others, Tearing, Serving
  <2>3. CASE \E u \in Threads : Tearing(u)
    BY <2>1, <2>2, <2>3
  <2>4. CASE Live /\ \E u \in LoginThreads : Serving(u)
    <3>1. LoginThreads \subseteq Threads
      BY DEF Threads
    <3>2. \A u \in LoginThreads : pc[u] \in Connects /\ m_cancel' => pc'[u] \in Connects
      BY <1>2, <2>2, <2>4, <3>1 DEF KeepsWatch
    <3>3. m_cancel' => \E u \in LoginThreads : pc'[u] \in Connects
      BY <1>2, <2>4, <3>2 DEF KeepsWatch, Live
    <3>4. Live'
      BY <1>2, <2>4, <3>3 DEF KeepsWatch, Live
    <3>5. PICK u \in LoginThreads : Serving(u)
      BY <2>4
    <3>6. CASE u # t \/ Serving(t)'
      BY <2>2, <3>1, <3>4, <3>5, <3>6
    <3>7. CASE u = t /\ ~Serving(t)'
      <4>1. m_cancel /\ pc[t] \notin Connects
        BY <1>2, <2>4, <3>5, <3>7 DEF KeepsWatch
      <4>2. PICK v \in LoginThreads : pc[v] \in Connects
        BY <2>4, <4>1 DEF Live
      <4>3. v # t /\ Serving(v)
        BY <4>1, <4>2 DEF Serving
      <4> QED
        BY <2>2, <3>1, <3>4, <4>3
    <3> QED
      BY <3>6, <3>7
  <2> QED
    BY <2>1, <2>3, <2>4 DEF Watched
<1> QED
  BY <1>1, <1>2

LEMMA StepWatched ==
  ASSUME TypeOK, LockInv, DescriptorInv, Frames, Named, Watched, NEW t \in Threads, Step(t)
  PROVE  Watched'
<1> SUFFICES ASSUME ~ConnectAccepted(t) PROVE Tearing(t)' \/ ended' \/ KeepsWatch(t)
  <2>1. CASE ConnectAccepted(t)
    <3>1. pc[t] = "cn_dns" /\ pc'[t] = "cn_check" /\ m_socket' # 0 /\ m_state' = m_state
      BY <2>1 DEF ConnectAccepted, Goto, TypeOK
    <3>2. t \in LoginThreads
      BY <3>1 DEF Frames, FrameOf, LoginLabels
    <3>3. m_state' # "Disconnected"
      BY <3>1 DEF Named
    <3> QED
      BY <3>1, <3>2, <3>3 DEF Watched, Live, Serving, Connects
  <2> QED
    BY <2>1, WatchKept, StepOthers
<1> USE DEF Tearing, CleanupLabels, SendLabels
<1>0. FrameOf(t)
  BY DEF Frames
<1>1. CASE ConnectState(t)
  BY <1>0, <1>1 DEF ConnectState, Goto, KeepsWatch, Live, Serving, Connects, Receives, TypeOK, conn, net, hist, FrameOf
<1>2. CASE ConnectLock(t)
  BY <1>0, <1>2 DEF ConnectLock, Goto, KeepsWatch, Live, Serving, Connects, Receives, TypeOK, conn, net, hist, FrameOf
<1>3. CASE ConnectAccepted(t)
  BY <1>3
<1>4. CASE ConnectRefused(t)
  BY <1>0, <1>4 DEF ConnectRefused, Goto, KeepsWatch, Live, Serving, Connects, Receives, TypeOK, conn, net, hist, FrameOf
<1>5. CASE ConnectCheck(t)
  BY <1>0, <1>5 DEF ConnectCheck, Goto, CallDown, KeepsWatch, Live, Serving, Connects, Receives, TypeOK, conn, net, hist, FrameOf
<1>6. CASE ConnectSetState(t)
  BY <1>0, <1>6 DEF ConnectSetState, Goto, KeepsWatch, Live, Serving, Connects, Receives, TypeOK, conn, net, hist, FrameOf
<1>7. CASE ConnectOpen(t)
  BY <1>0, <1>7 DEF ConnectOpen, CallSend, KeepsWatch, Live, Serving, Connects, Receives, TypeOK, conn, net, hist, FrameOf
<1>8. CASE LoginLoop(t)
  BY <1>0, <1>8 DEF LoginLoop, Goto, KeepsWatch, Live, Serving, Connects, Receives, TypeOK, conn, net, hist, FrameOf
<1>9. CASE RecvState(t)
  BY <1>0, <1>9 DEF RecvState, Goto, KeepsWatch, Live, Serving, Connects, Receives, TypeOK, conn, net, hist, FrameOf
<1>10. CASE RecvLock(t)
  BY <1>0, <1>10 DEF RecvLock, Goto, KeepsWatch, Live, Serving, Connects, Receives, TypeOK, conn, net, hist, FrameOf
<1>11. CASE RecvData(t)
  BY <1>0, <1>11 DEF RecvData, Goto, KeepsWatch, Live, Serving, Connects, Receives, TypeOK, conn, net, hist, FrameOf
<1>12. CASE RecvEnd(t)
  BY <1>0, <1>12 DEF RecvEnd, CallDown, KeepsWatch, Live, Serving, Connects, Receives, TypeOK, conn, net, hist, FrameOf
<1>13. CASE RecvEof(t)
  BY <1>0, <1>13 DEF RecvEof, Goto, KeepsWatch, Live, Serving, Connects, Receives, TypeOK, conn, net, hist, FrameOf
<1>14. CASE HandleData(t)
  BY <1>0, <1>14 DEF HandleData, Goto, CallSend, CallDisc, KeepsWatch, Live, Serving, Connects, Receives, TypeOK, conn, net, hist, FrameOf
<1>15. CASE Online(t)
  BY <1>0, <1>15 DEF Online, CallSend, KeepsWatch, Live, Serving, Connects, Receives, TypeOK, conn, net, hist, FrameOf
<1>16. CASE ParseError(t)
  BY <1>0, <1>16 DEF ParseError, CallDisc, KeepsWatch, Live, Serving, Connects, Receives, TypeOK, conn, net, hist, FrameOf
<1>17. CASE SendState(t)
  BY <1>0, <1>17 DEF SendState, Goto, Return, KeepsWatch, Live, Serving, Connects, Receives, TypeOK, conn, net, hist, FrameOf, SendBack, CleanBack
<1>18. CASE SendLock(t)
  BY <1>0, <1>18 DEF SendLock, Goto, Return, KeepsWatch, Live, Serving, Connects, Receives, TypeOK, conn, net, hist, FrameOf, SendBack, CleanBack
<1>19. CASE SendIo(t)
  BY <1>0, <1>19 DEF SendIo, Return, KeepsWatch, Live, Serving, Connects, Receives, TypeOK, conn, net, hist, FrameOf, SendBack, CleanBack
<1>20. CASE CleanupSend(t)
  BY <1>0, <1>20 DEF CleanupSend, Goto, Return, KeepsWatch, Live, Serving, Connects, Receives, TypeOK, conn, net, hist, FrameOf, SendBack, CleanBack
<1>21. CASE CleanupRecv(t)
  BY <1>0, <1>21 DEF CleanupRecv, Goto, Return, KeepsWatch, Live, Serving, Connects, Receives, TypeOK, conn, net, hist, FrameOf, SendBack, CleanBack
<1>22. CASE CleanupClose(t)
  BY <1>0, <1>22 DEF CleanupClose, Return, KeepsWatch, Live, Serving, Connects, Receives, TypeOK, conn, net, hist, FrameOf, SendBack, CleanBack
<1>23. CASE DownNotify(t)
  BY <1>0, <1>23 DEF DownNotify, Return, KeepsWatch, Live, Serving, Connects, Receives, TypeOK, conn, net, hist, FrameOf, SendBack, CleanBack
<1>24. CASE DiscClear(t)
  BY <1>0, <1>24 DEF DiscClear, Goto, CallSend, Return, KeepsWatch, Live, Serving, Connects, Receives, TypeOK, conn, net, hist, FrameOf, SendBack, CleanBack
<1>25. CASE DiscLock(t)
  BY <1>0, <1>25 DEF DiscLock, Goto, KeepsWatch, Live, Serving, Connects, Receives, TypeOK, conn, net, hist, FrameOf
<1>26. CASE DiscCancel(t)
  BY <1>0, <1>26 DEF DiscCancel, KeepsWatch, Live, Serving, Connects, Receives, TypeOK, conn, net, hist, FrameOf
<1>27. CASE DiscNotify(t)
  BY <1>0, <1>27 DEF DiscNotify, Return, KeepsWatch, Live, Serving, Connects, Receives, TypeOK, conn, net, hist, FrameOf, SendBack, CleanBack
<1> QED
  BY <1>1, <1>2, <1>3, <1>4, <1>5, <1>6, <1>7, <1>8, <1>9, <1>10, <1>11, <1>12, <1>13, <1>14, <1>15, <1>16, <1>17, <1>18, <1>19, <1>20, <1>21, <1>22, <1>23, <1>24, <1>25, <1>26, <1>27 DEF Step

\* The invariant of the end notification.
WatchInv == Frames /\ Named /\ Watched

LEMMA StepWatch ==
  ASSUME TypeOK, LockInv, DescriptorInv, WatchInv, NEW t \in Threads, Step(t)
  PROVE  WatchInv'
<1>1. Frames'
  <2>1. FrameOf(t)'
    BY StepFrame DEF WatchInv, Frames
  <2>2. \A u \in Threads \ {t} : FrameOf(u)'
    BY StepOthers DEF WatchInv, Frames, FrameOf, Others
  <2> QED
    BY <2>1, <2>2 DEF Frames
<1> QED
  BY <1>1, StepNamed, StepWatched DEF WatchInv

\* A thread that was idle makes a call: it served nothing.
LEMMA CallWatch ==
  ASSUME TypeOK, WatchInv, NEW t \in Threads, pc[t] = "idle", Others(t), FrameOf(t)',
         pc'[t] # "cn_dns", UNCHANGED <<conn, opened, ended>>
  PROVE  WatchInv'
<1>1. Frames'
  BY DEF WatchInv, Frames, FrameOf, Others
<1>2. Named'
  BY DEF WatchInv, Named, Others, conn
<1>3. KeepsWatch(t)
  BY DEF KeepsWatch, Tearing, Serving, Connects, Receives, CleanupLabels, SendLabels, Live, conn
<1> QED
  BY <1>1, <1>2, <1>3, WatchKept DEF WatchInv

LEMMA NextWatch ==
  TypeOK /\ LockInv /\ DescriptorInv /\ WatchInv /\ [Next]_vars => WatchInv'
<1> SUFFICES ASSUME TypeOK, LockInv, DescriptorInv, WatchInv, [Next]_vars PROVE WatchInv'
  OBVIOUS
<1>1. ASSUME NEW t \in Threads, Step(t) PROVE WatchInv'
  BY <1>1, StepWatch
<1>2. ASSUME NEW t \in LoginThreads, Login(t) PROVE WatchInv'
  <2>1. t \in Threads /\ pc[t] = "idle" /\ UNCHANGED <<conn, opened, ended>>
    BY <1>2 DEF Login, Threads, net
  <2>2. Others(t) /\ pc'[t] = "cn_state" /\ ret'[t] = ret[t]
    BY <1>2, <2>1 DEF Login, Goto, Others, TypeOK
  <2>3. FrameOf(t)'
    BY <2>2 DEF FrameOf, CleanupLabels, SendLabels
  <2> QED
    BY <2>1, <2>2, <2>3, CallWatch
<1>3. ASSUME NEW t \in AppThreads, AppLogout(t) PROVE WatchInv'
  <2>1. t \in Threads /\ t \notin LoginThreads /\ pc[t] = "idle" /\ UNCHANGED <<conn, opened, ended>>
    BY <1>3, ThreadsAssumption DEF AppLogout, Threads, net
  <2>2. Others(t) /\ pc'[t] = "dc_clear" /\ ret'[t] = [ret[t] EXCEPT !["disc"] = "idle"]
    BY <1>3, <2>1 DEF AppLogout, CallDisc, Others, TypeOK
  <2>3. FrameOf(t)'
    BY <2>1, <2>2 DEF WatchInv, Frames, FrameOf, CleanupLabels, LoginLabels, TypeOK
  <2> QED
    BY <2>1, <2>2, <2>3, CallWatch
<1>4. ASSUME NEW t \in AppThreads, AppSend(t) PROVE WatchInv'
  <2>1. t \in Threads /\ t \notin LoginThreads /\ pc[t] = "idle" /\ UNCHANGED <<conn, opened, ended>>
    BY <1>4, ThreadsAssumption DEF AppSend, Threads, net, hist
  <2>2. Others(t) /\ pc'[t] = "sd_state" /\ ret'[t] = [ret[t] EXCEPT !["send"] = "idle"]
    BY <1>4, <2>1 DEF AppSend, CallSend, Others, TypeOK
  <2>3. FrameOf(t)'
    BY <2>1, <2>2 DEF WatchInv, Frames, FrameOf, CleanupLabels, LoginLabels, TypeOK
  <2> QED
    BY <2>1, <2>2, <2>3, CallWatch
<1>5. CASE PeerClose
  BY <1>5
  DEF PeerClose, WatchInv, Frames, FrameOf, Named, Watched, Tearing, Serving, Live, conn, hist
<1>6. CASE UNCHANGED vars
  BY <1>6
  DEF vars, WatchInv, Frames, FrameOf, Named, Watched, Tearing, Serving, Live, conn, net, hist
<1> QED
  BY <1>1, <1>2, <1>3, <1>4, <1>5, <1>6 DEF Next, Finished

LEMMA InitWatch == Init => WatchInv
  BY DEF Init, WatchInv, Frames, FrameOf, Named, Watched, LoginLabels, SendLabels, CleanupLabels

\* Nobody tears down, no login thread is left: the last connection was reported.
LEMMA WatchedReports == WatchInv => EndIsReported
<1> SUFFICES ASSUME Watched, opened > 0, \A t \in LoginThreads : pc[t] = "idle",
                    \A t \in Threads : ~InTeardown(t)
             PROVE  ended
  BY DEF WatchInv, EndIsReported
<1>1. \A t \in Threads : ~Tearing(t)
  BY DEF Tearing, InTeardown, DownLabels, DiscLabels
<1>2. \A t \in LoginThreads : ~Serving(t)
  BY DEF Serving, Connects, Receives, SendLabels
<1> QED
  BY <1>1, <1>2 DEF Watched

\* However login threads, senders and a logout interleave, at every read, write and
\* lock of the connection: login() never ends the last connection in silence.
THEOREM EndReported == Spec => []EndIsReported
<1>1. Init => WatchInv
  BY InitWatch
<1>2. TypeOK /\ LockInv /\ DescriptorInv /\ WatchInv /\ [Next]_vars => WatchInv'
  BY NextWatch
<1> QED
  BY <1>1, <1>2, WatchedReports, DescriptorCorrect, PTL DEF Spec

=============================================================================
