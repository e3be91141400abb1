--------------------------- MODULE StackKeeper_proofs ---------------------------
(***************************************************************************)
(* Type correctness of StackKeeper for any finite set of stacks and every  *)
(* bound, and the truth of the flag that the views are shown.  Beside the  *)
(* types TypeOK says that the server keeps one session of the device's JID *)
(* on line at most, and that a thread about to log a stack in finds one in the field        *)
(* mXmppStack unless the user has logged out under it.  The flag follows   *)
(* from what is known of every stack, current or not: its last report      *)
(* that has not been taken back, on the queue or handled, is true.         *)
(***************************************************************************)
EXTENDS StackKeeper, FiniteSetTheorems, SequenceTheorems, TLAPS

USE DEF OneSession, Jid

\* The bound of the login threads is a number.
LEMMA StacksCount == Cardinality(Stacks) \in Nat
  BY KeeperAssumption, FS_CardinalityType

\* A process that has just started is well typed: the values of the static fields.
LEMMA FreshTypeOK ==
  ASSUME TypeOK, Fresh, net' \in BOOLEAN, used' = used
  PROVE  TypeOK'
<1>1. queue' \in Seq(Report) /\ Len(queue') <= MaxQueue
  BY KeeperAssumption DEF Fresh
<1>2. st' \in [Stacks -> StackState] /\ host' \in [Stacks -> Host] /\ jid' \in [Stacks -> Jid] /\ hostIp' \in Host
  BY DEF Fresh, StackState, Host
<1>3. {mIsThreadRun', mIsTcpConOk', typeXmpp', net'} \subseteq BOOLEAN
  BY DEF Fresh
<1>4. 0 \in 0..Cardinality(Stacks)
  BY StacksCount
<1>5. OneSession'
  BY DEF Fresh
<1>6. mXmppStack' = 0 /\ starting' = 0 /\ keeper' = "off" /\ ui' = "idle" /\ speaker' = 0
  BY DEF Fresh
<1> QED
  BY <1>1, <1>2, <1>3, <1>4, <1>5, <1>6 DEF TypeOK

\* A stack that is made takes a place in the field; what is on line stays.
LEMMA MakeTypes ==
  ASSUME TypeOK, NEW where \in Host, NEW whose \in Jid, Make(where, whose)
  PROVE  /\ st' \in [Stacks -> StackState] /\ host' \in [Stacks -> Host] /\ jid' \in [Stacks -> Jid]
         /\ mXmppStack' \in Stacks /\ mXmppStack' # 0 /\ speaker' \in Stacks \union {0}
         /\ OneSession'
<1>1. PICK s \in Stacks :
        /\ st' = [st EXCEPT ![s] = "new"] /\ host' = [host EXCEPT ![s] = where]
        /\ jid' = [jid EXCEPT ![s] = whose]
        /\ mXmppStack' = s /\ speaker' = IF speaker = s THEN 0 ELSE speaker
  BY DEF Make
<1>2. st' \in [Stacks -> StackState]
  BY <1>1 DEF TypeOK, StackState
<1>3. host' \in [Stacks -> Host] /\ jid' \in [Stacks -> Jid]
  BY <1>1 DEF TypeOK
<1>4. mXmppStack' \in Stacks /\ mXmppStack' # 0 /\ speaker' \in Stacks \union {0}
  BY <1>1, KeeperAssumption DEF TypeOK
<1>5. ASSUME NEW r \in Stacks, st'[r] = "online"
      PROVE  st[r] = "online" /\ jid'[r] = jid[r]
  BY <1>1, <1>5 DEF TypeOK
<1>6. OneSession'
  BY <1>5 DEF TypeOK, OneSession
<1> QED
  BY <1>2, <1>3, <1>4, <1>6

\* A report that is posted leaves a queue of reports within its bound.
LEMMA PostTypes ==
  ASSUME TypeOK, NEW s \in Stacks, NEW ok \in BOOLEAN, Post(s, ok)
  PROVE  /\ queue' \in Seq(Report) /\ Len(queue') <= MaxQueue
         /\ mIsTcpConOk' \in BOOLEAN /\ speaker' \in Stacks \union {0}
<1> DEFINE new == [ok |-> ok, by |-> s]
<1>1. new \in Report
  BY DEF Report
<1>2. queue \in Seq(Report) /\ MaxQueue \in Nat
  BY KeeperAssumption DEF TypeOK
<1> HIDE DEF new
<1>3. Append(queue, new) \in Seq(Report) /\ Len(Append(queue, new)) = Len(queue) + 1
      /\ Len(queue) \in Nat
  BY <1>1, <1>2
<1>4. queue' = Append(queue, new) /\ Len(queue) < MaxQueue
  BY DEF Post, new
<1> QED
  BY <1>2, <1>3, <1>4 DEF Post, TypeOK

\* A queue whose reports are out of date is as long as it was.
LEMMA QuietlyTypes ==
  ASSUME TypeOK, NEW s \in Stacks, Quietly(s)
  PROVE  /\ queue' \in Seq(Report) /\ Len(queue') <= MaxQueue
         /\ mIsTcpConOk' \in BOOLEAN /\ speaker' \in Stacks \union {0}
<1> DEFINE Outdated(by) == IF by = s THEN 0 ELSE by
<1>1. queue \in Seq(Report) /\ Len(queue) <= MaxQueue
  BY DEF TypeOK
<1>2. DOMAIN queue = 1..Len(queue) /\ Len(queue) \in Nat /\ queue \in [1..Len(queue) -> Report]
  BY <1>1, LenProperties
<1>3. \A i \in 1..Len(queue) : [queue[i] EXCEPT !.by = Outdated(queue[i].by)] \in Report
  BY <1>2 DEF Report
<1>4. queue' = [i \in 1..Len(queue) |-> [queue[i] EXCEPT !.by = Outdated(queue[i].by)]]
  BY <1>2 DEF Quietly
<1>5. queue' \in [1..Len(queue) -> Report]
  BY <1>3, <1>4
<1>6. queue' \in Seq(Report) /\ Len(queue') = Len(queue)
  BY <1>2, <1>5
<1> QED
  BY <1>1, <1>6 DEF Quietly, TypeOK

\* Taking a bound's count further keeps it within the bound.
LEMMA SpendTypes ==
  ASSUME TypeOK, NEW what \in {"trouble", "outage", "user"}, NEW max, Spend(what, max),
         \/ what = "trouble" /\ max = MaxTroubles
         \/ what = "outage" /\ max = MaxOutages
         \/ what = "user" /\ max = MaxUser
  PROVE  used' \in [trouble : 0..MaxTroubles, outage : 0..MaxOutages, user : 0..MaxUser]
  BY KeeperAssumption DEF TypeOK, Spend

LEMMA InitTypeOK == Init => TypeOK
<1> SUFFICES ASSUME Init PROVE TypeOK
  OBVIOUS
<1>1. st \in [Stacks -> StackState] /\ host \in [Stacks -> Host] /\ jid \in [Stacks -> Jid] /\ hostIp \in Host
  BY DEF Init, StackState, Host
<1>2. queue \in Seq(Report) /\ Len(queue) <= MaxQueue
  BY KeeperAssumption DEF Init
<1>3. {mIsThreadRun, mIsTcpConOk, typeXmpp, net} \subseteq BOOLEAN
  BY DEF Init
<1>4. starting \in 0..Cardinality(Stacks)
  BY StacksCount DEF Init
<1>5. used \in [trouble : 0..MaxTroubles, outage : 0..MaxOutages, user : 0..MaxUser]
  BY KeeperAssumption DEF Init
<1>6. OneSession
  BY DEF Init
<1> QED
  BY <1>1, <1>2, <1>3, <1>4, <1>5, <1>6 DEF TypeOK, Init

\* A step of a stack: it goes on, fails, or ends without a report.
LEMMA StackTypes ==
  ASSUME TypeOK, NEW s \in Stacks, Stack(s) \/ MayFail(s) \/ EndedQuietly(s)
  PROVE  TypeOK'
<1>1. CASE TcpAccepted(s)
  BY <1>1 DEF TypeOK, TcpAccepted, Become, StackState, app, thread, view
<1>2. CASE LoggedIn(s)
  <2>1. Post(s, TRUE)
    BY <1>2 DEF LoggedIn
  <2>2. PICK same \in SUBSET {r \in Stacks : st[r] = "online"} :
          /\ \A r \in Stacks \ same : st[r] = "online" => {jid[r], jid[s]} # {"device"}
          /\ st' = [r \in Stacks |-> IF r = s THEN "online"
                                     ELSE IF r \in same THEN "kicked" ELSE st[r]]
    BY <1>2 DEF LoggedIn
  <2>3. st' \in [Stacks -> StackState]
    BY <2>2 DEF TypeOK, StackState
  <2>4. ASSUME NEW r \in Stacks, NEW q \in Stacks, st'[r] = "online", st'[q] = "online",
               jid[r] = "device", jid[q] = "device"
        PROVE  r = q
    BY <2>2, <2>4 DEF TypeOK
  <2>5. OneSession'
    BY <1>2, <2>4 DEF LoggedIn
  <2> QED
    BY <1>2, <2>1, <2>3, <2>5, PostTypes DEF TypeOK, LoggedIn, app, thread
<1>3. ASSUME Failed(s),
             used' \in [trouble : 0..MaxTroubles, outage : 0..MaxOutages, user : 0..MaxUser]
      PROVE  TypeOK'
  <2>1. Post(s, FALSE)
    BY <1>3 DEF Failed
  <2>2. st' \in [Stacks -> StackState]
        /\ OneSession'
    BY <1>3 DEF TypeOK, Failed, Become, StackState
  <2> QED
    BY <1>3, <2>1, <2>2, PostTypes DEF TypeOK, Failed, app, thread
<1>4. CASE MustFail(s)
  BY <1>3, <1>4 DEF MustFail, TypeOK
<1>5. CASE MayFail(s)
  BY <1>3, <1>5, SpendTypes DEF MayFail
<1>6. CASE EndedQuietly(s)
  <2>1. Quietly(s)
    BY <1>6 DEF EndedQuietly
  <2>2. st' \in [Stacks -> StackState]
        /\ OneSession'
    BY <1>6 DEF TypeOK, EndedQuietly, Become, StackState
  <2>3. used' \in [trouble : 0..MaxTroubles, outage : 0..MaxOutages, user : 0..MaxUser]
    BY <1>6, SpendTypes DEF EndedQuietly
  <2> QED
    BY <1>6, <2>1, <2>2, <2>3, QuietlyTypes DEF TypeOK, EndedQuietly, app, thread
<1> QED
  BY <1>1, <1>2, <1>4, <1>5, <1>6 DEF Stack

\* A step of the keeper thread or of the main thread's queue.
LEMMA KeeperTypes ==
  ASSUME TypeOK, Keeper \/ OnStartCommand \/ HandleMessage \/ OnDestroy
  PROVE  TypeOK'
<1>1. CASE Look
  BY <1>1 DEF TypeOK, Look, stacks, thread, view
<1>2. CASE KeeperMake
  <2>1. Make(hostIp, "device") /\ hostIp \in Host /\ "device" \in Jid
    BY <1>2 DEF KeeperMake, TypeOK
  <2> QED
    BY <1>2, <2>1, MakeTypes DEF TypeOK, KeeperMake, thread
<1>3. CASE KeeperRegister
  <2>1. CASE Crash
    BY <1>3, <2>1, FreshTypeOK DEF KeeperRegister, Crash, TypeOK
  <2>2. CASE Register
    <3>1. keeper' = "sleep" /\ UNCHANGED <<thread, ui, net, used>>
      BY <1>3, <2>2 DEF KeeperRegister, Register, Crash
    <3>2. /\ mXmppStack # 0 /\ UNCHANGED <<stacks, queue, mIsTcpConOk, speaker>>
          /\ starting' \in 0..Cardinality(Stacks)
      BY <2>2, StacksCount DEF TypeOK, Register
    <3> QED
      BY <3>1, <3>2 DEF TypeOK, thread, stacks
  <2> QED
    BY <1>3, <2>1, <2>2 DEF KeeperRegister
<1>4. CASE Sleep
  BY <1>4 DEF TypeOK, Sleep, stacks, thread, view
<1>5. CASE OnStartCommand
  BY <1>5 DEF TypeOK, OnStartCommand, Address, Host, stacks, view
<1>6. CASE HandleMessage
  <2>1. queue \in Seq(Report) /\ queue # <<>>
    BY <1>6 DEF TypeOK, HandleMessage
  <2>2. Head(queue) \in Report /\ Tail(queue) \in Seq(Report)
        /\ Len(Tail(queue)) = Len(queue) - 1 /\ Len(queue) \in Nat
    BY <2>1, HeadTailProperties, LenProperties
  <2>3. Head(queue).ok \in BOOLEAN /\ Head(queue).by \in Stacks \union {0}
    BY <2>2 DEF Report
  <2>4. queue' \in Seq(Report) /\ Len(queue') <= MaxQueue
    BY <1>6, <2>2, KeeperAssumption DEF TypeOK, HandleMessage
  <2>5. mIsTcpConOk' = Head(queue).ok /\ speaker' = Head(queue).by
        /\ UNCHANGED <<stacks, starting, app, net, used>>
    BY <1>6 DEF HandleMessage
  <2> QED
    BY <2>3, <2>4, <2>5 DEF TypeOK, stacks, app, thread
<1>7. CASE OnDestroy
  <2>1. used' \in [trouble : 0..MaxTroubles, outage : 0..MaxOutages, user : 0..MaxUser]
    BY <1>7, SpendTypes DEF OnDestroy
  <2> QED
    BY <1>7, <2>1 DEF TypeOK, OnDestroy, stacks, view
<1> QED
  BY <1>1, <1>2, <1>3, <1>4, <1>5, <1>6, <1>7 DEF Keeper

\* A step of the user, of a login thread or of the network.
LEMMA UserTypes ==
  ASSUME TypeOK, StartLogin \/ User \/ UserLogin \/ UserLogout \/ NetGoes \/ NetComes
  PROVE  TypeOK'
<1>1. CASE StartLogin
  <2>1. CASE Crash
    BY <1>1, <2>1, FreshTypeOK DEF StartLogin, Crash, TypeOK
  <2>2. CASE mXmppStack # 0 /\ ~Crash
    <3>1. mXmppStack \in Stacks
      BY <2>2 DEF TypeOK
    <3>2. st' \in [Stacks -> StackState]
          /\ OneSession'
      BY <1>1, <2>2, <3>1 DEF TypeOK, StartLogin, StackState
    <3>3. starting' \in 0..Cardinality(Stacks)
      BY <1>1, <2>2, StacksCount DEF TypeOK, StartLogin
    <3> QED
      BY <1>1, <2>2, <3>2, <3>3 DEF TypeOK, StartLogin, app, thread, view
  <2> QED
    BY <1>1, <2>1, <2>2 DEF StartLogin
<1>2. CASE UserMake
  <2>1. Make("given", "typed") /\ "given" \in Host /\ "typed" \in Jid
    BY <1>2 DEF UserMake, Host
  <2> QED
    BY <1>2, <2>1, MakeTypes DEF TypeOK, UserMake
<1>3. CASE UserRegister
  <2>1. CASE Crash
    BY <1>3, <2>1, FreshTypeOK DEF UserRegister, Crash, TypeOK
  <2>2. CASE Register
    BY <1>3, <2>2, StacksCount DEF TypeOK, UserRegister, Register, Crash, Fresh, thread, stacks
  <2> QED
    BY <1>3, <2>1, <2>2 DEF UserRegister
<1>4. CASE UserClear
  BY <1>4 DEF TypeOK, UserClear, thread, view
<1>5. CASE KillProcess
  BY <1>5, FreshTypeOK DEF KillProcess, TypeOK
<1>6. CASE UserLogin
  <2>1. used' \in [trouble : 0..MaxTroubles, outage : 0..MaxOutages, user : 0..MaxUser]
    BY <1>6, SpendTypes DEF UserLogin
  <2> QED
    BY <1>6, <2>1 DEF TypeOK, UserLogin, stacks, thread, view
<1>7. CASE UserLogout
  <2>1. used' \in [trouble : 0..MaxTroubles, outage : 0..MaxOutages, user : 0..MaxUser]
    BY <1>7, SpendTypes DEF UserLogout
  <2>2. mXmppStack \in Stacks
    BY <1>7 DEF TypeOK, UserLogout
  <2>3. CASE Become(mXmppStack, "ended") /\ Quietly(mXmppStack)
    <3>1. st' \in [Stacks -> StackState]
          /\ OneSession'
      BY <1>7, <2>2, <2>3 DEF TypeOK, UserLogout, Become, StackState
    <3> QED
      BY <1>7, <2>1, <2>2, <2>3, <3>1, QuietlyTypes DEF TypeOK, UserLogout, thread
  <2>4. CASE UNCHANGED <<st, view>>
    BY <1>7, <2>1, <2>4 DEF TypeOK, UserLogout, thread, view
  <2> QED
    BY <1>7, <2>3, <2>4 DEF UserLogout
<1>8. CASE NetGoes
  <2>1. used' \in [trouble : 0..MaxTroubles, outage : 0..MaxOutages, user : 0..MaxUser]
    BY <1>8, SpendTypes DEF NetGoes
  <2> QED
    BY <1>8, <2>1 DEF TypeOK, NetGoes, stacks, app, thread, view
<1>9. CASE NetComes
  BY <1>9 DEF TypeOK, NetComes, stacks, app, thread, view
<1> QED
  BY <1>1, <1>2, <1>3, <1>4, <1>5, <1>6, <1>7, <1>8, <1>9 DEF User

LEMMA StepTypeOK == TypeOK /\ [Next]_vars => TypeOK'
<1> SUFFICES ASSUME TypeOK, [Next]_vars PROVE TypeOK'
  OBVIOUS
<1>1. CASE Next
  BY <1>1, StackTypes, KeeperTypes, UserTypes DEF Next
<1>2. CASE UNCHANGED vars
  BY <1>2 DEF TypeOK, vars, stacks, app, thread, view
<1> QED
  BY <1>1, <1>2

\* However many stacks replace one another: one session is on line at most, and no
\* login thread meets a field that is null but for a logout by the user.
THEOREM KeeperTypeCorrect == Spec => []TypeOK
  BY InitTypeOK, StepTypeOK, PTL DEF Spec

-----------------------------------------------------------------------------
(* What the reports say.                                                   *)

\* A report fits a stack that is in state x; a kicked stack does not know it yet.
Fits(ok, x) == ok <=> x \in {"online", "kicked"}

\* s has no report on q after position i.
Silent(q, s, i) == \A j \in DOMAIN q : j > i => q[j].by # s

\* The last report of s fits its state x, on the queue q or when it is shown.
Said(q, shown, ok, s, x) ==
  /\ \A i \in DOMAIN q : q[i].by = s /\ Silent(q, s, i) => Fits(q[i].ok, x)
  /\ shown = s /\ Silent(q, s, 0) => Fits(ok, x)

LastWord == \A s \in Stacks : Said(queue, speaker, mIsTcpConOk, s, st[s])

LEMMA ReportsTold ==
  ASSUME TypeOK
  PROVE  queue \in Seq(Report) /\ mIsTcpConOk \in BOOLEAN /\ \A i \in DOMAIN queue : queue[i].ok \in BOOLEAN
<1>1. queue \in Seq(Report) /\ mIsTcpConOk \in BOOLEAN
  BY DEF TypeOK
<1>2. \A i \in DOMAIN queue : queue[i] \in Report
  <2>1. DOMAIN queue = 1..Len(queue) /\ queue \in [1..Len(queue) -> Report]
    BY <1>1, LenProperties
  <2> QED
    BY <2>1
<1>3. \A m \in Report : m.ok \in BOOLEAN
  BY DEF Report
<1> QED
  BY <1>1, <1>2, <1>3

\* One more report is the last of the stack that makes it, and nothing to others.
LEMMA OneMore ==
  ASSUME NEW q \in Seq(Report), NEW m \in Report, NEW shown, NEW ok, NEW s, NEW x
  PROVE  /\ m.by = s /\ Fits(m.ok, x) => Said(Append(q, m), shown, ok, s, x)
         /\ m.by # s /\ Said(q, shown, ok, s, x) => Said(Append(q, m), shown, ok, s, x)
<1>1. DOMAIN q = 1..Len(q) /\ Len(q) \in Nat
  BY LenProperties
<1>2. /\ DOMAIN Append(q, m) = 1..(Len(q) + 1)
      /\ \A i \in 1..Len(q) : Append(q, m)[i] = q[i]
      /\ Append(q, m)[Len(q) + 1] = m
  BY AppendProperties, LenProperties
<1>3. m.by = s => \A i \in Nat : i < Len(q) + 1 => ~Silent(Append(q, m), s, i)
  BY <1>1, <1>2 DEF Silent
<1>4. m.by # s => \A i \in Nat : Silent(Append(q, m), s, i) => Silent(q, s, i)
  BY <1>1, <1>2 DEF Silent
<1>5. \A i \in DOMAIN Append(q, m) :
        i \in Nat /\ ((i \in DOMAIN q /\ i < Len(q) + 1 /\ Append(q, m)[i] = q[i])
                       \/ Append(q, m)[i] = m)
  BY <1>1, <1>2
<1>6. 0 \in Nat /\ 0 < Len(q) + 1
  BY <1>1
<1>7. ASSUME m.by = s, Fits(m.ok, x) PROVE Said(Append(q, m), shown, ok, s, x)
  BY <1>3, <1>5, <1>6, <1>7 DEF Said
<1>8. ASSUME m.by # s, Said(q, shown, ok, s, x) PROVE Said(Append(q, m), shown, ok, s, x)
  BY <1>4, <1>5, <1>6, <1>8 DEF Said
<1> QED
  BY <1>7, <1>8

\* Handling a report: what was the head is what is shown.
LEMMA Handled ==
  ASSUME NEW q \in Seq(Report), q # <<>>, NEW shown, NEW ok, NEW s, NEW x,
         Said(q, shown, ok, s, x)
  PROVE  Said(Tail(q), Head(q).by, Head(q).ok, s, x)
<1>1. DOMAIN q = 1..Len(q) /\ Len(q) \in Nat /\ Len(q) > 0 /\ Head(q) = q[1]
  BY LenProperties, HeadTailProperties, EmptySeq
<1>2. DOMAIN Tail(q) = 1..(Len(q) - 1) /\ \A i \in 1..(Len(q) - 1) : Tail(q)[i] = q[i + 1]
  <2>1. Tail(q) \in Seq(Report) /\ Len(Tail(q)) = Len(q) - 1
        /\ \A i \in 1..Len(Tail(q)) : Tail(q)[i] = q[i + 1]
    BY HeadTailProperties
  <2> QED
    BY <2>1, LenProperties
<1>3. \A j \in DOMAIN q : j = 1 \/ (j - 1 \in DOMAIN Tail(q) /\ Tail(q)[j - 1] = q[j] /\ j \in Nat)
  BY <1>1, <1>2
<1>4. \A i \in Nat : Silent(Tail(q), s, i) => Silent(q, s, i + 1)
  <2> SUFFICES ASSUME NEW i \in Nat, Silent(Tail(q), s, i), NEW j \in DOMAIN q, j > i + 1
               PROVE  q[j].by # s
    BY DEF Silent
  <2>1. j - 1 \in DOMAIN Tail(q) /\ Tail(q)[j - 1] = q[j] /\ j - 1 > i
    BY <1>1, <1>3
  <2> QED
    BY <2>1 DEF Silent
<1>5. \A i \in DOMAIN Tail(q) : i \in Nat /\ i + 1 \in DOMAIN q /\ Tail(q)[i] = q[i + 1]
  BY <1>1, <1>2
<1>6. 1 \in DOMAIN q /\ (Silent(Tail(q), s, 0) => Silent(q, s, 1))
  BY <1>1, <1>4
<1>7. \A i \in DOMAIN Tail(q) : Tail(q)[i].by = s /\ Silent(Tail(q), s, i) => Fits(Tail(q)[i].ok, x)
  BY <1>4, <1>5 DEF Said
<1>8. Head(q).by = s /\ Silent(Tail(q), s, 0) => Fits(Head(q).ok, x)
  BY <1>1, <1>6 DEF Said
<1> QED
  BY <1>7, <1>8 DEF Said

\* A stack that has said nothing fits any state.
LEMMA Wordless ==
  ASSUME NEW q, NEW shown, NEW ok, NEW s, NEW x, shown # s, \A i \in DOMAIN q : q[i].by # s
  PROVE  Said(q, shown, ok, s, x)
  BY DEF Said

\* Taking back what s reported leaves what the others did.
LEMMA TakenBack ==
  ASSUME TypeOK, NEW s \in Stacks, Quietly(s), NEW r \in Stacks
  PROVE  /\ r = s => \A x : Said(queue', speaker', mIsTcpConOk', r, x)
         /\ r # s => \A x : Said(queue, speaker, mIsTcpConOk, r, x)
                              => Said(queue', speaker', mIsTcpConOk', r, x)
<1> DEFINE Outdated(by) == IF by = s THEN 0 ELSE by
<1>1. queue \in Seq(Report) /\ r # 0 /\ s # 0
  BY KeeperAssumption DEF TypeOK
<1>2. \A i \in DOMAIN queue : queue[i] \in Report
  BY <1>1, LenProperties
<1>3. /\ DOMAIN queue' = DOMAIN queue
      /\ \A i \in DOMAIN queue : queue'[i] = [queue[i] EXCEPT !.by = Outdated(queue[i].by)]
      /\ speaker' = Outdated(speaker) /\ mIsTcpConOk' = mIsTcpConOk
  BY DEF Quietly
<1>4. \A i \in DOMAIN queue : queue'[i].ok = queue[i].ok /\ queue'[i].by = Outdated(queue[i].by)
  BY <1>2, <1>3 DEF Report
<1>5. ASSUME r = s, NEW x PROVE Said(queue', speaker', mIsTcpConOk', r, x)
  BY <1>1, <1>3, <1>4, <1>5, Wordless
<1>6. ASSUME r # s PROVE \A i : Silent(queue', r, i) => Silent(queue, r, i)
  BY <1>1, <1>3, <1>4, <1>6 DEF Silent
<1>7. ASSUME r # s, NEW x, Said(queue, speaker, mIsTcpConOk, r, x)
      PROVE  Said(queue', speaker', mIsTcpConOk', r, x)
  BY <1>1, <1>3, <1>4, <1>6, <1>7 DEF Said
<1> QED
  BY <1>5, <1>7

-----------------------------------------------------------------------------
(* No step makes a last word false.                                        *)

\* A stack is made: one of which nothing is heard any more.
LEMMA MakeWord ==
  ASSUME TypeOK, LastWord, NEW where, NEW whose, Make(where, whose), UNCHANGED <<queue, mIsTcpConOk>>
  PROVE  LastWord'
<1> SUFFICES ASSUME NEW r \in Stacks
             PROVE  Said(queue', speaker', mIsTcpConOk', r, st'[r])
  BY DEF LastWord
<1>1. PICK s \in Stacks : /\ Garbage(s) /\ st' = [st EXCEPT ![s] = "new"]
                          /\ speaker' = IF speaker = s THEN 0 ELSE speaker
  BY DEF Make
<1>2. CASE r = s
  <2>1. speaker' # s /\ \A i \in DOMAIN queue' : queue'[i].by # s
    BY <1>1, KeeperAssumption DEF Garbage
  <2> QED
    BY <1>2, <2>1, Wordless
<1>3. CASE r # s
  <2>1. st'[r] = st[r] /\ (speaker' = r => speaker = r)
    BY <1>1, <1>3, KeeperAssumption DEF TypeOK
  <2>2. Said(queue, speaker, mIsTcpConOk, r, st[r])
    BY DEF LastWord
  <2> QED
    BY <2>1, <2>2 DEF Said
<1> QED
  BY <1>2, <1>3

\* A stack reports what it has become.
LEMMA PostWord ==
  ASSUME TypeOK, LastWord, NEW s \in Stacks, NEW ok \in BOOLEAN, Post(s, ok),
         Fits(ok, st'[s]),
         \A r \in Stacks \ {s}, b \in BOOLEAN : Fits(b, st[r]) <=> Fits(b, st'[r])
  PROVE  LastWord'
<1> SUFFICES ASSUME NEW r \in Stacks
             PROVE  Said(queue', speaker', mIsTcpConOk', r, st'[r])
  BY DEF LastWord
<1> DEFINE m == [ok |-> ok, by |-> s]
<1>1. m \in Report /\ m.by = s /\ m.ok = ok
  BY DEF Report
<1>2. queue' = Append(queue, m) /\ speaker' = speaker /\ mIsTcpConOk' = mIsTcpConOk
  BY DEF Post
<1>3. queue \in Seq(Report) /\ mIsTcpConOk \in BOOLEAN
  BY DEF TypeOK
<1> HIDE DEF m
<1>4. CASE r = s
  BY <1>1, <1>2, <1>3, <1>4, OneMore
<1>5. CASE r # s
  <2>1. Said(queue, speaker, mIsTcpConOk, r, st[r])
    BY DEF LastWord
  <2>2. \A i \in DOMAIN queue : queue[i].ok \in BOOLEAN
    BY ReportsTold
  <2>3. Said(queue, speaker, mIsTcpConOk, r, st'[r])
    BY <1>3, <1>5, <2>1, <2>2 DEF Said
  <2> QED
    BY <1>1, <1>2, <1>3, <1>5, <2>3, OneMore
<1> QED
  BY <1>4, <1>5

\* A stack ends and what it has said is taken back.
LEMMA QuietWord ==
  ASSUME TypeOK, LastWord, NEW s \in Stacks, Quietly(s), Become(s, "ended")
  PROVE  LastWord'
<1>1. \A r \in Stacks \ {s} : st'[r] = st[r]
  BY DEF TypeOK, Become
<1> QED
  BY <1>1, TakenBack DEF LastWord

\* Nothing is said, and what changes is not whether a stack is on line.
LEMMA SilentWord ==
  ASSUME TypeOK, LastWord, UNCHANGED view,
         \A r \in Stacks, b \in BOOLEAN : Fits(b, st[r]) <=> Fits(b, st'[r])
  PROVE  LastWord'
<1>1. queue' = queue /\ speaker' = speaker /\ mIsTcpConOk' = mIsTcpConOk
  BY DEF view
<1>2. mIsTcpConOk \in BOOLEAN /\ \A i \in DOMAIN queue : queue[i].ok \in BOOLEAN
  BY ReportsTold
<1> QED
  BY <1>1, <1>2 DEF LastWord, Said

\* A process that has just started has said nothing.
LEMMA FreshWord == Fresh => LastWord'
<1> SUFFICES ASSUME Fresh, NEW s \in Stacks
             PROVE  Said(queue', speaker', mIsTcpConOk', s, st'[s])
  BY DEF LastWord
<1>1. speaker' # s /\ queue' = <<>> /\ DOMAIN <<>> = {}
  BY KeeperAssumption DEF Fresh
<1>2. \A i \in DOMAIN queue' : queue'[i].by # s
  BY <1>1
<1> QED
  BY <1>1, <1>2, Wordless

LEMMA StepLastWord == TypeOK /\ LastWord /\ [Next]_vars => LastWord'
<1> SUFFICES ASSUME TypeOK, LastWord, [Next]_vars PROVE LastWord'
  OBVIOUS
<1>1. ASSUME UNCHANGED <<st, view>> PROVE LastWord'
  BY <1>1, SilentWord
<1>2. CASE StartLogin
  <2>1. CASE Crash
    BY <2>1, FreshWord DEF Crash
  <2>2. CASE mXmppStack # 0 /\ ~Crash
    <3>1. mXmppStack \in Stacks
      BY <2>2 DEF TypeOK
    <3>2. UNCHANGED view /\ st' = IF st[mXmppStack] \in {"new", "ended"}
                                   THEN [st EXCEPT ![mXmppStack] = "connecting"] ELSE st
      BY <1>2, <2>2 DEF StartLogin
    <3>3. \A r \in Stacks, b \in BOOLEAN : Fits(b, st[r]) <=> Fits(b, st'[r])
      BY <3>1, <3>2 DEF TypeOK, Fits
    <3> QED
      BY <3>2, <3>3, SilentWord
  <2> QED
    BY <1>2, <2>1, <2>2 DEF StartLogin
<1>3. CASE Keeper
  <2>1. CASE Look \/ Sleep
    BY <1>1, <2>1 DEF Look, Sleep, stacks
  <2>2. CASE KeeperMake
    BY <2>2, MakeWord DEF KeeperMake
  <2>3. CASE KeeperRegister
    <3>1. CASE Crash
      BY <3>1, FreshWord DEF Crash
    <3>2. CASE Register
      BY <1>1, <3>2 DEF Register, stacks, view
    <3> QED
      BY <2>3, <3>1, <3>2 DEF KeeperRegister
  <2> QED
    BY <1>3, <2>1, <2>2, <2>3 DEF Keeper
<1>4. CASE OnStartCommand \/ OnDestroy \/ UserLogin \/ NetGoes \/ NetComes
  BY <1>1, <1>4 DEF OnStartCommand, OnDestroy, UserLogin, NetGoes, NetComes, stacks
<1>5. CASE HandleMessage
  <2>1. queue \in Seq(Report) /\ queue # <<>>
    BY <1>5 DEF TypeOK, HandleMessage
  <2>2. /\ mIsTcpConOk' = Head(queue).ok /\ speaker' = Head(queue).by /\ queue' = Tail(queue)
        /\ st' = st
    BY <1>5 DEF HandleMessage, stacks
  <2> QED
    BY <2>1, <2>2, Handled DEF LastWord
<1>6. CASE User
  <2>1. CASE UserMake
    BY <2>1, MakeWord DEF UserMake
  <2>2. CASE UserRegister
    <3>1. CASE Crash
      BY <3>1, FreshWord DEF Crash
    <3>2. CASE Register
      BY <1>1, <3>2 DEF Register, stacks, view
    <3> QED
      BY <2>2, <3>1, <3>2 DEF UserRegister
  <2>3. CASE UserClear
    BY <1>1, <2>3 DEF UserClear
  <2>4. CASE KillProcess
    BY <2>4, FreshWord DEF KillProcess
  <2> QED
    BY <1>6, <2>1, <2>2, <2>3, <2>4 DEF User
<1>7. CASE UserLogout
  <2>1. mXmppStack \in Stacks
    BY <1>7 DEF TypeOK, UserLogout
  <2>2. CASE Become(mXmppStack, "ended") /\ Quietly(mXmppStack)
    BY <2>1, <2>2, QuietWord
  <2> QED
    BY <1>1, <1>7, <2>2 DEF UserLogout
<1>8. ASSUME NEW s \in Stacks, Stack(s) \/ MayFail(s) \/ EndedQuietly(s)
      PROVE  LastWord'
  <2>1. CASE TcpAccepted(s)
    <3>1. UNCHANGED view /\ \A r \in Stacks, b \in BOOLEAN : Fits(b, st[r]) <=> Fits(b, st'[r])
      BY <2>1 DEF TcpAccepted, Become, TypeOK, Fits
    <3> QED
      BY <3>1, SilentWord
  <2>2. CASE LoggedIn(s)
    <3>1. PICK same \in SUBSET {r \in Stacks : st[r] = "online"} :
            st' = [r \in Stacks |-> IF r = s THEN "online"
                                    ELSE IF r \in same THEN "kicked" ELSE st[r]]
      BY <2>2 DEF LoggedIn
    <3>2. Post(s, TRUE) /\ Fits(TRUE, st'[s])
          /\ \A r \in Stacks \ {s}, b \in BOOLEAN : Fits(b, st[r]) <=> Fits(b, st'[r])
      BY <2>2, <3>1 DEF LoggedIn, Fits
    <3> QED
      BY <3>2, PostWord
  <2>3. CASE Failed(s)
    <3>1. Post(s, FALSE) /\ Fits(FALSE, st'[s])
          /\ \A r \in Stacks \ {s}, b \in BOOLEAN : Fits(b, st[r]) <=> Fits(b, st'[r])
      BY <2>3 DEF Failed, Become, TypeOK, Fits
    <3> QED
      BY <3>1, PostWord
  <2>4. CASE EndedQuietly(s)
    BY <2>4, QuietWord DEF EndedQuietly
  <2> QED
    BY <1>8, <2>1, <2>2, <2>3, <2>4 DEF Stack, MustFail, MayFail
<1>9. CASE UNCHANGED vars
  BY <1>1, <1>9 DEF vars, stacks
<1> QED
  BY <1>2, <1>3, <1>4, <1>5, <1>6, <1>7, <1>8, <1>9 DEF Next

LEMMA InitLastWord == Init => LastWord
<1> SUFFICES ASSUME Init, NEW s \in Stacks
             PROVE  Said(queue, speaker, mIsTcpConOk, s, st[s])
  BY DEF LastWord
<1>1. speaker # s /\ queue = <<>> /\ DOMAIN <<>> = {}
  BY KeeperAssumption DEF Init
<1>2. \A i \in DOMAIN queue : queue[i].by # s
  BY <1>1
<1> QED
  BY <1>1, <1>2, Wordless

\* Once every report is handled, the last word of the current stack is what is shown.
LEMMA LastWordIsTruth == TypeOK /\ LastWord => FlagTellsTruth
<1> SUFFICES ASSUME TypeOK, LastWord, queue = <<>>, mXmppStack # 0, speaker = mXmppStack,
                    st[mXmppStack] # "kicked"
             PROVE  mIsTcpConOk <=> st[mXmppStack] = "online"
  BY DEF FlagTellsTruth
<1>1. mXmppStack \in Stacks /\ Silent(queue, mXmppStack, 0)
  BY DEF TypeOK, Silent
<1>2. Fits(mIsTcpConOk, st[mXmppStack])
  BY <1>1 DEF LastWord, Said
<1> QED
  BY <1>2 DEF Fits

\* Whatever number of stacks report at once, in whatever order their reports are
\* handled among each other: when all are handled and the current stack's was the
\* last, the views are shown whether it is on line.
THEOREM FlagIsTrue == Spec => []FlagTellsTruth
<1>1. Init => TypeOK /\ LastWord
  BY InitTypeOK, InitLastWord
<1>2. TypeOK /\ LastWord /\ [Next]_vars => (TypeOK /\ LastWord)'
  BY StepTypeOK, StepLastWord
<1> QED
  BY <1>1, <1>2, LastWordIsTruth, PTL DEF Spec

=============================================================================
