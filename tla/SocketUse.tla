------------------------------- MODULE SocketUse -------------------------------
(***************************************************************************)
(* What the locking of the TCP connection promises, without threads' code, *)
(* locks or states: there is at most one descriptor, it is opened only     *)
(* when there is none, threads use it (select, recv, send) only while it   *)
(* is open, and it is closed only while nobody uses it.                    *)
(***************************************************************************)
EXTENDS Naturals

CONSTANT Users

VARIABLES
  fd,      \* the open descriptor, 0 when there is none
  opened,  \* descriptors opened so far; each gets a number of its own
  using    \* the users that are inside a system call on fd

Init == fd = 0 /\ opened = 0 /\ using = {}

Open ==
  /\ fd = 0
  /\ opened' = opened + 1
  /\ fd' = opened + 1
  /\ UNCHANGED using

Close ==
  /\ fd # 0 /\ using = {}
  /\ fd' = 0
  /\ UNCHANGED <<opened, using>>

Enter(u) ==
  /\ fd # 0 /\ u \notin using
  /\ using' = using \union {u}
  /\ UNCHANGED <<fd, opened>>

Leave(u) ==
  /\ u \in using
  /\ using' = using \ {u}
  /\ UNCHANGED <<fd, opened>>

Next ==
  \/ Open
  \/ Close
  \/ \E u \in Users : Enter(u) \/ Leave(u)

Spec == Init /\ [][Next]_<<fd, opened, using>>

=============================================================================
