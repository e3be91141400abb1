-------------------------- MODULE PubSubTracking_proofs --------------------------
(***************************************************************************)
(* For any callers, any kinds of requests, any number of requests and lost *)
(* connections, and whether or not an answer overtakes the call that asked *)
(* for it: PubSubTracking is well typed, tells the listener the truth, and *)
(* implements PublishContract.                                             *)
(***************************************************************************)
EXTENDS PubSubTracking, FiniteSetTheorems, SequenceTheorems, TLAPS

\* A caller inside a call has an id of its own.
HasId == \A c \in Callers : pc[c] # "idle" => cur[c] \in Asked

\* Nothing is under way for this id, to the server or back.
Quiet(id) ==
  /\ id \notin wire
  /\ \A a \in answers : a.id # id
  /\ \A c \in Callers : pc[c] = "send" => cur[c] # id

\* An id is in one place at most: in a call, on the wire, or in an answer.
OnePlace ==
  /\ \A c, d \in Callers : pc[c] = "send" /\ pc[d] = "send" /\ cur[c] = cur[d] => c = d
  /\ \A c \in Callers : pc[c] = "send" =>
       cur[c] \notin wire /\ \A a \in answers : a.id # cur[c]
  /\ \A a, b \in answers : a.id = b.id => a = b
  /\ \A a \in answers : a.id \notin wire

\* The server decides when it answers, and the answer says what it decided.
Decided ==
  /\ \A c \in Callers : pc[c] = "send" => verdict[cur[c]] = "none"
  /\ \A id \in wire : verdict[id] = "none"
  /\ \A a \in answers : verdict[a.id] = IF a.ok THEN "yes" ELSE "no"

\* The ids of callers come one after the other; the second half of an avatar
\* begins when the first has been accepted.
Begun ==
  /\ \A i \in Asked : kind[i] # "metadata" /\ (i >= nextId => kind[i] = "none")
  /\ \A id \in Ids : kind[id] = "none" => Quiet(id) /\ verdict[id] = "none"
  /\ \A i \in Asked : kind[i + MaxIds] # "none" =>
       /\ kind[i + MaxIds] = "metadata" /\ kind[i] = "avatar"
       /\ verdict[i] = "yes" /\ Quiet(i)

\* What has been told is over.
ToldIsOver ==
  /\ \A j \in DOMAIN told :
       LET i == told[j].request IN kind[i] # "none" /\ Quiet(i) /\ Quiet(i + MaxIds)
  /\ \A j, k \in DOMAIN told : told[j].request = told[k].request => j = k

TellInv == TypeOK /\ HasId /\ OnePlace /\ Decided /\ Begun /\ ToldIsOver /\ ToldTruth

-----------------------------------------------------------------------------
(* Ids.                                                                    *)

\* The two ids of a request, and the request of an id.
LEMMA IdFacts ==
  /\ MaxIds \in Nat
  /\ \A i \in Asked : /\ i \in Ids /\ i + MaxIds \in Ids /\ i + MaxIds \notin Asked
                      /\ Root(i) = i /\ Root(i + MaxIds) = i /\ i # i + MaxIds
  /\ \A i, j \in Asked : i + MaxIds # j /\ (i + MaxIds = j + MaxIds => i = j)
  /\ \A id \in Ids : /\ Root(id) \in Asked
                     /\ id = Root(id) \/ id = Root(id) + MaxIds
                     /\ id \in Asked \/ \E i \in Asked : id = i + MaxIds
<1>1. MaxIds \in Nat
  BY TrackingAssumption
<1>2. \A id \in Ids : id \in Asked \/ \E i \in Asked : id = i + MaxIds
  <2> SUFFICES ASSUME NEW id \in Ids, id \notin Asked PROVE \E i \in Asked : id = i + MaxIds
    OBVIOUS
  <2>1. id - MaxIds \in Asked /\ id = (id - MaxIds) + MaxIds
    BY <1>1 DEF Ids, Asked
  <2> QED
    BY <2>1
<1> QED
  BY <1>1, <1>2 DEF Ids, Asked, Root

LEMMA InitTell == Init => TellInv
<1> SUFFICES ASSUME Init PROVE TellInv
  OBVIOUS
<1>1. TypeOK
  BY TrackingAssumption DEF Init, TypeOK
<1>2. HasId /\ OnePlace /\ Decided /\ ToldIsOver /\ ToldTruth
  BY DEF Init, HasId, OnePlace, Decided, ToldIsOver, ToldTruth
<1>3. Begun
  BY IdFacts DEF Init, Begun, Quiet
<1> QED
  BY <1>1, <1>2, <1>3 DEF TellInv

\* What has been told is about a request.
LEMMA ToldAreAsked ==
  ASSUME TellInv
  PROVE  \A j \in DOMAIN told : told[j].request \in Asked
<1>1. told \in Seq([request : Asked, ok : BOOLEAN])
  <2>1. TypeOK
    BY DEF TellInv
  <2> QED
    BY <2>1, Zenon DEF TypeOK
<1>2. \A j \in DOMAIN told : told[j] \in [request : Asked, ok : BOOLEAN]
  BY <1>1, LenProperties
<1> QED
  BY <1>2

\* An id in an answer, on the wire or in a call is not quiet, so its kind is known
\* and nothing has been told of its request.
LEMMA NotQuiet ==
  ASSUME TellInv, NEW id \in Ids, ~Quiet(id)
  PROVE  /\ kind[id] # "none"
         /\ \A j \in DOMAIN told : told[j].request # Root(id)
<1>1. kind[id] # "none"
  BY DEF TellInv, Begun
<1>2. \A j \in DOMAIN told : told[j].request # Root(id)
  BY IdFacts DEF TellInv, ToldIsOver
<1> QED
  BY <1>1, <1>2

-----------------------------------------------------------------------------
(* A call.                                                                 *)

LEMMA AskKeeps ==
  ASSUME TellInv, NEW c \in Callers, Ask(c)
  PROVE  TellInv'
<1> USE DEF TellInv
<1>1. PICK k \in Kinds : kind' = [kind EXCEPT ![nextId] = k]
  BY DEF Ask
<1>2. nextId \in Asked /\ nextId \in Ids /\ k \in Kind \ {"metadata"} /\ k # "none"
  BY TrackingAssumption, IdFacts DEF Ask, TypeOK, Asked, Kind
<1>3. /\ pc' = [pc EXCEPT ![c] = "send"] /\ cur' = [cur EXCEPT ![c] = nextId]
      /\ handlers' = handlers \union {nextId} /\ nextId' = nextId + 1
      /\ UNCHANGED <<iqHandlers, track, up, wire, answers, verdict, odd, lost, overtaken, drops, told>>
  BY DEF Ask, net
<1>4. kind[nextId] = "none" /\ Quiet(nextId) /\ verdict[nextId] = "none"
  <2>1. nextId >= nextId
    BY <1>2 DEF Asked
  <2>2. kind[nextId] = "none"
    BY <1>2, <2>1 DEF Begun
  <2> QED
    BY <1>2, <2>2 DEF Begun
<1>5. TypeOK'
  <2>1. /\ kind' \in [Ids -> Kind \union {"none"}]
        /\ pc' \in [Callers -> {"idle", "send", "track"}] /\ cur' \in [Callers -> Ids \union {0}]
    BY <1>1, <1>2, <1>3 DEF TypeOK
  <2>2. nextId' \in 1..(MaxIds + 1)
    BY <1>2, <1>3, TrackingAssumption DEF Asked
  <2>3. handlers' \subseteq Ids
    BY <1>2, <1>3 DEF TypeOK
  <2> QED
    BY <1>3, <2>1, <2>2, <2>3 DEF TypeOK
<1>6. HasId'
  BY <1>2, <1>3 DEF TypeOK, HasId
<1>7. OnePlace' /\ Decided'
  BY <1>3, <1>4 DEF TypeOK, OnePlace, Decided, Quiet
<1>8. \A id \in Ids : id # nextId /\ Quiet(id) => Quiet(id)'
  BY <1>3 DEF TypeOK, Quiet
<1>9. \A id \in Ids : kind'[id] = IF id = nextId THEN k ELSE kind[id]
  BY <1>1 DEF TypeOK
<1>10. Begun'
  <2>1. \A i \in Asked : kind'[i] # "metadata" /\ (i >= nextId' => kind'[i] = "none")
    BY <1>2, <1>3, <1>9, IdFacts DEF Begun, Asked
  <2>2. \A id \in Ids : kind'[id] = "none" => Quiet(id)' /\ verdict'[id] = "none"
    BY <1>2, <1>3, <1>8, <1>9 DEF Begun
  <2>3. \A i \in Asked : kind'[i + MaxIds] # "none" =>
          /\ kind'[i + MaxIds] = "metadata" /\ kind'[i] = "avatar"
          /\ verdict'[i] = "yes" /\ Quiet(i)'
    BY <1>2, <1>3, <1>4, <1>8, <1>9, IdFacts DEF Begun
  <2> QED
    BY <2>1, <2>2, <2>3 DEF Begun
<1>11. \A j \in DOMAIN told : told[j].request \in Asked /\ told[j].request # nextId
  BY <1>4, ToldAreAsked DEF ToldIsOver
<1>12. ToldIsOver'
  BY <1>2, <1>3, <1>8, <1>9, <1>11, IdFacts DEF ToldIsOver
<1>13. ToldTruth'
  BY <1>3, <1>9, <1>11, IdFacts DEF ToldTruth
<1> QED
  BY <1>5, <1>6, <1>7, <1>10, <1>12, <1>13

LEMMA SendKeeps ==
  ASSUME TellInv, NEW c \in Callers, Send(c)
  PROVE  TellInv'
<1> USE DEF TellInv
<1> DEFINE id == cur[c]
<1>1. id \in Asked /\ id \in Ids /\ ~Quiet(id)
  BY IdFacts DEF HasId, Send, Quiet
<1>2. PICK next \in {"track", "idle"} : pc' = [pc EXCEPT ![c] = next]
  BY DEF Send
<1>3. /\ wire' \in {wire, wire \union {id}} /\ lost' \in {lost, lost \union {id}}
      /\ iqHandlers' = iqHandlers \union {id}
      /\ UNCHANGED <<nextId, kind, cur, handlers, track, up, answers, verdict, odd, overtaken,
                  drops, told>>
  BY DEF Send, Put
<1>4. /\ \A d \in Callers : pc[d] = "send" /\ d # c => cur[d] # id
      /\ \A a \in answers : a.id # id
      /\ verdict[id] = "none"
  BY DEF Send, OnePlace, Decided
<1> HIDE DEF id
<1>5. TypeOK'
  BY <1>1, <1>2, <1>3 DEF TypeOK
<1>6. HasId'
  BY <1>2, <1>3, HasId DEF TypeOK, HasId, Send
<1>7. OnePlace' /\ Decided'
  BY <1>2, <1>3, <1>4 DEF TypeOK, OnePlace, Decided
<1>8. \A i \in Ids : Quiet(i) => i # id /\ Quiet(i)'
  BY <1>1, <1>2, <1>3 DEF TypeOK, Quiet
<1>9. Begun'
  BY <1>3, <1>8, IdFacts DEF Begun
<1>10. ToldIsOver'
  BY <1>3, <1>8, IdFacts, ToldAreAsked DEF ToldIsOver
<1>11. ToldTruth'
  BY <1>3 DEF ToldTruth
<1> QED
  BY <1>5, <1>6, <1>7, <1>9, <1>10, <1>11

LEMMA TrackKeeps ==
  ASSUME TellInv, NEW c \in Callers, Track(c)
  PROVE  TellInv'
<1> USE DEF TellInv
<1>1. /\ pc' = [pc EXCEPT ![c] = "idle"] /\ cur[c] \in Ids
      /\ UNCHANGED <<nextId, kind, cur, iqHandlers, handlers, net, told>>
  BY IdFacts DEF HasId, Track
<1>2. track' \in [Tracked -> SUBSET Ids]
  BY <1>1 DEF TypeOK, Track
<1>3. TypeOK'
  BY <1>1, <1>2 DEF TypeOK, net
<1>4. HasId' /\ OnePlace' /\ Decided' /\ ToldTruth'
  BY <1>1 DEF TypeOK, HasId, OnePlace, Decided, ToldTruth, net
<1>5. \A id : Quiet(id) => Quiet(id)'
  BY <1>1 DEF TypeOK, Quiet, net
<1>6. Begun' /\ ToldIsOver'
  BY <1>1, <1>5 DEF Begun, ToldIsOver, net
<1> QED
  BY <1>3, <1>4, <1>6

-----------------------------------------------------------------------------
(* The receiver.                                                           *)

\* What every answer that is handled is like.
LEMMA AnswerFacts ==
  ASSUME TellInv, NEW a \in answers
  PROVE  /\ a.id \in Ids /\ a.ok \in BOOLEAN /\ ~Quiet(a.id) /\ kind[a.id] # "none"
         /\ a.id \notin wire /\ (\A b \in answers \ {a} : b.id # a.id)
         /\ \A c \in Callers : pc[c] = "send" => cur[c] # a.id
         /\ verdict[a.id] = IF a.ok THEN "yes" ELSE "no"
         /\ \A j \in DOMAIN told : told[j].request # Root(a.id)
<1>1. a.id \in Ids /\ a.ok \in BOOLEAN /\ ~Quiet(a.id)
  BY DEF TellInv, TypeOK, Quiet
<1>2. kind[a.id] # "none" /\ \A j \in DOMAIN told : told[j].request # Root(a.id)
  BY <1>1, NotQuiet
<1>3. /\ a.id \notin wire /\ (\A b \in answers \ {a} : b.id # a.id)
      /\ \A c \in Callers : pc[c] = "send" => cur[c] # a.id
      /\ verdict[a.id] = IF a.ok THEN "yes" ELSE "no"
  BY DEF TellInv, OnePlace, Decided
<1> QED
  BY <1>1, <1>2, <1>3

\* The first half of an avatar: its id is done with, that of the second half,
\* which nothing was under way for, is on the wire.
LEMMA AvatarDataKeeps ==
  ASSUME TellInv, NEW a \in answers, HandleAvatarData(a)
  PROVE  TellInv'
<1> USE DEF TellInv
<1> DEFINE i == a.id
           id == a.id + MaxIds
<1>1. /\ i \in Ids /\ ~Quiet(i) /\ verdict[i] = "yes" /\ kind[i] = "avatar"
      /\ i \notin wire /\ (\A b \in answers \ {a} : b.id # i)
      /\ (\A c \in Callers : pc[c] = "send" => cur[c] # i)
      /\ \A j \in DOMAIN told : told[j].request # Root(i)
  BY AnswerFacts DEF HandleAvatarData
<1>2. i \in Asked
  <2> SUFFICES ASSUME NEW r \in Asked, i = r + MaxIds PROVE FALSE
    BY <1>1, IdFacts
  <2> QED
    BY <1>1 DEF Begun
<1>3. /\ kind' = [kind EXCEPT ![id] = "metadata"] /\ answers' = answers \ {a}
      /\ handlers' = (handlers \ {i}) \union {id}
      /\ iqHandlers' = (iqHandlers \union {id}) \ {i}
      /\ wire' \in {wire, wire \union {id}} /\ lost' \in {lost, lost \union {id}}
      /\ track' = [track EXCEPT !["avatar"] = @ \ {i}, !["metadata"] = @ \union {id}]
      /\ UNCHANGED <<nextId, pc, cur, up, verdict, odd, overtaken, drops, told>>
  BY DEF HandleAvatarData, Handled
<1>4. id \in Ids /\ id \notin Asked /\ i # id /\ Root(i) = i
  BY <1>2, IdFacts
<1>5. kind[id] = "none"
  BY <1>1, <1>2 DEF Begun
<1>6. Quiet(id) /\ verdict[id] = "none"
  BY <1>4, <1>5 DEF Begun
<1> HIDE DEF i, id
<1>7. TypeOK'
  BY <1>1, <1>3, <1>4 DEF TypeOK, Kind, Tracked, Publish
<1>8. HasId'
  BY <1>3 DEF HasId
<1>9. OnePlace' /\ Decided'
  BY <1>3, <1>6 DEF OnePlace, Decided, Quiet
<1>10. \A x \in Ids : x # id /\ Quiet(x) => Quiet(x)'
  BY <1>3 DEF Quiet
<1>11. Quiet(i)'
  BY <1>1, <1>3, <1>4 DEF Quiet, i
<1>12. \A x \in Ids : kind'[x] = IF x = id THEN "metadata" ELSE kind[x]
  BY <1>3 DEF TypeOK
<1>13. \A x \in Asked : x + MaxIds = id => x = i
  BY <1>2, IdFacts DEF id, i
<1>14. Begun'
  BY <1>1, <1>2, <1>3, <1>4, <1>10, <1>11, <1>12, <1>13, IdFacts DEF Begun
<1>15. \A j \in DOMAIN told : told[j].request \in Asked /\ told[j].request # i
  BY <1>1, <1>4, ToldAreAsked
<1>16. ToldIsOver'
  BY <1>3, <1>4, <1>10, <1>12, <1>13, <1>15, IdFacts DEF ToldIsOver
<1>17. ToldTruth'
  BY <1>3, <1>4, <1>12, <1>15, IdFacts DEF ToldTruth
<1> QED
  BY <1>7, <1>8, <1>9, <1>14, <1>16, <1>17

\* An answer that is done with: what was quiet stays so, and its id becomes so.
LEMMA DoneKeeps ==
  ASSUME TellInv, NEW a \in answers, answers' = answers \ {a}, TypeOK',
         UNCHANGED <<nextId, kind, pc, cur, up, wire, verdict, odd, lost, drops>>
  PROVE  /\ HasId' /\ OnePlace' /\ Decided' /\ Begun' /\ Quiet(a.id)'
         /\ \A id : Quiet(id) => Quiet(id)'
<1> USE DEF TellInv
<1>1. HasId' /\ OnePlace' /\ Decided'
  BY DEF HasId, OnePlace, Decided
<1>2. \A id : Quiet(id) => Quiet(id)'
  BY DEF Quiet
<1>3. Begun'
  BY <1>2 DEF Begun
<1>4. Quiet(a.id)'
  BY AnswerFacts DEF Quiet
<1> QED
  BY <1>1, <1>2, <1>3, <1>4

LEMMA OutcomeKeeps ==
  ASSUME TellInv, NEW a \in answers, HandleOutcome(a)
  PROVE  TellInv'
<1> USE DEF TellInv
<1> DEFINE Note == [request : Asked, ok : BOOLEAN]
           i    == Root(a.id)
           new  == [request |-> i, ok |-> a.ok]
<1>1. /\ answers' = answers \ {a} /\ told' = Append(told, new)
      /\ handlers' = handlers \ {a.id} /\ iqHandlers' = iqHandlers \ {a.id}
      /\ track' = [k \in Tracked |-> track[k] \ {a.id}]
      /\ kind[a.id] = "avatar" => ~a.ok
      /\ UNCHANGED <<nextId, kind, pc, cur, up, wire, verdict, odd, lost, overtaken, drops>>
  BY DEF HandleOutcome, Handled, Tell, Forget
<1>2. /\ a.id \in Ids /\ a.ok \in BOOLEAN /\ ~Quiet(a.id) /\ kind[a.id] # "none"
      /\ verdict[a.id] = IF a.ok THEN "yes" ELSE "no"
      /\ \A j \in DOMAIN told : told[j].request # i
  BY AnswerFacts
<1>3. i \in Asked /\ i + MaxIds \in Ids /\ i \in Ids /\ (a.id = i \/ a.id = i + MaxIds)
  BY <1>2, IdFacts
<1>4. new \in Note /\ new.request = i /\ new.ok = a.ok
  BY <1>2, <1>3
<1> HIDE DEF Note, i, new
<1>5. told \in Seq(Note)
  BY DEF TypeOK, Note
<1>6. /\ told' \in Seq(Note) /\ DOMAIN told' = 1..(Len(told) + 1) /\ Len(told) \in Nat
      /\ DOMAIN told = 1..Len(told)
      /\ \A j \in DOMAIN told : told'[j] = told[j]
      /\ told'[Len(told) + 1] = new
  BY <1>1, <1>4, <1>5, AppendProperties, LenProperties
<1>7. TypeOK'
  BY <1>1, <1>6 DEF TypeOK, Note
<1>8. /\ HasId' /\ OnePlace' /\ Decided' /\ Begun' /\ Quiet(a.id)'
      /\ \A id : Quiet(id) => Quiet(id)'
  BY <1>1, <1>7, DoneKeeps
<1>9. kind[i] # "none" /\ Quiet(i)' /\ Quiet(i + MaxIds)'
  <2>1. CASE a.id = i
    <3>1. kind[i + MaxIds] = "none"
      BY <1>2, <1>3, <2>1 DEF Begun
    <3> QED
      BY <1>2, <1>3, <1>8, <2>1, <3>1 DEF Begun
  <2>2. CASE a.id = i + MaxIds
    BY <1>2, <1>3, <1>8, <2>2 DEF Begun, Kind
  <2> QED
    BY <1>3, <2>1, <2>2
<1>10. ToldIsOver'
  <2>1. \A j \in DOMAIN told' : j \in DOMAIN told \/ j = Len(told) + 1
    BY <1>6
  <2>2. \A r : (\E j \in DOMAIN told : told[j].request = r) =>
          kind[r] # "none" /\ Quiet(r)' /\ Quiet(r + MaxIds)'
    BY <1>8 DEF ToldIsOver, Quiet
  <2>3. (\A j \in DOMAIN told : LET r == told[j].request IN
           kind[r] # "none" /\ Quiet(r) /\ Quiet(r + MaxIds))'
    BY <1>1, <1>4, <1>6, <1>9, <2>1, <2>2 DEF Quiet
  <2>4. \A j, k \in DOMAIN told' : told'[j].request = told'[k].request => j = k
    BY <1>2, <1>4, <1>6, <2>1 DEF ToldIsOver
  <2> QED
    BY <2>3, <2>4 DEF ToldIsOver
<1>11. ToldTruth'
  <2> DEFINE True(note) ==
        LET r == note.request  v == {verdict[r], verdict[r + MaxIds]} IN
        IF note.ok THEN /\ v \subseteq {"yes", "none"} /\ verdict[r] = "yes"
                        /\ kind[r] = "avatar" => verdict[r + MaxIds] = "yes"
                   ELSE "no" \in v
  <2>1. \A j \in DOMAIN told : True(told[j])
    BY DEF ToldTruth
  <2>2. ASSUME a.id = i PROVE True(new)
    <3>1. kind[i + MaxIds] = "none" /\ verdict[i + MaxIds] = "none"
      BY <1>2, <1>3, <2>2 DEF Begun
    <3> QED
      BY <1>1, <1>2, <1>4, <2>2, <3>1
  <2>3. ASSUME a.id = i + MaxIds PROVE True(new)
    <3>1. kind[i] = "avatar" /\ verdict[i] = "yes"
      BY <1>2, <1>3, <2>3 DEF Begun
    <3> QED
      BY <1>2, <1>4, <2>3, <3>1
  <2>4. True(new)
    BY <1>3, <2>2, <2>3
  <2> HIDE DEF True
  <2>5. \A j \in DOMAIN told' : True(told'[j])
    BY <1>6, <2>1, <2>4
  <2> QED
    BY <1>1, <2>5 DEF ToldTruth, True
<1> QED
  BY <1>7, <1>8, <1>10, <1>11

LEMMA UnknownKeeps ==
  ASSUME TellInv, NEW a \in answers, HandleUnknown(a)
  PROVE  TellInv'
<1> USE DEF TellInv
<1>1. /\ answers' = answers \ {a}
      /\ handlers' = handlers \ {a.id} /\ iqHandlers' = iqHandlers \ {a.id}
      /\ UNCHANGED <<nextId, kind, pc, cur, track, up, wire, verdict, odd, lost, drops, told>>
      /\ overtaken' \in {overtaken, overtaken \union {a.id}}
  BY DEF HandleUnknown, Handled, Forget
<1>2. TypeOK'
  BY <1>1, AnswerFacts DEF TypeOK
<1>3. HasId' /\ OnePlace' /\ Decided' /\ Begun' /\ \A id : Quiet(id) => Quiet(id)'
  BY <1>1, <1>2, DoneKeeps
<1>4. ToldIsOver' /\ ToldTruth'
  BY <1>1, <1>3 DEF ToldIsOver, ToldTruth
<1> QED
  BY <1>2, <1>3, <1>4

-----------------------------------------------------------------------------
(* The server and the connection.                                          *)

LEMMA AnswerKeeps == TellInv /\ Answer => TellInv'
<1> SUFFICES ASSUME TellInv, Answer PROVE TellInv'
  OBVIOUS
<1> USE DEF TellInv
<1>1. PICK id \in wire, f \in [ok : BOOLEAN, ps : Payload] :
        /\ answers' = answers \union {[id |-> id, ok |-> f.ok, ps |-> f.ps]}
        /\ verdict' = [verdict EXCEPT ![id] = IF f.ok THEN "yes" ELSE "no"]
        /\ odd' \in {odd, odd \union {id}}
        /\ wire' = wire \ {id}
  BY DEF Answer
<1> DEFINE new == [id |-> id, ok |-> f.ok, ps |-> f.ps]
<1>2. UNCHANGED <<nextId, kind, pc, cur, maps, up, lost, overtaken, drops, told>>
  BY DEF Answer
<1>3. id \in Ids /\ ~Quiet(id) /\ kind[id] # "none"
      /\ new \in [id : Ids, ok : BOOLEAN, ps : Payload] /\ new.id = id /\ new.ok = f.ok
      /\ f.ok \in BOOLEAN
  BY NotQuiet DEF TypeOK, Quiet
<1>4. answers' = answers \union {new}
  BY <1>1
<1> HIDE DEF new
<1>5. TypeOK'
  BY <1>1, <1>2, <1>3, <1>4 DEF TypeOK, maps
<1>6. \A x \in Ids : verdict'[x] = IF x = id THEN (IF f.ok THEN "yes" ELSE "no") ELSE verdict[x]
  BY <1>1 DEF TypeOK
<1>7. HasId'
  BY <1>2 DEF HasId
<1>8. OnePlace'
  BY <1>1, <1>2, <1>3, <1>4 DEF OnePlace
<1>9. Decided'
  BY <1>1, <1>2, <1>3, <1>4, <1>6, IdFacts DEF Decided, OnePlace, HasId, TypeOK
<1>10. \A x : Quiet(x) => x # id /\ Quiet(x)'
  BY <1>1, <1>2, <1>3, <1>4 DEF Quiet
<1>11. Begun'
  BY <1>2, <1>3, <1>6, <1>10, IdFacts DEF Begun
<1>12. ToldIsOver'
  BY <1>2, <1>10 DEF ToldIsOver
<1>13. \A j \in DOMAIN told : LET r == told[j].request IN
         r \in Ids /\ r + MaxIds \in Ids /\ r # id /\ r + MaxIds # id
  BY <1>10, IdFacts, ToldAreAsked DEF ToldIsOver
<1>14. ToldTruth'
  BY <1>2, <1>6, <1>13 DEF ToldTruth
<1> QED
  BY <1>5, <1>7, <1>8, <1>9, <1>11, <1>12, <1>14

LEMMA DropKeeps == TellInv /\ Drop => TellInv'
<1> SUFFICES ASSUME TellInv, Drop PROVE TellInv'
  OBVIOUS
<1> USE DEF TellInv
<1>1. PICK kept \in SUBSET answers :
        answers' = kept /\ lost' = lost \union wire \union {a.id : a \in answers \ kept}
  BY DEF Drop
<1>2. /\ drops' = drops + 1 /\ drops < MaxDrops /\ up' = FALSE /\ wire' = {}
      /\ UNCHANGED <<nextId, kind, pc, cur, maps, verdict, odd, overtaken, told>>
  BY DEF Drop
<1>3. lost' \subseteq Ids /\ answers' \subseteq answers /\ drops' \in 0..MaxDrops
  BY <1>1, <1>2, TrackingAssumption DEF TypeOK
<1>4. TypeOK'
  BY <1>2, <1>3 DEF TypeOK, maps
<1>5. HasId' /\ OnePlace' /\ Decided' /\ ToldTruth'
  BY <1>1, <1>2 DEF HasId, OnePlace, Decided, ToldTruth
<1>6. \A id : Quiet(id) => Quiet(id)'
  BY <1>1, <1>2 DEF Quiet
<1>7. Begun' /\ ToldIsOver'
  BY <1>2, <1>6 DEF Begun, ToldIsOver
<1> QED
  BY <1>4, <1>5, <1>7

-----------------------------------------------------------------------------

LEMMA StepKeepsTell == TellInv /\ [Next]_vars => TellInv'
<1> SUFFICES ASSUME TellInv, [Next]_vars PROVE TellInv'
  OBVIOUS
<1>1. ASSUME NEW c \in Callers, Ask(c) \/ Caller(c) PROVE TellInv'
  BY <1>1, AskKeeps, SendKeeps, TrackKeeps DEF Caller
<1>2. CASE Receiver
  BY <1>2, AvatarDataKeeps, OutcomeKeeps, UnknownKeeps DEF Receiver
<1>3. CASE Answer
  BY <1>3, AnswerKeeps
<1>4. CASE Drop
  BY <1>4, DropKeeps
<1>5. CASE Reconnect
  BY <1>5 DEF Reconnect, maps, TellInv, TypeOK, HasId, OnePlace, Decided, Begun, ToldIsOver,
              ToldTruth, Quiet
<1>6. CASE UNCHANGED vars
  BY <1>6 DEF vars, maps, net, TellInv, TypeOK, HasId, OnePlace, Decided, Begun, ToldIsOver,
              ToldTruth, Quiet
<1> QED
  BY <1>1, <1>2, <1>3, <1>4, <1>5, <1>6 DEF Next, Finished

THEOREM TellInvariant == Spec => []TellInv
  BY InitTell, StepKeepsTell, PTL DEF Spec

\* Every reachable state of the requests has the types.
THEOREM TrackingTypeCorrect == Spec => []TypeOK
  BY TellInvariant, PTL DEF TellInv

\* The listener hears of success only when the server has accepted the request, of
\* an avatar both halves, and of failure only when it has refused it: also when
\* answers overtake calls, come in an unusual form, or connections are lost.
THEOREM ListenerToldTruth == Spec => []ToldTruth
  BY TellInvariant, PTL DEF TellInv

-----------------------------------------------------------------------------
(* The refinement of PublishContract.                                      *)

\* What the listener knows of request i when the kinds are kd and tl was told.
OutcomeIn(kd, tl, i) ==
  LET about == {j \in DOMAIN tl : tl[j].request = i} IN
  IF kd[i] = "none" THEN "none"
  ELSE IF about = {} THEN "asked"
  ELSE IF Cardinality(about) > 1 THEN "again"
  ELSE IF tl[CHOOSE j \in about : TRUE].ok THEN "ok" ELSE "failed"

Outcomes == [i \in Asked |-> OutcomeIn(kind, told, i)]

\* When nothing is told twice, the outcome is what was told.
LEMMA OutcomeValue ==
  ASSUME NEW kd, NEW tl, NEW i,
         \A j, k \in DOMAIN tl : tl[j].request = tl[k].request => j = k
  PROVE  /\ kd[i] = "none" => OutcomeIn(kd, tl, i) = "none"
         /\ kd[i] # "none" /\ (\A j \in DOMAIN tl : tl[j].request # i)
              => OutcomeIn(kd, tl, i) = "asked"
         /\ \A j \in DOMAIN tl : kd[i] # "none" /\ tl[j].request = i
              => OutcomeIn(kd, tl, i) = IF tl[j].ok THEN "ok" ELSE "failed"
<1> DEFINE about == {j \in DOMAIN tl : tl[j].request = i}
<1>1. kd[i] = "none" => OutcomeIn(kd, tl, i) = "none"
  BY DEF OutcomeIn
<1>2. ASSUME kd[i] # "none", \A j \in DOMAIN tl : tl[j].request # i
      PROVE  OutcomeIn(kd, tl, i) = "asked"
  <2>1. about = {}
    BY <1>2
  <2> QED
    BY <1>2, <2>1 DEF OutcomeIn
<1>3. ASSUME NEW j \in DOMAIN tl, kd[i] # "none", tl[j].request = i
      PROVE  OutcomeIn(kd, tl, i) = IF tl[j].ok THEN "ok" ELSE "failed"
  <2>1. about = {j}
    BY <1>3
  <2>2. Cardinality(about) = 1 /\ about # {} /\ (CHOOSE x \in about : TRUE) = j
    BY <2>1, FS_Singleton
  <2>3. ~(Cardinality(about) > 1)
    BY <2>2
  <2> QED
    BY <1>3, <2>2, <2>3 DEF OutcomeIn
<1> QED
  BY <1>1, <1>2, <1>3

\* A step after which the same requests have been made and told.
LEMMA SameOutcomes ==
  ASSUME told' = told, \A i \in Asked : kind'[i] = kind[i]
  PROVE  UNCHANGED Outcomes
<1>1. \A i \in Asked : OutcomeIn(kind', told', i) = OutcomeIn(kind, told, i)
  BY DEF OutcomeIn
<1> QED
  BY <1>1 DEF Outcomes

\* A request is made: it was not known before.
LEMMA AskRefines ==
  ASSUME TellInv, TellInv', NEW c \in Callers, Ask(c)
  PROVE  PC!Next
<1>1. PICK k \in Kinds : kind' = [kind EXCEPT ![nextId] = k]
  BY DEF Ask
<1>2. nextId \in Asked /\ nextId \in Ids /\ k # "none" /\ told' = told
  BY TrackingAssumption, IdFacts DEF TellInv, TypeOK, Ask, Asked, Kind
<1>3. kind[nextId] = "none" /\ kind'[nextId] # "none"
  BY <1>1, <1>2 DEF TellInv, TypeOK, Begun, Asked
<1>4. \A j \in DOMAIN told : told[j].request # nextId
  BY <1>3 DEF TellInv, ToldIsOver
<1>5. \A j, k1 \in DOMAIN told : told[j].request = told[k1].request => j = k1
  BY DEF TellInv, ToldIsOver
<1>6. OutcomeIn(kind, told, nextId) = "none" /\ OutcomeIn(kind', told', nextId) = "asked"
  BY <1>2, <1>3, <1>4, <1>5, OutcomeValue
<1>7. \A i \in Asked \ {nextId} : OutcomeIn(kind', told', i) = OutcomeIn(kind, told, i)
  <2>1. \A i \in Asked \ {nextId} : kind'[i] = kind[i]
    BY <1>1, IdFacts DEF TellInv, TypeOK
  <2> QED
    BY <1>2, <2>1 DEF OutcomeIn
<1>8. Outcomes[nextId] = "none" /\ Outcomes' = [Outcomes EXCEPT ![nextId] = "asked"]
  BY <1>2, <1>6, <1>7 DEF Outcomes
<1> QED
  BY <1>2, <1>8 DEF PC!Next, PC!Ask, Outcomes, OutcomeIn, ToldOf

\* An outcome is told: the request was made and nothing had been told of it.
LEMMA OutcomeRefines ==
  ASSUME TellInv, TellInv', NEW a \in answers, HandleOutcome(a)
  PROVE  PC!Next
<1> DEFINE i   == Root(a.id)
           new == [request |-> i, ok |-> a.ok]
           o   == IF a.ok THEN "ok" ELSE "failed"
<1>1. told' = Append(told, new) /\ kind' = kind
  BY DEF HandleOutcome, Tell
<1>2. a.id \in Ids /\ a.ok \in BOOLEAN /\ \A j \in DOMAIN told : told[j].request # i
  BY AnswerFacts
<1>3. i \in Asked /\ new \in [request : Asked, ok : BOOLEAN] /\ new.request = i /\ new.ok = a.ok
  BY <1>2, IdFacts
<1> HIDE DEF i, new
<1>4. told \in Seq([request : Asked, ok : BOOLEAN])
  BY DEF TellInv, TypeOK
<1>5. /\ DOMAIN told' = 1..(Len(told) + 1) /\ Len(told) \in Nat /\ DOMAIN told = 1..Len(told)
      /\ \A j \in DOMAIN told : told'[j] = told[j]
      /\ told'[Len(told) + 1] = new
  BY <1>1, <1>3, <1>4, AppendProperties, LenProperties
<1>6. /\ \A j, k \in DOMAIN told : told[j].request = told[k].request => j = k
      /\ \A j, k \in DOMAIN told' : told'[j].request = told'[k].request => j = k
  BY DEF TellInv, ToldIsOver
<1>7. ASSUME NEW r
      PROVE  /\ kind[r] # "none" /\ (\A j \in DOMAIN told' : told'[j].request # r)
                  => OutcomeIn(kind, told', r) = "asked"
             /\ \A j \in DOMAIN told' : kind[r] # "none" /\ told'[j].request = r
                  => OutcomeIn(kind, told', r) = IF told'[j].ok THEN "ok" ELSE "failed"
             /\ kind[r] = "none" => OutcomeIn(kind, told', r) = "none"
  BY <1>6, OutcomeValue
<1>8. kind[i] # "none"
  <2>1. (\A j \in DOMAIN told : kind[told[j].request] # "none")'
    BY DEF TellInv, ToldIsOver
  <2> QED
    BY <1>1, <1>3, <1>5, <2>1
<1>9. OutcomeIn(kind, told, i) = "asked"
  BY <1>2, <1>6, <1>8, OutcomeValue
<1>10. OutcomeIn(kind', told', i) = o
  <2>1. Len(told) + 1 \in DOMAIN told' /\ told'[Len(told) + 1].request = i
        /\ told'[Len(told) + 1].ok = a.ok
    BY <1>3, <1>5
  <2> QED
    BY <1>1, <1>8, <1>7, <2>1
<1>11. ASSUME NEW r \in Asked, r # i
       PROVE  OutcomeIn(kind', told', r) = OutcomeIn(kind, told, r)
  <2>1. CASE \E j \in DOMAIN told : told[j].request = r
    <3>1. PICK j \in DOMAIN told : told[j].request = r
      BY <2>1
    <3>2. j \in DOMAIN told' /\ told'[j] = told[j]
      BY <1>5
    <3> QED
      BY <1>1, <1>6, <1>7, <3>1, <3>2, OutcomeValue
  <2>2. CASE \A j \in DOMAIN told : told[j].request # r
    <3>1. \A j \in DOMAIN told' : told'[j].request # r
      BY <1>3, <1>5, <1>11, <2>2
    <3> QED
      BY <1>1, <1>6, <1>7, <2>2, <3>1, OutcomeValue
  <2> QED
    BY <2>1, <2>2
<1>12. Outcomes[i] = "asked" /\ Outcomes' = [Outcomes EXCEPT ![i] = o]
  BY <1>3, <1>9, <1>10, <1>11 DEF Outcomes
<1>13. o \in {"ok", "failed"}
  OBVIOUS
<1> HIDE DEF o
<1>14. PC!Tell(i)
  BY <1>12, <1>13 DEF PC!Tell, Outcomes, OutcomeIn, ToldOf
<1> QED
  BY <1>3, <1>14 DEF PC!Next

LEMMA StepRefines ==
  TellInv /\ TellInv' /\ [Next]_vars => PC!Next \/ UNCHANGED Outcomes
<1> SUFFICES ASSUME TellInv, TellInv', [Next]_vars
             PROVE  PC!Next \/ UNCHANGED Outcomes
  OBVIOUS
<1>1. ASSUME NEW c \in Callers, Ask(c) PROVE PC!Next
  BY <1>1, AskRefines
<1>2. ASSUME NEW c \in Callers, Caller(c) PROVE UNCHANGED Outcomes
  BY <1>2, SameOutcomes DEF Caller, Send, Track
<1>3. ASSUME NEW a \in answers, HandleAvatarData(a) PROVE UNCHANGED Outcomes
  <2>1. a.id \in Asked
    <3> SUFFICES ASSUME NEW r \in Asked, a.id = r + MaxIds PROVE FALSE
      BY AnswerFacts, IdFacts
    <3> QED
      BY <1>3, AnswerFacts DEF HandleAvatarData, TellInv, Begun
  <2>2. told' = told /\ kind' = [kind EXCEPT ![a.id + MaxIds] = "metadata"]
    BY <1>3 DEF HandleAvatarData
  <2>3. \A i \in Asked : kind'[i] = kind[i]
    BY <2>1, <2>2, IdFacts DEF TellInv, TypeOK
  <2> QED
    BY <2>2, <2>3, SameOutcomes
<1>4. ASSUME NEW a \in answers, HandleOutcome(a) PROVE PC!Next
  BY <1>4, OutcomeRefines
<1>5. ASSUME NEW a \in answers, HandleUnknown(a) PROVE UNCHANGED Outcomes
  BY <1>5, SameOutcomes DEF HandleUnknown
<1>6. CASE Answer \/ Drop \/ Reconnect \/ UNCHANGED vars
  BY <1>6, SameOutcomes DEF Answer, Drop, Reconnect, vars
<1> QED
  BY <1>1, <1>2, <1>3, <1>4, <1>5, <1>6 DEF Next, Receiver, Finished

LEMMA InitRefines == Init => PC!Init
<1> SUFFICES ASSUME Init PROVE PC!Init
  OBVIOUS
<1>1. \A i \in Asked : kind[i] = "none"
  BY IdFacts DEF Init
<1> QED
  BY <1>1 DEF PC!Init

\* Every request is told to have succeeded or failed at most once and for good,
\* whatever the server answers and whenever: the way through the three maps
\* implements the contract.
THEOREM ContractImplemented == Spec => ImplementsContract
<1>1. TellInv /\ TellInv' /\ [Next]_vars => [PC!Next]_Outcomes
  BY StepRefines
<1>2. PC!Spec <=> PC!Init /\ [][PC!Next]_Outcomes
  BY DEF PC!Spec, Outcomes, OutcomeIn, ToldOf
<1> QED
  BY <1>1, <1>2, InitRefines, TellInvariant, PTL DEF Spec, ImplementsContract

-----------------------------------------------------------------------------
(* What is left in the maps.                                               *)

\* What is in a map is under way or lost, or its answer was of an unusual form or overtook
\* the call; an id that is under way is in the manager's map.
Held ==
  /\ \A id \in iqHandlers \union handlers : ~Quiet(id) \/ id \in lost
  /\ \A id \in Ids : ~Quiet(id) => id \in handlers
  /\ \A k \in Tracked : \A id \in track[k] :
       kind[id] = k /\ (~Quiet(id) \/ id \in lost \union odd \union overtaken)
  /\ \A a \in answers : a.id \notin odd =>
       [ok |-> a.ok, ps |-> a.ps] \in Usual /\ (kind[a.id] = "load" => a.ps = "items")
  /\ \A c \in Callers : pc[c] = "track" => ~Quiet(cur[c]) \/ cur[c] \in lost \union overtaken

LEMMA InitHeld == Init => Held
  BY DEF Init, Held, Quiet

\* A caller that has not made its entry has none, of a kind that has a map, and its id
\* is its own.
Noted ==
  \A c \in Callers : pc[c] # "idle" =>
    /\ kind[cur[c]] # "none" /\ (pc[c] = "track" => kind[cur[c]] \in Tracked)
    /\ \A k \in Tracked : cur[c] \notin track[k]
    /\ \A d \in Callers : pc[d] # "idle" /\ cur[d] = cur[c] => d = c

LEMMA InitNoted == Init => Noted
  BY DEF Init, Noted

LEMMA StepKeepsNoted ==
  ASSUME TellInv, Held, Noted, [Next]_vars
  PROVE  Noted'
<1>1. ASSUME NEW c \in Callers, Ask(c) PROVE Noted'
  <2>1. PICK id \in Asked : id = nextId
    BY <1>1, TrackingAssumption DEF Ask, TellInv, TypeOK, Asked
  <2>2. PICK k \in Kinds : kind' = [kind EXCEPT ![id] = k]
    BY <1>1, <2>1 DEF Ask
  <2>3. /\ id \in Ids /\ kind[id] = "none" /\ k # "none" /\ track' = track
        /\ \A x \in Ids : kind'[x] = IF x = id THEN k ELSE kind[x]
    BY <1>1, <2>1, <2>2, IdFacts, TrackingAssumption DEF Ask, TellInv, TypeOK, Begun, Asked, Kind
  <2>4. /\ pc'[c] = "send" /\ cur'[c] = id
        /\ \A d \in Callers \ {c} : pc'[d] = pc[d] /\ cur'[d] = cur[d]
    BY <1>1, <2>1 DEF Ask, TellInv, TypeOK
  <2>5. \A kd \in Tracked : id \notin track[kd]
    BY <2>3 DEF Held, Tracked, Publish
  <2>6. \A d \in Callers : pc[d] # "idle" => cur[d] # id /\ cur[d] \in Ids
    BY <2>3, IdFacts DEF Noted, TellInv, HasId
  <2> QED
    BY <2>3, <2>4, <2>5, <2>6 DEF Noted
<1>2. ASSUME NEW c \in Callers, Send(c) PROVE Noted'
  <2>1. /\ UNCHANGED <<kind, cur, track>> /\ pc[c] = "send"
        /\ pc'[c] = (IF kind[cur[c]] \in Tracked THEN "track" ELSE "idle")
        /\ \A d \in Callers \ {c} : pc'[d] = pc[d]
    BY <1>2 DEF Send, TellInv, TypeOK
  <2> QED
    BY <2>1 DEF Noted
<1>3. ASSUME NEW c \in Callers, Track(c) PROVE Noted'
  <2>1. /\ UNCHANGED <<kind, cur>> /\ pc[c] = "track" /\ pc'[c] = "idle"
        /\ \A d \in Callers \ {c} : pc'[d] = pc[d]
        /\ \A k \in Tracked : track'[k] \subseteq track[k] \union {cur[c]}
    BY <1>3 DEF Track, TellInv, TypeOK
  <2> QED
    BY <2>1 DEF Noted
<1>4. CASE Receiver
  <2>1. PICK a \in answers : HandleAvatarData(a) \/ HandleOutcome(a) \/ HandleUnknown(a)
    BY <1>4 DEF Receiver
  <2>2. CASE HandleAvatarData(a)
    <3>1. PICK id : id = a.id + MaxIds
      OBVIOUS
    <3>2. /\ UNCHANGED <<pc, cur>> /\ kind' = [kind EXCEPT ![id] = "metadata"]
          /\ \A k \in Tracked : track'[k] \subseteq track[k] \union {id}
      BY <2>2, <3>1 DEF HandleAvatarData, TellInv, TypeOK, Tracked, Publish
    <3>3. id \notin Asked
      <4>1. a.id \in Ids
        BY AnswerFacts
      <4> QED
        BY <3>1, <4>1, IdFacts DEF Ids, Asked
    <3>4. \A c \in Callers : pc[c] # "idle" => cur[c] # id /\ kind'[cur[c]] = kind[cur[c]]
      BY <3>2, <3>3, IdFacts DEF TellInv, TypeOK, HasId
    <3> QED
      BY <3>2, <3>4 DEF Noted
  <2>3. CASE HandleOutcome(a)
    <3>1. UNCHANGED <<pc, cur, kind>> /\ \A k \in Tracked : track'[k] \subseteq track[k]
      BY <2>3 DEF HandleOutcome
    <3> QED
      BY <3>1 DEF Noted
  <2>4. CASE HandleUnknown(a)
    BY <2>4 DEF HandleUnknown, Noted
  <2> QED
    BY <2>1, <2>2, <2>3, <2>4
<1>5. CASE Answer \/ Drop \/ Reconnect \/ UNCHANGED vars
  BY <1>5 DEF Answer, Drop, Reconnect, vars, maps, Noted
<1> QED
  BY <1>1, <1>2, <1>3, <1>4, <1>5 DEF Next, Caller, Finished

\* A step that ends nothing but by losing it, and that leaves the maps alone.
LEMMA MapsAloneHeld ==
  ASSUME TellInv, Held, UNCHANGED <<iqHandlers, handlers, track, kind>>,
         lost \subseteq lost', odd \subseteq odd', overtaken \subseteq overtaken',
         answers' \subseteq answers,
         \A x : ~Quiet(x) => ~Quiet(x)' \/ x \in lost',
         \A x : ~Quiet(x)' => ~Quiet(x),
         \A c \in Callers : pc'[c] = "track" => cur'[c] = cur[c] /\ pc[c] = "track"
  PROVE  Held'
<1>1. \A id \in iqHandlers' \union handlers' : ~Quiet(id)' \/ id \in lost'
  BY DEF Held
<1>2. \A id \in Ids : ~Quiet(id)' => id \in handlers'
  BY DEF Held
<1>3. \A k \in Tracked : \A id \in track'[k] :
        kind'[id] = k /\ (~Quiet(id)' \/ id \in lost' \union odd' \union overtaken')
  BY DEF Held
<1>4. \A a \in answers' : a.id \notin odd' =>
        [ok |-> a.ok, ps |-> a.ps] \in Usual /\ (kind'[a.id] = "load" => a.ps = "items")
  BY DEF Held
<1>5. (\A c \in Callers : pc[c] = "track" => ~Quiet(cur[c]) \/ cur[c] \in lost \union overtaken)'
  <2> SUFFICES ASSUME NEW c \in Callers, pc'[c] = "track"
               PROVE  (~Quiet(cur[c]) \/ cur[c] \in lost \union overtaken)'
    OBVIOUS
  <2>1. cur'[c] = cur[c] /\ (~Quiet(cur[c]) \/ cur[c] \in lost \union overtaken)
    BY DEF Held
  <2>2. \A x : x = cur[c] => (~Quiet(x) \/ x \in lost \union overtaken)'
    BY <2>1
  <2> QED
    BY <2>1, <2>2 DEF Quiet
<1> QED
  BY <1>1, <1>2, <1>3, <1>4, <1>5 DEF Held, Quiet

LEMMA AskHeld ==
  ASSUME TellInv, Held, NEW c \in Callers, Ask(c)
  PROVE  Held'
<1>1. PICK id \in Asked : id = nextId
  BY TrackingAssumption DEF Ask, TellInv, TypeOK, Asked
<1>2. PICK k \in Kinds : kind' = [kind EXCEPT ![id] = k]
  BY <1>1 DEF Ask
<1>3. /\ pc' = [pc EXCEPT ![c] = "send"] /\ cur' = [cur EXCEPT ![c] = id]
      /\ handlers' = handlers \union {id}
      /\ UNCHANGED <<iqHandlers, track, wire, answers, odd, lost, overtaken>>
  BY <1>1 DEF Ask, net
<1>4. id \in Ids /\ kind[id] = "none" /\ Quiet(id) /\ pc[c] = "idle"
  BY <1>1, IdFacts DEF Ask, TellInv, TypeOK, Begun, Asked
<1>5. \A x \in Ids : kind'[x] = IF x = id THEN k ELSE kind[x]
  BY <1>2 DEF TellInv, TypeOK
<1>6. pc'[c] = "send" /\ cur'[c] = id
      /\ \A d \in Callers \ {c} : pc'[d] = pc[d] /\ cur'[d] = cur[d]
  BY <1>3 DEF TellInv, TypeOK
<1>7. ~Quiet(id)'
  BY <1>6 DEF Quiet
<1>8. \A x : ~Quiet(x) => ~Quiet(x)' /\ x # id
  BY <1>3, <1>4, <1>6 DEF Quiet
<1>9. \A x : ~Quiet(x)' => ~Quiet(x) \/ x = id
  BY <1>3, <1>6 DEF Quiet
<1>10. \A x \in iqHandlers' \union handlers' : ~Quiet(x)' \/ x \in lost'
  BY <1>3, <1>7, <1>8 DEF Held
<1>11. \A x \in Ids : ~Quiet(x)' => x \in handlers'
  BY <1>3, <1>9 DEF Held
<1>12. \A kd \in Tracked : \A x \in track'[kd] :
         kind'[x] = kd /\ (~Quiet(x)' \/ x \in lost' \union odd' \union overtaken')
  <2>1. \A kd \in Tracked : \A x \in track[kd] : x \in Ids /\ x # id
    BY <1>4 DEF Held, TellInv, TypeOK, Tracked, Publish
  <2> QED
    BY <1>3, <1>5, <1>8, <2>1 DEF Held
<1>13. \A a \in answers' : a.id \notin odd' =>
         [ok |-> a.ok, ps |-> a.ps] \in Usual /\ (kind'[a.id] = "load" => a.ps = "items")
  BY <1>3, <1>4, <1>5, AnswerFacts DEF Held, Quiet
<1>14. \A d \in Callers : pc'[d] = "track" =>
         \E x : x = cur'[d] /\ (~Quiet(x)' \/ x \in lost' \union overtaken')
  BY <1>3, <1>6, <1>8 DEF Held
<1> QED
  BY <1>10, <1>11, <1>12, <1>13, <1>14 DEF Held, Quiet

LEMMA SendHeld ==
  ASSUME TellInv, Held, NEW c \in Callers, Send(c)
  PROVE  Held'
<1>1. PICK id \in Asked : id = cur[c]
  BY DEF Send, TellInv, HasId
<1>2. /\ wire' \in {wire, wire \union {id}} /\ lost' \in {lost, lost \union {id}}
      /\ id \in wire' \/ id \in lost'
      /\ iqHandlers' = iqHandlers \union {id} /\ cur' = cur
      /\ UNCHANGED <<kind, handlers, track, answers, odd, overtaken>>
  BY <1>1 DEF Send, Put
<1>3. pc'[c] # "send" /\ \A d \in Callers \ {c} : pc'[d] = pc[d]
  BY DEF Send, TellInv, TypeOK
<1>4. ~Quiet(id)
  BY <1>1 DEF Send, Quiet
<1>5. \A x : ~Quiet(x) => ~Quiet(x)' \/ x \in lost'
  BY <1>1, <1>2, <1>3 DEF Quiet
<1>6. \A x : ~Quiet(x)' => ~Quiet(x)
  BY <1>2, <1>3, <1>4 DEF Quiet
<1>7. \A x \in iqHandlers' \union handlers' : ~Quiet(x)' \/ x \in lost'
  BY <1>2, <1>4, <1>5 DEF Held
<1>8. \A x \in Ids : ~Quiet(x)' => x \in handlers'
  BY <1>2, <1>6 DEF Held
<1>9. \A kd \in Tracked : \A x \in track'[kd] :
        kind'[x] = kd /\ (~Quiet(x)' \/ x \in lost' \union odd' \union overtaken')
  BY <1>2, <1>5 DEF Held
<1>10. \A a \in answers' : a.id \notin odd' =>
         [ok |-> a.ok, ps |-> a.ps] \in Usual /\ (kind'[a.id] = "load" => a.ps = "items")
  BY <1>2 DEF Held
<1>11. \A d \in Callers : pc'[d] = "track" =>
         \E x : x = cur'[d] /\ (~Quiet(x)' \/ x \in lost' \union overtaken')
  BY <1>1, <1>2, <1>3, <1>4, <1>5 DEF Held
<1> QED
  BY <1>7, <1>8, <1>9, <1>10, <1>11 DEF Held, Quiet

LEMMA TrackHeld ==
  ASSUME TellInv, Held, NEW c \in Callers, Track(c)
  PROVE  Held'
<1>1. PICK id \in Asked : id = cur[c]
  BY DEF Track, TellInv, HasId
<1>2. /\ track' = [track EXCEPT ![kind[id]] = @ \union {id}]
      /\ UNCHANGED <<kind, cur, iqHandlers, handlers, wire, answers, odd, lost, overtaken>>
  BY <1>1 DEF Track, net
<1>3. pc'[c] = "idle" /\ \A d \in Callers \ {c} : pc'[d] = pc[d]
  BY DEF Track, TellInv, TypeOK
<1>4. pc[c] = "track" /\ (~Quiet(id) \/ id \in lost \union overtaken)
  BY <1>1 DEF Track, Held
<1>5. \A x : Quiet(x)' <=> Quiet(x)
  BY <1>2, <1>3, <1>4 DEF Quiet
<1>6. \A x \in iqHandlers' \union handlers' : ~Quiet(x)' \/ x \in lost'
  BY <1>2, <1>5 DEF Held
<1>7. \A x \in Ids : ~Quiet(x)' => x \in handlers'
  BY <1>2, <1>5 DEF Held
<1>8. \A kd \in Tracked : \A x \in track'[kd] : x \in track[kd] \/ (x = id /\ kd = kind[id])
  BY <1>2 DEF TellInv, TypeOK
<1>9. \A kd \in Tracked : \A x \in track'[kd] :
        kind'[x] = kd /\ (~Quiet(x)' \/ x \in lost' \union odd' \union overtaken')
  BY <1>2, <1>4, <1>5, <1>8 DEF Held
<1>10. \A a \in answers' : a.id \notin odd' =>
         [ok |-> a.ok, ps |-> a.ps] \in Usual /\ (kind'[a.id] = "load" => a.ps = "items")
  BY <1>2 DEF Held
<1>11. \A d \in Callers : pc'[d] = "track" =>
         \E x : x = cur'[d] /\ (~Quiet(x)' \/ x \in lost' \union overtaken')
  BY <1>2, <1>3, <1>5 DEF Held
<1> QED
  BY <1>6, <1>7, <1>9, <1>10, <1>11 DEF Held, Quiet

\* An answer that is done with: its id leaves every map.
LEMMA DoneHeld ==
  ASSUME TellInv, Held, NEW a \in answers, Handled(a),
         handlers' = handlers \ {a.id}, iqHandlers' = iqHandlers \ {a.id},
         \A k \in Tracked : track'[k] \subseteq track[k]
                            /\ (a.id \in track'[k] => a.id \in odd),
         overtaken \subseteq overtaken',
         \A c \in Callers : pc[c] = "track" /\ cur[c] = a.id => a.id \in overtaken',
         UNCHANGED <<kind, pc, cur, wire, odd, lost>>
  PROVE  Held'
<1>1. answers' = answers \ {a}
  BY DEF Handled
<1>2. Quiet(a.id)'
  BY <1>1, AnswerFacts DEF Quiet
<1>3. \A x : ~Quiet(x) /\ x # a.id => ~Quiet(x)'
  BY <1>1 DEF Quiet
<1>4. \A x : ~Quiet(x)' => ~Quiet(x) /\ x # a.id
  BY <1>1, <1>2 DEF Quiet
<1>5. \A x \in iqHandlers' \union handlers' : ~Quiet(x)' \/ x \in lost'
  BY <1>3 DEF Held
<1>6. \A x \in Ids : ~Quiet(x)' => x \in handlers'
  BY <1>4 DEF Held
<1>7. \A kd \in Tracked : \A x \in track'[kd] :
        kind'[x] = kd /\ (~Quiet(x)' \/ x \in lost' \union odd' \union overtaken')
  BY <1>3 DEF Held
<1>8. \A b \in answers' : b.id \notin odd' =>
         [ok |-> b.ok, ps |-> b.ps] \in Usual /\ (kind'[b.id] = "load" => b.ps = "items")
  BY <1>1 DEF Held
<1>9. \A d \in Callers : pc'[d] = "track" =>
         \E x : x = cur'[d] /\ (~Quiet(x)' \/ x \in lost' \union overtaken')
  BY <1>1, <1>3 DEF Held
<1> QED
  BY <1>5, <1>6, <1>7, <1>8, <1>9 DEF Held, Quiet

\* An answer of the usual form is passed on, so that only an unusual one leaves
\* an entry in the facade's maps.
LEMMA UnknownHeld ==
  ASSUME TellInv, Noted, Held, NEW a \in answers, HandleUnknown(a)
  PROVE  Held'
<1>1. ASSUME NEW k \in Tracked, a.id \in track[k] PROVE a.id \in odd
  <2> SUFFICES ASSUME a.id \notin odd PROVE FALSE
    OBVIOUS
  <2>1. kind[a.id] = k /\ k # "load"
    BY <1>1 DEF Held, Tracked, Publish
  <2>2. ~Passed(a)
    BY <1>1, <2>1 DEF HandleUnknown
  <2>3. a.id \in handlers
    BY AnswerFacts DEF Held
  <2>4. [ok |-> a.ok, ps |-> a.ps] \in Usual
    BY DEF Held
  <2>5. a.ps = "items" \/ (a.ok /\ a.ps = "none")
    BY <2>4 DEF Usual
  <2>6. k \in Publish \union {"delete"}
    BY DEF Tracked
  <2> QED
    BY <2>1, <2>2, <2>3, <2>5, <2>6 DEF Passed, FromSubclass, FromManager, Tracked
<1>2. /\ overtaken \subseteq overtaken'
      /\ \A c \in Callers : pc[c] = "track" /\ cur[c] = a.id => a.id \in overtaken'
  BY DEF HandleUnknown
<1> QED
  BY <1>1, <1>2, DoneHeld DEF HandleUnknown, Forget

LEMMA OutcomeHeld ==
  ASSUME TellInv, Noted, Held, NEW a \in answers, HandleOutcome(a)
  PROVE  Held'
<1>1. \A k \in Tracked : track'[k] \subseteq track[k] /\ a.id \notin track'[k]
  BY DEF HandleOutcome
<1>2. \A c \in Callers : pc[c] = "track" => cur[c] # a.id
  BY DEF HandleOutcome, Noted
<1> QED
  BY <1>1, <1>2, DoneHeld DEF HandleOutcome, Forget

LEMMA AvatarDataHeld ==
  ASSUME TellInv, Noted, Held, NEW a \in answers, HandleAvatarData(a)
  PROVE  Held'
<1>1. PICK i, id : i = a.id /\ id = a.id + MaxIds
  OBVIOUS
<1>2. /\ kind' = [kind EXCEPT ![id] = "metadata"] /\ answers' = answers \ {a}
      /\ handlers' = (handlers \ {i}) \union {id}
      /\ iqHandlers' = (iqHandlers \union {id}) \ {i}
      /\ wire' \in {wire, wire \union {id}} /\ lost' \in {lost, lost \union {id}}
      /\ id \in wire' \/ id \in lost'
      /\ track' = [track EXCEPT !["avatar"] = @ \ {i}, !["metadata"] = @ \union {id}]
      /\ UNCHANGED <<pc, cur, odd, overtaken>> /\ kind[i] = "avatar"
      /\ \A c \in Callers : pc[c] = "track" => cur[c] # i
  BY <1>1 DEF HandleAvatarData, Handled, Noted, Tracked, Publish
<1>3. i \in Asked
  <2> SUFFICES ASSUME NEW r \in Asked, i = r + MaxIds PROVE FALSE
    BY <1>1, AnswerFacts, IdFacts
  <2> QED
    BY <1>1, <1>2, AnswerFacts DEF TellInv, Begun
<1>4. id \in Ids /\ i \in Ids /\ i # id /\ kind[id] = "none" /\ Quiet(id)
  BY <1>1, <1>3, IdFacts, AnswerFacts DEF TellInv, Begun
<1>5. \A x \in Ids : kind'[x] = IF x = id THEN "metadata" ELSE kind[x]
  BY <1>2 DEF TellInv, TypeOK
<1>6. Quiet(i)'
  BY <1>1, <1>2, <1>4, AnswerFacts DEF Quiet
<1>7. \A x : ~Quiet(x) /\ x # i => ~Quiet(x)' /\ x # id
  BY <1>1, <1>2, <1>4 DEF Quiet
<1>8. \A x : ~Quiet(x)' => x # i /\ (x = id \/ ~Quiet(x))
  BY <1>2, <1>6 DEF Quiet
<1>9. ~Quiet(id)' \/ id \in lost'
  BY <1>2 DEF Quiet
<1>10. \A x \in iqHandlers' \union handlers' : ~Quiet(x)' \/ x \in lost'
  BY <1>2, <1>7, <1>9 DEF Held
<1>11. \A x \in Ids : ~Quiet(x)' => x \in handlers'
  BY <1>2, <1>8 DEF Held
<1>12. \A kd \in Tracked : \A x \in track'[kd] :
         kind'[x] = kd /\ (~Quiet(x)' \/ x \in lost' \union odd' \union overtaken')
  <2>1. \A kd \in Tracked : \A x \in track[kd] : x \in Ids /\ x # id /\ (x = i => kd = "avatar")
    BY <1>2, <1>4 DEF Held, TellInv, TypeOK, Tracked, Publish
  <2>2. \A kd \in Tracked : \A x \in track'[kd] :
          (x = id /\ kd = "metadata") \/ (x # i /\ x \in track[kd])
    BY <1>2, <2>1 DEF TellInv, TypeOK, Tracked, Publish
  <2> QED
    BY <1>2, <1>4, <1>5, <1>7, <1>9, <2>1, <2>2 DEF Held
<1>13. \A b \in answers' : b.id \notin odd' =>
         [ok |-> b.ok, ps |-> b.ps] \in Usual /\ (kind'[b.id] = "load" => b.ps = "items")
  <2>1. \A b \in answers : b.id \in Ids /\ b.id # id
    BY <1>4, AnswerFacts DEF Quiet
  <2> QED
    BY <1>2, <1>5, <2>1 DEF Held
<1>14. \A d \in Callers : pc'[d] = "track" =>
         \E x : x = cur'[d] /\ (~Quiet(x)' \/ x \in lost' \union overtaken')
  BY <1>2, <1>7 DEF Held
<1> QED
  BY <1>10, <1>11, <1>12, <1>13, <1>14 DEF Held, Quiet

LEMMA AnswerHeld ==
  ASSUME TellInv, Held, Answer
  PROVE  Held'
<1>1. PICK id \in wire, f \in [ok : BOOLEAN, ps : Payload] :
        /\ answers' = answers \union {[id |-> id, ok |-> f.ok, ps |-> f.ps]}
        /\ odd' = IF f \in Usual /\ (kind[id] = "load" => f.ps = "items")
                    THEN odd ELSE odd \union {id}
        /\ wire' = wire \ {id}
  BY DEF Answer
<1>2. UNCHANGED <<kind, pc, cur, iqHandlers, handlers, track, lost, overtaken>>
  BY DEF Answer, maps
<1>3. f = [ok |-> f.ok, ps |-> f.ps]
  OBVIOUS
<1> DEFINE new == [id |-> id, ok |-> f.ok, ps |-> f.ps]
<1>4. new.id = id /\ new.ok = f.ok /\ new.ps = f.ps
  OBVIOUS
<1>5. answers' = answers \union {new}
  BY <1>1
<1> HIDE DEF new
<1>6. \A x : Quiet(x)' <=> Quiet(x)
  BY <1>1, <1>2, <1>4, <1>5 DEF Quiet
<1>7. \A x \in iqHandlers' \union handlers' : ~Quiet(x)' \/ x \in lost'
  BY <1>2, <1>6 DEF Held
<1>8. \A x \in Ids : ~Quiet(x)' => x \in handlers'
  BY <1>2, <1>6 DEF Held
<1>9. \A kd \in Tracked : \A x \in track'[kd] :
        kind'[x] = kd /\ (~Quiet(x)' \/ x \in lost' \union odd' \union overtaken')
  BY <1>1, <1>2, <1>6 DEF Held
<1>10. \A a \in answers' : a.id \notin odd' =>
         [ok |-> a.ok, ps |-> a.ps] \in Usual /\ (kind'[a.id] = "load" => a.ps = "items")
  <2>1. \A a \in answers : a.id \notin odd' => a.id \notin odd
    BY <1>1
  <2>2. id \notin odd' => f \in Usual /\ (kind[id] = "load" => f.ps = "items")
    BY <1>1
  <2> QED
    BY <1>2, <1>3, <1>4, <1>5, <2>1, <2>2 DEF Held
<1>11. \A d \in Callers : pc'[d] = "track" =>
         \E x : x = cur'[d] /\ (~Quiet(x)' \/ x \in lost' \union overtaken')
  BY <1>2, <1>6 DEF Held
<1> QED
  BY <1>7, <1>8, <1>9, <1>10, <1>11 DEF Held, Quiet

LEMMA DropHeld ==
  ASSUME TellInv, Held, Drop
  PROVE  Held'
<1>1. PICK kept \in SUBSET answers :
        answers' = kept /\ lost' = lost \union wire \union {a.id : a \in answers \ kept}
  BY DEF Drop
<1>2. wire' = {} /\ UNCHANGED <<kind, pc, cur, iqHandlers, handlers, track, odd, overtaken>>
  BY DEF Drop, maps
<1>3. \A x : ~Quiet(x) => ~Quiet(x)' \/ x \in lost'
  BY <1>1, <1>2 DEF Quiet
<1>4. \A x : ~Quiet(x)' => ~Quiet(x)
  BY <1>1, <1>2 DEF Quiet
<1> QED
  BY <1>1, <1>2, <1>3, <1>4, MapsAloneHeld

LEMMA StepKeepsHeld ==
  ASSUME TellInv, Noted, Held, [Next]_vars
  PROVE  Held'
<1>1. ASSUME NEW c \in Callers, Ask(c) \/ Caller(c) PROVE Held'
  BY <1>1, AskHeld, SendHeld, TrackHeld DEF Caller
<1>2. CASE Receiver
  BY <1>2, AvatarDataHeld, OutcomeHeld, UnknownHeld DEF Receiver
<1>3. CASE Answer
  BY <1>3, AnswerHeld
<1>4. CASE Drop
  BY <1>4, DropHeld
<1>5. CASE Reconnect \/ UNCHANGED vars
  BY <1>5 DEF Reconnect, vars, maps, net, Held, Quiet
<1> QED
  BY <1>1, <1>2, <1>3, <1>4, <1>5 DEF Next, Finished

LEMMA AlwaysHeld == Spec => [](Noted /\ Held)
<1>1. TellInv /\ Noted /\ Held /\ [Next]_vars => Noted' /\ Held'
  BY StepKeepsNoted, StepKeepsHeld
<1> QED
  BY <1>1, InitNoted, InitHeld, TellInvariant, PTL DEF Spec

-----------------------------------------------------------------------------
(* An answer that overtakes the call.                                      *)

\* Its request is over, untold, with nothing under way, and the entry that was made too
\* late, or is still to be made, stays.
SilentId(id) ==
  /\ id \in Asked /\ kind[id] \in Tracked /\ Quiet(id) /\ kind[id + MaxIds] = "none"
  /\ \A j \in DOMAIN told : told[j].request # id
  /\ id \in track[kind[id]] \/ \E c \in Callers : pc[c] = "track" /\ cur[c] = id
Silent == \A id \in overtaken : SilentId(id)

LEMMA InitSilent == Init => Silent
  BY DEF Init, Silent

\* A step that adds no such request, leaves the entries alone and starts nothing for an
\* id that was in use.
LEMMA SilentStays ==
  ASSUME TellInv, Silent, overtaken' = overtaken, told' = told,
         \A x \in Ids : kind[x] # "none" => kind'[x] = kind[x] /\ (Quiet(x) => Quiet(x)'),
         \A i \in Asked : kind[i + MaxIds] = "none" /\ Quiet(i) => kind'[i + MaxIds] = "none",
         \A k \in Tracked : track[k] \subseteq track'[k],
         \A c \in Callers : pc[c] = "track" =>
           \/ pc'[c] = "track" /\ cur'[c] = cur[c]
           \/ cur[c] \in track'[kind[cur[c]]]
  PROVE  Silent'
<1> SUFFICES ASSUME NEW id \in overtaken PROVE SilentId(id)'
  BY DEF Silent
<1>1. SilentId(id)
  BY DEF Silent
<1>2. id \in Ids /\ kind[id] # "none"
  BY <1>1, IdFacts DEF SilentId, Tracked, Publish
<1>3. kind'[id] = kind[id] /\ Quiet(id)' /\ kind'[id + MaxIds] = "none"
  BY <1>1, <1>2 DEF SilentId
<1>4. id \in track'[kind[id]] \/ \E c \in Callers : pc'[c] = "track" /\ cur'[c] = id
  BY <1>1 DEF SilentId
<1> QED
  BY <1>1, <1>3, <1>4 DEF SilentId

LEMMA CallSilent ==
  ASSUME TellInv, Noted, Silent, NEW c \in Callers, Ask(c) \/ Send(c) \/ Track(c)
  PROVE  Silent'
<1>1. CASE Ask(c)
  <2>1. PICK id \in Asked : id = nextId
    BY <1>1, TrackingAssumption DEF Ask, TellInv, TypeOK, Asked
  <2>2. PICK k \in Kinds : kind' = [kind EXCEPT ![id] = k]
    BY <1>1, <2>1 DEF Ask
  <2>3. /\ id \in Ids /\ kind[id] = "none"
        /\ \A i \in Asked : (i + MaxIds # id /\ i + MaxIds \in Ids)
        /\ \A x \in Ids : kind'[x] = IF x = id THEN k ELSE kind[x]
    <3>1. id \in Ids /\ \A i \in Asked : (i + MaxIds # id /\ i + MaxIds \in Ids)
      BY <2>1, TrackingAssumption DEF Asked, Ids
    <3>2. kind[id] = "none"
      BY <2>1 DEF TellInv, Begun, Asked
    <3>3. \A x \in Ids : kind'[x] = IF x = id THEN k ELSE kind[x]
      BY <2>2 DEF TellInv, TypeOK
    <3> QED
      BY <3>1, <3>2, <3>3
  <2>4. /\ pc[c] = "idle" /\ pc'[c] = "send" /\ cur'[c] = id
        /\ \A d \in Callers \ {c} : pc'[d] = pc[d] /\ cur'[d] = cur[d]
        /\ UNCHANGED <<track, wire, answers, overtaken, told>>
    BY <1>1, <2>1 DEF Ask, TellInv, TypeOK, net
  <2>5. \A x \in Ids : x # id /\ Quiet(x) => Quiet(x)'
    BY <2>4 DEF Quiet
  <2> QED
    BY <2>3, <2>4, <2>5, SilentStays
<1>2. CASE Send(c)
  <2>1. /\ UNCHANGED <<kind, cur, track, answers, overtaken, told>>
        /\ wire' \subseteq wire \union {cur[c]} /\ pc[c] = "send" /\ pc'[c] # "send"
        /\ \A d \in Callers \ {c} : pc'[d] = pc[d]
    BY <1>2 DEF Send, Put, TellInv, TypeOK
  <2>2. \A x : Quiet(x) => Quiet(x)'
    BY <2>1 DEF Quiet
  <2> QED
    BY <2>1, <2>2, SilentStays
<1>3. CASE Track(c)
  <2>1. /\ UNCHANGED <<kind, cur, wire, answers, overtaken, told>>
        /\ pc[c] = "track" /\ pc'[c] = "idle" /\ \A d \in Callers \ {c} : pc'[d] = pc[d]
        /\ \A k \in Tracked : track[k] \subseteq track'[k]
    BY <1>3 DEF Track, TellInv, TypeOK, net
  <2>2. cur[c] \in track'[kind[cur[c]]]
    BY <1>3, <2>1 DEF Track, Noted, TellInv, TypeOK
  <2>3. \A x : Quiet(x) => Quiet(x)'
    BY <2>1 DEF Quiet
  <2> QED
    BY <2>1, <2>2, <2>3, SilentStays
<1> QED
  BY <1>1, <1>2, <1>3

\* The receiver handles no answer of such a request; a new one is added by an answer that
\* finds no entry because the caller is about to make it.
LEMMA ReceiverSilent ==
  ASSUME TellInv, Noted, Silent, NEW a \in answers,
         HandleAvatarData(a) \/ HandleOutcome(a) \/ HandleUnknown(a)
  PROVE  Silent'
<1>1. /\ a.id \in Ids /\ ~Quiet(a.id) /\ kind[a.id] # "none" /\ a.id \notin wire
      /\ (\A b \in answers \ {a} : b.id # a.id) /\ Root(a.id) \in Asked
      /\ (\A c \in Callers : pc[c] = "send" => cur[c] # a.id)
      /\ \A j \in DOMAIN told : told[j].request # Root(a.id)
  BY AnswerFacts, IdFacts
<1>2. a.id \notin overtaken /\ \A id \in overtaken : Root(a.id) # id
  <2> SUFFICES ASSUME NEW id \in overtaken, Root(a.id) = id PROVE FALSE
    BY <1>1, IdFacts DEF Silent, SilentId
  <2>1. id \in Asked /\ Quiet(id) /\ kind[id + MaxIds] = "none"
    BY DEF Silent, SilentId
  <2> QED
    BY <1>1, <2>1, IdFacts
<1>3. CASE HandleAvatarData(a)
  <2>1. PICK new : new = a.id + MaxIds
    OBVIOUS
  <2>2. /\ kind' = [kind EXCEPT ![new] = "metadata"] /\ answers' = answers \ {a}
        /\ wire' \subseteq wire \union {new} /\ UNCHANGED <<pc, cur, told, overtaken>>
        /\ kind[a.id] = "avatar"
        /\ \A k \in Tracked : track[k] \ {a.id} \subseteq track'[k]
    BY <2>1, <1>3 DEF HandleAvatarData, Handled, TellInv, TypeOK, Tracked, Publish
  <2>3. new \notin Asked /\ a.id \in Asked /\ new \in Ids
    <3> SUFFICES ASSUME NEW r \in Asked, a.id = r + MaxIds PROVE FALSE
      BY <1>1, <2>1, IdFacts
    <3> QED
      BY <1>1, <2>2 DEF TellInv, Begun
  <2> SUFFICES ASSUME NEW id \in overtaken PROVE SilentId(id)'
    BY <2>2 DEF Silent
  <2>4. SilentId(id) /\ id # a.id /\ id \in Asked /\ id \in Ids /\ id + MaxIds \in Ids
    BY <1>2, IdFacts DEF Silent, SilentId
  <2>5. id # new /\ id + MaxIds # new
    BY <2>1, <2>3, <2>4, IdFacts
  <2>6. kind'[id] = kind[id] /\ kind'[id + MaxIds] = kind[id + MaxIds]
    BY <2>2, <2>4, <2>5 DEF TellInv, TypeOK
  <2>7. Quiet(id)'
    BY <2>2, <2>4, <2>5 DEF SilentId, Quiet
  <2> QED
    BY <2>2, <2>4, <2>6, <2>7 DEF SilentId
<1>4. CASE HandleOutcome(a)
  <2> DEFINE new == [request |-> Root(a.id), ok |-> a.ok]
  <2>1. /\ answers' = answers \ {a} /\ told' = Append(told, new)
        /\ UNCHANGED <<kind, pc, cur, wire, overtaken>>
        /\ track' = [k \in Tracked |-> track[k] \ {a.id}]
    BY <1>4 DEF HandleOutcome, Handled, Tell
  <2>2. new \in [request : Asked, ok : BOOLEAN] /\ new.request = Root(a.id)
    BY AnswerFacts, IdFacts
  <2> HIDE DEF new
  <2>3. told \in Seq([request : Asked, ok : BOOLEAN])
    BY DEF TellInv, TypeOK
  <2>4. \A j \in DOMAIN told' : told'[j] = new \/ (j \in DOMAIN told /\ told'[j] = told[j])
    BY <2>1, <2>2, <2>3, AppendProperties, LenProperties
  <2> SUFFICES ASSUME NEW id \in overtaken PROVE SilentId(id)'
    BY <2>1 DEF Silent
  <2>5. SilentId(id) /\ id # a.id /\ id # Root(a.id)
    BY <1>2 DEF Silent
  <2>6. \A j \in DOMAIN told' : told'[j].request # id
    BY <2>2, <2>4, <2>5 DEF SilentId
  <2>7. Quiet(id)'
    BY <2>1, <2>5 DEF SilentId, Quiet
  <2> QED
    BY <2>1, <2>5, <2>6, <2>7 DEF SilentId
<1>5. CASE HandleUnknown(a)
  <2>1. /\ answers' = answers \ {a} /\ UNCHANGED <<kind, pc, cur, track, wire, told>>
        /\ \/ overtaken' = overtaken
           \/ /\ overtaken' = overtaken \union {a.id}
              /\ \E c \in Callers : pc[c] = "track" /\ cur[c] = a.id
    BY <1>5 DEF HandleUnknown, Handled
  <2>2. Quiet(a.id)'
    BY <1>1, <2>1 DEF Quiet
  <2>3. ASSUME NEW id \in overtaken PROVE SilentId(id)'
    <3>1. SilentId(id)
      BY DEF Silent
    <3> QED
      BY <2>1, <3>1 DEF SilentId, Quiet
  <2>4. ASSUME NEW c \in Callers, pc[c] = "track", cur[c] = a.id PROVE SilentId(a.id)'
    <3>1. a.id \in Asked /\ kind[a.id] \in Tracked
      BY <2>4 DEF TellInv, HasId, Noted
    <3>2. kind[a.id + MaxIds] = "none" /\ Root(a.id) = a.id
      BY <1>1, <3>1, IdFacts DEF TellInv, Begun
    <3> QED
      BY <1>1, <2>1, <2>2, <2>4, <3>1, <3>2 DEF SilentId
  <2> QED
    BY <2>1, <2>3, <2>4 DEF Silent
<1> QED
  BY <1>3, <1>4, <1>5

LEMMA StepKeepsSilent ==
  ASSUME TellInv, Noted, Silent, [Next]_vars
  PROVE  Silent'
<1>1. ASSUME NEW c \in Callers, Ask(c) \/ Caller(c) PROVE Silent'
  BY <1>1, CallSilent DEF Caller
<1>2. CASE Receiver
  BY <1>2, ReceiverSilent DEF Receiver
<1>3. CASE Answer \/ Drop \/ Reconnect \/ UNCHANGED vars
  <2>1. UNCHANGED <<kind, pc, cur, track, overtaken, told>>
    BY <1>3 DEF Answer, Drop, Reconnect, vars, maps, net
  <2>2. \A x : Quiet(x) => Quiet(x)'
    <3>1. CASE Answer
      <4>1. PICK id \in wire, f \in [ok : BOOLEAN, ps : Payload] :
              /\ answers' = answers \union {[id |-> id, ok |-> f.ok, ps |-> f.ps]}
              /\ wire' = wire \ {id}
        BY <3>1 DEF Answer
      <4> QED
        BY <2>1, <4>1 DEF Quiet
    <3>2. CASE Drop
      BY <2>1, <3>2 DEF Drop, Quiet
    <3>3. CASE Reconnect \/ UNCHANGED vars
      BY <2>1, <3>3 DEF Reconnect, vars, net, Quiet
    <3> QED
      BY <1>3, <3>1, <3>2, <3>3
  <2> QED
    BY <2>1, <2>2, SilentStays
<1> QED
  BY <1>1, <1>2, <1>3 DEF Next, Finished

LEMMA AlwaysSilent == Spec => []Silent
<1>1. TellInv /\ Noted /\ Silent /\ [Next]_vars => Silent'
  BY StepKeepsSilent
<1> QED
  BY <1>1, InitSilent, TellInvariant, AlwaysHeld, PTL DEF Spec

\* None of the stack's own maps keeps what is answered and done with, and the facade's
\* keep, of the requests answered in the usual form, exactly those whose answer was
\* handled before the call had noted them.
THEOREM MapsAreCleared == Spec => []NoLeftover
<1>1. TellInv /\ Noted /\ Held /\ Silent => NoLeftover
  <2> SUFFICES ASSUME TellInv, Held, Silent, NEW id \in Ids, verdict[id] # "none",
                      id \notin lost, \A a \in answers : a.id # id,
                      \A c \in Callers : pc[c] # "idle" => cur[c] # id
               PROVE  /\ id \notin iqHandlers \union handlers
                      /\ id \notin odd =>
                           (id \in UNION {track[k] : k \in Tracked} <=> id \in overtaken)
    BY DEF NoLeftover
  <2>1. Quiet(id)
    BY DEF Quiet, TellInv, Decided
  <2>2. id \notin iqHandlers \union handlers
    BY <2>1 DEF Held
  <2>3. ASSUME id \notin odd, NEW k \in Tracked, id \in track[k] PROVE id \in overtaken
    BY <2>1, <2>3 DEF Held
  <2>4. ASSUME id \in overtaken PROVE \E k \in Tracked : id \in track[k]
    <3>1. SilentId(id)
      BY <2>4 DEF Silent
    <3>2. kind[id] \in Tracked /\ id \in track[kind[id]]
      BY <3>1 DEF SilentId
    <3> QED
      BY <3>2
  <2> QED
    BY <2>2, <2>3, <2>4
<1> QED
  BY <1>1, TellInvariant, AlwaysHeld, AlwaysSilent, PTL

-----------------------------------------------------------------------------
(* What is owed is under way.                                              *)

\* The facade has an entry for what is under way, or the caller is about to make it.
Entered ==
  \A id \in Ids : ~Quiet(id) /\ kind[id] \in Tracked =>
    \/ id \in track[kind[id]]
    \/ \E c \in Callers : pc[c] \in {"send", "track"} /\ cur[c] = id

\* A request that was made is under way, or missed, or told, or it is an
\* avatar whose second half has begun.
OwedId(id) ==
  \/ ~Quiet(id) \/ id \in lost \union odd \union overtaken
  \/ \E j \in DOMAIN told : told[j].request = Root(id)
  \/ id \in Asked /\ kind[id + MaxIds] = "metadata"
Owed == Entered /\ \A id \in Ids : kind[id] # "none" => OwedId(id)

LEMMA InitOwed == Init => Owed
  BY DEF Init, Owed, Entered, Quiet

\* A step that handles no answer: what was under way is so still, or is lost, and no
\* caller drops an entry it has to make.
LEMMA NothingHandled ==
  ASSUME TellInv, Owed, UNCHANGED <<kind, told>>, lost \subseteq lost', odd \subseteq odd',
         overtaken \subseteq overtaken',
         \A x : ~Quiet(x) => ~Quiet(x)' \/ x \in lost',
         \A x : ~Quiet(x)' => ~Quiet(x),
         \A k \in Tracked : track[k] \subseteq track'[k],
         \A c \in Callers : pc[c] \in {"send", "track"} /\ kind[cur[c]] \in Tracked =>
           \/ pc'[c] \in {"send", "track"} /\ cur'[c] = cur[c]
           \/ cur[c] \in track'[kind[cur[c]]]
  PROVE  Owed'
<1>1. ASSUME NEW id \in Ids, ~Quiet(id)', kind[id] \in Tracked
      PROVE  \/ id \in track'[kind[id]]
             \/ \E c \in Callers : pc'[c] \in {"send", "track"} /\ cur'[c] = id
  <2>1. \/ id \in track[kind[id]]
        \/ \E c \in Callers : pc[c] \in {"send", "track"} /\ cur[c] = id
    BY <1>1 DEF Owed, Entered
  <2> QED
    BY <1>1, <2>1
<1>2. ASSUME NEW id \in Ids, kind[id] # "none" PROVE OwedId(id)'
  <2>1. OwedId(id)
    BY <1>2 DEF Owed
  <2> QED
    BY <1>2, <2>1 DEF OwedId, Root
<1> QED
  BY <1>1, <1>2 DEF Owed, Entered

LEMMA AskOwed ==
  ASSUME TellInv, Owed, NEW c \in Callers, Ask(c)
  PROVE  Owed'
<1>1. PICK id \in Asked : id = nextId
  BY TrackingAssumption DEF Ask, TellInv, TypeOK, Asked
<1>2. PICK k \in Kinds : kind' = [kind EXCEPT ![id] = k]
  BY <1>1 DEF Ask
<1>3. /\ pc' = [pc EXCEPT ![c] = "send"] /\ cur' = [cur EXCEPT ![c] = id]
      /\ UNCHANGED <<track, wire, answers, odd, lost, overtaken, told>>
  BY <1>1 DEF Ask, net
<1>4. id \in Ids /\ kind[id] = "none" /\ Quiet(id) /\ pc[c] = "idle"
  BY <1>1, IdFacts DEF Ask, TellInv, TypeOK, Begun, Asked
<1>5. \A x \in Ids : kind'[x] = IF x = id THEN k ELSE kind[x]
  BY <1>2 DEF TellInv, TypeOK
<1>6. pc'[c] = "send" /\ cur'[c] = id
      /\ \A d \in Callers \ {c} : pc'[d] = pc[d] /\ cur'[d] = cur[d]
  BY <1>3 DEF TellInv, TypeOK
<1>7. ~Quiet(id)'
  BY <1>6 DEF Quiet
<1>8. \A x : ~Quiet(x) => ~Quiet(x)'
  BY <1>3, <1>4, <1>6 DEF Quiet
<1>9. \A x : ~Quiet(x)' => ~Quiet(x) \/ x = id
  BY <1>3, <1>6 DEF Quiet
<1>10. Entered'
  <2> SUFFICES ASSUME NEW x \in Ids, ~Quiet(x)', kind'[x] \in Tracked
               PROVE  \/ x \in track'[kind'[x]]
                      \/ \E d \in Callers : pc'[d] \in {"send", "track"} /\ cur'[d] = x
    BY DEF Entered
  <2>1. CASE x = id
    BY <1>6, <2>1
  <2>2. CASE x # id
    <3>1. \/ x \in track[kind[x]]
          \/ \E d \in Callers : pc[d] \in {"send", "track"} /\ cur[d] = x
      BY <1>5, <1>9, <2>2 DEF Owed, Entered
    <3> QED
      BY <1>3, <1>4, <1>5, <1>6, <2>2, <3>1
  <2> QED
    BY <2>1, <2>2
<1>11. ASSUME NEW x \in Ids, kind'[x] # "none" PROVE OwedId(x)'
  <2>1. CASE x = id
    BY <1>7, <2>1 DEF OwedId
  <2>2. CASE x # id
    <3>1. OwedId(x)
      BY <1>5, <1>11, <2>2 DEF Owed
    <3>2. x \in Asked => x + MaxIds \in Ids /\ x + MaxIds # id
      BY <1>1, IdFacts
    <3> QED
      BY <1>3, <1>5, <1>8, <3>1, <3>2 DEF OwedId
  <2> QED
    BY <2>1, <2>2
<1> QED
  BY <1>10, <1>11 DEF Owed

LEMMA SendOwed ==
  ASSUME TellInv, Owed, NEW c \in Callers, Send(c)
  PROVE  Owed'
<1>1. PICK id \in Asked : id = cur[c]
  BY DEF Send, TellInv, HasId
<1>2. /\ wire' \in {wire, wire \union {id}} /\ lost' \in {lost, lost \union {id}}
      /\ id \in wire' \/ id \in lost'
      /\ UNCHANGED <<kind, cur, track, answers, odd, overtaken, told>>
      /\ pc' = [pc EXCEPT ![c] = IF kind[cur[c]] \in Tracked THEN "track" ELSE "idle"]
  BY <1>1 DEF Send, Put
<1>3. /\ kind[cur[c]] \in Tracked => pc'[c] = "track"
      /\ pc'[c] # "send" /\ \A d \in Callers \ {c} : pc'[d] = pc[d]
  BY <1>2 DEF TellInv, TypeOK
<1>4. ~Quiet(id)
  BY <1>1 DEF Send, Quiet
<1>5. \A x : ~Quiet(x) => ~Quiet(x)' \/ x \in lost'
  BY <1>1, <1>2, <1>3 DEF Quiet
<1>6. \A x : ~Quiet(x)' => ~Quiet(x)
  BY <1>2, <1>3, <1>4 DEF Quiet
<1>7. \A d \in Callers : pc[d] \in {"send", "track"} /\ kind[cur[d]] \in Tracked =>
        pc'[d] \in {"send", "track"} /\ cur'[d] = cur[d]
  BY <1>2, <1>3
<1> QED
  BY <1>2, <1>5, <1>6, <1>7, NothingHandled

LEMMA TrackOwed ==
  ASSUME TellInv, Owed, NEW c \in Callers, Track(c)
  PROVE  Owed'
<1>1. /\ track' = [track EXCEPT ![kind[cur[c]]] = @ \union {cur[c]}]
      /\ UNCHANGED <<kind, cur, told, wire, answers, odd, lost, overtaken>>
  BY DEF Track, net
<1>2. pc[c] = "track" /\ pc'[c] = "idle" /\ \A d \in Callers \ {c} : pc'[d] = pc[d]
  BY DEF Track, TellInv, TypeOK
<1>3. \A x : Quiet(x)' <=> Quiet(x)
  BY <1>1, <1>2 DEF Quiet
<1>4. /\ \A k \in Tracked : track[k] \subseteq track'[k]
      /\ kind[cur[c]] \in Tracked => cur[c] \in track'[kind[cur[c]]]
  BY <1>1 DEF TellInv, TypeOK
<1> QED
  BY <1>1, <1>2, <1>3, <1>4, NothingHandled

\* An answer that is done with: its request has been told, or the form was unusual, or
\* the answer overtook the call.
LEMMA DoneOwed ==
  ASSUME TellInv, Owed, NEW a \in answers, answers' = answers \ {a},
         UNCHANGED <<kind, pc, cur, wire, odd, lost>>, overtaken \subseteq overtaken',
         \A k \in Tracked : track[k] \ {a.id} \subseteq track'[k],
         \A r : (\E j \in DOMAIN told : told[j].request = r)
                => \E j \in DOMAIN told' : told'[j].request = r,
         \/ a.id \in odd \union overtaken'
         \/ \E j \in DOMAIN told' : told'[j].request = Root(a.id)
  PROVE  Owed'
<1>1. Quiet(a.id)'
  BY AnswerFacts DEF Quiet
<1>2. \A x : ~Quiet(x) /\ x # a.id => ~Quiet(x)'
  BY DEF Quiet
<1>3. \A x : ~Quiet(x)' => ~Quiet(x) /\ x # a.id
  BY <1>1 DEF Quiet
<1>4. Entered'
  <2> SUFFICES ASSUME NEW x \in Ids, ~Quiet(x)', kind[x] \in Tracked
               PROVE  \/ x \in track'[kind[x]]
                      \/ \E d \in Callers : pc[d] \in {"send", "track"} /\ cur[d] = x
    BY DEF Entered
  <2> QED
    BY <1>3 DEF Owed, Entered
<1>5. ASSUME NEW x \in Ids, kind[x] # "none" PROVE OwedId(x)'
  <2>1. OwedId(x)
    BY <1>5 DEF Owed
  <2>2. CASE x = a.id
    BY <2>2 DEF OwedId
  <2>3. CASE x # a.id
    BY <1>2, <2>1, <2>3 DEF OwedId
  <2> QED
    BY <2>2, <2>3
<1> QED
  BY <1>4, <1>5 DEF Owed

\* Nobody passes on an answer of the usual form only if it came before its entry.
LEMMA UnknownOwed ==
  ASSUME TellInv, Held, Owed, NEW a \in answers, HandleUnknown(a)
  PROVE  Owed'
<1>1. /\ answers' = answers \ {a} /\ UNCHANGED <<kind, pc, cur, track, wire, odd, lost, told>>
      /\ overtaken \subseteq overtaken'
      /\ \A c \in Callers : pc[c] = "track" /\ cur[c] = a.id => a.id \in overtaken'
  BY DEF HandleUnknown, Handled
<1>2. a.id \in odd \union overtaken'
  <2> SUFFICES ASSUME a.id \notin odd, \A c \in Callers : pc[c] = "track" => cur[c] # a.id
               PROVE  FALSE
    BY <1>1
  <2>1. /\ a.id \in Ids /\ ~Quiet(a.id) /\ kind[a.id] # "none"
        /\ \A c \in Callers : pc[c] = "send" => cur[c] # a.id
    BY AnswerFacts
  <2>2. a.id \in handlers
    BY <2>1 DEF Held
  <2>3. kind[a.id] \in Tracked => a.id \in track[kind[a.id]]
    BY <2>1 DEF Owed, Entered
  <2>4. [ok |-> a.ok, ps |-> a.ps] \in Usual /\ (kind[a.id] = "load" => a.ps = "items")
    BY DEF Held
  <2>5. a.ps = "items" \/ (a.ok /\ a.ps = "none")
    BY <2>4 DEF Usual
  <2>6. kind[a.id] \in Publish \union {"delete", "load"}
    BY <2>1 DEF TellInv, TypeOK, Kind, Publish
  <2>7. Passed(a)
    BY <2>2, <2>4, <2>5, <2>6 DEF Passed, FromSubclass, FromManager, Tracked
  <2> QED
    BY <2>3, <2>4, <2>7 DEF HandleUnknown
<1> QED
  BY <1>1, <1>2, DoneOwed

LEMMA OutcomeOwedStep ==
  ASSUME TellInv, Owed, NEW a \in answers, HandleOutcome(a)
  PROVE  Owed'
<1> DEFINE new == [request |-> Root(a.id), ok |-> a.ok]
<1>1. /\ answers' = answers \ {a} /\ told' = Append(told, new)
      /\ UNCHANGED <<kind, pc, cur, wire, odd, lost, overtaken>>
      /\ track' = [k \in Tracked |-> track[k] \ {a.id}]
  BY DEF HandleOutcome, Handled, Tell
<1>2. new \in [request : Asked, ok : BOOLEAN] /\ new.request = Root(a.id)
  BY AnswerFacts, IdFacts
<1> HIDE DEF new
<1>3. told \in Seq([request : Asked, ok : BOOLEAN])
  BY DEF TellInv, TypeOK
<1>4. /\ DOMAIN told' = 1..(Len(told) + 1) /\ Len(told) \in Nat /\ DOMAIN told = 1..Len(told)
      /\ \A j \in DOMAIN told : told'[j] = told[j]
      /\ told'[Len(told) + 1] = new
  BY <1>1, <1>2, <1>3, AppendProperties, LenProperties
<1>5. \A j \in DOMAIN told : j \in DOMAIN told' /\ told'[j] = told[j]
  BY <1>4
<1>6. Len(told) + 1 \in DOMAIN told' /\ told'[Len(told) + 1].request = Root(a.id)
  BY <1>2, <1>4
<1>7. \A k \in Tracked : track[k] \ {a.id} \subseteq track'[k]
  BY <1>1
<1> QED
  BY <1>1, <1>5, <1>6, <1>7, DoneOwed

\* The second half of an avatar is entered and sent by the handler of the first.
LEMMA AvatarDataOwed ==
  ASSUME TellInv, Owed, NEW a \in answers, HandleAvatarData(a)
  PROVE  Owed'
<1>1. PICK i, id : i = a.id /\ id = a.id + MaxIds
  OBVIOUS
<1>2. /\ kind' = [kind EXCEPT ![id] = "metadata"] /\ answers' = answers \ {a}
      /\ wire' \in {wire, wire \union {id}} /\ lost' \in {lost, lost \union {id}}
      /\ id \in wire' \/ id \in lost'
      /\ track' = [track EXCEPT !["avatar"] = @ \ {i}, !["metadata"] = @ \union {id}]
      /\ UNCHANGED <<pc, cur, odd, overtaken, told>> /\ kind[i] = "avatar"
  BY <1>1 DEF HandleAvatarData, Handled
<1>3. i \in Asked
  <2> SUFFICES ASSUME NEW r \in Asked, i = r + MaxIds PROVE FALSE
    BY <1>1, AnswerFacts, IdFacts
  <2> QED
    BY <1>1, <1>2, AnswerFacts DEF TellInv, Begun
<1>4. id \in Ids /\ i \in Ids /\ i # id /\ kind[id] = "none" /\ Quiet(id)
  BY <1>1, <1>3, IdFacts, AnswerFacts DEF TellInv, Begun
<1>5. \A x \in Ids : kind'[x] = IF x = id THEN "metadata" ELSE kind[x]
  BY <1>2 DEF TellInv, TypeOK
<1>6. Quiet(i)'
  BY <1>1, <1>2, <1>4, AnswerFacts DEF Quiet
<1>7. \A x : ~Quiet(x) /\ x # i => ~Quiet(x)' /\ x # id
  BY <1>1, <1>2, <1>4 DEF Quiet
<1>8. \A x : ~Quiet(x)' => x # i /\ (x = id \/ ~Quiet(x))
  BY <1>2, <1>6 DEF Quiet
<1>9. ~Quiet(id)' \/ id \in lost'
  BY <1>2 DEF Quiet
<1>10. /\ id \in track'["metadata"]
       /\ \A k \in Tracked : \A x \in track[k] : x # i => x \in track'[k]
  BY <1>2 DEF TellInv, TypeOK, Tracked, Publish
<1>11. Entered'
  <2> SUFFICES ASSUME NEW x \in Ids, ~Quiet(x)', kind'[x] \in Tracked
               PROVE  \/ x \in track'[kind'[x]]
                      \/ \E d \in Callers : pc'[d] \in {"send", "track"} /\ cur'[d] = x
    BY DEF Entered
  <2>1. CASE x = id
    BY <1>5, <1>10, <2>1
  <2>2. CASE x # id
    <3>1. x # i /\ ~Quiet(x) /\ kind'[x] = kind[x]
      BY <1>5, <1>8, <2>2
    <3>2. \/ x \in track[kind[x]]
          \/ \E d \in Callers : pc[d] \in {"send", "track"} /\ cur[d] = x
      BY <3>1 DEF Owed, Entered
    <3> QED
      BY <1>2, <1>10, <3>1, <3>2
  <2> QED
    BY <2>1, <2>2
<1>12. ASSUME NEW x \in Ids, kind'[x] # "none" PROVE OwedId(x)'
  <2>1. CASE x = id
    BY <1>9, <2>1 DEF OwedId
  <2>2. CASE x = i
    BY <1>1, <1>3, <1>4, <1>5, <2>2 DEF OwedId
  <2>3. CASE x # id /\ x # i
    <3>1. OwedId(x)
      BY <1>5, <1>12, <2>3 DEF Owed
    <3>2. x \in Asked => x + MaxIds \in Ids
      BY IdFacts
    <3> QED
      BY <1>2, <1>5, <1>7, <2>3, <3>1, <3>2 DEF OwedId
  <2> QED
    BY <2>1, <2>2, <2>3
<1> QED
  BY <1>11, <1>12 DEF Owed

LEMMA AnswerOwed ==
  ASSUME TellInv, Owed, Answer
  PROVE  Owed'
<1>1. PICK id \in wire, f \in [ok : BOOLEAN, ps : Payload] :
        /\ answers' = answers \union {[id |-> id, ok |-> f.ok, ps |-> f.ps]}
        /\ odd' \in {odd, odd \union {id}} /\ wire' = wire \ {id}
  BY DEF Answer
<1>2. UNCHANGED <<kind, pc, cur, track, lost, overtaken, told>>
  BY DEF Answer, maps
<1> DEFINE new == [id |-> id, ok |-> f.ok, ps |-> f.ps]
<1>3. new.id = id
  OBVIOUS
<1>4. answers' = answers \union {new}
  BY <1>1
<1> HIDE DEF new
<1>5. \A x : Quiet(x)' <=> Quiet(x)
  BY <1>1, <1>2, <1>3, <1>4 DEF Quiet
<1>6. odd \subseteq odd'
  BY <1>1
<1> QED
  BY <1>2, <1>5, <1>6, NothingHandled

LEMMA DropOwed ==
  ASSUME TellInv, Owed, Drop
  PROVE  Owed'
<1>1. PICK kept \in SUBSET answers :
        answers' = kept /\ lost' = lost \union wire \union {a.id : a \in answers \ kept}
  BY DEF Drop
<1>2. wire' = {} /\ UNCHANGED <<kind, pc, cur, track, odd, overtaken, told>>
  BY DEF Drop, maps
<1>3. \A x : ~Quiet(x) => ~Quiet(x)' \/ x \in lost'
  BY <1>1, <1>2 DEF Quiet
<1>4. \A x : ~Quiet(x)' => ~Quiet(x)
  BY <1>1, <1>2 DEF Quiet
<1> QED
  BY <1>1, <1>2, <1>3, <1>4, NothingHandled

LEMMA StepKeepsOwed ==
  ASSUME TellInv, Held, Owed, [Next]_vars
  PROVE  Owed'
<1>1. ASSUME NEW c \in Callers, Ask(c) \/ Caller(c) PROVE Owed'
  BY <1>1, AskOwed, SendOwed, TrackOwed DEF Caller
<1>2. CASE Receiver
  BY <1>2, AvatarDataOwed, OutcomeOwedStep, UnknownOwed DEF Receiver
<1>3. CASE Answer
  BY <1>3, AnswerOwed
<1>4. CASE Drop
  BY <1>4, DropOwed
<1>5. CASE Reconnect \/ UNCHANGED vars
  <2>1. UNCHANGED <<kind, pc, cur, track, wire, answers, odd, lost, overtaken, told>>
    BY <1>5 DEF Reconnect, vars, maps, net
  <2>2. \A x : Quiet(x)' <=> Quiet(x)
    BY <2>1 DEF Quiet
  <2> QED
    BY <2>1, <2>2, NothingHandled
<1> QED
  BY <1>1, <1>2, <1>3, <1>4, <1>5 DEF Next, Finished

LEMMA AlwaysOwed == Spec => []Owed
<1>1. TellInv /\ Held /\ Owed /\ [Next]_vars => Owed'
  BY StepKeepsOwed
<1> QED
  BY <1>1, InitOwed, TellInvariant, AlwaysHeld, PTL DEF Spec

\* No request is forgotten on its way through the three maps: until the listener is told
\* of it, it, its answer or its second half is under way, or it was lost with a
\* connection, or answered oddly, or its answer overtook the call.
THEOREM RequestsInHand == Spec => []OutcomeOwed
<1>1. TellInv /\ Owed => OutcomeOwed
  <2> SUFFICES ASSUME TellInv, Owed, NEW i \in Asked, kind[i] # "none"
               PROVE  ToldOf(i) # {} \/ Missed(i) \/ UnderWay(i) \/ UnderWay(i + MaxIds)
    BY DEF OutcomeOwed
  <2>1. \A x : ~Quiet(x) => UnderWay(x)
    BY DEF Quiet, UnderWay
  <2>2. i \in Ids /\ i + MaxIds \in Ids /\ Root(i) = i /\ Root(i + MaxIds) = i /\ i + MaxIds \notin Asked
    BY IdFacts
  <2>3. OwedId(i) /\ (kind[i + MaxIds] = "metadata" => OwedId(i + MaxIds))
    BY <2>2 DEF Owed
  <2> QED
    BY <2>1, <2>2, <2>3 DEF OwedId, ToldOf, Missed
<1> QED
  BY <1>1, AlwaysOwed, TellInvariant, PTL

\* Of the usual answers that have been handled, exactly those that overtook the call that
\* asked are never told to the listener; every other one has been told, or its avatar has
\* gone on to the metadata.
THEOREM AnswersAreTold == Spec => []OnlyOvertakenUntold
<1>1. TellInv /\ Owed /\ Silent => OnlyOvertakenUntold
  <2> SUFFICES ASSUME TellInv, Owed, Silent, NEW i \in Asked, verdict[i] # "none",
                      i \notin lost \union odd, \A a \in answers : a.id # i
               PROVE  i \in overtaken <=> ToldOf(i) = {} /\ kind[i + MaxIds] # "metadata"
    BY DEF OnlyOvertakenUntold
  <2>1. i \in Ids /\ Root(i) = i
    BY IdFacts
  <2>2. kind[i] # "none"
    BY <2>1 DEF TellInv, Begun
  <2>3. Quiet(i)
    BY DEF Quiet, TellInv, Decided
  <2>4. i \notin overtaken => ToldOf(i) # {} \/ kind[i + MaxIds] = "metadata"
    BY <2>1, <2>2, <2>3 DEF Owed, OwedId, ToldOf
  <2>5. i \in overtaken => ToldOf(i) = {} /\ kind[i + MaxIds] = "none"
    BY DEF Silent, SilentId, ToldOf
  <2> QED
    BY <2>4, <2>5
<1> QED
  BY <1>1, AlwaysOwed, AlwaysSilent, TellInvariant, PTL

=============================================================================
