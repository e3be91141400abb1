---------------------------- MODULE PubSubTracking ----------------------------
(***************************************************************************)
(* The publish-subscribe requests of kl::XmppStack (nickname, avatar,      *)
(* microblog, change notifications, loading an avatar) and how an answer   *)
(* finds its way back to the listener.  A request leaves three traces:     *)
(* m_iqIDHandlers in ClientBase, m_resultHandlerTrackMap in the            *)
(* PubSub::Manager, and, only when the IQ has been sent, an entry in one   *)
(* of the facade's own track maps.  An answer goes through all three.      *)
(*                                                                         *)
(* Callers are application threads; the receiver handles one answer at a   *)
(* time.  The facade's maps have no mutex; one access is one step here.    *)
(* An entry with an empty value counts as absent in every test the code    *)
(* makes, so empty entries (operator[] leaves them behind) are not kept.   *)
(***************************************************************************)
EXTENDS Naturals, Sequences, FiniteSets

CONSTANTS
  Callers,   \* the application threads
  Kinds,     \* the requests they make in this instance
  MaxIds,    \* bound: requests made by callers
  MaxDrops   \* bound: connections lost

\* "metadata" is the second half of "avatar", sent by the receiver.
Kind     == {"nickname", "microblog", "avatar", "metadata", "personal", "address",
             "delete", "load"}
Publish  == {"nickname", "microblog", "avatar", "metadata", "personal", "address"}
Tracked  == Publish \union {"delete"}

\* The payload of an answer: none, a <pubsub/> without items, or with items
\* (the published item id, the loaded item, or the request that is echoed in
\* an error).
Payload  == {"none", "empty", "items"}

\* The answers XEP-0060 describes: a bare result, a result with the item, and an
\* error that echoes the request.  A server may send any other form.
Usual == {[ok |-> TRUE, ps |-> "none"], [ok |-> TRUE, ps |-> "items"],
          [ok |-> FALSE, ps |-> "items"]}

ASSUME TrackingAssumption ==
  /\ Kinds \subseteq Kind \ {"metadata"}
  /\ MaxIds \in Nat /\ MaxDrops \in Nat

\* The ids are fresh: ClientBase::getID counts on 31 random bits.  The metadata
\* request that follows avatar request i has the id i + MaxIds.
Asked == 1..MaxIds
Ids   == 1..(2 * MaxIds)
Root(id) == IF id > MaxIds THEN id - MaxIds ELSE id

VARIABLES
  up,          \* the connection is StateConnected
  nextId,      \* the next id
  kind,        \* per id: what was asked, "none" so far
  pc, cur,     \* per caller: where it is in the call, and its id
  iqHandlers,  \* the ids in ClientBase::m_iqIDHandlers
  handlers,    \* the ids in Manager::m_resultHandlerTrackMap
  track,       \* per tracked kind: the ids in the facade's map or list
  wire,        \* requests under way to the server
  answers,     \* answers under way to the client
  verdict,     \* history: what the server decided on each id
  odd,         \* history: ids answered in an unusual form
  lost,        \* history: ids whose request or answer never arrived
  overtaken,   \* history: ids whose answer was handled while the call that asked
               \* had still to note them
  told,        \* history: what the listener has been told, [request, ok]
  drops

maps == <<iqHandlers, handlers, track>>
net  == <<up, wire, answers, verdict, odd, lost, overtaken, drops>>
vars == <<nextId, kind, pc, cur, maps, net, told>>

TypeOK ==
  /\ up \in BOOLEAN /\ nextId \in 1..(MaxIds + 1) /\ drops \in 0..MaxDrops
  /\ kind \in [Ids -> Kind \union {"none"}]
  /\ pc \in [Callers -> {"idle", "send", "track"}] /\ cur \in [Callers -> Ids \union {0}]
  /\ iqHandlers \subseteq Ids /\ handlers \subseteq Ids
  /\ track \in [Tracked -> SUBSET Ids]
  /\ wire \subseteq Ids /\ answers \subseteq [id : Ids, ok : BOOLEAN, ps : Payload]
  /\ verdict \in [Ids -> {"none", "yes", "no"}] /\ lost \subseteq Ids /\ odd \subseteq Ids
  /\ overtaken \subseteq Ids
  /\ told \in Seq([request : Asked, ok : BOOLEAN])

Init ==
  /\ up = TRUE /\ nextId = 1 /\ drops = 0
  /\ kind = [i \in Ids |-> "none"]
  /\ pc = [c \in Callers |-> "idle"] /\ cur = [c \in Callers |-> 0]
  /\ iqHandlers = {} /\ handlers = {} /\ track = [k \in Tracked |-> {}]
  /\ wire = {} /\ answers = {}
  /\ verdict = [i \in Ids |-> "none"] /\ odd = {} /\ lost = {}
  /\ overtaken = {}
  /\ told = <<>>

-----------------------------------------------------------------------------
(* A call of the facade: Manager::publishItem and its kin, then the entry. *)

\* getID() and m_resultHandlerTrackMap.  Only publishNickname asks isLogined().
Ask(c) ==
  /\ pc[c] = "idle" /\ nextId <= MaxIds
  /\ \E k \in Kinds :
       /\ k = "nickname" => up
       /\ kind' = [kind EXCEPT ![nextId] = k]
  /\ handlers' = handlers \union {nextId}
  /\ cur' = [cur EXCEPT ![c] = nextId] /\ pc' = [pc EXCEPT ![c] = "send"]
  /\ nextId' = nextId + 1
  /\ UNCHANGED <<iqHandlers, track, net, told>>

\* ClientBase::send(IQ&, IqHandler*, int): a stanza for a connection that is
\* down is dropped without a word.
Put(id) ==
  /\ iqHandlers' = iqHandlers \union {id}
  /\ wire' = IF up THEN wire \union {id} ELSE wire
  /\ lost' = IF up THEN lost ELSE lost \union {id}

Send(c) ==
  /\ pc[c] = "send"
  /\ Put(cur[c])
  /\ pc' = [pc EXCEPT ![c] = IF kind[cur[c]] \in Tracked THEN "track" ELSE "idle"]
  /\ UNCHANGED <<nextId, kind, cur, handlers, track, up, answers, verdict, odd, overtaken,
                 drops, told>>

\* The entry in the facade's own map, when publishItem() has returned.
Track(c) ==
  /\ pc[c] = "track"
  /\ track' = [track EXCEPT ![kind[cur[c]]] = @ \union {cur[c]}]
  /\ pc' = [pc EXCEPT ![c] = "idle"]
  /\ UNCHANGED <<nextId, kind, cur, iqHandlers, handlers, net, told>>

-----------------------------------------------------------------------------
(* The receiver: ClientBase::notifyIqHandlers, kl::PubSubManager and       *)
(* PubSub::Manager::handleIqID, and the handlers of the facade.            *)

\* Mutant of FromSubclass: without it, as in the library that kl extends.
FromSubclassNot(a) == FALSE

\* kl::PubSubManager passes on a bare result of a publication or deletion.
FromSubclass(a) == kind[a.id] \in Tracked /\ a.ok /\ a.ps = "none"

\* Mutant of FromManager: an error is not passed on.
FromManagerNoError(a) ==
  /\ a.id \in handlers /\ a.ok
  /\ \/ kind[a.id] \in Publish /\ a.ps = "items"
     \/ kind[a.id] \in {"delete", "load"} /\ a.ps # "none"

\* Manager::handleIqID passes on an answer, or an error, that has a payload.
FromManager(a) ==
  /\ a.id \in handlers
  /\ \/ kind[a.id] \in Publish /\ a.ps = "items"
     \/ kind[a.id] \in {"delete", "load"} /\ a.ps # "none"

Passed(a) == FromSubclass(a) \/ FromManager(a)

\* Both are through with the id when the answer has been handled.
Forget(id) == handlers' = handlers \ {id}

Tell(a) == told' = Append(told, [request |-> Root(a.id), ok |-> a.ok])

Handled(a) ==
  /\ a \in answers
  /\ answers' = answers \ {a}

\* Avatar data is stored: the metadata is published from inside the handler.
HandleAvatarData(a) ==
  /\ Handled(a) /\ kind[a.id] = "avatar" /\ a.ok
  /\ Passed(a) /\ a.id \in track["avatar"]
  /\ LET id == a.id + MaxIds IN
     /\ kind' = [kind EXCEPT ![id] = "metadata"]
     /\ handlers' = (handlers \ {a.id}) \union {id}
     /\ iqHandlers' = (iqHandlers \union {id}) \ {a.id}
     /\ wire' = IF up THEN wire \union {id} ELSE wire
     /\ lost' = IF up THEN lost ELSE lost \union {id}
     /\ track' = [track EXCEPT !["avatar"] = @ \ {a.id}, !["metadata"] = @ \union {id}]
  /\ UNCHANGED <<nextId, pc, cur, up, verdict, odd, overtaken, drops, told>>

\* Mutant of HandleOutcome: an avatar counts as published with its data.
HandleOutcomeEarly(a) ==
  /\ Handled(a) /\ Passed(a) /\ a.id \in UNION {track[k] : k \in Tracked}
  /\ IF kind[a.id] = "metadata" THEN told' = told \o <<[request |-> Root(a.id), ok |-> a.ok],
                                                      [request |-> Root(a.id), ok |-> a.ok]>>
                                ELSE Tell(a)
  /\ track' = [k \in Tracked |-> track[k] \ {a.id}]
  /\ Forget(a.id) /\ iqHandlers' = iqHandlers \ {a.id}
  /\ UNCHANGED <<nextId, kind, pc, cur, up, wire, verdict, odd, lost, overtaken, drops>>

\* Mutant of HandleOutcome: error_ is not looked at for the metadata.
HandleOutcomeBlind(a) ==
  /\ Handled(a) /\ Passed(a)
  /\ kind[a.id] = "avatar" => ~a.ok
  /\ kind[a.id] \in Tracked => a.id \in track[kind[a.id]]
  /\ told' = Append(told, [request |-> Root(a.id), ok |-> a.ok \/ kind[a.id] = "metadata"])
  /\ track' = [k \in Tracked |-> track[k] \ {a.id}]
  /\ Forget(a.id) /\ iqHandlers' = iqHandlers \ {a.id}
  /\ UNCHANGED <<nextId, kind, pc, cur, up, wire, verdict, odd, lost, overtaken, drops>>

\* Mutant of HandleOutcome: the entry goes only when the request succeeded.
HandleOutcomeLeaves(a) ==
  /\ Handled(a) /\ Passed(a)
  /\ kind[a.id] = "avatar" => ~a.ok
  /\ kind[a.id] \in Tracked => a.id \in track[kind[a.id]]
  /\ Tell(a)
  /\ track' = IF a.ok THEN [k \in Tracked |-> track[k] \ {a.id}] ELSE track
  /\ Forget(a.id) /\ iqHandlers' = iqHandlers \ {a.id}
  /\ UNCHANGED <<nextId, kind, pc, cur, up, wire, verdict, odd, lost, overtaken, drops>>

\* handleItemPublication, handleItemDeletion, handleItems: the listener is told
\* and the entry goes.
HandleOutcome(a) ==
  /\ Handled(a) /\ Passed(a)
  /\ kind[a.id] = "avatar" => ~a.ok
  /\ kind[a.id] \in Tracked => a.id \in track[kind[a.id]]
  /\ kind[a.id] = "load" /\ a.ok => a.ps = "items"
  /\ Tell(a)
  /\ track' = [k \in Tracked |-> track[k] \ {a.id}]
  /\ Forget(a.id) /\ iqHandlers' = iqHandlers \ {a.id}
  /\ UNCHANGED <<nextId, kind, pc, cur, up, wire, verdict, odd, lost, overtaken, drops>>

\* Nobody passes the answer on, or the facade has no entry for it: not any more, or not
\* yet, for the entry is made after the request was sent.
HandleUnknown(a) ==
  /\ Handled(a)
  /\ \/ ~Passed(a)
     \/ kind[a.id] \in Tracked /\ a.id \notin track[kind[a.id]]
     \/ kind[a.id] = "load" /\ a.ok /\ a.ps # "items"
  /\ Forget(a.id) /\ iqHandlers' = iqHandlers \ {a.id}
  /\ overtaken' = IF \E c \in Callers : pc[c] = "track" /\ cur[c] = a.id
                  THEN overtaken \union {a.id} ELSE overtaken
  /\ UNCHANGED <<nextId, kind, pc, cur, track, up, wire, verdict, odd, lost, drops, told>>

-----------------------------------------------------------------------------
(* The server, and the connection.                                         *)

Answer ==
  /\ \E id \in wire, f \in [ok : BOOLEAN, ps : Payload] :
       /\ answers' = answers \union {[id |-> id, ok |-> f.ok, ps |-> f.ps]}
       /\ verdict' = [verdict EXCEPT ![id] = IF f.ok THEN "yes" ELSE "no"]
       /\ odd' = IF f \in Usual /\ (kind[id] = "load" => f.ps = "items")
                    THEN odd ELSE odd \union {id}
       /\ wire' = wire \ {id}
  /\ UNCHANGED <<nextId, kind, pc, cur, maps, up, lost, overtaken, drops, told>>

\* The connection is lost; the receiver may still hold one answer.  Nothing of
\* the three maps is cleared.
Drop ==
  /\ up /\ drops < MaxDrops
  /\ drops' = drops + 1 /\ up' = FALSE /\ wire' = {}
  /\ \E kept \in SUBSET answers :
       /\ Cardinality(kept) <= 1
       /\ answers' = kept
       /\ lost' = lost \union wire \union {a.id : a \in answers \ kept}
  /\ UNCHANGED <<nextId, kind, pc, cur, maps, verdict, odd, overtaken, told>>

Reconnect ==
  /\ ~up /\ up' = TRUE
  /\ UNCHANGED <<nextId, kind, pc, cur, maps, wire, answers, verdict, odd, lost, overtaken,
                 drops, told>>

Caller(c) == Send(c) \/ Track(c)
Receiver == \E a \in answers :
              HandleAvatarData(a) \/ HandleOutcome(a) \/ HandleUnknown(a)

Finished ==
  /\ nextId > MaxIds /\ wire = {} /\ answers = {} /\ \A c \in Callers : pc[c] = "idle"
  /\ UNCHANGED vars

Next ==
  \/ \E c \in Callers : Ask(c) \/ Caller(c)
  \/ Receiver \/ Answer \/ Drop \/ Reconnect \/ Finished

Spec == Init /\ [][Next]_vars

\* Threads are scheduled, and the server answers every request it gets.
FairSpec == Spec /\ (\A c \in Callers : WF_vars(Caller(c))) /\ WF_vars(Receiver)
                 /\ WF_vars(Answer)

-----------------------------------------------------------------------------
(* Properties.                                                             *)

ToldOf(i) == {j \in DOMAIN told : told[j].request = i}

\* Each request is told to have succeeded or failed once and for good, although
\* an answer passes two handleIqID() methods and an avatar needs two requests.
PC == INSTANCE PublishContract WITH
        Requests <- Asked,
        outcome <- [i \in Asked |->
                      IF kind[i] = "none" THEN "none"
                      ELSE IF ToldOf(i) = {} THEN "asked"
                      ELSE IF Cardinality(ToldOf(i)) > 1 THEN "again"
                      ELSE IF told[CHOOSE j \in ToldOf(i) : TRUE].ok THEN "ok" ELSE "failed"]
ImplementsContract == PC!Spec

\* The listener is told the truth: success only of what the server has
\* accepted, both halves of an avatar, and failure only of what it refused.
ToldTruth ==
  \A j \in DOMAIN told :
    LET i == told[j].request  v == {verdict[i], verdict[i + MaxIds]} IN
    IF told[j].ok THEN /\ v \subseteq {"yes", "none"} /\ verdict[i] = "yes"
                       /\ kind[i] = "avatar" => verdict[i + MaxIds] = "yes"
                  ELSE "no" \in v

\* A request that is answered and done with is in none of the maps of the stack any
\* more; the facade keeps the entry of one whose answer overtook the call, for good,
\* and may keep that of an answer of unusual form, but no other.
NoLeftover ==
  \A id \in Ids :
    (/\ verdict[id] # "none" /\ id \notin lost
     /\ \A a \in answers : a.id # id
     /\ \A c \in Callers : pc[c] # "idle" => cur[c] # id)
    => /\ id \notin iqHandlers \union handlers
       /\ id \notin odd => (id \in UNION {track[k] : k \in Tracked} <=> id \in overtaken)

\* Why the listener may never be told of a request: it or its answer was lost with the
\* connection, the answer was of an unusual form, or it overtook the call.
Missed(i) == {i, i + MaxIds} \intersect (lost \union odd \union overtaken) # {}

\* The listener is told of every other request.
OutcomeTold == \A i \in Asked : kind[i] # "none" ~> ToldOf(i) # {} \/ Missed(i)

\* "Tells that the nickname was published" (and its kin): an answer that has been
\* handled has been told, or its avatar goes on to the metadata.  Not so, and in no
\* run: OnlyOvertakenUntold says when.
AnsweredIsTold ==
  \A i \in Asked :
    (verdict[i] # "none" /\ i \notin lost \union odd /\ \A a \in answers : a.id # i)
      => ToldOf(i) # {} \/ kind[i + MaxIds] = "metadata"

\* Of the usual answers that have been handled, those that overtook the call are never
\* told, however long one waits, and all others have been told at once.
OnlyOvertakenUntold ==
  \A i \in Asked :
    (verdict[i] # "none" /\ i \notin lost \union odd /\ \A a \in answers : a.id # i)
      => (i \in overtaken <=> ToldOf(i) = {} /\ kind[i + MaxIds] # "metadata")

\* What OutcomeTold rests on: until the listener is told of a request, the request or
\* its answer is under way, for the first or the second half of an avatar, unless it is
\* Missed.  No request is forgotten on the way in any other manner.
UnderWay(id) == \/ id \in wire
                \/ \E a \in answers : a.id = id
                \/ \E c \in Callers : pc[c] = "send" /\ cur[c] = id

OutcomeOwed ==
  \A i \in Asked : kind[i] # "none" =>
    \/ ToldOf(i) # {} \/ Missed(i)
    \/ UnderWay(i) \/ UnderWay(i + MaxIds)

=============================================================================
