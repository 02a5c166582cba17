-------------------------- MODULE PublicViewProofs --------------------------
(***************************************************************************)
(* Proofs about the realtime hub and the readers of the API, for any rows, *)
(* keys, lists, page sizes, numbers of connections, capacities and         *)
(* failures.                                                               *)
(*                                                                         *)
(*  - The hub.  NoSecondClose alone is not inductive: that the channel of  *)
(*    a client is open when its reaper comes, or the hub stops, depends on *)
(*    who else may have closed it.  The invariant adds that exactly the    *)
(*    registered connections have a reaper that waits and an open channel, *)
(*    and that a connection whose channel the hub has not seen has         *)
(*    neither.  With the readers beside it the hub does nothing else.      *)
(*  - The details of an incident hang together.  It must be known that a   *)
(*    part has been written at least as far as it was read, however much   *)
(*    is written since, and that no version is matched before it exists:   *)
(*    the revisions, which are read last, are then those of every version  *)
(*    that another part shows.                                             *)
(*  - A walk through the pages of a list.  It must be known that what was  *)
(*    collected is what lies before the cursor, and that a row that was    *)
(*    written since it began is accounted for as such.                     *)
(*  - The client.  A row that it shows too old is either on its way, in    *)
(*    one of the queues, or was missed in a way the hub knows of.          *)
(***************************************************************************)
EXTENDS PublicView, FiniteSetTheorems, WellFoundedInduction, TLAPS

----------------------------------------------------------------------------
(* The hub by itself.                                                      *)

\* Only what the hub took and did not give back is registered.
Registered ==
  \A c \in clients :
    /\ conn[c].reaper = "waiting"
    /\ conn[c].closed = FALSE
    /\ conn[c].handler \notin {"idle", "subscribing"}

\* A channel that was never offered is open and has no reaper.
Unregistered ==
  \A c \in Conns : conn[c].handler \in {"idle", "subscribing"} =>
    conn[c].closed = FALSE /\ conn[c].reaper = "none"

TypeInv == RowsTypeOK /\ HubTypeOK

HubInv == TypeInv /\ Registered /\ Unregistered

USE RowsAssumption, HubAssumption DEF RowsAssumption, HubAssumption

----------------------------------------------------------------------------
(* Types.                                                                  *)

\* A step that loses changes for some connections keeps the reader's types.
LEMMA LoseTypes ==
  ASSUME NEW C, NEW S, S \subseteq Ids, HubTypeOK, Lose(C, S)
  PROVE  reader' \in Conns \cup {None} /\ missed' \subseteq Ids
BY DEF Lose, HubTypeOK

\* The table, the queues and the connections have their types at first.
LEMMA InitTypes == RowsInit /\ HubInit => TypeInv
<1> SUFFICES ASSUME RowsInit, HubInit PROVE TypeInv
  OBVIOUS
<1>1. RowsTypeOK
  BY DEF RowsInit, RowsTypeOK
<1>2. NewConn \in Conn
  BY DEF NewConn, Conn, Handler
<1>3. conn \in [Conns -> Conn]
  BY <1>2 DEF HubInit
<1>4. notices \in Seq(Ids) /\ queue \in Seq(Message)
  BY DEF HubInit
<1>5. faults \in 0..MaxFaults
  BY DEF HubInit
<1>6. HubTypeOK
  BY <1>3, <1>4, <1>5 DEF HubInit, HubTypeOK
<1> QED
  BY <1>1, <1>6 DEF TypeInv

\* A commit, which writes a row and notifies the listener, keeps the types.
LEMMA CommitTypes ==
  ASSUME TypeInv, NEW i \in Ids, Notify(i),
         NEW k \in Keys \cup {Null, Absent}, WriteRow(i, k)
  PROVE  TypeInv'
<1> USE DEF TypeInv
<1>1. RowsTypeOK'
  BY DEF RowsTypeOK, WriteRow
<1>2. notices' \in Seq(Ids)
  BY DEF Notify, HubTypeOK
<1>3. reader' \in Conns \cup {None} /\ missed' \subseteq Ids
  <2>1. CASE listening
    BY <2>1 DEF Notify, HubTypeOK
  <2>2. CASE ~listening
    <3>1. Lose(clients, {i})
      BY <2>2 DEF Notify
    <3> QED
      BY <3>1, LoseTypes
  <2> QED
    BY <2>1, <2>2
<1> QED
  BY <1>1, <1>2, <1>3 DEF Notify, HubTypeOK

\* The listener and the hub keep the types.
LEMMA HubStepTypes ==
  ASSUME TypeInv, HubStep, UNCHANGED rowVars
  PROVE  TypeInv'
<1> USE DEF TypeInv
<1>1. RowsTypeOK'
  BY DEF RowsTypeOK, rowVars
<1>2. CASE Listen
  BY <1>1, <1>2 DEF Listen, HubTypeOK
<1>3. CASE ConnectionBreaks
  <2>1. {notices[n] : n \in DOMAIN notices} \subseteq Ids
    BY DEF HubTypeOK
  <2>2. Lose(clients, {notices[n] : n \in DOMAIN notices})
    BY <1>3 DEF ConnectionBreaks
  <2>3. reader' \in Conns \cup {None} /\ missed' \subseteq Ids
    BY <2>1, <2>2, LoseTypes
  <2>4. notices' \in Seq(Ids)
    BY <1>3 DEF ConnectionBreaks
  <2>5. faults' \in 0..MaxFaults
    BY <1>3 DEF ConnectionBreaks, HubTypeOK
  <2> QED
    BY <1>1, <1>3, <2>3, <2>4, <2>5 DEF ConnectionBreaks, HubTypeOK
<1>4. CASE Receive
  <2>1. Head(notices) \in Ids /\ Tail(notices) \in Seq(Ids)
    BY <1>4 DEF Receive, HubTypeOK
  <2> QED
    BY <1>1, <1>4, <2>1 DEF Receive, HubTypeOK
<1>5. CASE LoadFails
  <2>1. {loading} \subseteq Ids /\ Lose(clients, {loading})
    BY <1>5 DEF LoadFails, HubTypeOK
  <2>2. reader' \in Conns \cup {None} /\ missed' \subseteq Ids
    BY <2>1, LoseTypes
  <2> QED
    BY <1>1, <1>5, <2>2 DEF LoadFails, HubTypeOK
<1>6. CASE Publish
  <2>1. loading \in Ids
    BY <1>6 DEF Publish, HubTypeOK
  <2> DEFINE m == [id |-> loading, version |-> version[loading]]
  <2>2. m \in Message
    BY <2>1 DEF Message, RowsTypeOK
  <2>3. queue' \in Seq(Message)
    <3>1. queue \in Seq(Message) /\ (queue' = Append(queue, m) \/ queue' = queue)
      BY <1>6 DEF Publish, HubTypeOK
    <3> HIDE DEF m
    <3> QED
      BY <2>2, <3>1
  <2>4. reader' \in Conns \cup {None} /\ missed' \subseteq Ids
    <3>1. CASE Lose(clients, {loading})
      <4>1. {loading} \subseteq Ids
        BY <2>1
      <4> QED
        BY <3>1, <4>1, LoseTypes
    <3>2. CASE UNCHANGED <<reader, missed>>
      BY <3>2 DEF HubTypeOK
    <3> QED
      BY <1>6, <3>1, <3>2 DEF Publish
  <2> QED
    BY <1>1, <1>6, <2>3, <2>4 DEF Publish, HubTypeOK
<1>7. CASE Broadcast
  <2>1. Head(queue) \in Message /\ Tail(queue) \in Seq(Message)
    BY <1>7 DEF Broadcast, HubTypeOK
  <2>2. reader' \in Conns \cup {None} /\ missed' \subseteq Ids
    <3>1. {Head(queue).id} \subseteq Ids
      BY <2>1 DEF Message
    <3>2. Lose({c \in clients : ~HasRoom(c)}, {Head(queue).id})
      BY <1>7 DEF Broadcast
    <3> QED
      BY <3>1, <3>2, LoseTypes
  <2>3. conn' \in [Conns -> Conn]
    <3>1. ASSUME NEW c \in Conns
          PROVE  [conn[c] EXCEPT !.buffer = Append(@, Head(queue))] \in Conn
      <4>1. conn[c] \in Conn
        BY DEF HubTypeOK
      <4>2. conn[c].buffer \in Seq(Message)
        BY <4>1 DEF Conn
      <4> DEFINE longer == Append(conn[c].buffer, Head(queue))
      <4>3. longer \in Seq(Message)
        BY <2>1, <4>2
      <4> HIDE DEF longer
      <4>4. [conn[c] EXCEPT !.buffer = longer] \in Conn
        BY <4>1, <4>3 DEF Conn
      <4> QED
        BY <4>4 DEF longer
    <3>2. ASSUME NEW c \in Conns
          PROVE  (IF c \in clients /\ HasRoom(c) /\ conn[c].handler # "done"
                  THEN [conn[c] EXCEPT !.buffer = Append(@, Head(queue))]
                  ELSE conn[c]) \in Conn
      BY <3>1, <3>2 DEF HubTypeOK
    <3> QED
      BY <1>7, <3>2 DEF Broadcast
  <2> QED
    BY <1>1, <1>7, <2>1, <2>2, <2>3 DEF Broadcast, HubTypeOK
<1>8. CASE Stop
  <2>1. reader' \in Conns \cup {None} /\ missed' \subseteq Ids
    <3>1. Lose(clients, {i \in Ids : Announced(i)})
      BY <1>8 DEF Stop
    <3> QED
      BY <3>1, LoseTypes
  <2>2. conn' \in [Conns -> Conn]
    <3>1. ASSUME NEW c \in Conns
          PROVE  [conn[c] EXCEPT !.closed = @ \/ c \in clients] \in Conn
      BY DEF HubTypeOK, Conn
    <3> QED
      BY <1>8, <3>1 DEF Stop
  <2>3. notices' \in Seq(Ids) /\ queue' \in Seq(Message)
    BY <1>8 DEF Stop
  <2> QED
    BY <1>1, <1>8, <2>1, <2>2, <2>3 DEF Stop, HubTypeOK
<1> QED
  BY <1>2, <1>3, <1>4, <1>5, <1>6, <1>7, <1>8 DEF HubStep

\* The handlers, their reapers and the hub keep the types of a connection.
LEMMA ConnStepTypes ==
  ASSUME TypeInv, NEW c \in Conns, ConnStep(c), UNCHANGED rowVars
  PROVE  TypeInv'
<1> USE DEF TypeInv
<1>1. RowsTypeOK'
  BY DEF RowsTypeOK, rowVars
<1>2. conn[c] \in Conn /\ NewConn \in Conn
  BY DEF HubTypeOK, NewConn, Conn, Handler
<1>3. CASE Connect(c)
  <2>1. [NewConn EXCEPT !.handler = "subscribing"] \in Conn
    BY <1>2 DEF Conn, Handler
  <2> QED
    BY <1>1, <1>3, <2>1 DEF Connect, HubTypeOK
<1>4. CASE Subscribe(c)
  <2>1. conn' \in [Conns -> Conn]
    BY <1>2, <1>4 DEF Subscribe, HubTypeOK, Conn, Handler
  <2> QED
    BY <1>1, <1>4, <2>1 DEF Subscribe, HubTypeOK
<1>5. CASE GiveUpSubscribing(c)
  <2>1. conn' \in [Conns -> Conn]
    BY <1>2, <1>5 DEF GiveUpSubscribing, HubTypeOK, Conn, Handler
  <2> QED
    BY <1>1, <1>5, <2>1 DEF GiveUpSubscribing, HubTypeOK
<1>6. CASE Greet(c)
  <2>1. conn' \in [Conns -> Conn]
    BY <1>2, <1>6 DEF Greet, HubTypeOK, Conn, Handler
  <2> QED
    BY <1>1, <1>6, <2>1 DEF Greet, HubTypeOK
<1>7. CASE Deliver(c)
  <2>1. Tail(conn[c].buffer) \in Seq(Message)
    BY <1>2, <1>7 DEF Deliver, Conn
  <2>2. conn' \in [Conns -> Conn]
    BY <1>2, <1>7, <2>1 DEF Deliver, HubTypeOK, Conn
  <2> QED
    BY <1>1, <1>7, <2>2 DEF Deliver, HubTypeOK
<1>8. CASE Disconnect(c)
  <2>1. conn' \in [Conns -> Conn]
    BY <1>2, <1>8 DEF Disconnect, HubTypeOK, Conn
  <2> QED
    BY <1>1, <1>8, <2>1 DEF Disconnect, HubTypeOK
<1>9. CASE Finish(c)
  <2>1. <<>> \in Seq(Message)
    OBVIOUS
  <2>2. conn' \in [Conns -> Conn]
    BY <1>2, <1>9, <2>1 DEF Finish, HubTypeOK, Conn, Handler
  <2> QED
    BY <1>1, <1>9, <2>2 DEF Finish, HubTypeOK
<1>10. CASE Unsubscribe(c)
  <2>1. (conn[c].closed \/ c \in clients) \in BOOLEAN
    OBVIOUS
  <2>2. conn' \in [Conns -> Conn]
    BY <1>2, <1>10, <2>1 DEF Unsubscribe, HubTypeOK, Conn
  <2> QED
    BY <1>1, <1>10, <2>2 DEF Unsubscribe, HubTypeOK
<1> QED
  BY <1>3, <1>4, <1>5, <1>6, <1>7, <1>8, <1>9, <1>10 DEF ConnStep

\* Every step keeps the types.
LEMMA StepTypes == TypeInv /\ [HubNext]_<<rowVars, hubVars>> => TypeInv'
<1> SUFFICES ASSUME TypeInv, [HubNext]_<<rowVars, hubVars>> PROVE TypeInv'
  OBVIOUS
<1>1. CASE \E i \in Ids : Notify(i) /\ \E k \in Keys \cup {Null, Absent} : WriteRow(i, k)
  BY <1>1, CommitTypes
<1>2. CASE HubStep /\ UNCHANGED rowVars
  BY <1>2, HubStepTypes
<1>3. CASE (\E c \in Conns : ConnStep(c)) /\ UNCHANGED rowVars
  BY <1>3, ConnStepTypes
<1>4. CASE UNCHANGED <<rowVars, hubVars>>
  BY <1>4 DEF TypeInv, RowsTypeOK, HubTypeOK, rowVars, hubVars
<1> QED
  BY <1>1, <1>2, <1>3, <1>4 DEF HubNext

----------------------------------------------------------------------------
(* Who is registered.                                                      *)

\* Of a connection, only these parts matter; a step that keeps them and the
\* hub's set keeps the invariant.
LEMMA SameRegistration ==
  ASSUME HubTypeOK, Registered, Unregistered, clients' = clients,
         \A c \in Conns : /\ conn'[c].handler = conn[c].handler
                          /\ conn'[c].reaper = conn[c].reaper
                          /\ conn'[c].closed = conn[c].closed
  PROVE  Registered' /\ Unregistered'
BY DEF HubTypeOK, Registered, Unregistered

\* What the listener and the hub do, short of stopping, registers nothing;
\* when the hub stops it closes channels of clients only, and a client's
\* handler is past the offer.
LEMMA HubStepRegistered ==
  ASSUME HubTypeOK, Registered, Unregistered, HubStep
  PROVE  Registered' /\ Unregistered'
<1>1. CASE Broadcast
  <2>1. clients' = clients
    BY <1>1 DEF Broadcast
  <2>2. ASSUME NEW c \in Conns
        PROVE  /\ conn'[c].handler = conn[c].handler
               /\ conn'[c].reaper = conn[c].reaper
               /\ conn'[c].closed = conn[c].closed
    <3>1. conn[c] \in Conn
      BY DEF HubTypeOK
    <3>2. conn'[c] = conn[c] \/ conn'[c] = [conn[c] EXCEPT !.buffer = Append(@, Head(queue))]
      BY <1>1 DEF Broadcast
    <3> QED
      BY <3>1, <3>2 DEF Conn
  <2> QED
    BY <2>1, <2>2, SameRegistration
<1>2. CASE Stop
  <2>1. clients' = {}
    BY <1>2 DEF Stop
  <2>2. ASSUME NEW c \in Conns, conn'[c].handler \in {"idle", "subscribing"}
        PROVE  conn'[c].closed = FALSE /\ conn'[c].reaper = "none"
    <3>1. conn[c] \in Conn
      BY DEF HubTypeOK
    <3>2. conn'[c] = [conn[c] EXCEPT !.closed = @ \/ c \in clients]
      BY <1>2 DEF Stop
    <3>3. /\ conn'[c].handler = conn[c].handler
          /\ conn'[c].reaper = conn[c].reaper
          /\ conn'[c].closed = (conn[c].closed \/ c \in clients)
      BY <3>1, <3>2 DEF Conn
    <3>4. conn[c].handler \in {"idle", "subscribing"}
      BY <2>2, <3>3
    <3>5. c \notin clients
      BY <3>4 DEF Registered
    <3> QED
      BY <3>3, <3>4, <3>5 DEF Unregistered
  <2> QED
    BY <2>1, <2>2 DEF Registered, Unregistered
<1>3. CASE Listen \/ ConnectionBreaks \/ Receive \/ LoadFails \/ Publish
  <2>1. clients' = clients /\ conn' = conn
    BY <1>3 DEF Listen, ConnectionBreaks, Receive, LoadFails, Publish
  <2> QED
    BY <2>1, SameRegistration
<1> QED
  BY <1>1, <1>2, <1>3 DEF HubStep

\* A connection registers only with an open channel, and its reaper takes
\* it out of the set when the channel is closed.
LEMMA ConnStepRegistered ==
  ASSUME HubTypeOK, Registered, Unregistered, NEW c \in Conns, ConnStep(c)
  PROVE  Registered' /\ Unregistered'
<1>1. conn[c] \in Conn /\ \A d \in Conns : conn[d] \in Conn
  BY DEF HubTypeOK
<1>2. ASSUME \A d \in Conns \ {c} : conn'[d] = conn[d],
             clients' \ {c} = clients \ {c},
             c \in clients' => /\ conn'[c].reaper = "waiting"
                              /\ conn'[c].closed = FALSE
                              /\ conn'[c].handler \notin {"idle", "subscribing"},
             conn'[c].handler \in {"idle", "subscribing"} =>
               conn'[c].closed = FALSE /\ conn'[c].reaper = "none"
      PROVE  Registered' /\ Unregistered'
  <2>1. clients \subseteq Conns
    BY DEF HubTypeOK
  <2>2. \A d \in clients' : d = c \/ (d \in clients /\ conn'[d] = conn[d])
    BY <1>2, <2>1
  <2> QED
    BY <1>2, <2>2 DEF Registered, Unregistered
<1>3. CASE Connect(c)
  <2>1. c \notin clients
    BY <1>3 DEF Connect, Registered
  <2>2. /\ conn'[c].handler = "subscribing"
        /\ conn'[c].reaper = "none"
        /\ conn'[c].closed = FALSE
    BY <1>3 DEF Connect, NewConn, HubTypeOK
  <2> QED
    BY <1>2, <1>3, <2>1, <2>2 DEF Connect, HubTypeOK
<1>4. CASE Subscribe(c)
  <2>1. conn'[c] = [conn[c] EXCEPT !.handler = "greeting", !.reaper = "waiting"]
    BY <1>4 DEF Subscribe, HubTypeOK
  <2>2. /\ conn'[c].handler = "greeting"
        /\ conn'[c].reaper = "waiting"
        /\ conn'[c].closed = conn[c].closed
    BY <1>1, <2>1 DEF Conn
  <2>3. conn[c].closed = FALSE
    BY <1>4 DEF Subscribe, Unregistered
  <2> QED
    BY <1>2, <1>4, <2>2, <2>3 DEF Subscribe, HubTypeOK
<1>5. CASE GiveUpSubscribing(c)
  <2>1. c \notin clients
    BY <1>5 DEF GiveUpSubscribing, Registered
  <2>2. conn'[c].handler = "greeting"
    BY <1>1, <1>5 DEF GiveUpSubscribing, HubTypeOK, Conn
  <2> QED
    BY <1>2, <1>5, <2>1, <2>2 DEF GiveUpSubscribing, HubTypeOK
<1>6. CASE Unsubscribe(c)
  <2>1. c \notin clients'
    BY <1>6 DEF Unsubscribe
  <2>2. conn'[c].handler = conn[c].handler
    BY <1>1, <1>6 DEF Unsubscribe, HubTypeOK, Conn
  <2>3. conn[c].handler \notin {"idle", "subscribing"}
    BY <1>6 DEF Unsubscribe, Unregistered
  <2> QED
    BY <1>2, <1>6, <2>1, <2>2, <2>3 DEF Unsubscribe, HubTypeOK
<1>7. CASE Greet(c) \/ Deliver(c) \/ Disconnect(c) \/ Finish(c)
  <2>1. clients' = clients /\ \A d \in Conns \ {c} : conn'[d] = conn[d]
    BY <1>7 DEF Greet, Deliver, Disconnect, Finish, HubTypeOK
  <2>2. conn'[c].reaper = conn[c].reaper /\ conn'[c].closed = conn[c].closed
    BY <1>1, <1>7 DEF Greet, Deliver, Disconnect, Finish, HubTypeOK, Conn
  <2>3. conn'[c].handler = conn[c].handler \/ conn'[c].handler \in {"reading", "done"}
    BY <1>1, <1>7 DEF Greet, Deliver, Disconnect, Finish, HubTypeOK, Conn
  <2>4. c \in clients => /\ conn[c].reaper = "waiting"
                         /\ conn[c].closed = FALSE
                         /\ conn[c].handler \notin {"idle", "subscribing"}
    BY DEF Registered
  <2>5. conn[c].handler \in {"idle", "subscribing"} =>
          conn[c].closed = FALSE /\ conn[c].reaper = "none"
    BY DEF Unregistered
  <2> QED
    BY <1>2, <2>1, <2>2, <2>3, <2>4, <2>5
<1> QED
  BY <1>3, <1>4, <1>5, <1>6, <1>7 DEF ConnStep

----------------------------------------------------------------------------
(* The theorems.                                                           *)

\* The invariant holds in every reachable state: what the hub's goroutine
\* has registered is open and has a reaper (hub.go:33-74).
THEOREM Invariance == HubSpec => []HubInv
<1>1. RowsInit /\ HubInit => HubInv
  <2> SUFFICES ASSUME RowsInit, HubInit PROVE HubInv
    OBVIOUS
  <2>1. TypeInv
    BY InitTypes
  <2>2. Registered
    BY DEF HubInit, Registered
  <2>3. Unregistered
    BY DEF HubInit, NewConn, Unregistered
  <2> QED
    BY <2>1, <2>2, <2>3 DEF HubInv
<1>2. HubInv /\ [HubNext]_<<rowVars, hubVars>> => HubInv'
  <2> SUFFICES ASSUME HubInv, [HubNext]_<<rowVars, hubVars>> PROVE HubInv'
    OBVIOUS
  <2>1. TypeInv'
    BY StepTypes DEF HubInv
  <2>2. HubTypeOK /\ Registered /\ Unregistered
    BY DEF HubInv, TypeInv
  <2>3. Registered' /\ Unregistered'
    <3>1. CASE \E i \in Ids : Notify(i)
      <4>1. clients' = clients /\ conn' = conn
        BY <3>1 DEF Notify
      <4> QED
        BY <2>2, <4>1, SameRegistration
    <3>2. CASE HubStep
      BY <2>2, <3>2, HubStepRegistered
    <3>3. CASE \E c \in Conns : ConnStep(c)
      BY <2>2, <3>3, ConnStepRegistered
    <3>4. CASE UNCHANGED <<rowVars, hubVars>>
      <4>1. clients' = clients /\ conn' = conn
        BY <3>4 DEF hubVars
      <4> QED
        BY <2>2, <4>1, SameRegistration
    <3> QED
      BY <3>1, <3>2, <3>3, <3>4 DEF HubNext
  <2> QED
    BY <2>1, <2>3 DEF HubInv
<1> QED
  BY <1>1, <1>2, PTL DEF HubSpec

\* The queues, the buffers and the connections keep their types, whatever
\* is lost (hub.go:16-31).
THEOREM TypeCorrect == HubSpec => []TypeInv
<1>1. HubInv => TypeInv
  BY DEF HubInv
<1> QED
  BY <1>1, Invariance, PTL

\* The hub never sends on, or closes, a closed channel, though both its
\* stop and the reapers close channels and connections come and go at any
\* moment (hub.go:33-74).
THEOREM NeverClosedTwice == HubSpec => []NoSecondClose
<1>1. HubInv => NoSecondClose
  BY DEF HubInv, Registered, Unregistered, NoSecondClose
<1> QED
  BY <1>1, Invariance, PTL

----------------------------------------------------------------------------
(* The readers.                                                            *)

HIDE DEF RowsAssumption, HubAssumption

\* The notification service records only versions that were committed.
MatchedAreWritten ==
  /\ matched \in [Ids -> Nat]
  /\ \A i \in Ids : matched[i] <= version[i]

\* What has been read of the details is written, and hangs together.
ReadAreWritten ==
  detail # None =>
    /\ detail = [id |-> detail.id, seen |-> detail.seen]
    /\ detail.id \in Ids
    /\ detail.seen \in Seq(Nat)
    /\ Len(detail.seen) <= Len(Parts)
    /\ \A n \in DOMAIN detail.seen : detail.seen[n] <= Written(Parts[n], detail.id)

DetailInv == RowsTypeOK /\ MatchedAreWritten /\ ReadAreWritten /\ DetailKnowsItsVersion

----------------------------------------------------------------------------
(* The readers and the hub.                                                *)

\* Whatever the readers do, the hub and the rows take a step of HubSpec.
LEMMA StepIsHubStep == Next => [HubNext]_<<rowVars, hubVars>>
<1> SUFFICES ASSUME Next PROVE [HubNext]_<<rowVars, hubVars>>
  OBVIOUS
<1>1. CASE \E i \in Ids : Commit(i)
  <2>1. PICK i \in Ids : Commit(i)
    BY <1>1
  <2>2. Notify(i) /\ \E k \in Keys \cup {Null, Absent} : WriteRow(i, k)
    BY <2>1 DEF Commit, WriteInList
  <2> QED
    BY <2>2 DEF HubNext
<1>2. CASE Walk
  <2>1. CASE Browse
    BY <2>1 DEF Browse, StartWalk
  <2>2. CASE ReadPage
    BY <2>2 DEF ReadPage, GetPage
  <2>3. CASE /\ (\E list \in ReadLists : RefuseCursor(list)) \/ FailOnMissingMagnitude
             /\ UNCHANGED <<hubVars, view>>
    BY <2>3 DEF RefuseCursor, FailOnMissingMagnitude
  <2> QED
    BY <1>2, <2>1, <2>2, <2>3 DEF Walk
<1>3. CASE Administer
  BY <1>3 DEF Administer, RecordMatching, OpenDetail, ReadPart, CloseDetail
<1>4. CASE Stream
  <2>1. CASE Quietly(HubStep)
    BY <2>1 DEF Quietly, HubNext
  <2>2. ASSUME NEW c \in Conns,
               Quietly(Connect(c) \/ Subscribe(c) \/ GiveUpSubscribing(c)
                       \/ Disconnect(c) \/ Unsubscribe(c))
        PROVE  HubNext
    BY <2>2 DEF Quietly, HubNext, ConnStep
  <2>3. ASSUME NEW c \in Conns, Show(c) \/ Resynchronize(c) \/ Hangup(c)
        PROVE  HubNext
    BY <2>3 DEF Show, Resynchronize, Hangup, HubNext, ConnStep
  <2> QED
    BY <1>4, <2>1, <2>2, <2>3 DEF Stream
<1> QED
  BY <1>1, <1>2, <1>3, <1>4 DEF Next

\* The API with its readers implements the hub's specification: no reader
\* of lists or of the stream disturbs the hub or the listener (hub.go:33-148).
THEOREM ImplementsHub == Spec => HubSpec
<1>1. Init => RowsInit /\ HubInit
  BY DEF Init
<1>2. [Next]_vars => [HubNext]_<<rowVars, hubVars>>
  BY StepIsHubStep DEF vars
<1> QED
  BY <1>1, <1>2, PTL DEF Spec, HubSpec

\* With its readers, too, the hub never sends on, or closes, a channel that
\* is closed (hub.go:33-74).
THEOREM NoSecondCloseForReaders == Spec => []NoSecondClose
BY ImplementsHub, NeverClosedTwice, PTL

----------------------------------------------------------------------------
(* The details of an incident.                                             *)

\* A part may be written up to the version of the row, not beyond.
LEMMA WrittenTypes ==
  ASSUME RowsTypeOK, MatchedAreWritten, NEW i \in Ids, NEW part
  PROVE  Written(part, i) \in Nat /\ Written(part, i) <= version[i]
BY DEF RowsTypeOK, MatchedAreWritten, Written

\* Nothing that was written for a row is taken back, ...
LEMMA WrittenGrows ==
  ASSUME RowsTypeOK, MatchedAreWritten, RowsTypeOK', MatchedAreWritten', NEW i \in Ids,
         version[i] <= version'[i], matched[i] <= matched'[i], NEW part
  PROVE  Written(part, i) <= Written(part, i)'
BY DEF RowsTypeOK, MatchedAreWritten, Written

\* ... so what was read stays in it.
LEMMA WritingKeepsDetail ==
  ASSUME DetailInv, RowsTypeOK', MatchedAreWritten', detail' = detail,
         \A i \in Ids : version[i] <= version'[i] /\ matched[i] <= matched'[i]
  PROVE  DetailInv'
<1>1. DetailKnowsItsVersion'
  BY DEF DetailInv, DetailKnowsItsVersion
<1>2. ReadAreWritten'
  <2> SUFFICES ASSUME detail # None, NEW n \in DOMAIN detail.seen
               PROVE  detail.seen[n] <= Written(Parts[n], detail.id)'
    BY DEF DetailInv, ReadAreWritten
  <2>1. /\ detail.id \in Ids
        /\ detail.seen[n] \in Nat
        /\ detail.seen[n] <= Written(Parts[n], detail.id)
    BY DEF DetailInv, ReadAreWritten
  <2>2. Written(Parts[n], detail.id) \in Nat /\ Written(Parts[n], detail.id)' \in Nat
    BY <2>1, WrittenTypes DEF DetailInv, RowsTypeOK, MatchedAreWritten, Written
  <2>3. Written(Parts[n], detail.id) <= Written(Parts[n], detail.id)'
    BY <2>1, WrittenGrows DEF DetailInv
  <2> QED
    BY <2>1, <2>2, <2>3
<1> QED
  BY <1>1, <1>2 DEF DetailInv

\* The next part is at least as new as what it must go with: the core's
\* parts after the row, the audits after the evaluations, and the revisions
\* after everything.
LEMMA ReadingKeepsDetail == DetailInv /\ ReadPart => DetailInv'
<1> SUFFICES ASSUME DetailInv, ReadPart PROVE DetailInv'
  OBVIOUS
<1> DEFINE seen == detail.seen
           k == Len(seen) + 1
           now == Written(Parts[k], detail.id)
           read == Append(seen, now)
<1>1. /\ detail # None
      /\ Len(seen) < Len(Parts)
      /\ detail' = [detail EXCEPT !.seen = read]
      /\ UNCHANGED <<rowVars, matched>>
  BY DEF ReadPart
<1>2. /\ detail = [id |-> detail.id, seen |-> seen]
      /\ detail.id \in Ids
      /\ seen \in Seq(Nat)
      /\ \A n \in DOMAIN seen : seen[n] <= Written(Parts[n], detail.id)
      /\ \A n, m \in DOMAIN seen : Needs(Parts[n], seen[n], Parts[m]) => seen[n] <= seen[m]
  BY <1>1 DEF DetailInv, ReadAreWritten, DetailKnowsItsVersion
<1>3. RowsTypeOK' /\ MatchedAreWritten' /\ now \in Nat
  BY <1>1, <1>2, WrittenTypes DEF DetailInv, RowsTypeOK, MatchedAreWritten, rowVars
<1>4. /\ k \in 1..7 /\ Len(Parts) = 7
      /\ \A n \in 1..Len(seen) : seen[n] \in Nat
  BY <1>1, <1>2 DEF Parts
<1> HIDE DEF seen, now
<1>5. /\ read \in Seq(Nat)
      /\ Len(read) = k
      /\ DOMAIN read = 1..k
      /\ read[k] = now
      /\ \A n \in 1..Len(seen) : read[n] = seen[n]
  BY <1>2, <1>3
<1> HIDE DEF read
<1>6. /\ detail'.id = detail.id
      /\ detail'.seen = read
      /\ detail' = [id |-> detail.id, seen |-> read]
  BY <1>1, <1>2
<1>7. \A part : Written(part, detail.id)' = Written(part, detail.id)
  BY <1>1, <1>6 DEF Written, rowVars
<1>8. ASSUME NEW n \in 1..k PROVE read[n] <= Written(Parts[n], detail.id) /\ read[n] \in Nat
  <2>1. CASE n = k
    BY <1>3, <1>5, <2>1 DEF now
  <2>2. CASE n # k
    <3>1. n \in 1..Len(seen) /\ n \in DOMAIN seen
      BY <1>2, <1>4, <2>2
    <3> QED
      BY <1>2, <1>4, <1>5, <3>1
  <2> QED
    BY <2>1, <2>2
<1>9. ReadAreWritten'
  <2>1. \A n \in DOMAIN read : read[n] <= Written(Parts[n], detail.id)'
    BY <1>5, <1>7, <1>8
  <2>2. Len(read) <= Len(Parts)
    BY <1>4, <1>5
  <2>3. detail'.id \in Ids /\ Len(detail'.seen) <= Len(Parts) /\ detail'.seen \in Seq(Nat)
    BY <1>2, <1>5, <1>6, <2>2
  <2>4. detail' = [id |-> detail'.id, seen |-> detail'.seen]
    BY <1>6
  <2>5. \A n \in DOMAIN detail'.seen : detail'.seen[n] <= Written(Parts[n], detail.id)'
    BY <1>6, <2>1
  <2> QED
    BY <2>3, <2>4, <2>5 DEF ReadAreWritten
<1>10. ASSUME NEW n \in 1..k, NEW m \in 1..k, Needs(Parts[n], read[n], Parts[m])
       PROVE  read[n] <= read[m]
  <2>1. CASE n < k /\ m < k
    <3>1. /\ DOMAIN seen = 1..Len(seen)
          /\ n \in 1..Len(seen) /\ m \in 1..Len(seen)
      BY <1>2, <1>4, <2>1
    <3>2. read[n] = seen[n] /\ read[m] = seen[m]
      BY <1>5, <3>1
    <3>3. Needs(Parts[n], seen[n], Parts[m])
      BY <1>10, <3>2
    <3>4. seen[n] <= seen[m]
      BY <1>2, <3>1, <3>3
    <3> QED
      BY <3>2, <3>4
  <2>2. CASE n = m
    BY <1>8, <2>2
  <2>3. CASE n = k /\ m < k
    BY <1>4, <1>10, <2>3 DEF Parts, Needs
  <2>4. CASE n < k /\ m = k
    <3>1. read[n] <= Written(Parts[n], detail.id) /\ read[n] \in Nat
      BY <1>8
    <3>2. read[m] = Written(Parts[m], detail.id)
      BY <1>5, <2>4 DEF now
    <3>3. CASE Parts[n] = "incident" /\ Parts[m] \in {"sources", "observations", "associations"}
      BY <3>1, <3>2, <3>3 DEF Written
    <3>4. CASE Parts[n] = "evaluations" /\ Parts[m] = "audits"
      BY <3>1, <3>2, <3>4 DEF Written
    <3>5. CASE Parts[m] = "revisions" /\ read[n] > 1
      <4>1. /\ Written(Parts[n], detail.id) \in Nat
            /\ Written(Parts[n], detail.id) <= version[detail.id]
            /\ version[detail.id] \in Nat
        BY <1>2, WrittenTypes DEF DetailInv, RowsTypeOK
      <4>2. read[n] <= version[detail.id] /\ version[detail.id] > 1
        BY <3>1, <3>5, <4>1
      <4> QED
        BY <3>2, <3>5, <4>2 DEF Written
    <3> QED
      BY <1>10, <3>3, <3>4, <3>5 DEF Needs
  <2> QED
    BY <1>4, <2>1, <2>2, <2>3, <2>4
<1>11. DetailKnowsItsVersion'
  BY <1>5, <1>6, <1>10 DEF DetailKnowsItsVersion
<1> QED
  BY <1>3, <1>9, <1>11 DEF DetailInv

\* For any incidents and any order of the core's commits, the notification
\* service's and the statements of the page: the page shows the sources and
\* observations of the version it shows, no evaluation without the audit of
\* its matching, and the revision of every later version that any part shows
\* (administration.go:89-116).
THEOREM DetailsAreNotTorn == Spec => []DetailKnowsItsVersion
<1>1. Init => DetailInv
  <2> SUFFICES ASSUME Init PROVE DetailInv
    OBVIOUS
  <2>1. RowsTypeOK /\ detail = None /\ matched = [i \in Ids |-> 0]
    BY InitTypes DEF Init, ListInit, TypeInv
  <2> QED
    BY <2>1 DEF DetailInv, MatchedAreWritten, ReadAreWritten, DetailKnowsItsVersion, RowsTypeOK
<1>2. DetailInv /\ TypeInv /\ TypeInv' /\ [Next]_vars => DetailInv'
  <2> SUFFICES ASSUME DetailInv, RowsTypeOK', [Next]_vars PROVE DetailInv'
    BY DEF TypeInv
  <2>1. ASSUME UNCHANGED <<rowVars, detailVars>> PROVE DetailInv'
    BY <2>1 DEF DetailInv, MatchedAreWritten, ReadAreWritten, DetailKnowsItsVersion, Written,
                RowsTypeOK, rowVars, detailVars
  <2>2. CASE \E i \in Ids : Commit(i)
    <3>1. PICK i \in Ids : Commit(i)
      BY <2>2
    <3>2. PICK k : WriteInList(i, k)
      BY <3>1 DEF Commit
    <3>3. \A j \in Ids : version[j] \in Nat /\ version'[j] \in Nat /\ version[j] <= version'[j]
      BY <3>2 DEF DetailInv, RowsTypeOK, WriteInList, WriteRow
    <3>4. matched' = matched /\ detail' = detail
      BY <3>2 DEF WriteInList, detailVars
    <3>5. MatchedAreWritten' /\ \A j \in Ids : matched[j] <= matched'[j]
      BY <3>3, <3>4 DEF DetailInv, MatchedAreWritten
    <3> QED
      BY <3>3, <3>4, <3>5, WritingKeepsDetail
  <2>3. CASE Walk
    BY <2>1, <2>3 DEF Walk, Browse, StartWalk, ReadPage, GetPage, RefuseCursor, FailOnMissingMagnitude
  <2>4. CASE Administer
    <3>1. ASSUME NEW i \in DetailIds, OpenDetail(i) PROVE DetailInv'
      <4>1. /\ i \in Ids
            /\ detail' = [id |-> i, seen |-> <<>>]
            /\ UNCHANGED <<rowVars, matched>>
        BY <3>1, ReaderAssumption DEF OpenDetail, ReaderAssumption
      <4>2. detail'.id = i /\ detail'.seen = <<>> /\ <<>> \in Seq(Nat)
        BY <4>1
      <4>3. ReadAreWritten' /\ DetailKnowsItsVersion'
        BY <4>1, <4>2 DEF ReadAreWritten, DetailKnowsItsVersion, Parts
      <4> QED
        BY <4>1, <4>3 DEF DetailInv, RowsTypeOK, MatchedAreWritten, rowVars
    <3>2. ASSUME NEW i \in DetailIds, NEW v \in 1..version[i], RecordMatching(i, v)
          PROVE  DetailInv'
      <4>1. i \in Ids
        BY ReaderAssumption DEF ReaderAssumption
      <4>2. /\ matched[i] < v /\ v <= version[i]
            /\ matched' = [matched EXCEPT ![i] = v]
            /\ detail' = detail /\ version' = version
        BY <3>2 DEF RecordMatching, rowVars
      <4>3. version \in [Ids -> Nat] /\ v \in Nat
        BY <4>1 DEF DetailInv, RowsTypeOK
      <4>4. matched \in [Ids -> Nat] /\ matched' \in [Ids -> Nat]
        BY <4>2, <4>3 DEF DetailInv, MatchedAreWritten
      <4>5. \A j \in Ids : /\ matched[j] <= version[j]
                           /\ matched'[j] = IF j = i THEN v ELSE matched[j]
        BY <4>2, <4>4 DEF DetailInv, MatchedAreWritten
      <4>6. \A j \in Ids : /\ matched[j] <= matched'[j] /\ matched'[j] <= version'[j]
                           /\ version[j] <= version'[j]
        BY <4>2, <4>3, <4>4, <4>5
      <4> QED
        BY <4>2, <4>4, <4>6, WritingKeepsDetail DEF MatchedAreWritten
    <3>3. CASE ReadPart
      BY <3>3, ReadingKeepsDetail
    <3>4. CASE CloseDetail
      BY <3>4 DEF CloseDetail, DetailInv, RowsTypeOK, MatchedAreWritten, ReadAreWritten,
                  DetailKnowsItsVersion, rowVars
    <3> QED
      BY <2>4, <3>1, <3>2, <3>3, <3>4 DEF Administer
  <2>5. CASE Stream
    BY <2>1, <2>5 DEF Stream, Quietly, Show, Resynchronize, Hangup, listVars
  <2>6. CASE UNCHANGED vars
    BY <2>1, <2>6 DEF vars, listVars
  <2> QED
    BY <2>2, <2>3, <2>4, <2>5, <2>6 DEF Next
<1>3. DetailInv => DetailKnowsItsVersion
  BY DEF DetailInv
<1> QED
  BY <1>1, <1>2, <1>3, ImplementsHub, TypeCorrect, PTL DEF Spec

----------------------------------------------------------------------------
(* Pages, as the queries with ORDER BY and LIMIT return them.  The rows    *)
(* are a finite set F that a relation R orders strictly and totally; a     *)
(* page shows the rows with fewer than limit before them.                  *)

AheadOf(F, R, i) == {j \in F : <<j, i>> \in R}

PageOf(F, R, limit) == {i \in F : Cardinality(AheadOf(F, R, i)) < limit}

Ordered(F, R) ==
  /\ \A i \in F : <<i, i>> \notin R
  /\ \A i, j, k \in F : <<i, j>> \in R /\ <<j, k>> \in R => <<i, k>> \in R
  /\ \A i, j \in F : i = j \/ <<i, j>> \in R \/ <<j, i>> \in R

\* Every set of natural numbers that has an element has a least one.
LEMMA LeastNatural ==
  ASSUME NEW T \in SUBSET Nat, T # {}
  PROVE  \E x \in T : \A y \in T : x <= y
<1> DEFINE R == OpToRel(<, Nat)
<1>1. IsWellFoundedOn(R, Nat)
  BY NatLessThanWellFounded
<1>2. PICK x \in T : \A y \in T : ~(<<y, x>> \in R)
  <2> HIDE DEF R
  <2> QED
    BY <1>1, WFMin
<1>3. \A y \in T : ~(y < x)
  BY <1>2 DEF OpToRel
<1> QED
  BY <1>3

\* What is before a row is finite and not the row itself.
LEMMA AheadIsFinite ==
  ASSUME NEW F, IsFiniteSet(F), NEW R, Ordered(F, R), NEW i \in F
  PROVE  /\ AheadOf(F, R, i) \in SUBSET F /\ i \notin AheadOf(F, R, i)
         /\ IsFiniteSet(AheadOf(F, R, i))
         /\ Cardinality(AheadOf(F, R, i)) \in Nat
<1>1. AheadOf(F, R, i) \in SUBSET F /\ i \notin AheadOf(F, R, i)
  BY DEF AheadOf, Ordered
<1> QED
  BY <1>1, FS_Subset, FS_CardinalityType

\* A later row has more rows before it, ...
LEMMA RankIncreases ==
  ASSUME NEW F, IsFiniteSet(F), NEW R, Ordered(F, R),
         NEW i \in F, NEW j \in F, <<j, i>> \in R
  PROVE  /\ AheadOf(F, R, j) \in SUBSET AheadOf(F, R, i)
         /\ Cardinality(AheadOf(F, R, j)) < Cardinality(AheadOf(F, R, i))
<1>1. /\ AheadOf(F, R, j) \in SUBSET AheadOf(F, R, i)
      /\ j \in AheadOf(F, R, i) /\ j \notin AheadOf(F, R, j)
  BY DEF AheadOf, Ordered
<1>2. /\ Cardinality(AheadOf(F, R, j)) <= Cardinality(AheadOf(F, R, i))
      /\ Cardinality(AheadOf(F, R, j)) # Cardinality(AheadOf(F, R, i))
  BY <1>1, AheadIsFinite, FS_Subset
<1> QED
  BY <1>1, <1>2, AheadIsFinite

\* ... so a page has everything before what it has, ...
LEMMA PageIsPrefix ==
  ASSUME NEW F, IsFiniteSet(F), NEW R, Ordered(F, R), NEW limit \in Nat,
         NEW i \in PageOf(F, R, limit), NEW j \in F, <<j, i>> \in R
  PROVE  j \in PageOf(F, R, limit)
<1>1. i \in F /\ Cardinality(AheadOf(F, R, i)) < limit
  BY DEF PageOf
<1>2. Cardinality(AheadOf(F, R, j)) < Cardinality(AheadOf(F, R, i))
  BY <1>1, RankIncreases
<1>3. Cardinality(AheadOf(F, R, j)) < limit
  BY <1>1, <1>2, AheadIsFinite
<1> QED
  BY <1>3 DEF PageOf

\* ... and some of the rows have a last one, and a first one.
LEMMA LastAndFirst ==
  ASSUME NEW F, IsFiniteSet(F), NEW R, Ordered(F, R), NEW G \in SUBSET F, G # {}
  PROVE  /\ \E i \in G : \A j \in G \ {i} : <<j, i>> \in R
         /\ \E i \in G : \A j \in G \ {i} : <<i, j>> \in R
<1> DEFINE rank(i) == Cardinality(AheadOf(F, R, i))
           most == Cardinality(F)
           Above == {most - rank(i) : i \in G}
           Below == {rank(i) : i \in G}
<1>1. most \in Nat /\ \A i \in G : rank(i) \in Nat /\ rank(i) <= most
  BY AheadIsFinite, FS_Subset, FS_CardinalityType
<1>2. \A i, j \in G : <<i, j>> \in R => rank(i) < rank(j)
  BY RankIncreases
<1>3. \A i, j \in G : i = j \/ <<i, j>> \in R \/ <<j, i>> \in R
  BY DEF Ordered
<1> HIDE DEF rank, most
<1>4. Above \in SUBSET Nat /\ Above # {} /\ Below \in SUBSET Nat /\ Below # {}
  BY <1>1
<1>5. PICK i \in G : \A j \in G : most - rank(i) <= most - rank(j)
  <2>1. PICK x \in Above : \A y \in Above : x <= y
    <3> HIDE DEF Above
    <3> QED
      BY <1>4, LeastNatural
  <2> QED
    BY <2>1
<1>6. PICK i1 \in G : \A j \in G : rank(i1) <= rank(j)
  <2>1. PICK x \in Below : \A y \in Below : x <= y
    <3> HIDE DEF Below
    <3> QED
      BY <1>4, LeastNatural
  <2> QED
    BY <2>1
<1>7. \A j \in G \ {i} : <<j, i>> \in R
  <2> TAKE j \in G \ {i}
  <2>1. ~(rank(i) < rank(j))
    BY <1>1, <1>5
  <2> QED
    BY <1>2, <1>3, <2>1
<1>8. \A j \in G \ {i1} : <<i1, j>> \in R
  <2> TAKE j \in G \ {i1}
  <2>1. ~(rank(j) < rank(i1))
    BY <1>1, <1>6
  <2> QED
    BY <1>2, <1>3, <2>1
<1> QED
  BY <1>7, <1>8

\* A page that is not full shows every row: the last row before the first
\* that it does not show would make it full.
LEMMA PageShowsAll ==
  ASSUME NEW F, IsFiniteSet(F), NEW R, Ordered(F, R), NEW limit \in Nat,
         Cardinality(PageOf(F, R, limit)) # limit
  PROVE  PageOf(F, R, limit) = F
<1> DEFINE A(i) == AheadOf(F, R, i)
           rank(i) == Cardinality(A(i))
           page == PageOf(F, R, limit)
           beyond == F \ page
<1> SUFFICES ASSUME beyond # {} PROVE FALSE
  BY DEF PageOf
<1>1. PICK i \in beyond : \A j \in beyond \ {i} : <<i, j>> \in R
  <2>1. beyond \in SUBSET F
    OBVIOUS
  <2> HIDE DEF beyond
  <2> QED
    BY <2>1, LastAndFirst
<1>2. page = A(i)
  <2>1. ASSUME NEW j \in page
        PROVE  j \in A(i)
    <3>1. j \in F /\ j # i /\ ~(<<i, j>> \in R)
      BY <2>1, PageIsPrefix DEF PageOf
    <3> QED
      BY <3>1 DEF AheadOf, Ordered
  <2>2. ASSUME NEW j \in A(i)
        PROVE  j \in page
    <3>1. j \in F /\ <<j, i>> \in R /\ j # i /\ ~(<<i, j>> \in R)
      BY <2>2 DEF AheadOf, Ordered
    <3> QED
      BY <1>1, <3>1
  <2> QED
    BY <2>1, <2>2
<1>3. rank(i) \in Nat /\ IsFiniteSet(A(i)) /\ rank(i) >= limit /\ rank(i) # limit
  <2>1. rank(i) \in Nat /\ IsFiniteSet(A(i)) /\ ~(rank(i) < limit)
    BY AheadIsFinite DEF PageOf
  <2> QED
    BY <1>2, <2>1
<1>4. A(i) \in SUBSET F /\ A(i) # {}
  BY <1>3, FS_EmptySet DEF AheadOf
<1>5. PICK m \in A(i) : \A j \in A(i) \ {m} : <<j, m>> \in R
  BY <1>4, LastAndFirst
<1>6. rank(i) - 1 <= rank(m)
  <2>1. m \in F /\ A(i) \ {m} \in SUBSET A(m)
    BY <1>4, <1>5 DEF AheadOf
  <2>2. Cardinality(A(i) \ {m}) = rank(i) - 1
    BY <1>3, FS_RemoveElement
  <2>3. IsFiniteSet(A(m))
    BY <2>1, AheadIsFinite
  <2> QED
    BY <2>1, <2>2, <2>3, FS_Subset
<1>7. rank(m) < limit /\ rank(m) \in Nat
  BY <1>2, <1>4, <1>5, AheadIsFinite DEF PageOf
<1> QED
  BY <1>3, <1>6, <1>7

----------------------------------------------------------------------------
(* Walks through a list.                                                   *)

\* The reader's list, its cursor, and the rows the list may have.
PlaceOfWalk ==
  /\ walk = [list |-> walk.list, status |-> walk.status, cursor |-> walk.cursor]
  /\ walk.list \in Lists
  /\ walk.cursor \in Cursors \cup {None}
  /\ \A i \in Ids : key[i] \in KeysOf(walk.list) \cup {Absent}
  /\ due \subseteq Ids /\ shown \subseteq Ids
  /\ \A i \in due : Present(i)

\* The cursor is one of this list; what is due is beyond it, and nothing
\* that was shown is.
Passed ==
  walk.status = "walking" =>
    /\ walk.cursor = None => shown = {}
    /\ walk.cursor # None =>
         /\ walk.cursor.scope = ScopeWritten(walk.list)
         /\ \A i \in due : key[i] # Null => Precedes(walk.list, walk.cursor.at, At(i))
         /\ \A i \in shown : ~Beyond(walk.list, walk.cursor.at, At(i))

WalkInv == PlaceOfWalk /\ Passed /\ WalkIsExact

\* A cursor is accepted only by the list it was made for, though one that
\* has tabs writes less into it than it reads.
LEMMA OnlyOwnCursor ==
  ASSUME NEW mine \in Lists, NEW list \in Lists, NEW cursor, cursor # None,
         cursor.scope = ScopeWritten(mine), Accepted(list, cursor)
  PROVE  list = mine
<1>1. ScopeWritten(mine) = ScopeRead(list)
  BY DEF Accepted
<1>2. CASE list \in Tabs
  <2>1. Len(ScopeRead(list)) = 2 /\ Len(ScopeWritten(mine)) = 1
    BY <1>2 DEF ScopeRead, ScopeWritten
  <2> QED
    BY <1>1, <2>1
<1>3. CASE list \notin Tabs
  <2>1. ScopeRead(list)[1] = list /\ list # "notifications"
    BY <1>3 DEF ScopeRead, Lists, PublicLists, AdminLists, Tabs
  <2>2. ScopeWritten(mine)[1] = IF mine \in Tabs THEN "notifications" ELSE mine
    BY DEF ScopeWritten
  <2> QED
    BY <1>1, <2>1, <2>2
<1> QED
  BY <1>2, <1>3

\* The rows of a query, and their order.
RowsOf(list, cursor) ==
  {i \in Ids : Present(i) /\ (cursor # None => Beyond(list, cursor.at, At(i)))}

Order(list, F) == {x \in F \X F : Precedes(list, At(x[1]), At(x[2]))}

\* Positions of rows are pairs of numbers, ...
LEMMA NumbersInRows ==
  /\ Ids \subseteq Int /\ Keys \subseteq Int
  /\ Null \in Int /\ Absent \in Int
<1>1. Ids \subseteq Nat /\ Keys \subseteq Nat
  BY RowsAssumption DEF RowsAssumption
<1> QED
  BY <1>1 DEF Null, Absent

\* ... and Precedes orders them.
LEMMA PositionsAreNumbers ==
  ASSUME RowsTypeOK, NEW i \in Ids
  PROVE  key[i] \in Int /\ i \in Int /\ At(i).key \in Int /\ At(i).id \in Int
<1>1. key[i] \in Keys \cup {Null, Absent}
  BY DEF RowsTypeOK
<1>2. key[i] \in Int /\ i \in Int
  BY <1>1, NumbersInRows
<1> QED
  BY <1>2 DEF At

LEMMA PrecedesOrders ==
  ASSUME NEW list, NEW p, NEW q, NEW r,
         p.key \in Int, p.id \in Int, q.key \in Int, q.id \in Int, r.key \in Int, r.id \in Int
  PROVE  /\ ~Precedes(list, p, p)
         /\ ~(Precedes(list, p, q) /\ Precedes(list, q, p))
         /\ Precedes(list, p, q) /\ Precedes(list, q, r) => Precedes(list, p, r)
BY DEF Precedes

\* ORDER BY the key and the id orders the rows strictly and totally.
LEMMA RowsAreOrdered ==
  ASSUME RowsTypeOK, NEW list, NEW F \in SUBSET Ids
  PROVE  Ordered(F, Order(list, F))
<1>1. \A i \in F : key[i] \in Int /\ i \in Int
  BY PositionsAreNumbers
<1>2. \A i, j \in F : <<i, j>> \in Order(list, F) <=>
        IF list = "occurred_at_asc"
        THEN key[i] < key[j] \/ (key[i] = key[j] /\ i < j)
        ELSE key[j] < key[i] \/ (key[j] = key[i] /\ j < i)
  BY DEF Order, Precedes, At
<1> QED
  BY <1>1, <1>2 DEF Ordered

\* What a page shows, which row is its last, and when it shows all.
LEMMA PageFacts ==
  ASSUME RowsTypeOK, NEW list, NEW cursor
  PROVE  LET rows == RowsOf(list, cursor)
             page == Page(list, cursor)
         IN  /\ page \subseteq rows
             /\ \A i \in rows \ page, j \in page : Precedes(list, At(j), At(i))
             /\ Cardinality(page) = Limit =>
                  /\ LastOf(list, page) \in page
                  /\ \A j \in page \ {LastOf(list, page)} :
                       Precedes(list, At(j), At(LastOf(list, page)))
             /\ Cardinality(page) # Limit => page = rows
<1> DEFINE rows == RowsOf(list, cursor)
           page == Page(list, cursor)
           R == Order(list, rows)
<1>1. rows \in SUBSET Ids /\ IsFiniteSet(rows)
  <2>1. rows \in SUBSET Ids
    BY DEF RowsOf
  <2> HIDE DEF rows
  <2> QED
    BY <2>1, FS_Subset, RowsAssumption DEF RowsAssumption
<1>2. \A i, j \in rows : <<i, j>> \in R <=> Precedes(list, At(i), At(j))
  BY DEF Order
<1>3. Ordered(rows, R) /\ Limit \in Nat
  BY <1>1, RowsAreOrdered, ListingAssumption
<1>4. page = PageOf(rows, R, Limit)
  BY <1>2 DEF Page, PageOf, AheadOf, RowsOf
<1> HIDE DEF rows, page, R
<1>5. page \subseteq rows
  BY <1>4 DEF PageOf
<1>6. \A i \in rows \ page, j \in page : Precedes(list, At(j), At(i))
  <2> TAKE i \in rows \ page, j \in page
  <2>1. ~(<<i, j>> \in R)
    BY <1>1, <1>3, <1>4, PageIsPrefix
  <2>2. i = j \/ <<i, j>> \in R \/ <<j, i>> \in R
    BY <1>3, <1>5 DEF Ordered
  <2> QED
    BY <1>2, <1>5, <2>1, <2>2
<1>7. ASSUME Cardinality(page) = Limit
      PROVE  /\ LastOf(list, page) \in page
             /\ \A j \in page \ {LastOf(list, page)} :
                  Precedes(list, At(j), At(LastOf(list, page)))
  <2>1. page # {}
    BY <1>7, FS_EmptySet, ListingAssumption
  <2>2. \E i \in page : \A j \in page \ {i} : <<j, i>> \in R
    BY <1>1, <1>3, <1>5, <2>1, LastAndFirst
  <2>3. \E i \in page : \A j \in page \ {i} : Precedes(list, At(j), At(i))
    BY <1>2, <1>5, <2>2
  <2> QED
    BY <2>3 DEF LastOf
<1>8. Cardinality(page) # Limit => page = rows
  BY <1>1, <1>3, <1>4, PageShowsAll
<1> QED
  BY <1>5, <1>6, <1>7, <1>8 DEF rows, page

\* A page takes the walk on: what is due and was not shown is beyond its
\* last row, and what was shown is not.
LEMMA PageTakesOn ==
  ASSUME RowsTypeOK, WalkInv, NEW list \in Lists, GetPage(list)
  PROVE  WalkInv' /\ list = walk.list
<1> DEFINE cursor == walk.cursor
           rows == RowsOf(list, cursor)
           page == Page(list, cursor)
           last == LastOf(list, page)
           full == Cardinality(page) = Limit
<1>1. /\ walk.status = "walking"
      /\ list = walk.list \/ cursor # None
      /\ Accepted(list, cursor)
      /\ cursor # None => cursor.at.key # Null
      /\ UNCHANGED rowVars
      /\ walk' = [list |-> list, status |-> IF full THEN "walking" ELSE "ended",
                  cursor |-> IF full THEN [scope |-> ScopeWritten(list), at |-> At(last)]
                             ELSE None]
      /\ due' = due \ page
      /\ shown' = shown \cup page
      /\ twice' = (twice \/ page \cap shown # {})
  BY DEF GetPage, Serve
<1>2. list = walk.list
  BY <1>1, OnlyOwnCursor DEF WalkInv, PlaceOfWalk, Passed
<1>3. /\ page \subseteq rows /\ page \subseteq Ids
      /\ \A i \in rows \ page, j \in page : Precedes(list, At(j), At(i))
      /\ full => /\ last \in page
                 /\ \A j \in page \ {last} : Precedes(list, At(j), At(last))
      /\ ~full => page = rows
  BY PageFacts DEF RowsOf
\* The rows by their places.
<1>4. \A i \in Ids : i \in rows <=> Present(i) /\ (cursor # None => Beyond(list, cursor.at, At(i)))
  BY DEF RowsOf
<1>5. \A i \in due : i \in Ids /\ (key[i] # Null => i \in rows)
  BY <1>1, <1>2, <1>4 DEF WalkInv, PlaceOfWalk, Passed, Beyond, At
<1>6. page \cap shown = {}
  BY <1>1, <1>2, <1>3, <1>4 DEF WalkInv, Passed
<1>7. /\ At(last) = [key |-> key[last], id |-> last]
      /\ \A i : At(i)' = At(i)
  BY <1>1 DEF At, rowVars
<1>8. full => [scope |-> ScopeWritten(list), at |-> At(last)] \in Cursors
  <2> SUFFICES ASSUME full
               PROVE  /\ ScopeWritten(list) \in {ScopeWritten(l) : l \in Lists}
                      /\ At(last) \in [key : Keys \cup {Null}, id : Ids]
    BY DEF Cursors
  <2>1. last \in Ids /\ Present(last) /\ key[last] \in Keys \cup {Null, Absent}
    BY <1>3, <1>4 DEF RowsTypeOK
  <2> QED
    BY <1>7, <2>1 DEF Present
<1> HIDE DEF rows, page, last
<1>9. PlaceOfWalk'
  <2>1. /\ walk' = [list |-> walk'.list, status |-> walk'.status, cursor |-> walk'.cursor]
        /\ walk'.list = walk.list
        /\ walk'.cursor \in Cursors \cup {None}
    BY <1>1, <1>2, <1>8
  <2>2. key' = key /\ due' \subseteq due /\ due' \subseteq Ids /\ shown' \subseteq Ids
    BY <1>1, <1>3 DEF WalkInv, PlaceOfWalk, rowVars
  <2> QED
    BY <2>1, <2>2 DEF WalkInv, PlaceOfWalk, Present
<1>10. Passed'
  <2> SUFFICES ASSUME full
               PROVE  /\ walk'.cursor # None /\ walk'.list = list
                      /\ walk'.cursor.scope = ScopeWritten(list)
                      /\ walk'.cursor.at = At(last)
                      /\ \A i \in due \ page : key[i] # Null => Precedes(list, At(last), At(i))
                      /\ \A i \in shown \cup page : ~Beyond(list, At(last), At(i))
    BY <1>1, <1>7 DEF Passed, rowVars
  <2>1. /\ walk'.cursor # None /\ walk'.list = list
        /\ walk'.cursor.scope = ScopeWritten(list)
        /\ walk'.cursor.at = At(last)
    BY <1>1, <1>8, ListingAssumption
  <2>2. \A i \in due \ page : key[i] # Null => Precedes(list, At(last), At(i))
    BY <1>3, <1>5
  <2> DEFINE numbers(p) == p.key \in Int /\ p.id \in Int
  <2>3. \A i \in Ids : numbers(At(i))
    BY PositionsAreNumbers
  <2>4. \A i \in page : ~Beyond(list, At(last), At(i))
    BY <1>3, <2>3, PrecedesOrders DEF Beyond
  <2>5. ASSUME NEW i \in shown, Beyond(list, At(last), At(i)) PROVE FALSE
    <3>1. /\ cursor # None
          /\ ~Beyond(list, cursor.at, At(i))
          /\ last \in Ids /\ Beyond(list, cursor.at, At(last))
          /\ i \in Ids
      BY <1>1, <1>2, <1>3, <1>4 DEF WalkInv, PlaceOfWalk, Passed
    <3>2. numbers(cursor.at)
      <4>1. cursor.at \in [key : Keys \cup {Null}, id : Ids]
        BY <3>1 DEF WalkInv, PlaceOfWalk, Cursors
      <4> QED
        BY <4>1, NumbersInRows
    <3> QED
      BY <2>3, <2>5, <3>1, <3>2, PrecedesOrders DEF Beyond
  <2> QED
    BY <2>1, <2>2, <2>4, <2>5
<1>11. WalkIsExact'
  BY <1>1, <1>3, <1>5, <1>6 DEF WalkInv, WalkIsExact, rowVars
<1> QED
  BY <1>2, <1>9, <1>10, <1>11 DEF WalkInv

\* A row that is written at another place is neither due nor shown any more;
\* the other rows stay where they are.
LEMMA WriteKeepsWalk ==
  ASSUME RowsTypeOK, WalkInv, NEW i \in Ids, NEW k, WriteInList(i, k)
  PROVE  WalkInv'
<1>1. /\ k \in KeysOf(walk.list) \cup {Absent}
      /\ key' = [key EXCEPT ![i] = k]
      /\ due' = due \ (IF k = key[i] THEN {} ELSE {i})
      /\ shown' = shown \ (IF k = key[i] THEN {} ELSE {i})
      /\ walk' = walk /\ twice' = twice
  BY DEF WriteInList, WriteRow
<1>2. \A j \in Ids : key'[j] = IF j = i THEN k ELSE key[j]
  BY <1>1 DEF RowsTypeOK
<1>3. due \subseteq Ids /\ shown \subseteq Ids
  BY DEF WalkInv, PlaceOfWalk
<1>4. \A j \in due' \cup shown' : key'[j] = key[j] /\ At(j)' = At(j)
  BY <1>1, <1>2, <1>3 DEF At
<1>5. due' \subseteq due /\ shown' \subseteq shown
  BY <1>1
<1>6. PlaceOfWalk'
  BY <1>1, <1>2, <1>3, <1>4, <1>5 DEF WalkInv, PlaceOfWalk, Present
<1>7. Passed'
  <2> SUFFICES ASSUME walk.status = "walking" PROVE Passed'
    BY <1>1 DEF Passed
  <2>1. walk.cursor = None => shown' = {}
    BY <1>5 DEF WalkInv, Passed
  <2>2. ASSUME walk.cursor # None
        PROVE  /\ walk.cursor.scope = ScopeWritten(walk.list)
               /\ \A j \in due' : key'[j] # Null => Precedes(walk.list, walk.cursor.at, At(j)')
               /\ \A j \in shown' : ~Beyond(walk.list, walk.cursor.at, At(j)')
    BY <1>4, <1>5, <2>2 DEF WalkInv, Passed
  <2> QED
    BY <1>1, <2>1, <2>2 DEF Passed
<1>8. WalkIsExact'
  BY <1>1, <1>4, <1>5 DEF WalkInv, WalkIsExact
<1> QED
  BY <1>6, <1>7, <1>8 DEF WalkInv

\* Beginning again, and giving up, keep nothing of the walk before.
LEMMA BeginKeepsWalk ==
  ASSUME RowsTypeOK, WalkInv, UNCHANGED key, Restart \/ Abandon
  PROVE  WalkInv'
<1>1. /\ walk' = [walk EXCEPT !.status = walk'.status, !.cursor = None]
      /\ walk'.status \in {"walking", "idle"}
      /\ due' = {} \/ due' = {i \in Ids : Present(i)}
      /\ shown' = {} /\ twice' = twice
  <2>1. CASE Restart
    BY <2>1 DEF Restart, WalkInv, PlaceOfWalk
  <2>2. CASE Abandon
    BY <2>2 DEF Abandon, WalkInv, PlaceOfWalk
  <2> QED
    BY <2>1, <2>2
<1>2. walk'.list = walk.list /\ walk'.cursor = None
  BY <1>1 DEF WalkInv, PlaceOfWalk
<1>3. PlaceOfWalk'
  BY <1>1, <1>2 DEF WalkInv, PlaceOfWalk, Present
<1>4. Passed' /\ WalkIsExact'
  BY <1>1, <1>2 DEF WalkInv, Passed, WalkIsExact
<1> QED
  BY <1>3, <1>4 DEF WalkInv

\* A refused or failed request ends the walk where it is.
LEMMA RefusalKeepsWalk ==
  ASSUME WalkInv, (\E list \in ReadLists : RefuseCursor(list)) \/ FailOnMissingMagnitude
  PROVE  WalkInv'
<1>1. PICK status \in {"refused", "failed"} : walk' = [walk EXCEPT !.status = status]
  BY DEF RefuseCursor, FailOnMissingMagnitude
<1>2. UNCHANGED <<key, due, shown, twice>>
  BY DEF RefuseCursor, FailOnMissingMagnitude, rowVars
<1>3. walk'.list = walk.list /\ walk'.cursor = walk.cursor /\ walk'.status = status
  BY <1>1 DEF WalkInv, PlaceOfWalk
<1>4. PlaceOfWalk'
  BY <1>1, <1>2, <1>3 DEF WalkInv, PlaceOfWalk, Present
<1>5. Passed' /\ WalkIsExact'
  BY <1>2, <1>3 DEF WalkInv, Passed, WalkIsExact
<1> QED
  BY <1>4, <1>5 DEF WalkInv

\* What the walk depends on.
LEMMA SameWalk ==
  ASSUME WalkInv, UNCHANGED <<key, walk, due, shown, twice>>
  PROVE  WalkInv'
BY DEF WalkInv, PlaceOfWalk, Passed, WalkIsExact, Present, At

LEMMA InitWalk == Init => WalkInv
<1> SUFFICES ASSUME Init PROVE WalkInv
  OBVIOUS
<1>1. PICK list \in ReadLists : ListInit(list)
  BY DEF Init
<1>2. PlaceOfWalk
  BY <1>1, ReaderAssumption DEF Init, ListInit, PlaceOfWalk, ReaderAssumption
<1>3. Passed /\ WalkIsExact
  BY <1>1 DEF ListInit, Passed, WalkIsExact
<1> QED
  BY <1>2, <1>3 DEF WalkInv

LEMMA NextWalk == RowsTypeOK /\ WalkInv /\ [Next]_vars => WalkInv'
<1> SUFFICES ASSUME RowsTypeOK, WalkInv, [Next]_vars PROVE WalkInv'
  OBVIOUS
<1>1. ASSUME NEW i \in Ids, Commit(i) PROVE WalkInv'
  BY <1>1, WriteKeepsWalk DEF Commit
<1>2. CASE Browse
  BY <1>2, BeginKeepsWalk DEF Browse, StartWalk, rowVars
<1>3. CASE ReadPage
  BY <1>3, PageTakesOn, ReaderAssumption DEF ReadPage, ReaderAssumption
<1>4. CASE (\E list \in ReadLists : RefuseCursor(list)) \/ FailOnMissingMagnitude
  BY <1>4, RefusalKeepsWalk
<1>5. CASE Administer
  BY <1>5, SameWalk DEF Administer, RecordMatching, OpenDetail, ReadPart, CloseDetail, rowVars
<1>6. CASE UNCHANGED <<rowVars, listVars, view>>
  BY <1>6, SameWalk DEF rowVars, listVars
<1>7. ASSUME NEW c \in Conns, Show(c) PROVE WalkInv'
  BY <1>7, SameWalk DEF Show, rowVars, listVars
<1>8. ASSUME NEW c \in Conns, Resynchronize(c) PROVE WalkInv'
  BY <1>8, BeginKeepsWalk DEF Resynchronize, rowVars
<1>9. ASSUME NEW c \in Conns, Hangup(c) PROVE WalkInv'
  <2>1. CASE c = reader
    BY <1>9, <2>1, BeginKeepsWalk DEF Hangup, rowVars
  <2>2. CASE c # reader
    BY <1>9, <2>2, SameWalk DEF Hangup, rowVars
  <2> QED
    BY <2>1, <2>2
<1>10. CASE UNCHANGED vars
  BY <1>10, SameWalk DEF vars, rowVars, listVars
<1> QED
  BY <1>1, <1>2, <1>3, <1>4, <1>5, <1>6, <1>7, <1>8, <1>9, <1>10
  DEF Next, Walk, Stream, Quietly

\* Whatever is written between the requests: a walk that reaches the end of
\* a list has shown every row that stayed in it at one place, and none of
\* these twice; rows without magnitude are the exception
\* (query.go:81-100, server.go:102-115).
THEOREM WalksAreExact == Spec => []WalkIsExact
<1>1. Init => WalkInv
  BY InitWalk
<1>2. TypeInv /\ WalkInv /\ [Next]_vars => WalkInv'
  BY NextWalk DEF TypeInv
<1>3. WalkInv => WalkIsExact
  BY DEF WalkInv
<1> QED
  BY <1>1, <1>2, <1>3, ImplementsHub, TypeCorrect, PTL DEF Spec

----------------------------------------------------------------------------
(* What the hub does with the client that reads.                           *)

\* The client that was greeted last is served, and every connection that is
\* served over an open channel is registered.
Served ==
  /\ reader # None => conn[reader].handler = "reading"
  /\ \A c \in Conns : conn[c].handler \in {"greeting", "reading"} /\ ~conn[c].closed => c \in clients

\* No message is ahead of the row it shows.
Behind(s, v) == \A n \in DOMAIN s : s[n].version <= v[s[n].id]

MessagesBehind == Behind(queue, version) /\ \A c \in Conns : Behind(conn[c].buffer, version)

\* One message more, or one less.
LEMMA AppendBehind ==
  ASSUME NEW s \in Seq(Message), NEW v, Behind(s, v), NEW m \in Message, m.version <= v[m.id]
  PROVE  Append(s, m) \in Seq(Message) /\ Behind(Append(s, m), v)
<1> DEFINE t == Append(s, m)
<1>1. /\ t \in Seq(Message) /\ Len(s) \in Nat /\ Len(t) = Len(s) + 1
      /\ \A n \in 1..Len(s) : t[n] = s[n]
      /\ t[Len(s) + 1] = m
  OBVIOUS
<1> HIDE DEF t
<1>2. \A n \in 1..Len(t) : n \in 1..Len(s) \/ n = Len(s) + 1
  BY <1>1
<1> QED
  BY <1>1, <1>2 DEF Behind, t

LEMMA TailBehind ==
  ASSUME NEW s \in Seq(Message), s # <<>>, NEW v, Behind(s, v)
  PROVE  /\ Tail(s) \in Seq(Message) /\ Behind(Tail(s), v)
         /\ Head(s) \in Message /\ Head(s).version <= v[Head(s).id]
<1>1. /\ Tail(s) \in Seq(Message) /\ Len(Tail(s)) = Len(s) - 1 /\ Len(s) \in Nat \ {0}
      /\ \A n \in 1..Len(Tail(s)) : Tail(s)[n] = s[n + 1] /\ n + 1 \in 1..Len(s)
      /\ Head(s) = s[1] /\ 1 \in 1..Len(s)
  OBVIOUS
<1> QED
  BY <1>1 DEF Behind

\* What a step of the hub changes of a connection that is not its own.
LEMMA HubStepServes ==
  ASSUME HubTypeOK, Served, HubStep
  PROVE  Served'
<1>1. \A c \in Conns : conn[c] \in Conn
  BY DEF HubTypeOK
<1>2. CASE Broadcast
  <2>1. \A c \in Conns : conn'[c].handler = conn[c].handler /\ conn'[c].closed = conn[c].closed
    BY <1>1, <1>2 DEF Broadcast, Conn
  <2>2. reader' = reader /\ clients' = clients
    BY <1>2 DEF Broadcast, Lose
  <2> QED
    BY <2>1, <2>2 DEF Served, HubTypeOK
<1>3. CASE Stop
  <2>1. \A c \in Conns : /\ conn'[c].handler = conn[c].handler
                         /\ conn'[c].closed = (conn[c].closed \/ c \in clients)
    BY <1>1, <1>3 DEF Stop, Conn
  <2>2. reader' = reader
    BY <1>3 DEF Stop, Lose
  <2> QED
    BY <2>1, <2>2 DEF Served, HubTypeOK
<1>4. CASE Listen \/ ConnectionBreaks \/ Receive \/ LoadFails \/ Publish
  <2>1. UNCHANGED <<conn, clients, reader>>
    BY <1>4 DEF Listen, ConnectionBreaks, Receive, LoadFails, Publish, Lose
  <2> QED
    BY <2>1 DEF Served
<1> QED
  BY <1>2, <1>3, <1>4 DEF HubStep

LEMMA ConnStepServes ==
  ASSUME HubTypeOK, Served, NEW c \in Conns, ConnStep(c)
  PROVE  Served'
<1>1. (\A d \in Conns : conn[d] \in Conn) /\ reader \in Conns \cup {None} /\ None \notin Conns
  BY HubAssumption DEF HubTypeOK, HubAssumption
<1>2. \A d \in Conns \ {c} : conn'[d] = conn[d]
  <2>1. CASE Connect(c)
    BY <2>1 DEF Connect, HubTypeOK
  <2>2. CASE Subscribe(c)
    BY <2>2 DEF Subscribe, HubTypeOK
  <2>3. CASE GiveUpSubscribing(c)
    BY <2>3 DEF GiveUpSubscribing, HubTypeOK
  <2>4. CASE Greet(c)
    BY <2>4 DEF Greet, HubTypeOK
  <2>5. CASE Deliver(c)
    BY <2>5 DEF Deliver, HubTypeOK
  <2>6. CASE Disconnect(c)
    BY <2>6 DEF Disconnect, HubTypeOK
  <2>7. CASE Finish(c)
    BY <2>7 DEF Finish, HubTypeOK
  <2>8. CASE Unsubscribe(c)
    BY <2>8 DEF Unsubscribe, HubTypeOK
  <2> QED
    BY <2>1, <2>2, <2>3, <2>4, <2>5, <2>6, <2>7, <2>8 DEF ConnStep
<1>3. clients' \ {c} = clients \ {c}
  BY DEF ConnStep, Connect, Subscribe, GiveUpSubscribing, Greet, Deliver, Disconnect, Finish,
         Unsubscribe
<1>4. ASSUME reader' # None => conn'[reader'].handler = "reading",
             conn'[c].handler \in {"greeting", "reading"} /\ ~conn'[c].closed => c \in clients'
      PROVE  Served'
  BY <1>2, <1>3, <1>4 DEF Served
<1> USE DEF HubTypeOK, Served, Conn
<1>5. CASE Connect(c)
  BY <1>1, <1>2, <1>4, <1>5 DEF Connect, NewConn
<1>6. CASE Subscribe(c)
  BY <1>1, <1>2, <1>4, <1>6 DEF Subscribe
<1>7. CASE GiveUpSubscribing(c)
  BY <1>1, <1>2, <1>4, <1>7 DEF GiveUpSubscribing
<1>8. CASE Greet(c)
  BY <1>1, <1>2, <1>4, <1>8 DEF Greet
<1>9. CASE Deliver(c)
  BY <1>1, <1>2, <1>4, <1>9 DEF Deliver
<1>10. CASE Disconnect(c)
  BY <1>1, <1>2, <1>4, <1>10 DEF Disconnect
<1>11. CASE Finish(c)
  BY <1>1, <1>2, <1>4, <1>11 DEF Finish
<1>12. CASE Unsubscribe(c)
  BY <1>1, <1>2, <1>4, <1>12 DEF Unsubscribe
<1> QED
  BY <1>5, <1>6, <1>7, <1>8, <1>9, <1>10, <1>11, <1>12 DEF ConnStep

\* A row only grows newer, and a message is made of the row as it is.
LEMMA HubStepIsBehind ==
  ASSUME TypeInv, MessagesBehind, HubStep, UNCHANGED rowVars
  PROVE  MessagesBehind'
<1>1. /\ queue \in Seq(Message) /\ loading \in Ids \cup {None} /\ version' = version
      /\ \A c \in Conns : conn[c] \in Conn /\ conn[c].buffer \in Seq(Message)
      /\ \A i \in Ids : version[i] \in Nat
  BY DEF TypeInv, RowsTypeOK, HubTypeOK, Conn, rowVars
<1>2. Behind(queue, version) /\ \A c \in Conns : Behind(conn[c].buffer, version)
  BY DEF MessagesBehind
<1>3. CASE Listen \/ ConnectionBreaks \/ Receive \/ LoadFails
  <2>1. UNCHANGED <<queue, conn>>
    BY <1>3 DEF Listen, ConnectionBreaks, Receive, LoadFails
  <2> QED
    BY <1>1, <1>2, <2>1 DEF MessagesBehind
<1>4. CASE Publish
  <2> DEFINE m == [id |-> loading, version |-> version[loading]]
  <2>1. m \in Message /\ m.version <= version[m.id]
    BY <1>1, <1>4 DEF Publish, Message
  <2>2. Behind(Append(queue, m), version)
    BY <1>1, <1>2, <2>1, AppendBehind
  <2>3. conn' = conn /\ (queue' = queue \/ queue' = Append(queue, m))
    BY <1>4 DEF Publish
  <2> QED
    BY <1>1, <1>2, <2>2, <2>3 DEF MessagesBehind
<1>5. CASE Broadcast
  <2>1. queue # <<>> /\ queue' = Tail(queue)
    BY <1>5 DEF Broadcast
  <2>2. Behind(Tail(queue), version) /\ Head(queue) \in Message
        /\ Head(queue).version <= version[Head(queue).id]
    BY <1>1, <1>2, <2>1, TailBehind
  <2>3. ASSUME NEW c \in Conns
        PROVE  \/ conn'[c].buffer = conn[c].buffer
               \/ conn'[c].buffer = Append(conn[c].buffer, Head(queue))
    BY <1>1, <1>5 DEF Broadcast, Conn
  <2>4. ASSUME NEW c \in Conns
        PROVE  Behind(conn'[c].buffer, version)
    BY <1>1, <1>2, <2>2, <2>3, AppendBehind
  <2> QED
    BY <1>1, <2>1, <2>2, <2>4 DEF MessagesBehind
<1>6. CASE Stop
  <2>1. queue' = <<>> /\ \A c \in Conns : conn'[c].buffer = conn[c].buffer
    BY <1>1, <1>6 DEF Stop, Conn
  <2>2. Behind(<<>>, version)
    BY DEF Behind
  <2> QED
    BY <1>1, <1>2, <2>1, <2>2 DEF MessagesBehind
<1> QED
  BY <1>3, <1>4, <1>5, <1>6 DEF HubStep

LEMMA ConnStepIsBehind ==
  ASSUME TypeInv, MessagesBehind, NEW c \in Conns, ConnStep(c), UNCHANGED rowVars
  PROVE  MessagesBehind'
<1>1. /\ version' = version
      /\ \A d \in Conns : conn[d] \in Conn /\ conn[d].buffer \in Seq(Message)
  BY DEF TypeInv, HubTypeOK, Conn, rowVars
<1>2. Behind(queue, version) /\ \A d \in Conns : Behind(conn[d].buffer, version)
  BY DEF MessagesBehind
<1>3. queue' = queue
  BY DEF ConnStep, Connect, Subscribe, GiveUpSubscribing, Greet, Deliver, Disconnect, Finish,
         Unsubscribe
<1>4. ASSUME NEW d \in Conns
      PROVE  \/ conn'[d].buffer \in {conn[d].buffer, <<>>}
             \/ d = c /\ Deliver(c) /\ conn[d].buffer # <<>> /\ conn'[d].buffer = Tail(conn[d].buffer)
  <2>1. CASE Connect(c)
    BY <1>1, <2>1 DEF Connect, NewConn, TypeInv, HubTypeOK, Conn
  <2>2. CASE Subscribe(c)
    BY <1>1, <2>2 DEF Subscribe, TypeInv, HubTypeOK, Conn
  <2>3. CASE GiveUpSubscribing(c)
    BY <1>1, <2>3 DEF GiveUpSubscribing, TypeInv, HubTypeOK, Conn
  <2>4. CASE Greet(c)
    BY <1>1, <2>4 DEF Greet, TypeInv, HubTypeOK, Conn
  <2>5. CASE Deliver(c)
    BY <1>1, <2>5 DEF Deliver, TypeInv, HubTypeOK, Conn
  <2>6. CASE Disconnect(c)
    BY <1>1, <2>6 DEF Disconnect, TypeInv, HubTypeOK, Conn
  <2>7. CASE Finish(c)
    BY <1>1, <2>7 DEF Finish, TypeInv, HubTypeOK, Conn
  <2>8. CASE Unsubscribe(c)
    BY <1>1, <2>8 DEF Unsubscribe, TypeInv, HubTypeOK, Conn
  <2> QED
    BY <2>1, <2>2, <2>3, <2>4, <2>5, <2>6, <2>7, <2>8 DEF ConnStep
<1>5. ASSUME NEW d \in Conns
      PROVE  Behind(conn'[d].buffer, version)
  <2>1. Behind(<<>>, version)
    BY DEF Behind
  <2> QED
    BY <1>1, <1>2, <1>4, <2>1, TailBehind
<1> QED
  BY <1>1, <1>2, <1>3, <1>5 DEF MessagesBehind

LEMMA WriteIsBehind ==
  ASSUME TypeInv, MessagesBehind, NEW i \in Ids, Notify(i), NEW k, WriteRow(i, k)
  PROVE  MessagesBehind'
<1>1. \A j \in Ids : version[j] \in Nat /\ version'[j] \in Nat /\ version[j] <= version'[j]
  BY DEF TypeInv, RowsTypeOK, WriteRow
<1>2. ASSUME NEW s \in Seq(Message), Behind(s, version) PROVE Behind(s, version')
  <2> SUFFICES ASSUME NEW n \in DOMAIN s PROVE s[n].version <= version'[s[n].id]
    BY DEF Behind
  <2>1. s[n] \in Message /\ s[n].version <= version[s[n].id]
    BY <1>2 DEF Behind
  <2> QED
    BY <1>1, <2>1 DEF Message
<1>3. UNCHANGED <<queue, conn>>
  BY DEF Notify
<1> QED
  BY <1>2, <1>3 DEF MessagesBehind, TypeInv, HubTypeOK, Conn

\* Both hold of the hub, whatever is written and read.
LEMMA HubNextServes ==
  TypeInv /\ Served /\ MessagesBehind /\ [HubNext]_<<rowVars, hubVars>> => Served' /\ MessagesBehind'
<1> SUFFICES ASSUME TypeInv, Served, MessagesBehind, [HubNext]_<<rowVars, hubVars>>
             PROVE  Served' /\ MessagesBehind'
  OBVIOUS
<1>1. ASSUME NEW i \in Ids, NEW k, Notify(i), WriteRow(i, k)
      PROVE  Served' /\ MessagesBehind'
  <2>1. conn' = conn /\ clients' = clients /\ reader' = reader
    BY <1>1 DEF Notify, Lose
  <2> QED
    BY <1>1, <2>1, WriteIsBehind DEF Served
<1>2. CASE HubStep /\ UNCHANGED rowVars
  BY <1>2, HubStepServes, HubStepIsBehind DEF TypeInv
<1>3. ASSUME NEW c \in Conns, ConnStep(c), UNCHANGED rowVars
      PROVE  Served' /\ MessagesBehind'
  BY <1>3, ConnStepServes, ConnStepIsBehind DEF TypeInv
<1>4. CASE UNCHANGED <<rowVars, hubVars>>
  BY <1>4 DEF rowVars, hubVars, Served, MessagesBehind
<1> QED
  BY <1>1, <1>2, <1>3, <1>4 DEF HubNext

LEMMA InitServes == RowsInit /\ HubInit => Served /\ MessagesBehind
BY DEF HubInit, NewConn, Served, MessagesBehind, Behind

----------------------------------------------------------------------------
(* What the client has seen.                                               *)

\* What the client has is not ahead of the rows, and only a client of the
\* stream has a connection.
ViewIsBehind ==
  /\ view \in [Ids -> Nat]
  /\ \A i \in Ids : view[i] <= version[i]
  /\ ~Streamed => \A c \in Conns : conn[c].handler = "idle"

\* The client has incident i as it is, or is about to get it, or lost it.
Known(i) == view[i] = version[i] \/ i \in missed \/ UnderWay(i) \/ Waiting(i, reader)

\* It knows all that it does not find on the pages it has not read yet.
ViewFollows ==
  reader # None /\ ~conn[reader].closed =>
    \A i \in Ids : Present(i) => i \in due \/ Known(i)

ViewInv == TypeInv /\ WalkInv /\ Served /\ MessagesBehind /\ ViewIsBehind /\ ViewFollows

\* What is in a queue.
Has(s, x) == \E n \in DOMAIN s : s[n] = x

LEMMA AppendHas ==
  ASSUME NEW S, NEW s \in Seq(S), NEW m \in S
  PROVE  Has(Append(s, m), m) /\ \A x : Has(s, x) => Has(Append(s, m), x)
<1> DEFINE t == Append(s, m)
<1>1. /\ Len(s) \in Nat /\ DOMAIN s = 1..Len(s) /\ DOMAIN t = 1..(Len(s) + 1)
      /\ \A n \in 1..Len(s) : t[n] = s[n]
      /\ t[Len(s) + 1] = m
  OBVIOUS
<1> HIDE DEF t
<1>2. Has(t, m)
  BY <1>1 DEF Has
<1>3. ASSUME NEW x, Has(s, x) PROVE Has(t, x)
  <2>1. PICK n \in DOMAIN s : s[n] = x
    BY <1>3 DEF Has
  <2>2. n \in DOMAIN t /\ t[n] = x
    BY <1>1, <2>1
  <2> QED
    BY <2>2 DEF Has
<1> QED
  BY <1>2, <1>3 DEF t

LEMMA TailHas ==
  ASSUME NEW S, NEW s \in Seq(S), s # <<>>, NEW x, Has(s, x)
  PROVE  x = Head(s) \/ Has(Tail(s), x)
<1>1. PICK n \in DOMAIN s : s[n] = x
  BY DEF Has
<1>2. /\ Len(s) \in Nat /\ DOMAIN s = 1..Len(s) /\ DOMAIN Tail(s) = 1..(Len(s) - 1)
      /\ \A k \in 1..(Len(s) - 1) : Tail(s)[k] = s[k + 1]
      /\ Head(s) = s[1]
  OBVIOUS
<1>3. CASE n = 1
  BY <1>1, <1>2, <1>3
<1>4. CASE n # 1
  <2>1. n - 1 \in DOMAIN Tail(s) /\ Tail(s)[n - 1] = x
    BY <1>1, <1>2, <1>4
  <2> QED
    BY <2>1 DEF Has
<1> QED
  BY <1>3, <1>4

Now(i) == [id |-> i, version |-> version[i]]

LEMMA KnownMeans ==
  ASSUME NEW i
  PROVE  /\ UnderWay(i) <=> Has(notices, i) \/ loading = i \/ Has(queue, Now(i))
         /\ \A c : Waiting(i, c) <=> Has(conn[c].buffer, Now(i))
BY DEF UnderWay, Waiting, Has, Now

\* While the client's channel is open, a step of the hub and the listener
\* loses nothing for it that it does not note.
LEMMA HubStepKeepsKnown ==
  ASSUME TypeInv, Served, HubStep, UNCHANGED <<rowVars, view>>,
         reader' # None, ~conn'[reader'].closed
  PROVE  /\ reader' = reader /\ ~conn[reader].closed
         /\ \A i \in Ids : Known(i) => Known(i)'
<1>1. /\ \A c \in Conns : conn[c] \in Conn /\ conn[c].buffer \in Seq(Message)
      /\ notices \in Seq(Ids) /\ queue \in Seq(Message)
      /\ loading \in Ids \cup {None} /\ clients \subseteq Conns
  BY DEF TypeInv, HubTypeOK, Conn
<1>2. reader' = reader
  BY DEF HubStep, Listen, ConnectionBreaks, Receive, LoadFails, Publish, Broadcast, Stop, Lose
<1>3. reader \in Conns
  BY <1>2 DEF TypeInv, HubTypeOK
<1>4. ~conn[reader].closed
  <2>1. CASE Broadcast
    <3>1. conn'[reader].closed = conn[reader].closed
      BY <1>1, <1>3, <2>1 DEF Broadcast, Conn
    <3> QED
      BY <1>2, <3>1
  <2>2. CASE Stop
    <3>1. conn'[reader].closed = (conn[reader].closed \/ reader \in clients)
      BY <1>1, <1>3, <2>2 DEF Stop, Conn
    <3> QED
      BY <1>2, <3>1
  <2>3. CASE Listen \/ ConnectionBreaks \/ Receive \/ LoadFails \/ Publish
    BY <1>2, <2>3 DEF Listen, ConnectionBreaks, Receive, LoadFails, Publish
  <2> QED
    BY <2>1, <2>2, <2>3 DEF HubStep
<1>5. reader \in clients /\ conn[reader].handler = "reading"
  BY <1>2, <1>3, <1>4 DEF Served
<1>6. \A i : Now(i)' = Now(i)
  BY DEF Now, rowVars
<1>7. ASSUME NEW i \in Ids, Known(i),
             \/ i \in missed'
             \/ /\ i \in missed => i \in missed'
                /\ Has(notices, i) => Has(notices', i) \/ loading' = i
                /\ loading = i => loading' = i \/ Has(queue', Now(i))
                /\ Has(queue, Now(i)) => Has(queue', Now(i)) \/ Has(conn'[reader].buffer, Now(i))
                /\ Has(conn[reader].buffer, Now(i)) => Has(conn'[reader].buffer, Now(i))
      PROVE  Known(i)'
  <2>1. UnderWay(i) <=> Has(notices, i) \/ loading = i \/ Has(queue, Now(i))
    BY KnownMeans
  <2>2. Waiting(i, reader) <=> Has(conn[reader].buffer, Now(i))
    BY KnownMeans
  <2>3. /\ Has(notices', i) \/ loading' = i \/ Has(queue', Now(i)) => UnderWay(i)'
        /\ Has(conn'[reader].buffer, Now(i)) => Waiting(i, reader)'
    BY <1>2, <1>6 DEF UnderWay, Waiting, Has, Now, rowVars
  <2> QED
    BY <1>2, <1>7, <2>1, <2>2, <2>3 DEF Known, rowVars
<1>8. CASE Listen
  BY <1>7, <1>8 DEF Listen
<1>9. CASE ConnectionBreaks
  <2>1. ASSUME NEW i \in Ids PROVE i \in missed \/ Has(notices, i) => i \in missed'
    BY <1>5, <1>9 DEF ConnectionBreaks, Lose, Has
  <2>2. UNCHANGED <<loading, queue, conn>>
    BY <1>9 DEF ConnectionBreaks
  <2> QED
    BY <1>2, <1>4, <1>7, <2>1, <2>2
<1>10. CASE Receive
  <2>1. notices # <<>> /\ loading' = Head(notices) /\ notices' = Tail(notices) /\ loading = None
    BY <1>10 DEF Receive
  <2>2. ASSUME NEW i \in Ids, Has(notices, i) PROVE Has(notices', i) \/ loading' = i
    BY <1>1, <2>1, <2>2, TailHas
  <2>3. UNCHANGED <<queue, conn, missed>>
    BY <1>10 DEF Receive
  <2>4. \A i \in Ids : loading # i
    BY <2>1, RowsAssumption DEF RowsAssumption
  <2> QED
    BY <1>2, <1>4, <1>7, <2>2, <2>3, <2>4
<1>11. CASE LoadFails
  <2>1. \A i \in Ids : i \in missed \/ loading = i => i \in missed'
    BY <1>5, <1>11 DEF LoadFails, Lose
  <2>2. UNCHANGED <<notices, queue, conn>>
    BY <1>11 DEF LoadFails
  <2> QED
    BY <1>2, <1>4, <1>7, <2>1, <2>2
<1>12. CASE Publish
  <2>1. UNCHANGED <<notices, conn>> /\ loading \in Ids
    BY <1>1, <1>12 DEF Publish
  <2>2. Now(loading) \in Message
    BY <2>1 DEF TypeInv, RowsTypeOK, Message, Now
  <2>3. CASE Len(queue) < QueueCap
    <3>1. missed' = missed /\ queue' = Append(queue, Now(loading))
      BY <1>12, <2>3 DEF Publish, Now
    <3>2. Has(queue', Now(loading)) /\ \A x : Has(queue, x) => Has(queue', x)
      BY <1>1, <2>2, <3>1, AppendHas
    <3> QED
      BY <1>2, <1>4, <1>7, <2>1, <3>1, <3>2
  <2>4. CASE ~(Len(queue) < QueueCap)
    <3>1. queue' = queue /\ \A i \in Ids : i \in missed \/ loading = i => i \in missed'
      BY <1>5, <1>12, <2>4 DEF Publish, Lose
    <3> QED
      BY <1>2, <1>4, <1>7, <2>1, <3>1
  <2> QED
    BY <2>3, <2>4
<1>13. CASE Broadcast
  <2>1. queue # <<>> /\ queue' = Tail(queue) /\ UNCHANGED <<notices, loading>>
    BY <1>13 DEF Broadcast
  <2>2. Head(queue) \in Message
    BY <1>1, <2>1
  <2>3. CASE HasRoom(reader)
    <3>1. conn'[reader].buffer = Append(conn[reader].buffer, Head(queue))
      BY <1>1, <1>3, <1>5, <1>13, <2>3 DEF Broadcast, Conn
    <3>2. /\ Has(conn'[reader].buffer, Head(queue))
          /\ \A x : Has(conn[reader].buffer, x) => Has(conn'[reader].buffer, x)
      BY <1>1, <1>3, <2>2, <3>1, AppendHas
    <3>3. \A x : Has(queue, x) => Has(queue', x) \/ Has(conn'[reader].buffer, x)
      BY <1>1, <2>1, <3>2, TailHas
    <3>4. \A i \in missed : i \in missed'
      BY <1>13 DEF Broadcast, Lose
    <3> QED
      BY <1>2, <1>4, <1>7, <2>1, <3>2, <3>3, <3>4
  <2>4. CASE ~HasRoom(reader)
    <3>1. conn'[reader].buffer = conn[reader].buffer
      BY <1>1, <1>3, <1>13, <2>4 DEF Broadcast
    <3>2. \A i \in Ids : i \in missed \/ i = Head(queue).id => i \in missed'
      BY <1>5, <1>13, <2>4 DEF Broadcast, Lose
    <3>3. \A i \in Ids : Has(queue, Now(i)) => Has(queue', Now(i)) \/ i = Head(queue).id
      BY <1>1, <2>1, TailHas DEF Now
    <3> QED
      BY <1>2, <1>4, <1>7, <2>1, <3>1, <3>2, <3>3
  <2> QED
    BY <2>3, <2>4
<1>14. CASE Stop
  <2>1. conn'[reader].closed
    BY <1>1, <1>3, <1>5, <1>14 DEF Stop, Conn
  <2> QED
    BY <1>2, <2>1
<1> QED
  BY <1>2, <1>4, <1>8, <1>9, <1>10, <1>11, <1>12, <1>13, <1>14 DEF HubStep

\* Nothing changes what the client knows, ...
LEMMA SameKnown ==
  ASSUME NEW i, UNCHANGED <<rowVars, notices, loading, queue, missed, reader, view>>,
         conn'[reader].buffer = conn[reader].buffer, Known(i)
  PROVE  Known(i)'
BY DEF Known, UnderWay, Waiting, rowVars

\* ... when another connection begins or ends, or its own context does, ...
LEMMA QuietConnStepKeepsKnown ==
  ASSUME TypeInv, Served, NEW c \in Conns,
         Connect(c) \/ Subscribe(c) \/ GiveUpSubscribing(c) \/ Disconnect(c) \/ Unsubscribe(c),
         UNCHANGED <<rowVars, view>>, reader' # None, ~conn'[reader'].closed
  PROVE  /\ reader' = reader /\ ~conn[reader].closed
         /\ \A i \in Ids : Known(i) => Known(i)'
<1>1. \A d \in Conns : conn[d] \in Conn
  BY DEF TypeInv, HubTypeOK
<1>2. UNCHANGED <<notices, loading, queue, missed, reader>>
  BY DEF Connect, Subscribe, GiveUpSubscribing, Disconnect, Unsubscribe
<1>3. reader \in Conns /\ conn[reader].handler = "reading" /\ conn \in [Conns -> Conn]
  BY <1>2 DEF TypeInv, HubTypeOK, Served
<1>4. /\ conn'[reader].buffer = conn[reader].buffer
      /\ conn[reader].closed => conn'[reader].closed
  <2>1. CASE Connect(c)
    BY <1>1, <1>3, <2>1 DEF Connect
  <2>2. CASE Subscribe(c)
    BY <1>1, <1>3, <2>2 DEF Subscribe, Conn
  <2>3. CASE GiveUpSubscribing(c)
    BY <1>1, <1>3, <2>3 DEF GiveUpSubscribing, Conn
  <2>4. CASE Disconnect(c)
    BY <1>1, <1>3, <2>4 DEF Disconnect, Conn
  <2>5. CASE Unsubscribe(c)
    BY <1>1, <1>3, <2>5 DEF Unsubscribe, Conn
  <2> QED
    BY <2>1, <2>2, <2>3, <2>4, <2>5
<1> QED
  BY <1>2, <1>4, SameKnown

\* ... and what is shown to it replaces what waited.
LEMMA ShowKeepsKnown ==
  ASSUME TypeInv, MessagesBehind, ViewIsBehind, NEW c \in Conns, Show(c)
  PROVE  /\ ViewIsBehind'
         /\ reader' # None => conn'[reader].closed = conn[reader].closed
         /\ reader' # None => \A i \in Ids : Known(i) => Known(i)'
<1>1. /\ \A d \in Conns : conn[d] \in Conn /\ conn[d].buffer \in Seq(Message)
      /\ conn \in [Conns -> Conn] /\ reader \in Conns \cup {None}
      /\ \A i \in Ids : version[i] \in Nat
  BY DEF TypeInv, RowsTypeOK, HubTypeOK, Conn
<1>2. /\ conn' = [conn EXCEPT ![c].buffer = Tail(conn[c].buffer)]
      /\ conn[c].buffer # <<>>
      /\ conn[c].handler = "reading"
      /\ UNCHANGED <<rowVars, notices, loading, queue, missed, reader, walk>>
  BY DEF Show, Deliver, listVars
<1>3. /\ conn'[c].buffer = Tail(conn[c].buffer)
      /\ \A d \in Conns : /\ conn'[d].handler = conn[d].handler
                          /\ conn'[d].closed = conn[d].closed
                          /\ d # c => conn'[d].buffer = conn[d].buffer
  BY <1>1, <1>2 DEF Conn
<1> DEFINE m == Head(conn[c].buffer)
<1>4. m \in Message /\ m.version <= version[m.id]
  BY <1>1, <1>2, TailBehind DEF MessagesBehind
<1>5. m.id \in Ids /\ m.version \in Nat /\ m = [id |-> m.id, version |-> m.version]
  BY <1>4 DEF Message
<1>6. CASE c # reader
  <2>1. view' = view
    BY <1>6 DEF Show
  <2>2. ViewIsBehind'
    BY <1>2, <1>3, <2>1 DEF ViewIsBehind, Streamed, rowVars
  <2>3. reader # None => \A i \in Ids : Known(i) => Known(i)'
    BY <1>1, <1>2, <1>3, <1>6, <2>1, SameKnown
  <2> QED
    BY <1>1, <1>2, <1>3, <2>2, <2>3
<1>7. CASE c = reader
  <2>1. view' = [view EXCEPT ![m.id] = Newer(view[m.id], m.version)]
    BY <1>7 DEF Show
  <2> HIDE DEF m
  <2>2. /\ view' \in [Ids -> Nat]
        /\ \A i \in Ids : view'[i] = IF i = m.id THEN Newer(view[i], m.version) ELSE view[i]
        /\ \A i \in Ids : view[i] <= view'[i] /\ view'[i] <= version[i]
        /\ m.version <= view'[m.id]
    BY <1>1, <1>4, <1>5, <2>1 DEF ViewIsBehind, Newer
  <2>3. ViewIsBehind'
    BY <1>2, <1>3, <2>2 DEF ViewIsBehind, Streamed, rowVars
  <2>4. ASSUME NEW i \in Ids, Known(i) PROVE Known(i)'
    <3>1. CASE Has(conn[c].buffer, Now(i)) /\ Now(i) = m
      <4>1. i = m.id /\ version[i] = m.version
        BY <3>1 DEF Now
      <4>2. view'[i] = version'[i]
        BY <1>1, <1>2, <2>2, <4>1 DEF rowVars
      <4> QED
        BY <4>2 DEF Known
    <3>2. CASE Has(conn[c].buffer, Now(i)) /\ Now(i) # m
      <4>1. Has(conn'[c].buffer, Now(i))
        BY <1>1, <1>2, <1>3, <3>2, TailHas DEF m
      <4>2. Waiting(i, reader)'
        BY <1>2, <1>7, <4>1 DEF Waiting, Has, Now, rowVars
      <4> QED
        BY <4>2 DEF Known
    <3>3. CASE UnderWay(i) \/ i \in missed
      BY <1>2, <3>3 DEF Known, UnderWay, rowVars
    <3>4. CASE view[i] = version[i]
      <4>1. view'[i] = version'[i]
        BY <1>1, <1>2, <2>2, <3>4 DEF rowVars
      <4> QED
        BY <4>1 DEF Known
    <3> QED
      BY <1>7, <2>4, <3>1, <3>2, <3>3, <3>4, KnownMeans DEF Known
  <2> QED
    BY <1>3, <1>7, <2>3, <2>4
<1> QED
  BY <1>6, <1>7

\* A commit is announced, or lost for the client.
LEMMA CommitKeepsKnown ==
  ASSUME ViewInv, NEW i \in Ids, Commit(i)
  PROVE  ViewIsBehind' /\ ViewFollows'
<1>1. PICK k \in Keys \cup {Null, Absent} : WriteInList(i, k)
  BY DEF Commit
<1>2. /\ Notify(i) /\ view' = view /\ walk' = walk
      /\ version' = [version EXCEPT ![i] = version[i] + 1]
      /\ key' = [key EXCEPT ![i] = k]
      /\ \A j \in due : j # i => j \in due'
  BY <1>1 DEF Commit, WriteInList, WriteRow
<1>3. /\ conn' = conn /\ reader' = reader /\ loading' = loading /\ queue' = queue
      /\ missed \subseteq missed'
      /\ notices' = IF listening THEN Append(notices, i) ELSE notices
      /\ ~listening /\ reader \in clients => i \in missed'
  BY <1>2 DEF Notify, Lose
<1>4. /\ \A j \in Ids : /\ version[j] \in Nat /\ version'[j] \in Nat
                        /\ version[j] <= version'[j]
                        /\ j # i => version'[j] = version[j] /\ key'[j] = key[j]
      /\ notices \in Seq(Ids) /\ reader \in Conns \cup {None}
  BY <1>2 DEF ViewInv, TypeInv, RowsTypeOK, HubTypeOK
<1>5. ViewIsBehind'
  <2>1. \A j \in Ids : view[j] <= version'[j]
    <3> TAKE j \in Ids
    <3>1. view[j] \in Nat /\ view[j] <= version[j]
      BY DEF ViewInv, ViewIsBehind
    <3> QED
      BY <1>4, <3>1
  <2> QED
    BY <1>2, <1>3, <2>1 DEF ViewInv, ViewIsBehind, Streamed
<1>6. ASSUME reader # None, ~conn[reader].closed, NEW j \in Ids, key'[j] # Absent
      PROVE  j \in due' \/ Known(j)'
  <2>1. reader \in clients
    BY <1>4, <1>6 DEF ViewInv, Served
  <2>2. listening => Has(notices', i) /\ \A x : Has(notices, x) => Has(notices', x)
    BY <1>3, <1>4, AppendHas
  <2>3. CASE j = i
    <3>1. Has(notices', i) \/ i \in missed'
      BY <1>3, <2>1, <2>2
    <3> QED
      BY <2>3, <3>1 DEF Known, UnderWay, Has
  <2>4. CASE j # i
    <3>1. j \in due \/ Known(j)
      BY <1>4, <1>6, <2>4 DEF ViewInv, ViewFollows, Present
    <3>2. Has(notices, j) => Has(notices', j)
      BY <1>3, <2>2
    <3>3. Known(j) => Known(j)'
      BY <1>2, <1>3, <1>4, <2>4, <3>2 DEF Known, UnderWay, Waiting, Has
    <3> QED
      BY <1>2, <2>4, <3>1, <3>3
  <2> QED
    BY <2>3, <2>4
<1> QED
  BY <1>3, <1>5, <1>6 DEF ViewFollows, Present

\* A page shows its rows as they are.
LEMMA ReadKeepsKnown ==
  ASSUME ViewInv, ReadPage
  PROVE  ViewIsBehind' /\ ViewFollows'
<1>1. PICK list \in ReadLists : GetPage(list)
  BY DEF ReadPage
<1>2. list = walk.list /\ WalkInv'
  BY <1>1, PageTakesOn, ReaderAssumption DEF ViewInv, TypeInv, ReaderAssumption
<1> DEFINE page == Page(walk.list, walk.cursor)
<1>3. /\ UNCHANGED <<rowVars, hubVars>>
      /\ walk'.list = walk.list
      /\ due' = due \ page
      /\ view' = [i \in Ids |-> IF reader # None /\ i \in page
                                THEN Newer(view[i], version[i]) ELSE view[i]]
  BY <1>1, <1>2 DEF ReadPage, GetPage, Serve
<1> HIDE DEF page
<1>4. \A i \in Ids : /\ view[i] \in Nat /\ version[i] \in Nat /\ view[i] <= version[i]
                     /\ Newer(view[i], version[i]) = version[i]
  BY DEF ViewInv, TypeInv, RowsTypeOK, ViewIsBehind, Newer
<1>5. \A i \in Ids : view'[i] = IF reader # None /\ i \in page THEN version[i] ELSE view[i]
  BY <1>3, <1>4
<1>6. ViewIsBehind'
  <2>1. view' \in [Ids -> Nat] /\ \A i \in Ids : view'[i] <= version[i]
    BY <1>3, <1>4, <1>5
  <2> QED
    BY <1>3, <2>1 DEF ViewInv, ViewIsBehind, Streamed, rowVars, hubVars
<1>7. ASSUME reader # None, ~conn[reader].closed, NEW i \in Ids, Present(i)
      PROVE  i \in due' \/ Known(i)'
  <2>1. CASE i \in page
    BY <1>3, <1>5, <1>7, <2>1 DEF Known, rowVars
  <2>2. CASE i \notin page
    <3>1. i \in due \/ Known(i)
      BY <1>7 DEF ViewInv, ViewFollows
    <3>2. view'[i] = view[i]
      BY <1>5, <2>2
    <3>3. Known(i) => Known(i)'
      BY <1>3, <3>2 DEF Known, UnderWay, Waiting, rowVars, hubVars
    <3> QED
      BY <1>3, <2>2, <3>1, <3>3
  <2> QED
    BY <2>1, <2>2
<1> QED
  BY <1>3, <1>6, <1>7 DEF ViewFollows, Present, rowVars, hubVars

\* Where what the client sees and what it walks stay as they are.
LEMMA StaysBehind ==
  ASSUME ViewIsBehind, UNCHANGED <<rowVars, view>>, walk'.list = walk.list,
         Streamed \/ conn' = conn
  PROVE  ViewIsBehind'
BY DEF ViewIsBehind, Streamed, rowVars

LEMMA SameView ==
  ASSUME ViewInv, UNCHANGED <<rowVars, hubVars, view>>, walk'.list = walk.list,
         reader # None => due' = due
  PROVE  ViewIsBehind' /\ ViewFollows'
<1>1. ViewIsBehind'
  BY StaysBehind DEF ViewInv, hubVars
<1>2. \A i \in Ids : Known(i) => Known(i)'
  BY DEF Known, UnderWay, Waiting, rowVars, hubVars
<1> QED
  BY <1>1, <1>2 DEF ViewInv, ViewFollows, Present, rowVars, hubVars

\* A walk without the stream has no client to inform.
LEMMA WalkKeepsKnown ==
  ASSUME ViewInv, Walk \/ Administer
  PROVE  ViewIsBehind' /\ ViewFollows'
<1>1. walk = [list |-> walk.list, status |-> walk.status, cursor |-> walk.cursor]
  BY DEF ViewInv, WalkInv, PlaceOfWalk
<1>2. CASE Browse
  <2>1. ~Streamed /\ UNCHANGED <<rowVars, hubVars, view>>
    BY <1>2 DEF Browse, StartWalk
  <2>2. reader = None
    BY <2>1 DEF ViewInv, TypeInv, HubTypeOK, Served, ViewIsBehind
  <2>3. walk'.list = walk.list
    BY <1>1, <1>2 DEF Browse, StartWalk, Restart
  <2> QED
    BY <2>1, <2>2, <2>3, SameView
<1>3. CASE /\ (\E list \in ReadLists : RefuseCursor(list)) \/ FailOnMissingMagnitude
           /\ UNCHANGED <<hubVars, view>>
  <2>1. UNCHANGED <<rowVars, hubVars, view, due>> /\ walk'.list = walk.list
    BY <1>1, <1>3 DEF RefuseCursor, FailOnMissingMagnitude
  <2> QED
    BY <2>1, SameView
<1>4. CASE Administer
  <2>1. UNCHANGED <<rowVars, hubVars, view, due, walk>>
    BY <1>4 DEF Administer, RecordMatching, OpenDetail, ReadPart, CloseDetail
  <2> QED
    BY <2>1, SameView
<1> QED
  BY <1>2, <1>3, <1>4, ReadKeepsKnown DEF Walk

LEMMA StreamKeepsKnown ==
  ASSUME ViewInv, Stream
  PROVE  ViewIsBehind' /\ ViewFollows'
<1> USE DEF ViewInv
<1>1. walk = [list |-> walk.list, status |-> walk.status, cursor |-> walk.cursor]
  BY DEF WalkInv, PlaceOfWalk
<1>2. CASE Quietly(HubStep)
  <2>1. Streamed /\ HubStep /\ UNCHANGED <<rowVars, view, walk, due>>
    BY <1>2 DEF Quietly, listVars
  <2>2. ViewIsBehind'
    BY <2>1, StaysBehind
  <2>3. ViewFollows'
    BY <2>1, HubStepKeepsKnown DEF ViewFollows, Present, rowVars
  <2> QED
    BY <2>2, <2>3
<1>3. ASSUME NEW c \in Conns,
             Quietly(Connect(c) \/ Subscribe(c) \/ GiveUpSubscribing(c)
                     \/ Disconnect(c) \/ Unsubscribe(c))
      PROVE  ViewIsBehind' /\ ViewFollows'
  <2>1. /\ Streamed /\ UNCHANGED <<rowVars, view, walk, due>>
        /\ Connect(c) \/ Subscribe(c) \/ GiveUpSubscribing(c) \/ Disconnect(c) \/ Unsubscribe(c)
    BY <1>3 DEF Quietly, listVars
  <2>2. ViewIsBehind'
    BY <2>1, StaysBehind
  <2>3. ViewFollows'
    BY <2>1, QuietConnStepKeepsKnown DEF ViewFollows, Present, rowVars
  <2> QED
    BY <2>2, <2>3
<1>4. ASSUME NEW c \in Conns, Show(c)
      PROVE  ViewIsBehind' /\ ViewFollows'
  <2>1. UNCHANGED <<rowVars, due, reader>>
    BY <1>4 DEF Show, Deliver, listVars
  <2> QED
    BY <1>4, <2>1, ShowKeepsKnown DEF ViewFollows, Present, rowVars
<1>5. ASSUME NEW c \in Conns, Resynchronize(c)
      PROVE  ViewIsBehind' /\ ViewFollows'
  <2>1. /\ UNCHANGED rowVars /\ walk'.list = walk.list
        /\ view' = [i \in Ids |-> 0] /\ due' = {i \in Ids : Present(i)}
        /\ conn[c].handler = "greeting"
    BY <1>1, <1>5 DEF Resynchronize, Greet, Restart
  <2>2. Streamed
    BY <2>1 DEF ViewIsBehind
  <2>3. ViewIsBehind'
    BY <2>1, <2>2 DEF ViewIsBehind, Streamed, rowVars, TypeInv, RowsTypeOK
  <2>4. ViewFollows'
    BY <2>1 DEF ViewFollows, Present, rowVars
  <2> QED
    BY <2>3, <2>4
<1>6. ASSUME NEW c \in Conns, Hangup(c)
      PROVE  ViewIsBehind' /\ ViewFollows'
  <2>1. /\ UNCHANGED rowVars /\ conn[c].handler \in {"greeting", "reading"}
        /\ conn' = [conn EXCEPT ![c].handler = "done", ![c].cancelled = TRUE, ![c].buffer = <<>>]
        /\ reader' = IF c = reader THEN None ELSE reader
        /\ UNCHANGED <<notices, loading, queue>>
    BY <1>6 DEF Hangup, Finish
  <2>2. Streamed
    BY <2>1 DEF ViewIsBehind
  <2>3. CASE c = reader
    <3>1. view' = [i \in Ids |-> 0] /\ walk'.list = walk.list
      BY <1>1, <1>6, <2>3 DEF Hangup, Abandon
    <3>2. ViewIsBehind'
      BY <2>1, <2>2, <3>1 DEF ViewIsBehind, Streamed, rowVars, TypeInv, RowsTypeOK
    <3> QED
      BY <2>1, <2>3, <3>2 DEF ViewFollows
  <2>4. CASE c # reader
    <3>1. UNCHANGED <<view, walk, due, reader, missed>>
      BY <1>6, <2>1, <2>4 DEF Hangup, Finish
    <3>2. ViewIsBehind'
      BY <2>1, <2>2, <3>1, StaysBehind
    <3>3. reader # None => conn'[reader] = conn[reader]
      BY <2>1, <2>4 DEF TypeInv, HubTypeOK
    <3>4. reader # None => \A i \in Ids : Known(i) => Known(i)'
      BY <2>1, <3>1, <3>3, SameKnown
    <3> QED
      BY <2>1, <3>1, <3>2, <3>3, <3>4 DEF ViewFollows, Present, rowVars
  <2> QED
    BY <2>3, <2>4
<1> QED
  BY <1>2, <1>3, <1>4, <1>5, <1>6 DEF Stream

LEMMA InitView == Init => ViewInv
<1> SUFFICES ASSUME Init PROVE ViewInv
  OBVIOUS
<1>1. TypeInv /\ WalkInv /\ Served /\ MessagesBehind
  BY InitTypes, InitWalk, InitServes DEF Init
<1>2. ViewIsBehind
  BY <1>1 DEF Init, HubInit, NewConn, ViewIsBehind, TypeInv, RowsTypeOK
<1>3. ViewFollows
  BY DEF Init, HubInit, ViewFollows
<1> QED
  BY <1>1, <1>2, <1>3 DEF ViewInv

LEMMA NextView == ViewInv /\ [Next]_vars => ViewInv'
<1> SUFFICES ASSUME ViewInv, [Next]_vars PROVE ViewInv'
  OBVIOUS
<1>1. [HubNext]_<<rowVars, hubVars>>
  BY StepIsHubStep DEF vars
<1>2. TypeInv' /\ WalkInv' /\ Served' /\ MessagesBehind'
  BY <1>1, StepTypes, NextWalk, HubNextServes DEF ViewInv, TypeInv
<1>3. ViewIsBehind' /\ ViewFollows'
  <2>1. CASE \E i \in Ids : Commit(i)
    BY <2>1, CommitKeepsKnown
  <2>2. CASE Walk \/ Administer
    BY <2>2, WalkKeepsKnown
  <2>3. CASE Stream
    BY <2>3, StreamKeepsKnown
  <2>4. CASE UNCHANGED vars
    BY <2>4, SameView DEF vars, listVars
  <2> QED
    BY <2>1, <2>2, <2>3, <2>4 DEF Next
<1> QED
  BY <1>2, <1>3 DEF ViewInv

\* For any rows, capacities and failures: the client that connects first and
\* walks the list then has every incident as it is, except those that it is
\* about to be told of and those of which a change was lost since it
\* connected (README.md:197, docs/architecture.md:99).
THEOREM ClientIsCurrent == Spec => []ViewIsCurrent
<1>1. ViewInv => ViewIsCurrent
  <2> SUFFICES ASSUME ViewInv, Loaded, NEW i \in Ids, Present(i)
               PROVE  view[i] = version[i] \/ i \in missed \/ UnderWay(i) \/ Waiting(i, reader)
    BY DEF ViewIsCurrent
  <2>1. Streamed
    BY DEF Loaded, ViewInv, TypeInv, HubTypeOK, Served, ViewIsBehind
  <2>2. key[i] # Null
    <3>1. key[i] \in Keys \cup {Absent}
      BY <2>1 DEF ViewInv, WalkInv, PlaceOfWalk, KeysOf, Streamed
    <3> QED
      BY <3>1, RowsAssumption DEF RowsAssumption, Null, Absent
  <2>3. i \notin due
    BY <2>2 DEF Loaded, ViewInv, WalkInv, WalkIsExact
  <2> QED
    BY <2>3 DEF Loaded, ViewInv, ViewFollows, Known
<1> QED
  BY <1>1, InitView, NextView, PTL DEF Spec
=============================================================================
