---------------------------- MODULE RealtimeHub ----------------------------
(***************************************************************************)
(* How a change of an incident reaches the clients that are connected to   *)
(* one API process: a trigger notifies the listener's database connection, *)
(* the listener loads the incident and offers it to the hub, and the hub   *)
(* passes it on to the bounded buffer of every registered connection.      *)
(* Nothing waits for a slow receiver: a message that finds a full queue or *)
(* buffer is dropped, and the changes committed while the listener has no  *)
(* connection are never announced.                                         *)
(*                                                                         *)
(* A connection is served by a handler, which registers its channel with   *)
(* the hub's goroutine, greets the client and then writes what arrives; a  *)
(* reaper goroutine unregisters the channel once the connection's context  *)
(* is cancelled.  Only the hub's goroutine touches the set of clients.     *)
(*                                                                         *)
(* Left out: the content-free notification_changed hints, which differ in  *)
(* nothing but their content, and payloads that cannot be decoded.         *)
(***************************************************************************)
EXTENDS IncidentRows, Sequences

CONSTANTS
  Conns,      \* bound: connections at once; an ended one is used again
  QueueCap,   \* capacity of the hub's publish channel
  ClientCap,  \* capacity of a client's channel
  MaxFaults   \* bound: failures of the listener's connection or queries

ASSUME HubAssumption ==
  /\ QueueCap \in Nat \ {0}
  /\ ClientCap \in Nat \ {0}
  /\ MaxFaults \in Nat
  /\ None \notin Conns

VARIABLES
  notices,    \* ids notified on the listener's connection, in commit order
  listening,  \* the listener has a connection with LISTEN
  loading,    \* the incident whose notice was received, or None
  queue,      \* the publish channel of the hub
  running,    \* the process was not told to stop
  clients,    \* the hub's set of registered connections
  conn,       \* conn[c]: the handler, context, reaper and channel of c
  faults,     \* failures so far
  reader,     \* the connection greeted last while it is read, or None
  missed      \* incidents of which a change was lost for it since then

hubVars == <<notices, listening, loading, queue, running, clients, conn, faults, reader, missed>>

Message == [id : Ids, version : Nat]

Handler == {"idle", "subscribing", "greeting", "reading", "done"}

Conn == [handler : Handler, cancelled : BOOLEAN,
         reaper : {"none", "waiting", "done"},
         buffer : Seq(Message), closed : BOOLEAN]

HubTypeOK ==
  /\ notices \in Seq(Ids)
  /\ listening \in BOOLEAN
  /\ loading \in Ids \cup {None}
  /\ queue \in Seq(Message)
  /\ running \in BOOLEAN
  /\ clients \subseteq Conns
  /\ conn \in [Conns -> Conn]
  /\ faults \in 0..MaxFaults
  /\ reader \in Conns \cup {None}
  /\ missed \subseteq Ids

NewConn == [handler |-> "idle", cancelled |-> FALSE, reaper |-> "none",
            buffer |-> <<>>, closed |-> FALSE]

HubInit ==
  /\ notices = <<>>
  /\ listening = FALSE
  /\ loading = None
  /\ queue = <<>>
  /\ running = TRUE
  /\ clients = {}
  /\ conn = [c \in Conns |-> NewConn]
  /\ faults = 0
  /\ reader = None
  /\ missed = {}

\* A change of incident i is on its way to the clients' buffers.
Announced(i) ==
  \/ \E n \in DOMAIN notices : notices[n] = i
  \/ loading = i
  \/ \E n \in DOMAIN queue : queue[n].id = i

\* A change of the incidents in S is lost for the connections in C.
Lose(C, S) ==
  /\ missed' = IF reader \in C THEN missed \cup S ELSE missed
  /\ UNCHANGED reader

----------------------------------------------------------------------------
(* The database and the listener.                                          *)

\* Faulty variant: the trigger fires on inserts only.
MutNotify(i) ==
  /\ notices' = IF listening /\ version[i] = 0 THEN Append(notices, i) ELSE notices
  /\ IF listening THEN UNCHANGED <<reader, missed>> ELSE Lose(clients, {i})
  /\ UNCHANGED <<listening, loading, queue, running, clients, conn, faults>>

\* The trigger on earthquakes: the commit of a new version notifies the
\* connections that listen.
Notify(i) ==
  /\ notices' = IF listening THEN Append(notices, i) ELSE notices
  /\ IF listening THEN UNCHANGED <<reader, missed>> ELSE Lose(clients, {i})
  /\ UNCHANGED <<listening, loading, queue, running, clients, conn, faults>>

\* Acquire a connection and LISTEN.
Listen ==
  /\ running
  /\ ~listening
  /\ loading = None
  /\ listening' = TRUE
  /\ UNCHANGED <<notices, loading, queue, running, clients, conn, faults, reader, missed>>

\* The connection breaks: what it was notified of is gone.
ConnectionBreaks ==
  /\ listening
  /\ faults < MaxFaults
  /\ faults' = faults + 1
  /\ listening' = FALSE
  /\ notices' = <<>>
  /\ Lose(clients, {notices[n] : n \in DOMAIN notices})
  /\ UNCHANGED <<loading, queue, running, clients, conn>>

\* WaitForNotification returns.
Receive ==
  /\ running
  /\ listening
  /\ loading = None
  /\ notices # <<>>
  /\ loading' = Head(notices)
  /\ notices' = Tail(notices)
  /\ UNCHANGED <<listening, queue, running, clients, conn, faults, reader, missed>>

\* The query for the incident fails and its change is skipped.
LoadFails ==
  /\ running
  /\ loading # None
  /\ faults < MaxFaults
  /\ faults' = faults + 1
  /\ loading' = None
  /\ Lose(clients, {loading})
  /\ UNCHANGED <<notices, listening, queue, running, clients, conn>>

\* The incident is loaded as it is now and offered to the hub, which drops
\* it when its queue is full.
Publish ==
  /\ running
  /\ loading # None
  /\ loading' = None
  /\ IF Len(queue) < QueueCap
     THEN /\ queue' = Append(queue, [id |-> loading, version |-> version[loading]])
          /\ UNCHANGED <<reader, missed>>
     ELSE /\ Lose(clients, {loading})
          /\ UNCHANGED queue
  /\ UNCHANGED <<notices, listening, running, clients, conn, faults>>

----------------------------------------------------------------------------
(* The goroutine of the hub.                                               *)

\* A handler and the hub meet on the subscribe channel; the reaper starts.
Subscribe(c) ==
  /\ running
  /\ conn[c].handler = "subscribing"
  /\ clients' = clients \cup {c}
  /\ conn' = [conn EXCEPT ![c].handler = "greeting", ![c].reaper = "waiting"]
  /\ UNCHANGED <<notices, listening, loading, queue, running, faults, reader, missed>>

\* Faulty variants: the set of clients keeps the closed channel; a client
\* is unregistered only while its handler reads.
MutUnsubscribe(c) ==
  /\ running
  /\ conn[c].reaper = "waiting"
  /\ conn[c].cancelled
  /\ conn' = [conn EXCEPT ![c].reaper = "done", ![c].closed = @ \/ c \in clients]
  /\ UNCHANGED <<notices, listening, loading, queue, running, clients, faults, reader, missed>>
MutUnsubscribeLate(c) ==
  /\ running
  /\ conn[c].reaper = "waiting"
  /\ conn[c].cancelled
  /\ conn[c].handler = "reading"
  /\ clients' = clients \ {c}
  /\ conn' = [conn EXCEPT ![c].reaper = "done", ![c].closed = @ \/ c \in clients]
  /\ UNCHANGED <<notices, listening, loading, queue, running, faults, reader, missed>>

\* A reaper and the hub meet on the unsubscribe channel.
Unsubscribe(c) ==
  /\ running
  /\ conn[c].reaper = "waiting"
  /\ conn[c].cancelled
  /\ clients' = clients \ {c}
  /\ conn' = [conn EXCEPT ![c].reaper = "done",
                          ![c].closed = @ \/ c \in clients]
  /\ UNCHANGED <<notices, listening, loading, queue, running, faults, reader, missed>>

HasRoom(c) == Len(conn[c].buffer) < ClientCap

\* A published message goes to every client whose buffer has room.  What
\* is put into the buffer of a handler that returned is never read.
Broadcast ==
  /\ running
  /\ queue # <<>>
  /\ queue' = Tail(queue)
  /\ conn' = [c \in Conns |-> IF c \in clients /\ HasRoom(c) /\ conn[c].handler # "done"
                              THEN [conn[c] EXCEPT !.buffer = Append(@, Head(queue))]
                              ELSE conn[c]]
  /\ Lose({c \in clients : ~HasRoom(c)}, {Head(queue).id})
  /\ UNCHANGED <<notices, listening, loading, running, clients, faults>>

\* The process is told to stop: the hub closes every client's channel and
\* returns, and the listener with it.
Stop ==
  /\ running
  /\ running' = FALSE
  /\ listening' = FALSE
  /\ notices' = <<>>
  /\ loading' = None
  /\ queue' = <<>>
  /\ conn' = [c \in Conns |-> [conn[c] EXCEPT !.closed = @ \/ c \in clients]]
  /\ clients' = {}
  /\ Lose(clients, {i \in Ids : Announced(i)})
  /\ UNCHANGED faults

----------------------------------------------------------------------------
(* The handlers.                                                           *)

\* A client connects: a new context, and later a new channel.
Connect(c) ==
  /\ conn[c].handler = "idle" \/ (conn[c].handler = "done" /\ conn[c].reaper # "waiting")
  /\ conn' = [conn EXCEPT ![c] = [NewConn EXCEPT !.handler = "subscribing"]]
  /\ UNCHANGED <<notices, listening, loading, queue, running, clients, faults, reader, missed>>

\* The client goes away, or breaks the protocol: the context is cancelled.
Disconnect(c) ==
  /\ conn[c].handler \notin {"idle", "done"}
  /\ ~conn[c].cancelled
  /\ conn' = [conn EXCEPT ![c].cancelled = TRUE]
  /\ UNCHANGED <<notices, listening, loading, queue, running, clients, faults, reader, missed>>

\* Cancelled before the hub took the channel: it is returned closed, and no
\* reaper starts.
GiveUpSubscribing(c) ==
  /\ conn[c].handler = "subscribing"
  /\ conn[c].cancelled
  /\ conn' = [conn EXCEPT ![c].handler = "greeting", ![c].closed = TRUE]
  /\ UNCHANGED <<notices, listening, loading, queue, running, clients, faults, reader, missed>>

\* Faulty variant: the client is greeted before the hub has its channel.
MutGreet(c) ==
  /\ conn[c].handler \in {"subscribing", "greeting"}
  /\ ~conn[c].cancelled
  /\ conn' = [conn EXCEPT ![c].handler = "reading"]
  /\ reader' = c
  /\ missed' = {}
  /\ UNCHANGED <<notices, listening, loading, queue, running, clients, faults>>

\* The first message tells the client that it is connected.
Greet(c) ==
  /\ conn[c].handler = "greeting"
  /\ ~conn[c].cancelled
  /\ conn' = [conn EXCEPT ![c].handler = "reading"]
  /\ reader' = c
  /\ missed' = {}
  /\ UNCHANGED <<notices, listening, loading, queue, running, clients, faults>>

\* The next message is written to the client.
Deliver(c) ==
  /\ conn[c].handler = "reading"
  /\ ~conn[c].cancelled
  /\ conn[c].buffer # <<>>
  /\ conn' = [conn EXCEPT ![c].buffer = Tail(@)]
  /\ UNCHANGED <<notices, listening, loading, queue, running, clients, faults, reader, missed>>

\* The handler returns: the context is cancelled, the channel is closed, or
\* a write fails or times out.  Returning cancels the context.
Finish(c) ==
  /\ \/ conn[c].handler = "greeting"
     \/ /\ conn[c].handler = "reading"
        /\ conn[c].cancelled \/ conn[c].closed \/ conn[c].buffer # <<>>
  /\ conn' = [conn EXCEPT ![c].handler = "done", ![c].cancelled = TRUE, ![c].buffer = <<>>]
  /\ reader' = IF c = reader THEN None ELSE reader
  /\ missed' = IF c = reader THEN {} ELSE missed
  /\ UNCHANGED <<notices, listening, loading, queue, running, clients, faults>>
----------------------------------------------------------------------------
HubStep ==
  Listen \/ ConnectionBreaks \/ Receive \/ LoadFails \/ Publish \/ Broadcast \/ Stop

ConnStep(c) ==
  \/ Connect(c) \/ Subscribe(c) \/ GiveUpSubscribing(c) \/ Greet(c)
  \/ Deliver(c) \/ Disconnect(c) \/ Finish(c) \/ Unsubscribe(c)

\* The hub with whatever the core may write.
HubNext ==
  \/ \E i \in Ids : Notify(i) /\ \E k \in Keys \cup {Null, Absent} : WriteRow(i, k)
  \/ (HubStep \/ \E c \in Conns : ConnStep(c)) /\ UNCHANGED rowVars

HubSpec == RowsInit /\ HubInit /\ [][HubNext]_<<rowVars, hubVars>>

\* The hub never sends on, or closes, a channel that is closed already: the
\* channels it may send to or close are those of its clients (hub.go:33-58),
\* and Subscribe closes only the one it could not register (hub.go:66-68).
NoSecondClose ==
  \A c \in Conns : c \in clients \/ conn[c].handler = "subscribing" => ~conn[c].closed
=============================================================================
