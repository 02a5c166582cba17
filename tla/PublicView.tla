---------------------------- MODULE PublicView -----------------------------
(***************************************************************************)
(* A client of the public API that wants to know every incident: it opens  *)
(* the realtime stream and, once it is told that it is connected, walks    *)
(* the list of incidents through the HTTP API; what either source shows it *)
(* keeps, the higher version of an incident winning.  When its connection  *)
(* ends it connects again and walks the list again.  The client is not     *)
(* part of the repository: this is what README.md and docs/architecture.md *)
(* ask of it.  Readers of the other lists only walk.                       *)
(***************************************************************************)
EXTENDS Listing, RealtimeHub

CONSTANTS
  ReadLists,   \* bound: the lists that are read
  StreamedIds, \* bound: the incidents that exist while the stream is read
  DetailIds    \* bound: the incidents whose details are opened

ASSUME ReaderAssumption ==
  ReadLists \subseteq Lists /\ StreamedIds \subseteq Ids /\ DetailIds \subseteq Ids

VARIABLE view  \* view[i]: the version of incident i the client has, or 0

vars == <<rowVars, listVars, hubVars, view>>

\* The list that a client of the stream walks.
Streamed == walk.list = "occurred_at_desc"

\* The rows that may be written.
Live == IF Streamed THEN StreamedIds ELSE Ids

Init ==
  /\ \E list \in ReadLists : ListInit(list)
  /\ RowsInit
  /\ \A i \in Ids : key[i] \in KeysOf(walk.list) \cup {Absent}
  /\ \A i \in Ids \ Live : key[i] = Absent
  /\ HubInit
  /\ view = [i \in Ids |-> 0]

----------------------------------------------------------------------------
\* The core commits a change of row i, and the trigger announces it.
Commit(i) ==
  /\ i \in Live
  /\ \E k \in Keys \cup {Null, Absent} : WriteInList(i, k)
  /\ Notify(i)
  /\ UNCHANGED view

\* A walk without the stream.
Browse ==
  /\ ~Streamed
  /\ StartWalk
  /\ UNCHANGED <<hubVars, view>>

\* The client is told that it is connected, and loads the list anew.
Resynchronize(c) ==
  /\ Greet(c)
  /\ Restart
  /\ view' = [i \in Ids |-> 0]
  /\ UNCHANGED <<rowVars, detailVars>>

\* The handler of a connection ends; the client forgets what it has.
Hangup(c) ==
  /\ Finish(c)
  /\ IF c = reader
     THEN Abandon /\ view' = [i \in Ids |-> 0]
     ELSE UNCHANGED <<walk, due, shown, twice, view>>
  /\ UNCHANGED <<rowVars, detailVars>>

Newer(v, w) == IF v < w THEN w ELSE v

ReadPage ==
  /\ \E list \in ReadLists : GetPage(list)
  /\ view' = [i \in Ids |-> IF reader # None /\ i \in Page(walk.list, walk.cursor)
                            THEN Newer(view[i], version[i]) ELSE view[i]]
  /\ UNCHANGED hubVars

Walk ==
  \/ Browse
  \/ ReadPage
  \/ /\ (\E list \in ReadLists : RefuseCursor(list)) \/ FailOnMissingMagnitude
     /\ UNCHANGED <<hubVars, view>>

Administer ==
  /\ walk.list = "incidents"
  /\ \/ \E i \in DetailIds : OpenDetail(i) \/ \E v \in 1..version[i] : RecordMatching(i, v)
     \/ ReadPart
     \/ CloseDetail
  /\ UNCHANGED <<hubVars, view>>

\* The next message of the stream reaches the client.
Show(c) ==
  /\ Deliver(c)
  /\ view' = IF c = reader
             THEN LET m == Head(conn[c].buffer)
                  IN  [view EXCEPT ![m.id] = Newer(@, m.version)]
             ELSE view
  /\ UNCHANGED <<rowVars, listVars>>

\* A step of the stream that the client does not notice.
Quietly(A) == Streamed /\ A /\ UNCHANGED <<rowVars, listVars, view>>

Stream ==
  \/ Quietly(HubStep)
  \/ \E c \in Conns :
       \/ Quietly(Connect(c) \/ Subscribe(c) \/ GiveUpSubscribing(c)
                  \/ Disconnect(c) \/ Unsubscribe(c))
       \/ Show(c) \/ Resynchronize(c) \/ Hangup(c)

Next == (\E i \in Ids : Commit(i)) \/ Walk \/ Administer \/ Stream

Spec == Init /\ [][Next]_vars

\* The listener and the hub keep running, and so does a handler that has a
\* message, a cancelled context or a closed channel.
Fairness ==
  /\ WF_vars(Quietly(Listen \/ Receive \/ Publish))
  /\ WF_vars(Quietly(Broadcast))
  /\ \A c \in Conns :
       /\ WF_vars(Show(c) \/ Hangup(c))
       /\ WF_vars(Quietly(Unsubscribe(c)))

FairSpec == Spec /\ Fairness

----------------------------------------------------------------------------
(* Properties.                                                             *)

TypeOK ==
  /\ RowsTypeOK
  /\ ListTypeOK
  /\ HubTypeOK
  /\ view \in [Ids -> Nat]

\* A message with the current version of incident i waits for connection c.
Waiting(i, c) ==
  \E n \in DOMAIN conn[c].buffer : conn[c].buffer[n] = [id |-> i, version |-> version[i]]

UnderWay(i) ==
  \/ \E n \in DOMAIN notices : notices[n] = i
  \/ loading = i
  \/ \E n \in DOMAIN queue : queue[n] = [id |-> i, version |-> version[i]]

\* The client whose channel is open has loaded the whole list.
Loaded == reader # None /\ walk.status = "ended" /\ ~conn[reader].closed

\* A client that connects first and loads the list then has every incident
\* at its current version, unless a message about it is still coming or one
\* was lost since it connected - even if the incident moved from a page not
\* yet read to one already read (README.md:197, docs/architecture.md:99).
ViewIsCurrent ==
  Loaded => \A i \in Ids : Present(i) =>
    view[i] = version[i] \/ i \in missed \/ UnderWay(i) \/ Waiting(i, reader)

\* A reader that reaches the end of a list was shown every row that was in
\* it all the time at one place, except rows without magnitude, which the
\* comparison with a cursor leaves out; and no row is shown twice unless it
\* was moved in between (query.go:81-100, server.go:102-115).
WalkIsExact ==
  /\ walk.status = "ended" => \A i \in due : key[i] = Null
  /\ ~twice

\* The cursor of a page is accepted by the list it was made for
\* (docs/admin.md:162 "Each tab has an independent signed pagination
\* cursor"; httpadmin/server.go:292,307).
OwnCursorAccepted == walk.cursor # None => Accepted(walk.list, walk.cursor)

\* Where a part shows version v, another has to show it too.
Needs(part, v, other) ==
  \/ part = "incident" /\ other \in {"sources", "observations", "associations"}
  \/ part = "evaluations" /\ other = "audits"
  \/ v > 1 /\ other = "revisions"

\* The details of an incident, though they are collected while the core and
\* the notification service write, hang together: what the core keeps about
\* the version of the row that is shown is shown, an evaluation comes with
\* the audit of its matching, and every later version that any part shows
\* or refers to comes with its revision (administration.go:89-116).  The
\* evaluations of the newest version may be missing.
DetailKnowsItsVersion ==
  detail # None =>
    \A n, m \in DOMAIN detail.seen :
      Needs(Parts[n], detail.seen[n], Parts[m]) => detail.seen[n] <= detail.seen[m]

\* A loaded client catches up with every change that is not lost.
CaughtUp ==
  Loaded => \A i \in Ids : Present(i) => view[i] = version[i] \/ i \in missed

ClientCatchesUp == []<>CaughtUp

\* While the hub runs, a cancelled connection is unregistered; a reaper
\* that is left when it stops waits for ever (hub.go:70-73).
ReaperGetsThrough ==
  \A c \in Conns : conn[c].reaper = "waiting" /\ conn[c].cancelled
                     ~> conn[c].reaper = "done" \/ ~running
=============================================================================
