------------------------------ MODULE Listing ------------------------------
(***************************************************************************)
(* A reader walks a list page by page: the public list of incidents in one *)
(* of three orders, and the lists of the web administration (incidents,    *)
(* subscriptions, notifications in three tabs, audit log).                 *)
(*                                                                         *)
(* A page is one SELECT with a LIMIT.  A full page carries a signed cursor *)
(* with the list it belongs to and the key and id of its last row; the     *)
(* next request returns the rows beyond that position.  Rows are written   *)
(* between the requests, so a row may appear in front of the cursor or     *)
(* move across it.  The second reader opens the details of an incident,    *)
(* which the administration collects with several statements; what the     *)
(* notification service records about a version is written later than the  *)
(* version, in a transaction of that service.                              *)
(*                                                                         *)
(* Abstractions: the other filters select the rows that are Present; a     *)
(* malformed or forged parameter is refused like a foreign cursor and      *)
(* changes nothing.                                                        *)
(***************************************************************************)
EXTENDS IncidentRows, Sequences

CONSTANT Limit  \* rows of a page

VARIABLES
  walk,    \* the reader's list, and the position reached
  due,     \* the rows of the list since the walk began, as yet not shown
  shown,   \* the rows shown, and not moved in the list since then
  twice,   \* such a row was shown again
  matched, \* matched[i]: the newest version of row i whose matching is recorded
  detail   \* the incident page being collected, and the versions its parts show

detailVars == <<matched, detail>>
listVars == <<walk, due, shown, twice, detailVars>>

PublicLists == {"occurred_at_desc", "occurred_at_asc", "magnitude_desc"}
Tabs == {"telegram_private", "telegram_channel", "webhook"}
AdminLists == {"incidents", "subscriptions", "audit"} \cup Tabs
Lists == PublicLists \cup AdminLists

\* Lists of incidents; the others sort by the time a row was created.
IncidentLists == PublicLists \cup {"incidents"}

\* The keys a row of the list may have: only a magnitude may be missing.
KeysOf(list) == Keys \cup (IF list = "magnitude_desc" THEN {Null} ELSE {})

\* What a cursor says about its list when it is written and when it is read.
ScopeWritten(list) == IF list \in Tabs THEN <<"notifications">> ELSE <<list>>
ScopeRead(list) == IF list \in Tabs THEN <<"notifications", list>> ELSE <<list>>

\* A position is a key and an id; a cursor is one, signed for a list.
Cursors == [scope : {ScopeWritten(list) : list \in Lists},
            at : [key : Keys \cup {Null}, id : Ids]]

ASSUME ListingAssumption == Limit \in Nat \ {0} /\ None \notin Cursors

ListTypeOK ==
  /\ walk.list \in Lists
  /\ walk.status \in {"idle", "walking", "ended", "refused", "failed"}
  /\ due \subseteq Ids
  /\ shown \subseteq Ids
  /\ twice \in BOOLEAN
  /\ matched \in [Ids -> Nat]

----------------------------------------------------------------------------
(* The queries.                                                            *)

At(i) == [key |-> key[i], id |-> i]

\* ORDER BY: descending except for the oldest-first list, a missing
\* magnitude last.
Precedes(list, p, q) ==
  LET Less(x, y) == x.key < y.key \/ (x.key = y.key /\ x.id < y.id)
  IN  IF list = "occurred_at_asc" THEN Less(p, q) ELSE Less(q, p)

\* Faulty variant: without the id.
MutBeyond(list, cursor, p) ==
  p.key # Null /\ IF list = "occurred_at_asc" THEN p.key > cursor.key ELSE p.key < cursor.key

\* WHERE (key,id) < cursor: the comparison with a missing magnitude is
\* not true.
Beyond(list, cursor, p) == p.key # Null /\ Precedes(list, cursor, p)

Page(list, cursor) ==
  LET rows == {i \in Ids : Present(i) /\ (cursor # None => Beyond(list, cursor.at, At(i)))}
  IN  {i \in rows : Cardinality({j \in rows : Precedes(list, At(j), At(i))}) < Limit}

LastOf(list, page) == CHOOSE i \in page : \A j \in page \ {i} : Precedes(list, At(j), At(i))

Accepted(list, cursor) == cursor # None => cursor.scope = ScopeRead(list)

----------------------------------------------------------------------------
ListInit(list) ==
  /\ walk = [list |-> list, status |-> "idle", cursor |-> None]
  /\ due = {}
  /\ shown = {}
  /\ twice = FALSE
  /\ matched = [i \in Ids |-> 0]
  /\ detail = None

\* The reader starts at the first page.
Restart ==
  /\ walk' = [walk EXCEPT !.status = "walking", !.cursor = None]
  /\ due' = {i \in Ids : Present(i)}
  /\ shown' = {}
  /\ UNCHANGED twice

\* The reader is not interested any more.
Abandon ==
  /\ walk' = [walk EXCEPT !.status = "idle", !.cursor = None]
  /\ due' = {}
  /\ shown' = {}
  /\ UNCHANGED twice

StartWalk ==
  /\ walk.status # "walking"
  /\ Restart
  /\ UNCHANGED <<rowVars, detailVars>>

\* A page that is not full has no next cursor and ends the walk.
Serve(list) ==
  LET page == Page(list, walk.cursor)
      full == Cardinality(page) = Limit
  IN  /\ walk' = [list |-> list,
                  status |-> IF full THEN "walking" ELSE "ended",
                  cursor |-> IF full
                             THEN [scope |-> ScopeWritten(list), at |-> At(LastOf(list, page))]
                             ELSE None]
      /\ due' = due \ page
      /\ shown' = shown \cup page
      /\ twice' = (twice \/ page \cap shown # {})

\* A request for a page: of the reader's list, or of another one with the
\* cursor of this one.
GetPage(list) ==
  /\ walk.status = "walking"
  /\ list = walk.list \/ walk.cursor # None
  /\ Accepted(list, walk.cursor)
  /\ walk.cursor # None => walk.cursor.at.key # Null
  /\ Serve(list)
  /\ UNCHANGED <<rowVars, detailVars>>

\* 400: the cursor belongs to another list.
RefuseCursor(list) ==
  /\ walk.status = "walking"
  /\ ~Accepted(list, walk.cursor)
  /\ walk' = [walk EXCEPT !.status = "refused"]
  /\ UNCHANGED <<rowVars, due, shown, twice, detailVars>>

\* 500: the cursor of a page that ends in a missing magnitude has none, and
\* the query dereferences it.
FailOnMissingMagnitude ==
  /\ walk.status = "walking"
  /\ walk.cursor # None
  /\ Accepted(walk.list, walk.cursor)
  /\ walk.cursor.at.key = Null
  /\ walk' = [walk EXCEPT !.status = "failed"]
  /\ UNCHANGED <<rowVars, due, shown, twice, detailVars>>

----------------------------------------------------------------------------
(* The details of an incident: one statement for the row, then one for     *)
(* each of the parts, in this order, outside a transaction.                *)

\* The notification service has received version v of row i: evaluations
\* and the audit of the matching are inserted in one transaction, some time
\* after the core committed the version; versions in between may not be
\* eligible for it.
RecordMatching(i, v) ==
  /\ matched[i] < v /\ v <= version[i]
  /\ matched' = [matched EXCEPT ![i] = v]
  /\ UNCHANGED <<rowVars, walk, due, shown, twice, detail>>

\* Faulty variant: the revisions are read with the core's other parts.
MutParts == <<"incident", "sources", "observations", "associations",
              "revisions", "evaluations", "audits">>

Parts == <<"incident", "sources", "observations", "associations",
           "evaluations", "audits", "revisions">>

\* The version up to which a part of row i is written; a first version has
\* no revision.
Written(part, i) ==
  CASE part \in {"evaluations", "audits"} -> matched[i]
    [] part = "revisions" -> IF version[i] > 1 THEN version[i] ELSE 0
    [] OTHER -> version[i]

OpenDetail(i) ==
  /\ detail = None
  /\ Present(i)
  /\ detail' = [id |-> i, seen |-> <<>>]
  /\ UNCHANGED <<rowVars, walk, due, shown, twice, matched>>

ReadPart ==
  /\ detail # None
  /\ Len(detail.seen) < Len(Parts)
  /\ detail' = [detail EXCEPT !.seen = Append(@, Written(Parts[Len(@) + 1], detail.id))]
  /\ UNCHANGED <<rowVars, walk, due, shown, twice, matched>>

CloseDetail ==
  /\ detail # None
  /\ detail' = None
  /\ UNCHANGED <<rowVars, walk, due, shown, twice, matched>>

\* A row is written; the rows of a list that is sorted by creation time
\* keep their key and stay in it.
WriteInList(i, k) ==
  /\ k \in KeysOf(walk.list) \cup {Absent}
  /\ walk.list \notin IncidentLists => key[i] \in {Absent, k}
  /\ WriteRow(i, k)
  /\ LET moved == IF k = key[i] THEN {} ELSE {i}
     IN  due' = due \ moved /\ shown' = shown \ moved
  /\ UNCHANGED <<walk, twice, detailVars>>
=============================================================================
