---------------------------- MODULE IncidentRows ----------------------------
(***************************************************************************)
(* The rows that clients of the HTTP API and of the administration see: a  *)
(* table with an id, a sort key (an origin or creation time, a magnitude)  *)
(* and a version.  What writes them is the core's catalogue (Catalogue) or *)
(* the notification service; here a write is only what a reader can tell:  *)
(* a new version, at a key that may differ from the one before.  The core  *)
(* writes the row and what it keeps about the version (source records,     *)
(* observations, associations and, after the first version, a revision) in *)
(* one transaction.                                                        *)
(***************************************************************************)
EXTENDS Integers, FiniteSets

CONSTANTS
  Ids,       \* bound: the rows that may exist
  Keys,      \* the values of the sort key
  None,      \* no position, no incident, no connection
  MaxWrites  \* bound: versions that are written in all

Null == 0     \* a magnitude that no provider reported
Absent == -1  \* no such row, or a row that the reader's filter leaves out

ASSUME RowsAssumption ==
  /\ Ids \subseteq Nat /\ IsFiniteSet(Ids)
  /\ Keys \subseteq Nat \ {Null}
  /\ None \notin Ids
  /\ MaxWrites \in Nat

VARIABLES
  key,     \* key[i]: the sort key of row i
  version, \* version[i]: its version, or 0 before it is inserted
  writes   \* versions written so far

rowVars == <<key, version, writes>>

RowsTypeOK ==
  /\ key \in [Ids -> Keys \cup {Null, Absent}]
  /\ version \in [Ids -> Nat]
  /\ writes \in 0..MaxWrites

RowsInit ==
  /\ key \in [Ids -> Keys \cup {Null, Absent}]
  /\ version = [i \in Ids |-> IF key[i] = Absent THEN 0 ELSE 1]
  /\ writes = 0

Present(i) == key[i] # Absent

\* insertIncident and updateCanonicalFromSource: the row of incident i is
\* written with the next version.
WriteRow(i, k) ==
  /\ writes < MaxWrites
  /\ writes' = writes + 1
  /\ k = Absent => Present(i)
  /\ key' = [key EXCEPT ![i] = k]
  /\ version' = [version EXCEPT ![i] = @ + 1]
=============================================================================
