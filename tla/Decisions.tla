----------------------------- MODULE Decisions -----------------------------
(***************************************************************************)
(* The two decisions the service takes over an earthquake, one after the   *)
(* other: which incident a catalogue's report belongs to (Correlation),    *)
(* and whether the incident's new version is news to a subscriber          *)
(* (Matching).  The queues between them are those of IncidentStream.       *)
(***************************************************************************)
EXTENDS Correlation, Matching

CONSTANTS
  Backlogs,       \* catalogues of incidents that exist before
  MaxChanges,     \* bound: changes of incidents
  MaxStatusSets   \* bound: changes of the subscription's status

\* The events an incident may show, and an incident.
Events == Reports \cup UNION {{backlog[i].event : i \in DOMAIN backlog} : backlog \in Backlogs}

Incident == [event: Events, preferred: Providers, providers: SUBSET Providers]

ASSUME DecisionsAssumption ==
  /\ MaxChanges \in Nat /\ MaxStatusSets \in Nat
  /\ Backlogs \subseteq Seq(Incident)
  /\ \A e \in Events :
       /\ {e.time, e.place, e.magnitude, e.depth} \subseteq Nat
       /\ e.place <= Farthest
       /\ e.magnitude \in DOMAIN UpperMMI \cup {NoMagnitude}

VARIABLES
  changes,    \* changes so far
  statusSets  \* changes of the status so far

vars == <<correlationVars, matchingVars, changes, statusSets>>

\* Bound: the incidents that may exist.
Slots == 1..MaxChanges + 3

Init ==
  /\ incidents \in Backlogs
  /\ last = NoDecision
  /\ MatchingInit([i \in Slots |-> IF i \in DOMAIN incidents
                                  THEN Earlier(incidents[i].event) ELSE <<>>])
  /\ changes = 0
  /\ statusSets = 0

\* The age is looked at in an eligible first version only.
Changed(i) ==
  /\ i \in Slots
  /\ \E eligible, fresh \in BOOLEAN :
       /\ fresh => eligible /\ history[i] = <<>>
       /\ Apply(i, incidents'[i].event, eligible, fresh)

Sight(p, r) ==
  \/ NewIncident(p, r) /\ Changed(Len(incidents'))
  \/ \E i \in DOMAIN incidents : CorrelatedSource(i, p, r) /\ Changed(i)

Change ==
  /\ changes < MaxChanges
  /\ changes' = changes + 1
  /\ \E r \in Reports :
       \/ \E p \in Providers : Sight(p, r)
       \/ \E i \in DOMAIN incidents : ReviseSource(i, r) /\ Changed(i)
  /\ UNCHANGED statusSets

Switch ==
  /\ statusSets < MaxStatusSets
  /\ statusSets' = statusSets + 1
  /\ \E status \in {"active", "paused", "disabled"} : SetStatus(status)
  /\ UNCHANGED <<correlationVars, changes>>

Next == Change \/ Switch

Spec == Init /\ [][Next]_vars
=============================================================================
