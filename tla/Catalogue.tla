----------------------------- MODULE Catalogue -----------------------------
(***************************************************************************)
(* The incident catalogue of the core: what applyEvent does with one       *)
(* provider observation.                                                   *)
(*                                                                         *)
(* Every provider identity has one source record, linked to one incident   *)
(* for good.  An incident shows the fields of its preferred source and a   *)
(* lifecycle resolved from the solutions of all its sources; each change a *)
(* user can see gets the next version number, and the core's outbox gets   *)
(* one message for it in the same transaction.                             *)
(*                                                                         *)
(* Abstractions.                                                           *)
(*  - One action is one transaction.  The source row and its incident are  *)
(*    locked while a known identity is handled, and first sightings that   *)
(*    may be correlated hold one advisory lock; two transactions that race *)
(*    on a first sighting anyway end in a unique violation and a retry.    *)
(*  - Scoring is left open: a first sighting may be associated with any    *)
(*    incident the candidate query returns, or with none (no candidate, a  *)
(*    low score, an ambiguous ranking, no magnitude).                      *)
(*  - A report is what a provider's payload says: its solution and a text  *)
(*    for all other fields.  Two payloads have the same hash exactly when  *)
(*    they are the same report: the raw payload of each provider contains  *)
(*    what the parser derives the solution from.                           *)
(*  - Left out: the channel, URLs, last-seen times, the counters of source *)
(*    revisions, and the histories earthquake_revisions and                *)
(*    provider_observations, which nothing here reads back.                *)
(***************************************************************************)
EXTENDS Naturals, FiniteSets

CONSTANTS
  Sources,     \* provider identities: pairs <<provider, external id>>
  Incidents,   \* bound: the incidents that may be created
  None,        \* no incident, no source
  MaxTime,     \* bound: source timestamps are 1 .. MaxTime
  Texts,       \* what a report may say besides its solution
  MaxVersion   \* bound: an incident is changed until it has this version

ASSUME CatalogueAssumption ==
  /\ None \notin Sources
  /\ None \notin Incidents
  /\ MaxTime \in Nat \ {0}
  /\ MaxVersion \in Nat \ {0}

VARIABLES
  src,    \* src[s]: the record of source s and the incident it belongs to
  inc,    \* inc[i]: the canonical row of incident i
  outbox  \* outbox[i]: the incident.changed messages of incident i

vars == <<src, inc, outbox>>

----------------------------------------------------------------------------
(* Solutions, lifecycles and source preference.                            *)

Solution == {"preliminary", "confirmed", "reviewed", "retracted"}
Lifecycle == Solution

\* What the parser of each provider makes of a payload.
SolutionsOf(provider) ==
  CASE provider = "usgs" -> {"confirmed", "reviewed", "retracted"}
    [] provider = "emsc" -> {"preliminary", "confirmed", "retracted"}
    [] OTHER -> {"confirmed"}

\* solutionRank
Rank(solution) ==
  CASE solution = "reviewed" -> 3
    [] solution = "confirmed" -> 2
    [] solution = "preliminary" -> 1
    [] OTHER -> 0

\* providerPriority
Priority(provider) ==
  CASE provider = "kndc" -> 4
    [] provider = "usgs" -> 3
    [] provider = "geofon" -> 2
    [] provider = "emsc" -> 1
    [] OTHER -> 0

Provider(s) == s[1]

\* Faulty variant: any retraction withdraws the incident.
MutResolveAnyRetraction(solutions) ==
  IF "retracted" \in solutions THEN "retracted"
  ELSE CHOOSE best \in solutions : \A other \in solutions : Rank(other) <= Rank(best)

\* The best solution of any source; retracted if every source is retracted.
ResolveLifecycle(solutions) ==
  CHOOSE best \in solutions : \A other \in solutions : Rank(other) <= Rank(best)

\* Faulty variant: a retraction gives way to any later solution.
MutStrongerRevives(current, incoming) ==
  IF Rank(incoming) > Rank(current) THEN incoming ELSE current

StrongerSolution(current, incoming) ==
  IF current # "retracted" /\ Rank(incoming) > Rank(current) THEN incoming ELSE current

PreferCanonicalSource(s, solution, t, incoming) ==
  IF Rank(incoming) = Rank(solution)
    THEN Priority(Provider(t)) > Priority(Provider(s))
    ELSE Rank(incoming) > Rank(solution)

----------------------------------------------------------------------------
(* Records.                                                                *)

Report == [solution: Solution, text: Texts]

\* The observations the provider of s can make.
Observations(s) ==
  {o \in [at: 1 .. MaxTime, report: Report] :
     o.report.solution \in SolutionsOf(Provider(s))}

\* A row of earthquake_source_records with its active association.
\* The solution is a column of its own: it may be promoted above the report's.
Record(i, o) ==
  [incident |-> i, at |-> o.at, report |-> o.report, solution |-> o.report.solution]

SourceRecord ==
  [incident: Incidents, at: 1 .. MaxTime, report: Report, solution: Solution]

UnknownSource == [incident |-> None]

\* A row of earthquakes.
Row == [version: Nat \ {0}, preferred: Sources, at: 1 .. MaxTime, report: Report,
        lifecycle: Lifecycle]

UnusedIncident == [version |-> 0]

Known(s) == src[s].incident # None

Used(i) == inc[i].version > 0

SourcesOf(sources, i) == {s \in Sources : sources[s].incident = i}

\* incidentLifecycle, read after the transaction changed the source records.
LifecycleOf(sources, i) ==
  ResolveLifecycle({sources[s].solution : s \in SourcesOf(sources, i)})

\* The incidents correlationDecision may match a first sighting of s with.
Candidate(s, i) ==
  /\ Used(i)
  /\ \E t \in SourcesOf(src, i) : Provider(t) # Provider(s)
  /\ \A t \in SourcesOf(src, i) : Provider(t) # Provider(s)

\* enqueueIncidentChange: the message id is derived from the incident and
\* its version, and the insert does nothing if the id is there already.
Enqueued(i, row) ==
  IF \E m \in outbox[i] : m.version = row.version THEN outbox
  ELSE [outbox EXCEPT ![i] = @ \cup {row}]

\* The incident changed: its row is written and the change is announced.
Publish(i, row) ==
  /\ inc' = [inc EXCEPT ![i] = row]
  /\ outbox' = Enqueued(i, row)

\* Faulty variant: the association is not a change of its own.
MutAssociationChange(i, sources) ==
  Publish(i, [inc[i] EXCEPT !.lifecycle = LifecycleOf(sources, i)])

\* updateIncidentAssociation
AssociationChange(i, sources) ==
  Publish(i, [inc[i] EXCEPT !.version = @ + 1, !.lifecycle = LifecycleOf(sources, i)])

\* Faulty variant: the canonical fields keep the preferred source.
MutCanonicalChange(i, s, o, sources) ==
  Publish(i, [inc[i] EXCEPT !.version = @ + 1, !.at = o.at, !.report = o.report,
                            !.lifecycle = LifecycleOf(sources, i)])

\* updateCanonicalFromSource
CanonicalChange(i, s, o, sources) ==
  Publish(i, [version |-> inc[i].version + 1, preferred |-> s, at |-> o.at,
              report |-> o.report, lifecycle |-> LifecycleOf(sources, i)])

\* applyLifecycleChange, where nothing but the lifecycle can have changed.
\* A change of kind "updated" without a new version is enqueued as well, and
\* meets the message that announced that version.
LifecycleChange(i, sources) ==
  IF LifecycleOf(sources, i) = inc[i].lifecycle THEN UNCHANGED <<inc, outbox>>
  ELSE AssociationChange(i, sources)

----------------------------------------------------------------------------
Init ==
  /\ src = [s \in Sources |-> UnknownSource]
  /\ inc = [i \in Incidents |-> UnusedIncident]
  /\ outbox = [i \in Incidents |-> {}]

(* The first sighting of s is not associated with any incident.            *)
NewIncident(s, o) ==
  /\ ~Known(s)
  /\ \E i \in Incidents :
       /\ ~Used(i)
       /\ src' = [src EXCEPT ![s] = Record(i, o)]
       /\ Publish(i, [version |-> 1, preferred |-> s, at |-> o.at, report |-> o.report,
                      lifecycle |-> ResolveLifecycle({o.report.solution})])

(* The first sighting of s is associated with an incident by its score.    *)
CorrelatedSource(s, o) ==
  /\ ~Known(s)
  /\ \E i \in Incidents :
       /\ Candidate(s, i)
       /\ inc[i].version < MaxVersion
       /\ src' = [src EXCEPT ![s] = Record(i, o)]
       /\ LET p == inc[i].preferred IN
            IF PreferCanonicalSource(p, src[p].solution, s, o.report.solution)
              THEN CanonicalChange(i, s, o, src')
              ELSE AssociationChange(i, src')

\* An observation of a known source whose incident may still be changed.
Revises(s) == Known(s) /\ inc[src[s].incident].version < MaxVersion

\* The observation is older than what its incident shows.
Stale(s, o) == o.at < inc[src[s].incident].at

\* The observation has the time and the payload already recorded.
Repeats(s, o) == o.at = inc[src[s].incident].at /\ o.report = src[s].report

\* Faulty variant: the quality of the recorded solution is not looked at.
MutWeaker(s, o) == FALSE

\* The observation has a solution weaker than the one already recorded.
Weaker(s, o) ==
  /\ o.report.solution # "retracted"
  /\ o.report.solution # src[s].solution
  /\ StrongerSolution(src[s].solution, o.report.solution) = src[s].solution

(* An old or repeated observation can only strengthen the solution.        *)
PromoteSolution(s, o) ==
  /\ Revises(s)
  /\ Stale(s, o) \/ Repeats(s, o)
  /\ src' = [src EXCEPT ![s].solution = StrongerSolution(@, o.report.solution)]
  /\ LifecycleChange(src[s].incident, src')

(* A weaker solution is noted, and nothing else.                           *)
KeepSolution(s, o) ==
  /\ Revises(s)
  /\ ~Stale(s, o) /\ ~Repeats(s, o) /\ Weaker(s, o)
  /\ UNCHANGED src
  /\ LifecycleChange(src[s].incident, src)

(* Anything else is written over the record.  The incident shows it if it  *)
(* comes from its preferred source, or from one preferred to that.         *)
ReviseSource(s, o) ==
  /\ Revises(s)
  /\ ~Stale(s, o) /\ ~Repeats(s, o) /\ ~Weaker(s, o)
  /\ LET i == src[s].incident
         p == inc[i].preferred
     IN /\ src' = [src EXCEPT ![s] = Record(i, o)]
        /\ IF s = p \/ PreferCanonicalSource(p, src[p].solution, s, o.report.solution)
             THEN CanonicalChange(i, s, o, src')
             ELSE LifecycleChange(i, src')

\* applyEvent
Observe(s, o) ==
  \/ NewIncident(s, o)
  \/ CorrelatedSource(s, o)
  \/ PromoteSolution(s, o)
  \/ KeepSolution(s, o)
  \/ ReviseSource(s, o)

Next == \E s \in Sources : \E o \in Observations(s) : Observe(s, o)

Spec == Init /\ [][Next]_vars

----------------------------------------------------------------------------
(* Properties.                                                             *)

\* Every record, incident and message keeps its type, and a row exists only
\* with all of its fields.
TypeOK ==
  /\ src \in [Sources -> SourceRecord \cup {UnknownSource}]
  /\ inc \in [Incidents -> Row \cup {UnusedIncident}]
  /\ outbox \in [Incidents -> SUBSET Row]

\* An incident shows exactly what its preferred source last reported.  The
\* stale, repeated and weaker branches of applyEvent, which look at the time
\* of the incident and the hash of the source, never drive the two apart;
\* and the preferred identity has a record, without which the recursive call
\* of applyEvent after ON CONFLICT DO NOTHING would not end.
CanonicalMatchesPreferred ==
  \A i \in Incidents : Used(i) =>
    LET p == inc[i].preferred IN
      /\ src[p].incident = i
      /\ src[p].at = inc[i].at
      /\ src[p].report = inc[i].report

\* The stored lifecycle of an incident is the one its sources resolve to:
\* no branch of applyEvent changes a solution and forgets the lifecycle, and
\* a single source's retraction does not withdraw an incident that another
\* source still stands for.
LifecycleIsResolved ==
  \A i \in Incidents : Used(i) =>
    /\ \E s \in SourcesOf(src, i) : src[s].solution = inc[i].lifecycle
    /\ \A s \in SourcesOf(src, i) : Rank(src[s].solution) <= Rank(inc[i].lifecycle)

\* The outbox has exactly one message for each version an incident had, and
\* the message of the current version carries what the incident shows: since
\* message ids are derived from versions, a visible change that kept its
\* version would be swallowed by ON CONFLICT DO NOTHING.
EveryVersionAnnounced ==
  \A i \in Incidents :
    /\ {m.version : m \in outbox[i]} = 1 .. inc[i].version
    /\ Cardinality(outbox[i]) = inc[i].version
    /\ Used(i) => inc[i] \in outbox[i]

\* An incident loses certainty only by a retraction: its lifecycle falls in
\* a step only if that step retracts one of its sources.  Late, repeated and
\* weaker observations and new associations never lower it.
LifecycleFallsOnlyByRetraction ==
  [][\A i \in Incidents :
       Used(i) /\ Rank(inc'[i].lifecycle) < Rank(inc[i].lifecycle) =>
         \E s \in SourcesOf(src, i) :
           src[s].solution # "retracted" /\ src'[s].solution = "retracted"]_vars

\* No observation brings a retracted source back, so an incident whose
\* sources are all retracted is shown as retracted until another provider's
\* identity joins it.
RetractionIsFinal ==
  [][\A i \in Incidents :
       Used(i) /\ inc[i].lifecycle = "retracted" /\ inc'[i].lifecycle # "retracted" =>
         \E s \in SourcesOf(src', i) : ~Known(s)]_vars

\* What docs/architecture.md says of a locked source record: stale responses
\* cannot overwrite newer source data.
StaleNeverOverwritesNewer ==
  [][\A s \in Sources : Known(s) => src'[s].at >= src[s].at]_vars
=============================================================================
