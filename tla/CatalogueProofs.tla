-------------------------- MODULE CatalogueProofs ---------------------------
(***************************************************************************)
(* Proofs about the catalogue, for any sources, incidents, times and       *)
(* texts, and whatever scoring decides: the incidents show what their      *)
(* sources say, every version is announced, and certainty falls only by a  *)
(* retraction.                                                             *)
(*                                                                         *)
(* All branches of applyEvent have one shape, Outcome: one source record   *)
(* is written, and its incident either stays as it is or gets its next     *)
(* version, with the lifecycle its sources then resolve to.                *)
(***************************************************************************)
EXTENDS Catalogue, FiniteSetTheorems, TLAPS

\* A source belongs to an incident that exists.
Linked == \A s \in Sources : Known(s) => Used(src[s].incident)

FiniteOutbox == \A i \in Incidents : IsFiniteSet(outbox[i])

IInv ==
  /\ TypeOK
  /\ Linked
  /\ FiniteOutbox
  /\ CanonicalMatchesPreferred
  /\ LifecycleIsResolved
  /\ EveryVersionAnnounced

\* A row shows what its preferred source reported.
Shows(row, sources, i) ==
  /\ sources[row.preferred].incident = i
  /\ sources[row.preferred].at = row.at
  /\ sources[row.preferred].report = row.report

\* A recorded solution is never weakened but by a retraction, which stays.
Strengthens(current, next) ==
  /\ next = "retracted" \/ Rank(current) <= Rank(next)
  /\ current = "retracted" => next = "retracted"

Outcome(s, i, r) ==
  /\ r.incident = i
  /\ src' = [src EXCEPT ![s] = r]
  /\ ~Known(s) \/ (src[s].incident = i /\ Strengthens(src[s].solution, r.solution))
  /\ \/ /\ UNCHANGED <<inc, outbox>>
        /\ Used(i)
        /\ inc[i].lifecycle = LifecycleOf(src', i)
        /\ Shows(inc[i], src', i)
     \/ \E row \in Row :
          /\ row.version = inc[i].version + 1
          /\ row.lifecycle = LifecycleOf(src', i)
          /\ Shows(row, src', i)
          /\ Publish(i, row)

----------------------------------------------------------------------------
(* Solutions.                                                              *)

LEMMA Ranks ==
  /\ Rank("reviewed") = 3
  /\ Rank("confirmed") = 2
  /\ Rank("preliminary") = 1
  /\ Rank("retracted") = 0
BY DEF Rank

\* Only a retraction has the lowest rank.
LEMMA RankIsNat ==
  ASSUME NEW x \in Solution
  PROVE  Rank(x) \in Nat /\ (Rank(x) = 0 => x = "retracted")
BY Ranks DEF Solution

\* The best of some solutions is one of them.
LEMMA Resolves ==
  ASSUME NEW S \in SUBSET Solution, S # {}
  PROVE  /\ ResolveLifecycle(S) \in S
         /\ \A x \in S : Rank(x) <= Rank(ResolveLifecycle(S))
<1>1. \E best \in S : \A x \in S : Rank(x) <= Rank(best)
  <2>1. CASE "reviewed" \in S
    BY <2>1, Ranks DEF Solution
  <2>2. CASE "reviewed" \notin S /\ "confirmed" \in S
    BY <2>2, Ranks DEF Solution
  <2>3. CASE "reviewed" \notin S /\ "confirmed" \notin S /\ "preliminary" \in S
    BY <2>3, Ranks DEF Solution
  <2>4. CASE "reviewed" \notin S /\ "confirmed" \notin S /\ "preliminary" \notin S
    <3>1. S = {"retracted"}
      BY <2>4 DEF Solution
    <3> QED
      BY <3>1, Ranks
  <2> QED
    BY <2>1, <2>2, <2>3, <2>4
<1> QED
  BY <1>1 DEF ResolveLifecycle

\* The stronger of two solutions is not weaker than the current one, or a
\* retraction.
LEMMA StrongerStrengthens ==
  ASSUME NEW current \in Solution, NEW incoming \in Solution
  PROVE  /\ StrongerSolution(current, incoming) \in Solution
         /\ Strengthens(current, StrongerSolution(current, incoming))
BY RankIsNat DEF StrongerSolution, Strengthens

\* What is written over a record is not weaker than it, or a retraction.
LEMMA NotWeakerStrengthens ==
  ASSUME NEW s, NEW o, src[s].solution \in Solution, o.report.solution \in Solution,
         ~Weaker(s, o)
  PROVE  Strengthens(src[s].solution, o.report.solution)
BY RankIsNat DEF Weaker, StrongerSolution, Strengthens

----------------------------------------------------------------------------
(* The shape of a step.                                                    *)

\* Observations and the records they become have their types.
LEMMA ObservationType ==
  ASSUME NEW s, NEW o \in Observations(s)
  PROVE  o.at \in 1..MaxTime /\ o.report \in Report /\ o.report.solution \in Solution
BY DEF Observations, Report

LEMMA RecordType ==
  ASSUME NEW s, NEW o \in Observations(s), NEW i \in Incidents
  PROVE  /\ Record(i, o) \in SourceRecord
         /\ Record(i, o).incident = i
         /\ Record(i, o).at = o.at
         /\ Record(i, o).report = o.report
         /\ Record(i, o).solution = o.report.solution
BY ObservationType DEF Record, SourceRecord

\* What the invariant says of one source and its incident.
LEMMA Sound ==
  ASSUME CatalogueAssumption, TypeOK, Linked
  PROVE  /\ \A s \in Sources : Known(s) =>
              /\ src[s] \in SourceRecord
              /\ src[s].incident \in Incidents
              /\ inc[src[s].incident] \in Row
         /\ \A i \in Incidents : Used(i) => inc[i] \in Row
         /\ \A i \in Incidents : inc[i].version \in Nat
         /\ \A i \in Incidents : ~Used(i) => inc[i].version = 0
<1>1. \A i \in Incidents : inc[i] \in Row \/ inc[i] = [version |-> 0]
  BY DEF TypeOK, UnusedIncident
<1>2. \A i \in Incidents : inc[i].version \in Nat /\ (inc[i] \in Row <=> Used(i))
  BY <1>1 DEF Row, Used
<1>3. \A s \in Sources : Known(s) => src[s] \in SourceRecord
  BY DEF TypeOK, Known, UnknownSource
<1>4. \A s \in Sources : Known(s) => src[s].incident \in Incidents
  BY <1>3 DEF SourceRecord
<1> QED
  BY <1>2, <1>3, <1>4 DEF Linked, Used

\* The lifecycle of an incident that has a source is one of theirs, and the
\* best.
LEMMA LifecycleIsBest ==
  ASSUME NEW sources, NEW i,
         \A t \in SourcesOf(sources, i) : sources[t].solution \in Solution,
         SourcesOf(sources, i) # {}
  PROVE  /\ LifecycleOf(sources, i) \in Lifecycle
         /\ \E t \in SourcesOf(sources, i) : sources[t].solution = LifecycleOf(sources, i)
         /\ \A t \in SourcesOf(sources, i) : Rank(sources[t].solution) <= Rank(LifecycleOf(sources, i))
<1> DEFINE S == {sources[t].solution : t \in SourcesOf(sources, i)}
<1>1. S \in SUBSET Solution /\ S # {}
  OBVIOUS
<1>2. /\ ResolveLifecycle(S) \in S
      /\ \A x \in S : Rank(x) <= Rank(ResolveLifecycle(S))
  BY <1>1, Resolves
<1>3. LifecycleOf(sources, i) = ResolveLifecycle(S)
  BY DEF LifecycleOf
<1> QED
  BY <1>1, <1>2, <1>3 DEF Lifecycle

\* One record is written: what the sources are then.
LEMMA OneRecord ==
  ASSUME CatalogueAssumption, TypeOK, Linked,
         NEW s \in Sources, NEW i \in Incidents, NEW r \in SourceRecord, r.incident = i,
         src' = [src EXCEPT ![s] = r], ~Known(s) \/ src[s].incident = i
  PROVE  /\ src' \in [Sources -> SourceRecord \cup {UnknownSource}]
         /\ src'[s] = r
         /\ \A t \in Sources \ {s} : src'[t] = src[t]
         /\ SourcesOf(src', i) = SourcesOf(src, i) \cup {s}
         /\ \A j \in Incidents \ {i} : SourcesOf(src', j) = SourcesOf(src, j)
         /\ \A j \in Incidents : \A t \in SourcesOf(src', j) : src'[t].solution \in Solution
         /\ LifecycleOf(src', i) \in Lifecycle
<1>1. /\ src' \in [Sources -> SourceRecord \cup {UnknownSource}]
      /\ src'[s] = r
      /\ \A t \in Sources \ {s} : src'[t] = src[t]
  BY DEF TypeOK
<1>2. SourcesOf(src', i) = SourcesOf(src, i) \cup {s}
  BY <1>1 DEF SourcesOf
<1>3. \A j \in Incidents \ {i} : SourcesOf(src', j) = SourcesOf(src, j)
  BY <1>1 DEF SourcesOf, Known, CatalogueAssumption
<1>4. ASSUME NEW j \in Incidents, NEW t \in SourcesOf(src', j)
      PROVE  src'[t].solution \in Solution
  <2>1. t \in Sources /\ src'[t].incident # None
    BY <1>4 DEF SourcesOf, CatalogueAssumption
  <2>2. src'[t] \in SourceRecord
    BY <1>1, <2>1 DEF UnknownSource
  <2> QED
    BY <2>2 DEF SourceRecord
<1>5. LifecycleOf(src', i) \in Lifecycle
  BY <1>2, <1>4, LifecycleIsBest
<1> QED
  BY <1>1, <1>2, <1>3, <1>4, <1>5

\* A row with the next version and another lifecycle.
LEMMA NextVersion ==
  ASSUME NEW x \in Row, NEW l \in Lifecycle
  PROVE  LET y == [x EXCEPT !.version = @ + 1, !.lifecycle = l]
         IN  /\ y \in Row
             /\ y.version = x.version + 1
             /\ y.lifecycle = l
             /\ y.preferred = x.preferred
             /\ y.at = x.at
             /\ y.report = x.report
<1> DEFINE a == [x EXCEPT !.version = @ + 1]
           y == [x EXCEPT !.version = @ + 1, !.lifecycle = l]
<1>1. x.version + 1 \in Nat \ {0}
  BY DEF Row
<1>2. a \in Row /\ a.version = x.version + 1 /\ a.preferred = x.preferred
      /\ a.at = x.at /\ a.report = x.report
  BY <1>1 DEF Row
<1>3. y = [a EXCEPT !.lifecycle = l]
  OBVIOUS
<1> HIDE DEF a, y
<1>4. y \in Row /\ y.version = a.version /\ y.lifecycle = l /\ y.preferred = a.preferred
      /\ y.at = a.at /\ y.report = a.report
  BY <1>2, <1>3 DEF Row
<1> QED
  BY <1>2, <1>4 DEF y

\* A first sighting that is not associated.
LEMMA NewIncidentOutcome ==
  ASSUME CatalogueAssumption, IInv, NEW s \in Sources, NEW o \in Observations(s), NewIncident(s, o)
  PROVE  \E i \in Incidents, r \in SourceRecord : Outcome(s, i, r)
<1> DEFINE row(i) == [version |-> 1, preferred |-> s, at |-> o.at, report |-> o.report,
                      lifecycle |-> ResolveLifecycle({o.report.solution})]
<1>1. PICK i \in Incidents : /\ ~Known(s)
                             /\ ~Used(i)
                             /\ src' = [src EXCEPT ![s] = Record(i, o)]
                             /\ Publish(i, row(i))
  BY DEF NewIncident
<1> DEFINE r == Record(i, o)
<1>2. /\ r \in SourceRecord
      /\ r.incident = i
      /\ r.at = o.at
      /\ r.report = o.report
      /\ r.solution = o.report.solution
      /\ o.at \in 1..MaxTime
      /\ o.report \in Report
  BY RecordType, ObservationType
<1> HIDE DEF r
<1>3. /\ src'[s] = r
      /\ SourcesOf(src', i) = SourcesOf(src, i) \cup {s}
      /\ LifecycleOf(src', i) \in Lifecycle
  BY <1>1, <1>2, OneRecord DEF IInv, r
<1>4. SourcesOf(src, i) = {}
  BY <1>1 DEF IInv, Linked, SourcesOf, Known, CatalogueAssumption
<1>5. LifecycleOf(src', i) = ResolveLifecycle({o.report.solution})
  <2>1. {src'[t].solution : t \in SourcesOf(src', i)} = {o.report.solution}
    BY <1>2, <1>3, <1>4
  <2> QED
    BY <2>1 DEF LifecycleOf
<1>6. inc[i].version = 0
  BY <1>1, Sound DEF IInv
<1>7. row(i) \in Row /\ row(i).version = inc[i].version + 1
      /\ row(i).lifecycle = LifecycleOf(src', i)
  BY <1>2, <1>3, <1>5, <1>6 DEF Row
<1>8. Shows(row(i), src', i)
  BY <1>2, <1>3 DEF Shows
<1> HIDE DEF row
<1>9. Outcome(s, i, r)
  BY <1>1, <1>2, <1>7, <1>8 DEF Outcome, r
<1> QED
  BY <1>2, <1>9

\* The row of an incident is written with a source's fields,
LEMMA CanonicalOutcome ==
  ASSUME CatalogueAssumption, IInv, NEW s \in Sources, NEW o \in Observations(s),
         NEW i \in Incidents, Used(i), src' = [src EXCEPT ![s] = Record(i, o)],
         ~Known(s) \/ (src[s].incident = i /\ Strengthens(src[s].solution, o.report.solution)),
         CanonicalChange(i, s, o, src')
  PROVE  Outcome(s, i, Record(i, o))
<1> DEFINE r == Record(i, o)
           row == [version |-> inc[i].version + 1, preferred |-> s, at |-> o.at,
                   report |-> o.report, lifecycle |-> LifecycleOf(src', i)]
<1>1. /\ r \in SourceRecord
      /\ r.incident = i
      /\ r.at = o.at
      /\ r.report = o.report
      /\ r.solution = o.report.solution
      /\ o.at \in 1..MaxTime
      /\ o.report \in Report
  BY RecordType, ObservationType
<1>2. src' = [src EXCEPT ![s] = r]
  OBVIOUS
<1> HIDE DEF r
<1>3. src'[s] = r /\ LifecycleOf(src', i) \in Lifecycle
  <2>1. TypeOK /\ Linked /\ (~Known(s) \/ src[s].incident = i)
    BY DEF IInv
  <2> HIDE DEF row
  <2>2. ASSUME NEW q \in SourceRecord, q.incident = i, src' = [src EXCEPT ![s] = q]
        PROVE  src'[s] = q /\ LifecycleOf(src', i) \in Lifecycle
    BY ONLY CatalogueAssumption, s \in Sources, i \in Incidents, <2>1, <2>2, OneRecord
  <2> QED
    BY <1>1, <1>2, <2>2
<1>4. inc[i].version + 1 \in Nat \ {0}
  BY Sound DEF IInv
<1>5. row \in Row /\ row.version = inc[i].version + 1 /\ row.lifecycle = LifecycleOf(src', i)
  BY <1>1, <1>3, <1>4 DEF Row
<1>6. Shows(row, src', i)
  <2>1. row.preferred = s /\ row.at = o.at /\ row.report = o.report
    OBVIOUS
  <2> HIDE DEF row
  <2> QED
    BY <1>1, <1>3, <2>1 DEF Shows
<1>7. Publish(i, row)
  BY DEF CanonicalChange
<1> HIDE DEF row
<1>8. Outcome(s, i, r)
  BY <1>1, <1>2, <1>5, <1>6, <1>7 DEF Outcome
<1> QED
  BY <1>8 DEF r

\* ... by a new association or lifecycle,
LEMMA AssociationOutcome ==
  ASSUME CatalogueAssumption, IInv, NEW s \in Sources, NEW i \in Incidents, Used(i),
         NEW r \in SourceRecord, r.incident = i, src' = [src EXCEPT ![s] = r],
         ~Known(s) \/ (src[s].incident = i /\ Strengthens(src[s].solution, r.solution)),
         s # inc[i].preferred \/ (r.at = src[s].at /\ r.report = src[s].report),
         AssociationChange(i, src')
  PROVE  Outcome(s, i, r)
<1> DEFINE row == [inc[i] EXCEPT !.version = @ + 1, !.lifecycle = LifecycleOf(src', i)]
<1>1. /\ src'[s] = r
      /\ \A t \in Sources \ {s} : src'[t] = src[t]
      /\ LifecycleOf(src', i) \in Lifecycle
  BY OneRecord DEF IInv
<1>2. inc[i] \in Row
  BY Sound DEF IInv
<1>3. /\ row \in Row
      /\ row.version = inc[i].version + 1
      /\ row.lifecycle = LifecycleOf(src', i)
      /\ row.preferred = inc[i].preferred
      /\ row.at = inc[i].at
      /\ row.report = inc[i].report
  BY <1>1, <1>2, NextVersion
<1>4. Publish(i, row)
  BY DEF AssociationChange
<1> HIDE DEF row
<1>5. Shows(row, src', i)
  <2>1. /\ src[inc[i].preferred].incident = i
        /\ src[inc[i].preferred].at = inc[i].at
        /\ src[inc[i].preferred].report = inc[i].report
        /\ inc[i].preferred \in Sources
    BY <1>2 DEF IInv, CanonicalMatchesPreferred, Row
  <2>2. CASE s = inc[i].preferred
    BY <1>1, <1>3, <2>1, <2>2 DEF Shows
  <2>3. CASE s # inc[i].preferred
    BY <1>1, <1>3, <2>1, <2>3 DEF Shows
  <2> QED
    BY <2>2, <2>3
<1> QED
  BY <1>3, <1>4, <1>5 DEF Outcome

\* ... or by a change of the lifecycle, if there is one.
LEMMA LifecycleOutcome ==
  ASSUME CatalogueAssumption, IInv, NEW s \in Sources, NEW i \in Incidents, Used(i),
         NEW r \in SourceRecord, r.incident = i, src' = [src EXCEPT ![s] = r],
         src[s].incident = i, Strengthens(src[s].solution, r.solution),
         s # inc[i].preferred \/ (r.at = src[s].at /\ r.report = src[s].report),
         LifecycleChange(i, src')
  PROVE  Outcome(s, i, r)
<1>1. CASE LifecycleOf(src', i) = inc[i].lifecycle
  <2>1. /\ src'[s] = r
        /\ \A t \in Sources \ {s} : src'[t] = src[t]
    BY OneRecord DEF IInv
  <2>2. /\ src[inc[i].preferred].incident = i
        /\ src[inc[i].preferred].at = inc[i].at
        /\ src[inc[i].preferred].report = inc[i].report
        /\ inc[i].preferred \in Sources
    BY Sound DEF IInv, CanonicalMatchesPreferred, Row
  <2>3. Shows(inc[i], src', i)
    <3>1. CASE s = inc[i].preferred
      BY <2>1, <2>2, <3>1 DEF Shows
    <3>2. CASE s # inc[i].preferred
      BY <2>1, <2>2, <3>2 DEF Shows
    <3> QED
      BY <3>1, <3>2
  <2>4. UNCHANGED <<inc, outbox>>
    BY <1>1 DEF LifecycleChange
  <2> QED
    BY <1>1, <2>3, <2>4 DEF Outcome
<1>2. CASE LifecycleOf(src', i) # inc[i].lifecycle
  <2>1. AssociationChange(i, src')
    BY <1>2 DEF LifecycleChange
  <2> QED
    BY <2>1, AssociationOutcome
<1> QED
  BY <1>1, <1>2

\* A first sighting that joins an incident.
LEMMA CorrelatedOutcome ==
  ASSUME CatalogueAssumption, IInv, NEW s \in Sources, NEW o \in Observations(s), CorrelatedSource(s, o)
  PROVE  \E i \in Incidents, r \in SourceRecord : Outcome(s, i, r)
<1>1. PICK i \in Incidents :
        /\ ~Known(s)
        /\ Used(i)
        /\ src' = [src EXCEPT ![s] = Record(i, o)]
        /\ CanonicalChange(i, s, o, src') \/ AssociationChange(i, src')
  BY DEF CorrelatedSource, Candidate
<1>2. Record(i, o) \in SourceRecord /\ Record(i, o).incident = i
  BY RecordType
<1>3. s # inc[i].preferred
  BY <1>1 DEF IInv, CanonicalMatchesPreferred, Known, CatalogueAssumption
<1>4. Outcome(s, i, Record(i, o))
  BY <1>1, <1>2, <1>3, CanonicalOutcome, AssociationOutcome
<1> QED
  BY <1>2, <1>4

\* An observation of a known source.
LEMMA KnownSource ==
  ASSUME CatalogueAssumption, IInv, NEW s \in Sources, Revises(s)
  PROVE  /\ Known(s)
         /\ src[s] \in SourceRecord
         /\ src[s].solution \in Solution
         /\ src[s].incident \in Incidents
         /\ Used(src[s].incident)
<1>1. Known(s)
  BY DEF Revises
<1>2. src[s] \in SourceRecord /\ src[s].incident \in Incidents /\ Used(src[s].incident)
  BY <1>1, Sound DEF IInv, Linked
<1> QED
  BY <1>1, <1>2 DEF SourceRecord

\* ... by an old or repeated observation,
LEMMA PromoteOutcome ==
  ASSUME CatalogueAssumption, IInv, NEW s \in Sources, NEW o \in Observations(s), PromoteSolution(s, o)
  PROVE  \E i \in Incidents, r \in SourceRecord : Outcome(s, i, r)
<1> DEFINE i == src[s].incident
           better == StrongerSolution(src[s].solution, o.report.solution)
           r == [src[s] EXCEPT !.solution = better]
<1>1. /\ src[s] \in SourceRecord
      /\ src[s].solution \in Solution
      /\ i \in Incidents
      /\ Used(i)
  BY KnownSource DEF PromoteSolution
<1>2. better \in Solution /\ Strengthens(src[s].solution, better)
  BY <1>1, ObservationType, StrongerStrengthens
<1>3. src' = [src EXCEPT ![s] = r] /\ LifecycleChange(i, src')
  BY DEF PromoteSolution
<1> HIDE DEF better
<1>4. /\ r \in SourceRecord
      /\ r.solution = better
      /\ r.incident = i
      /\ r.at = src[s].at
      /\ r.report = src[s].report
  BY <1>1, <1>2 DEF SourceRecord
<1> HIDE DEF r
<1>5. Outcome(s, i, r)
  BY <1>1, <1>2, <1>3, <1>4, LifecycleOutcome
<1> QED
  BY <1>1, <1>4, <1>5

\* ... by a weaker one,
LEMMA KeepOutcome ==
  ASSUME CatalogueAssumption, IInv, NEW s \in Sources, NEW o \in Observations(s), KeepSolution(s, o)
  PROVE  \E i \in Incidents, r \in SourceRecord : Outcome(s, i, r)
<1> DEFINE i == src[s].incident
           r == src[s]
<1>1. /\ r \in SourceRecord
      /\ r.solution \in Solution
      /\ i \in Incidents
      /\ Used(i)
  BY KnownSource DEF KeepSolution
<1>2. src' = src /\ LifecycleChange(i, src)
  BY DEF KeepSolution
<1>3. src' = [src EXCEPT ![s] = r] /\ LifecycleChange(i, src')
  BY <1>2 DEF IInv, TypeOK
<1>4. Strengthens(r.solution, r.solution)
  BY <1>1, RankIsNat DEF Strengthens
<1>5. Outcome(s, i, r)
  BY <1>1, <1>3, <1>4, LifecycleOutcome
<1> QED
  BY <1>1, <1>5

\* ... or by one that revises the record.
LEMMA ReviseOutcome ==
  ASSUME CatalogueAssumption, IInv, NEW s \in Sources, NEW o \in Observations(s), ReviseSource(s, o)
  PROVE  \E i \in Incidents, r \in SourceRecord : Outcome(s, i, r)
<1> DEFINE i == src[s].incident
           r == Record(i, o)
<1>1. /\ src[s].solution \in Solution
      /\ i \in Incidents
      /\ Used(i)
  BY KnownSource DEF ReviseSource
<1>2. /\ r \in SourceRecord
      /\ r.incident = i
      /\ r.solution = o.report.solution
  BY <1>1, RecordType
<1>3. Strengthens(src[s].solution, o.report.solution)
  BY <1>1, ObservationType, NotWeakerStrengthens DEF ReviseSource
<1>4. src' = [src EXCEPT ![s] = r]
  BY DEF ReviseSource
<1>5. \/ CanonicalChange(i, s, o, src')
      \/ s # inc[i].preferred /\ LifecycleChange(i, src')
  BY DEF ReviseSource
<1>6. CASE CanonicalChange(i, s, o, src')
  BY <1>1, <1>2, <1>3, <1>4, <1>6, CanonicalOutcome
<1>7. CASE s # inc[i].preferred /\ LifecycleChange(i, src')
  <2> HIDE DEF r
  <2>1. Outcome(s, i, r)
    BY <1>1, <1>2, <1>3, <1>4, <1>7, LifecycleOutcome
  <2> QED
    BY <1>1, <1>2, <2>1
<1> QED
  BY <1>5, <1>6, <1>7

\* applyEvent writes one record, and its incident with it.
LEMMA ObserveOutcome ==
  ASSUME CatalogueAssumption, IInv, NEW s \in Sources, NEW o \in Observations(s), Observe(s, o)
  PROVE  \E i \in Incidents, r \in SourceRecord : Outcome(s, i, r)
BY NewIncidentOutcome, CorrelatedOutcome, PromoteOutcome, KeepOutcome, ReviseOutcome DEF Observe

----------------------------------------------------------------------------
(* The invariant.                                                          *)

\* The next version is announced, and no version before it is forgotten.
LEMMA OutboxGrows ==
  ASSUME CatalogueAssumption, TypeOK, Linked, FiniteOutbox, EveryVersionAnnounced,
         NEW i \in Incidents, NEW row \in Row, row.version = inc[i].version + 1, Publish(i, row)
  PROVE  /\ outbox' \in [Incidents -> SUBSET Row]
         /\ outbox'[i] = outbox[i] \cup {row}
         /\ \A j \in Incidents \ {i} : outbox'[j] = outbox[j]
         /\ IsFiniteSet(outbox'[i])
         /\ {m.version : m \in outbox'[i]} = 1 .. row.version
         /\ Cardinality(outbox'[i]) = row.version
<1>1. /\ inc[i].version \in Nat
      /\ {m.version : m \in outbox[i]} = 1 .. inc[i].version
      /\ Cardinality(outbox[i]) = inc[i].version
      /\ IsFiniteSet(outbox[i])
  BY Sound DEF EveryVersionAnnounced, FiniteOutbox
<1>2. \A m \in outbox[i] : m.version # row.version
  <2> SUFFICES ASSUME NEW m \in outbox[i], m.version = row.version PROVE FALSE
    OBVIOUS
  <2>1. m.version \in 1 .. inc[i].version
    BY <1>1
  <2> QED
    BY <1>1, <2>1
<1>3. outbox' = [outbox EXCEPT ![i] = @ \cup {row}]
  BY <1>2 DEF Publish, Enqueued
<1>4. /\ outbox' \in [Incidents -> SUBSET Row]
      /\ outbox'[i] = outbox[i] \cup {row}
      /\ \A j \in Incidents \ {i} : outbox'[j] = outbox[j]
  BY <1>3 DEF TypeOK
<1>5. row \notin outbox[i]
  BY <1>2
<1>6. IsFiniteSet(outbox'[i]) /\ Cardinality(outbox'[i]) = inc[i].version + 1
  <2>1. /\ IsFiniteSet(outbox[i] \cup {row})
        /\ Cardinality(outbox[i] \cup {row}) = Cardinality(outbox[i]) + 1
    BY <1>1, <1>5, FS_AddElement
  <2> QED
    BY <1>1, <1>4, <2>1
<1>7. {m.version : m \in outbox'[i]} = {m.version : m \in outbox[i]} \cup {row.version}
  BY <1>4
<1>8. (1 .. inc[i].version) \cup {row.version} = 1 .. row.version
  BY <1>1
<1> QED
  BY <1>1, <1>4, <1>6, <1>7, <1>8

\* The row of the incident of an outcome, and the rows of the others.
LEMMA RowsAfter ==
  ASSUME CatalogueAssumption, IInv, NEW s \in Sources, NEW i \in Incidents,
         NEW r \in SourceRecord, Outcome(s, i, r)
  PROVE  /\ inc' \in [Incidents -> Row \cup {UnusedIncident}]
         /\ inc'[i] \in Row
         /\ inc'[i].lifecycle = LifecycleOf(src', i)
         /\ Shows(inc'[i], src', i)
         /\ \A j \in Incidents \ {i} : inc'[j] = inc[j]
         /\ outbox' \in [Incidents -> SUBSET Row]
         /\ FiniteOutbox'
         /\ EveryVersionAnnounced'
<1>1. CASE /\ UNCHANGED <<inc, outbox>>
           /\ Used(i)
           /\ inc[i].lifecycle = LifecycleOf(src', i)
           /\ Shows(inc[i], src', i)
  <2>1. inc[i] \in Row
    BY <1>1, Sound DEF IInv
  <2> QED
    BY <1>1, <2>1 DEF IInv, TypeOK, FiniteOutbox, EveryVersionAnnounced, Used
<1>2. ASSUME NEW row \in Row,
             row.version = inc[i].version + 1,
             row.lifecycle = LifecycleOf(src', i),
             Shows(row, src', i),
             Publish(i, row)
      PROVE  /\ inc' \in [Incidents -> Row \cup {UnusedIncident}]
             /\ inc'[i] = row
             /\ \A j \in Incidents \ {i} : inc'[j] = inc[j]
             /\ outbox' \in [Incidents -> SUBSET Row]
             /\ FiniteOutbox'
             /\ EveryVersionAnnounced'
  <2>1. /\ inc' \in [Incidents -> Row \cup {UnusedIncident}]
        /\ inc'[i] = row
        /\ \A j \in Incidents \ {i} : inc'[j] = inc[j]
    BY <1>2 DEF Publish, IInv, TypeOK
  <2>2. /\ outbox' \in [Incidents -> SUBSET Row]
        /\ outbox'[i] = outbox[i] \cup {row}
        /\ \A j \in Incidents \ {i} : outbox'[j] = outbox[j]
        /\ IsFiniteSet(outbox'[i])
        /\ {m.version : m \in outbox'[i]} = 1 .. row.version
        /\ Cardinality(outbox'[i]) = row.version
    BY <1>2, OutboxGrows DEF IInv
  <2>3. FiniteOutbox'
    BY <2>2 DEF FiniteOutbox, IInv
  <2>4. ASSUME NEW j \in Incidents
        PROVE  /\ {m.version : m \in outbox'[j]} = 1 .. inc'[j].version
               /\ Cardinality(outbox'[j]) = inc'[j].version
               /\ inc'[j].version > 0 => inc'[j] \in outbox'[j]
    <3>1. CASE j = i
      BY <2>1, <2>2, <3>1
    <3>2. CASE j # i
      BY <2>1, <2>2, <3>2 DEF IInv, EveryVersionAnnounced, Used
    <3> QED
      BY <3>1, <3>2
  <2>5. EveryVersionAnnounced'
    BY <2>4 DEF EveryVersionAnnounced, Used
  <2> QED
    BY <2>1, <2>2, <2>3, <2>5
<1> QED
  BY <1>1, <1>2 DEF Outcome

\* An outcome keeps the invariant.
LEMMA OutcomeKeeps ==
  ASSUME CatalogueAssumption, IInv, NEW s \in Sources, NEW i \in Incidents,
         NEW r \in SourceRecord, Outcome(s, i, r)
  PROVE  IInv'
<1>1. /\ src' \in [Sources -> SourceRecord \cup {UnknownSource}]
      /\ src'[s] = r
      /\ \A t \in Sources \ {s} : src'[t] = src[t]
      /\ SourcesOf(src', i) = SourcesOf(src, i) \cup {s}
      /\ \A j \in Incidents \ {i} : SourcesOf(src', j) = SourcesOf(src, j)
      /\ \A j \in Incidents : \A t \in SourcesOf(src', j) : src'[t].solution \in Solution
      /\ r.incident = i
  BY OneRecord DEF IInv, Outcome
<1>2. /\ inc' \in [Incidents -> Row \cup {UnusedIncident}]
      /\ inc'[i] \in Row
      /\ inc'[i].lifecycle = LifecycleOf(src', i)
      /\ Shows(inc'[i], src', i)
      /\ \A j \in Incidents \ {i} : inc'[j] = inc[j]
      /\ outbox' \in [Incidents -> SUBSET Row]
      /\ FiniteOutbox'
      /\ EveryVersionAnnounced'
  BY RowsAfter
<1>3. TypeOK'
  BY <1>1, <1>2 DEF TypeOK
<1>4. Linked'
  <2> SUFFICES ASSUME NEW t \in Sources, Known(t)' PROVE inc'[src'[t].incident].version > 0
    BY DEF Linked, Used
  <2>1. CASE src'[t].incident = i
    BY <1>2, <2>1 DEF Used, Row
  <2>2. CASE src'[t].incident # i
    <3>1. t # s /\ src'[t] = src[t]
      BY <1>1, <2>2
    <3>2. Known(t) /\ src[t].incident \in Incidents /\ Used(src[t].incident)
      BY <3>1, Sound DEF Known, IInv, Linked
    <3> QED
      BY <1>2, <2>2, <3>1, <3>2 DEF Used
  <2> QED
    BY <2>1, <2>2
<1>5. \A j \in Incidents \ {i} : \A t \in SourcesOf(src, j) : t # s /\ src'[t] = src[t]
  BY <1>1 DEF SourcesOf
<1>6. CanonicalMatchesPreferred'
  <2> SUFFICES ASSUME NEW j \in Incidents, Used(j)' PROVE Shows(inc'[j], src', j)
    BY DEF CanonicalMatchesPreferred, Shows
  <2>1. CASE j = i
    BY <1>2, <2>1
  <2>2. CASE j # i
    <3>1. Used(j) /\ inc'[j] = inc[j]
      BY <1>2, <2>2 DEF Used
    <3>2. Shows(inc[j], src, j) /\ inc[j].preferred \in Sources
      BY <3>1, Sound DEF IInv, CanonicalMatchesPreferred, Shows, Row
    <3>3. inc[j].preferred \in SourcesOf(src, j)
      BY <3>2 DEF Shows, SourcesOf
    <3>4. src'[inc[j].preferred] = src[inc[j].preferred]
      BY <1>5, <2>2, <3>3
    <3> QED
      BY <3>1, <3>2, <3>4 DEF Shows
  <2> QED
    BY <2>1, <2>2
<1>7. LifecycleIsResolved'
  <2> SUFFICES ASSUME NEW j \in Incidents, Used(j)'
               PROVE  /\ \E t \in SourcesOf(src', j) : src'[t].solution = inc'[j].lifecycle
                      /\ \A t \in SourcesOf(src', j) : Rank(src'[t].solution) <= Rank(inc'[j].lifecycle)
    BY DEF LifecycleIsResolved
  <2>1. CASE j = i
    BY <1>1, <1>2, <2>1, LifecycleIsBest
  <2>2. CASE j # i
    <3>1. Used(j) /\ inc'[j] = inc[j] /\ SourcesOf(src', j) = SourcesOf(src, j)
      BY <1>1, <1>2, <2>2 DEF Used
    <3>2. \A t \in SourcesOf(src, j) : src'[t] = src[t]
      BY <1>5, <2>2
    <3> QED
      BY <3>1, <3>2 DEF IInv, LifecycleIsResolved
  <2> QED
    BY <2>1, <2>2
<1> QED
  BY <1>2, <1>3, <1>4, <1>6, <1>7 DEF IInv

\* The empty catalogue satisfies it,
LEMMA InitIInv ==
  ASSUME CatalogueAssumption, Init
  PROVE  IInv
<1>1. \A i \in Incidents : inc[i].version = 0 /\ ~Used(i) /\ outbox[i] = {}
  BY DEF Init, UnusedIncident, Used
<1>2. \A s \in Sources : ~Known(s)
  BY DEF Init, UnknownSource, Known
<1>3. FiniteOutbox
  BY <1>1, FS_EmptySet DEF FiniteOutbox
<1>4. EveryVersionAnnounced
  <2>1. \A i \in Incidents : {m.version : m \in outbox[i]} = 1..inc[i].version
    BY <1>1
  <2>2. \A i \in Incidents : Cardinality(outbox[i]) = inc[i].version
    BY <1>1, FS_EmptySet
  <2> QED
    BY <1>1, <2>1, <2>2 DEF EveryVersionAnnounced
<1>5. TypeOK
  BY DEF Init, TypeOK
<1> QED
  BY <1>1, <1>2, <1>3, <1>4, <1>5 DEF IInv, Linked, CanonicalMatchesPreferred, LifecycleIsResolved

\* ... and every step keeps it.
LEMMA NextIInv ==
  ASSUME CatalogueAssumption, IInv, [Next]_vars
  PROVE  IInv'
<1>1. CASE Next
  <2>1. PICK s \in Sources : \E o \in Observations(s) : Observe(s, o)
    BY <1>1 DEF Next
  <2>2. PICK i \in Incidents, r \in SourceRecord : Outcome(s, i, r)
    BY <2>1, ObserveOutcome
  <2> QED
    BY <2>2, OutcomeKeeps
<1>2. CASE UNCHANGED vars
  BY <1>2 DEF vars, IInv, TypeOK, Linked, FiniteOutbox, CanonicalMatchesPreferred,
    LifecycleIsResolved, EveryVersionAnnounced, Known, Used, SourcesOf
<1> QED
  BY <1>1, <1>2

\* Rows, records and messages keep their types, and what applyEvent keeps
\* between them holds after every observation, for any number of sources.
THEOREM Invariance == Spec => []IInv
BY InitIInv, NextIInv, CatalogueAssumption, PTL DEF Spec

\* An incident shows what its preferred source last reported, whichever of
\* applyEvent's branches its observations took (repository.go:251-316).
THEOREM ShowsPreferredSource == Spec => []CanonicalMatchesPreferred
<1>1. IInv => CanonicalMatchesPreferred
  BY DEF IInv
<1> QED
  BY <1>1, Invariance, PTL

\* The lifecycle that is stored with an incident is the one its sources
\* resolve to (incidentLifecycle, repository.go:546-567).
THEOREM LifecycleFollowsSources == Spec => []LifecycleIsResolved
<1>1. IInv => LifecycleIsResolved
  BY DEF IInv
<1> QED
  BY <1>1, Invariance, PTL

\* Each version is announced by one message, and no change keeps its version
\* (enqueueIncidentChange, messaging.go:171-184).
THEOREM NoVersionForgotten == Spec => []EveryVersionAnnounced
<1>1. IInv => EveryVersionAnnounced
  BY DEF IInv
<1> QED
  BY <1>1, Invariance, PTL

----------------------------------------------------------------------------
(* Certainty.                                                              *)

\* What an outcome does to the sources of any incident.
LEMMA SourcesAfter ==
  ASSUME CatalogueAssumption, IInv, NEW s \in Sources, NEW k \in Incidents,
         NEW r \in SourceRecord, Outcome(s, k, r),
         NEW i \in Incidents, NEW t \in SourcesOf(src, i)
  PROVE  /\ t \in SourcesOf(src', i)
         /\ src[t].solution \in Solution
         /\ src'[t].solution \in Solution
         /\ Strengthens(src[t].solution, src'[t].solution)
<1>1. /\ src'[s] = r
      /\ \A x \in Sources \ {s} : src'[x] = src[x]
      /\ \A j \in Incidents : \A x \in SourcesOf(src', j) : src'[x].solution \in Solution
  BY OneRecord DEF IInv, Outcome
<1>2. t \in Sources /\ src[t].incident = i /\ Known(t)
  BY DEF SourcesOf, Known, CatalogueAssumption
<1>3. src[t].solution \in Solution
  BY <1>2, Sound DEF IInv, SourceRecord
<1>4. CASE t = s
  <2>1. src[s].incident = k /\ r.incident = k /\ Strengthens(src[s].solution, r.solution)
    BY <1>2, <1>4 DEF Outcome
  <2>2. t \in SourcesOf(src', i)
    BY <1>1, <1>2, <1>4, <2>1 DEF SourcesOf
  <2> QED
    BY <1>1, <1>3, <1>4, <2>1, <2>2
<1>5. CASE t # s
  <2>1. src'[t] = src[t]
    BY <1>1, <1>2, <1>5
  <2>2. t \in SourcesOf(src', i)
    BY <1>2, <2>1 DEF SourcesOf
  <2>3. Strengthens(src[t].solution, src[t].solution)
    BY <1>3, RankIsNat DEF Strengthens
  <2> QED
    BY <1>3, <2>1, <2>2, <2>3
<1> QED
  BY <1>4, <1>5

\* The best source of an incident that falls was retracted.
LEMMA FallRetracts ==
  ASSUME CatalogueAssumption, IInv, NEW s \in Sources, NEW k \in Incidents,
         NEW r \in SourceRecord, Outcome(s, k, r),
         NEW i \in Incidents, Used(i), Rank(inc'[i].lifecycle) < Rank(inc[i].lifecycle)
  PROVE  \E t \in SourcesOf(src, i) :
           src[t].solution # "retracted" /\ src'[t].solution = "retracted"
<1>1. PICK t \in SourcesOf(src, i) : src[t].solution = inc[i].lifecycle
  BY DEF IInv, LifecycleIsResolved
<1>2. /\ t \in SourcesOf(src', i)
      /\ src[t].solution \in Solution
      /\ src'[t].solution \in Solution
      /\ Strengthens(src[t].solution, src'[t].solution)
  BY SourcesAfter
<1>3. IInv'
  BY OutcomeKeeps
<1>4. inc'[i] \in Row
  <2>1. inc[i] \in Row
    BY Sound DEF IInv
  <2> QED
    BY <2>1, RowsAfter
<1>5. Rank(src'[t].solution) <= Rank(inc'[i].lifecycle)
  BY <1>2, <1>3, <1>4 DEF IInv, LifecycleIsResolved, Used, Row
<1>6. inc'[i].lifecycle \in Solution
  BY <1>4 DEF Row, Lifecycle
<1>7. src'[t].solution = "retracted"
  BY <1>1, <1>2, <1>5, <1>6, RankIsNat DEF Strengthens
<1>8. src[t].solution # "retracted"
  BY <1>1, <1>6, RankIsNat, Ranks
<1> QED
  BY <1>7, <1>8

\* An incident loses certainty only in a step that retracts a source of it:
\* applyEvent's stale, repeated and weaker branches strengthen or do nothing.
THEOREM FallsOnlyByRetraction == Spec => LifecycleFallsOnlyByRetraction
<1>1. IInv /\ [Next]_vars =>
        [\A i \in Incidents :
           Used(i) /\ Rank(inc'[i].lifecycle) < Rank(inc[i].lifecycle) =>
             \E s \in SourcesOf(src, i) :
               src[s].solution # "retracted" /\ src'[s].solution = "retracted"]_vars
  <2> SUFFICES ASSUME IInv, Next, NEW i \in Incidents, Used(i),
                      Rank(inc'[i].lifecycle) < Rank(inc[i].lifecycle)
               PROVE  \E t \in SourcesOf(src, i) :
                        src[t].solution # "retracted" /\ src'[t].solution = "retracted"
    OBVIOUS
  <2>1. PICK s \in Sources : \E o \in Observations(s) : Observe(s, o)
    BY DEF Next
  <2>2. PICK k \in Incidents, r \in SourceRecord : Outcome(s, k, r)
    BY <2>1, CatalogueAssumption, ObserveOutcome
  <2> QED
    BY <2>2, CatalogueAssumption, FallRetracts
<1> QED
  BY <1>1, Invariance, PTL DEF Spec, LifecycleFallsOnlyByRetraction

\* A retracted incident comes back only with a source that is new.
LEMMA RevivalIsNew ==
  ASSUME CatalogueAssumption, IInv, NEW s \in Sources, NEW k \in Incidents,
         NEW r \in SourceRecord, Outcome(s, k, r),
         NEW i \in Incidents, Used(i), inc[i].lifecycle = "retracted",
         inc'[i].lifecycle # "retracted"
  PROVE  \E t \in SourcesOf(src', i) : ~Known(t)
<1>1. IInv' /\ inc'[i] \in Row
  <2>1. inc[i] \in Row
    BY Sound DEF IInv
  <2> QED
    BY <2>1, RowsAfter, OutcomeKeeps
<1>2. PICK t \in SourcesOf(src', i) : src'[t].solution = inc'[i].lifecycle
  BY <1>1 DEF IInv, LifecycleIsResolved, Used, Row
<1>3. SUFFICES ASSUME Known(t) PROVE FALSE
  BY <1>2
<1>4. t \in SourcesOf(src, i)
  <2>1. /\ src'[s] = r
        /\ \A x \in Sources \ {s} : src'[x] = src[x]
    BY OneRecord DEF IInv, Outcome
  <2>2. t \in Sources /\ src'[t].incident = i
    BY DEF SourcesOf
  <2>3. CASE t = s
    BY <1>3, <2>1, <2>2, <2>3 DEF Outcome, SourcesOf
  <2>4. CASE t # s
    BY <2>1, <2>2, <2>4 DEF SourcesOf
  <2> QED
    BY <2>3, <2>4
<1>5. /\ src[t].solution \in Solution
      /\ Strengthens(src[t].solution, src'[t].solution)
  BY <1>4, SourcesAfter
<1>6. Rank(src[t].solution) <= Rank("retracted")
  BY <1>4 DEF IInv, LifecycleIsResolved
<1>7. src[t].solution = "retracted"
  BY <1>5, <1>6, Ranks, RankIsNat
<1> QED
  BY <1>2, <1>5, <1>7 DEF Strengthens

\* No observation brings a retracted source back (StrongerSolution and the
\* weaker branch of applyEvent), so a retracted incident stays so until
\* another provider's identity joins it.
THEOREM RetractedForGood == Spec => RetractionIsFinal
<1>1. IInv /\ [Next]_vars =>
        [\A i \in Incidents :
           Used(i) /\ inc[i].lifecycle = "retracted" /\ inc'[i].lifecycle # "retracted" =>
             \E s \in SourcesOf(src', i) : ~Known(s)]_vars
  <2> SUFFICES ASSUME IInv, Next, NEW i \in Incidents, Used(i),
                      inc[i].lifecycle = "retracted", inc'[i].lifecycle # "retracted"
               PROVE  \E t \in SourcesOf(src', i) : ~Known(t)
    OBVIOUS
  <2>1. PICK s \in Sources : \E o \in Observations(s) : Observe(s, o)
    BY DEF Next
  <2>2. PICK k \in Incidents, r \in SourceRecord : Outcome(s, k, r)
    BY <2>1, CatalogueAssumption, ObserveOutcome
  <2> QED
    BY <2>2, CatalogueAssumption, RevivalIsNew
<1> QED
  BY <1>1, Invariance, PTL DEF Spec, RetractionIsFinal
=============================================================================
