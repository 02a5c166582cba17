---------------------------- MODULE Correlation ----------------------------
(***************************************************************************)
(* Which incident a provider's first sighting of an earthquake is          *)
(* associated with.  The candidates are the incidents near it in time and  *)
(* place that no source of the same provider belongs to; each is scored by *)
(* how well time, place, magnitude and depth agree, and the best is taken  *)
(* if its score is high enough and clearly above the second.               *)
(*                                                                         *)
(* Abstractions: places lie on a line; times, places, magnitudes and       *)
(* depths are whole numbers of the units below, and scores exact fractions *)
(* of them; every solution is of one class (Catalogue has the classes,     *)
(* and revisions that do not reach the canonical event).                   *)
(***************************************************************************)
EXTENDS Integers, FiniteSets, Sequences

CONSTANTS
  Providers,  \* catalogues that are correlated
  Reports,    \* what a catalogue may report of an earthquake
  PageLimit,  \* candidates that are looked at, at most
  None        \* no report

Null == 0  \* a magnitude or depth that is not reported

ASSUME CorrelationAssumption ==
  /\ PageLimit \in Nat \ {0}
  /\ \A r \in Reports : {r.time, r.place, r.magnitude, r.depth} \subseteq Nat

VARIABLES
  incidents,  \* incidents[i]: canonical event, its provider, all providers
  last        \* the sighting handled last, its decision, and what it saw

correlationVars == <<incidents, last>>

\* ProductionCorrelationPolicy: the greatest differences, in units of 10 s,
\* 5 km, 0.2 magnitudes and 10 km of depth; weights and scores in percent.
MaximumTimeDelta == 3
MaximumDistance == 5
MaximumMagnitudeDiff == 4
MaximumDepthDiff == 3
TimeWeight == 45
DistanceWeight == 35
MagnitudeWeight == 15
DepthWeight == 5
AcceptanceThreshold == 82
AmbiguityMargin == 8

----------------------------------------------------------------------------
(* Scores.                                                                 *)

Delta(x, y) == IF x < y THEN y - x ELSE x - y

\* A term of the score, in percent of its weight, exact for these units.
Scale == 60
Closeness(delta, maximum) == Scale - delta * (Scale \div maximum)

BothHave(field, a, b) == a[field] # Null /\ b[field] # Null

Comparable(a, b) ==
  /\ Delta(a.time, b.time) <= MaximumTimeDelta
  /\ Delta(a.place, b.place) <= MaximumDistance
  /\ BothHave("magnitude", a, b) => Delta(a.magnitude, b.magnitude) <= MaximumMagnitudeDiff
  /\ BothHave("depth", a, b) => Delta(a.depth, b.depth) <= MaximumDepthDiff

\* The score is weighted / weights; what is not reported has no weight.
Score(a, b) ==
  LET magnitude == IF BothHave("magnitude", a, b) THEN MagnitudeWeight ELSE 0
      depth == IF BothHave("depth", a, b) THEN DepthWeight ELSE 0
  IN  [weighted |-> TimeWeight * Closeness(Delta(a.time, b.time), MaximumTimeDelta)
                    + DistanceWeight * Closeness(Delta(a.place, b.place), MaximumDistance)
                    + magnitude * Closeness(Delta(a.magnitude, b.magnitude), MaximumMagnitudeDiff)
                    + depth * Closeness(Delta(a.depth, b.depth), MaximumDepthDiff),
       weights |-> TimeWeight + DistanceWeight + magnitude + depth]

\* s - t in percent, times a positive number; and that number.
Lead(s, t) == 100 * (s.weighted * t.weights - t.weighted * s.weights)
Unit(s, t) == Scale * s.weights * t.weights

Acceptable(s) == 100 * s.weighted >= AcceptanceThreshold * Scale * s.weights
ClearlyAbove(s, t) == Lead(s, t) >= AmbiguityMargin * Unit(s, t)

----------------------------------------------------------------------------
(* correlationDecision.                                                    *)

\* The incidents the query finds for a report of provider p.
Near(table, p, r) ==
  {i \in DOMAIN table :
     /\ Delta(table[i].event.time, r.time) <= MaximumTimeDelta
     /\ table[i].event.magnitude # Null
     /\ Delta(table[i].event.place, r.place) <= MaximumDistance
     /\ p \notin table[i].providers}

\* ORDER BY the time between, then the id, LIMIT.
Fetched(table, p, r) ==
  LET found == Near(table, p, r)
      Before(i, j) ==
        LET di == Delta(table[i].event.time, r.time)
            dj == Delta(table[j].event.time, r.time)
        IN  di < dj \/ (di = dj /\ i < j)
  IN  {i \in found : Cardinality({j \in found : Before(j, i)}) < PageLimit}

\* Correlate: the decision on a set of candidates.
Correlate(table, r, candidates) ==
  LET ranked == {i \in candidates : Comparable(r, table[i].event)}
      S(i) == Score(r, table[i].event)
      first == CHOOSE i \in ranked : \A j \in ranked : Lead(S(i), S(j)) >= 0
  IN  IF ranked = {} \/ ~Acceptable(S(first)) THEN [match |-> 0, ambiguous |-> FALSE]
      ELSE IF \E j \in ranked \ {first} : ~ClearlyAbove(S(first), S(j))
           THEN [match |-> 0, ambiguous |-> TRUE]
           ELSE [match |-> first, ambiguous |-> FALSE]

\* Faulty variant: a full page is trusted.
MutDecision(table, p, r) ==
  IF r.magnitude = Null THEN [match |-> 0, ambiguous |-> FALSE]
  ELSE Correlate(table, r, Fetched(table, p, r))

\* A report without magnitude is not correlated, and a full page may hide
\* a candidate.
Decision(table, p, r) ==
  LET page == Fetched(table, p, r)
  IN  IF r.magnitude = Null THEN [match |-> 0, ambiguous |-> FALSE]
      ELSE IF Cardinality(page) = PageLimit THEN [match |-> 0, ambiguous |-> TRUE]
      ELSE Correlate(table, r, page)

----------------------------------------------------------------------------
(* What applyEvent makes of it.                                            *)

\* providerPriority
Priority(p) ==
  CASE p = "kndc" -> 4
    [] p = "usgs" -> 3
    [] p = "geofon" -> 2
    [] p = "emsc" -> 1
    [] OTHER -> 0

NoDecision == [report |-> None, provider |-> None, table |-> <<>>, decision |-> [match |-> 0, ambiguous |-> FALSE]]

\* The first sighting of an earthquake by provider p: a new incident, ...
NewIncident(p, r) ==
  LET decision == Decision(incidents, p, r)
  IN  /\ decision.match = 0
      /\ incidents' = Append(incidents, [event |-> r, preferred |-> p, providers |-> {p}])
      /\ last' = [report |-> r, provider |-> p, table |-> incidents, decision |-> decision]

\* ... or a source of incident i, which shows it if its catalogue is
\* preferred.
CorrelatedSource(i, p, r) ==
  LET decision == Decision(incidents, p, r)
  IN  /\ decision.match = i
      /\ incidents' =
           [incidents EXCEPT ![i] =
              LET preferred == Priority(p) > Priority(@.preferred)
              IN  [event |-> IF preferred THEN r ELSE @.event,
                   preferred |-> IF preferred THEN p ELSE @.preferred,
                   providers |-> @.providers \cup {p}]]
      /\ last' = [report |-> r, provider |-> p, table |-> incidents, decision |-> decision]

\* The preferred source of incident i reports something else.
ReviseSource(i, r) ==
  /\ r # incidents[i].event
  /\ incidents' = [incidents EXCEPT ![i].event = r]
  /\ last' = NoDecision

----------------------------------------------------------------------------
\* A match is the one incident that fits: it reaches the threshold, and no
\* other incident in the window, fetched or not, comes within the margin.
\* Without a match and without ambiguity no incident reaches the threshold.
\* The limit of the query must not decide between two earthquakes
\* (repository.go:390, 407; correlation.go:152-185).
DecisionIsSafe ==
  last.report # None =>
    LET r == last.report
        found == {i \in Near(last.table, last.provider, r) :
                    Comparable(r, last.table[i].event)}
        S(i) == Score(r, last.table[i].event)
        chosen == last.decision.match
    IN  /\ chosen # 0 =>
             /\ chosen \in found
             /\ Acceptable(S(chosen))
             /\ \A i \in found \ {chosen} : ClearlyAbove(S(chosen), S(i))
        /\ chosen = 0 /\ ~last.decision.ambiguous /\ r.magnitude # Null =>
             \A i \in found : ~Acceptable(S(i))
=============================================================================
