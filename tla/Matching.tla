------------------------------ MODULE Matching ------------------------------
(***************************************************************************)
(* Whom a change of an incident is announced to: for one subscription,     *)
(* what refreshTelegramAlertMessages and createDeliveries do with each     *)
(* version of each incident, in the order of the versions (IncidentStream  *)
(* has the others).  A subscription of a Telegram user asks for an         *)
(* expected intensity at its place; the others ask for a magnitude.        *)
(*                                                                         *)
(* Abstractions: places lie on a line with the subscriber at 0; the        *)
(* intensity formula is a table, in half units; payloads, languages and    *)
(* the audit rows are left out.  Subscriptions do not affect each other.   *)
(***************************************************************************)
EXTENDS Integers, Sequences

CONSTANTS
  Subscriptions,  \* the subscriptions that are looked at
  Farthest,       \* the greatest distance searched (maximumSearchKM)
  SearchRounds,   \* rounds of the search
  UpperMMI,       \* UpperMMI[m][d]: mean plus sigma for a magnitude, a distance
  Surface         \* Surface[d]: what SurfaceDistanceKM makes of distance d

NoMagnitude == 0
NoLimit == -1

MinimumSupportedMMI == 4

SubscriptionFields ==
  {"status", "channel", "notifyOn", "minimumMagnitude", "maximumMagnitude",
   "minimumIntensity", "radius", "tsunamiOnly", "alertLevels"}

ASSUME MatchingAssumption ==
  /\ \A s \in Subscriptions :
       /\ DOMAIN s = SubscriptionFields
       /\ s.minimumMagnitude \in Nat \cup {NoLimit}
       /\ s.minimumIntensity # NoLimit =>
            /\ s.channel = "telegram"
            /\ s.minimumIntensity \in Nat /\ s.minimumIntensity >= MinimumSupportedMMI
  /\ Farthest \in Nat \ {0} /\ SearchRounds \in Nat
  /\ \A m \in DOMAIN UpperMMI : m # NoMagnitude /\ UpperMMI[m] \in [0..Farthest -> Nat]
  /\ \A m \in DOMAIN UpperMMI : \A d \in 1..Farthest : UpperMMI[m][d] <= UpperMMI[m][d - 1]
  /\ Surface \in [0..Farthest -> 0..Farthest]

VARIABLES
  sub,         \* the subscription
  history,     \* history[i]: the versions of incident i and how each was met
  deliveries,  \* webhook deliveries <<incident, version, trigger>>
  alert        \* alert[i]: desired version of the Telegram alert, or 0

matchingVars == <<sub, history, deliveries, alert>>

----------------------------------------------------------------------------
(* Intensity.                                                              *)

IntensityCategoryHalfWidth == 1

IntensityDecisionBoundary(threshold) ==
  IF threshold - IntensityCategoryHalfWidth < 2 THEN 2 ELSE threshold - IntensityCategoryHalfWidth

\* EstimateAt: without a magnitude there is none, which counts as below
\* every boundary.
EstimateAt(e, distance) ==
  IF e.magnitude = NoMagnitude THEN 0 ELSE UpperMMI[e.magnitude][distance]

\* One round of the search for the distance at which the estimate falls
\* below the minimum.
Narrowed(m, minimum, range) ==
  LET mid == (range.low + range.high) \div 2
  IN  IF UpperMMI[m][mid] >= minimum THEN [range EXCEPT !.low = mid]
      ELSE [range EXCEPT !.high = mid]

\* The search ends above that distance.
Bisect(m, minimum) ==
  LET range[n \in 0..SearchRounds] ==
        IF n = 0 THEN [low |-> 0, high |-> Farthest]
        ELSE Narrowed(m, minimum, range[n - 1])
  IN  range[SearchRounds].high

CandidateRadiusKM(e, minimum) ==
  IF EstimateAt(e, 0) < minimum THEN 0
  ELSE IF EstimateAt(e, Farthest) >= minimum THEN Farthest
  ELSE Bisect(e.magnitude, minimum)

----------------------------------------------------------------------------
(* Which changes matter to a subscription.                                 *)

Personal(s) == s.minimumIntensity # NoLimit

\* The WHERE of createDeliveries.
Selected(s, e) ==
  LET radius == CandidateRadiusKM(e, IntensityDecisionBoundary(MinimumSupportedMMI))
  IN  /\ s.status = "active"
      /\ IF Personal(s) THEN radius > 0 /\ e.place <= radius
         ELSE s.radius = NoLimit \/ e.place <= s.radius

MatchesNonMagnitude(s, e) ==
  /\ s.tsunamiOnly => e.tsunami
  /\ s.alertLevels # {} => e.level \in s.alertLevels

Matches(s, e) ==
  /\ s.minimumMagnitude # NoLimit => e.magnitude >= s.minimumMagnitude
  /\ s.maximumMagnitude # NoLimit =>
       e.magnitude # NoMagnitude /\ e.magnitude <= s.maximumMagnitude
  /\ MatchesNonMagnitude(s, e)

Felt(s, e, distance) ==
  EstimateAt(e, distance) >= IntensityDecisionBoundary(s.minimumIntensity)

\* Faulty variants: an incident without magnitude was felt already;
\* crossing does not look at the version before.
MutIntensityTriggers(s, old, e, fresh) ==
  IF ~Felt(s, e, e.place) \/ ~MatchesNonMagnitude(s, e) THEN {}
  ELSE IF old = <<>> THEN IF fresh THEN {"new_event"} \cap s.notifyOn ELSE {}
  ELSE IF old[1].magnitude # NoMagnitude /\ ~Felt(s, old[1], Surface[old[1].place])
       THEN {"intensity_threshold_crossed"} \cap s.notifyOn ELSE {}

\* IntensityTriggers.  The distance of the version before is computed by
\* another formula than that of the current one.
IntensityTriggers(s, old, e, fresh) ==
  IF ~Felt(s, e, e.place) \/ ~MatchesNonMagnitude(s, e) THEN {}
  ELSE IF old = <<>> THEN IF fresh THEN {"new_event"} \cap s.notifyOn ELSE {}
  ELSE IF Felt(s, old[1], Surface[old[1].place]) THEN {}
  ELSE {"intensity_threshold_crossed"} \cap s.notifyOn

MutCrosses(s, old, e) == s.minimumMagnitude # NoLimit /\ e.magnitude >= s.minimumMagnitude

Crosses(s, old, e) ==
  /\ s.minimumMagnitude # NoLimit
  /\ old.magnitude < s.minimumMagnitude
  /\ e.magnitude >= s.minimumMagnitude

\* Triggers
Triggers(s, old, e, fresh) ==
  IF ~Matches(s, e) THEN {}
  ELSE IF old = <<>> THEN IF fresh THEN {"new_event"} \cap s.notifyOn ELSE {}
  ELSE {t \in s.notifyOn :
          \/ t = "magnitude_threshold_crossed" /\ Crosses(s, old[1], e)
          \/ t = "tsunami_activated" /\ e.tsunami /\ ~old[1].tsunami
          \/ t = "alert_level_increased" /\ e.level > old[1].level}

TriggersOf(s, old, e, fresh) ==
  IF ~Selected(s, e) THEN {}
  ELSE IF Personal(s) /\ s.channel = "telegram" THEN IntensityTriggers(s, old, e, fresh)
  ELSE Triggers(s, old, e, fresh)

----------------------------------------------------------------------------
\* An incident that was there before the subscription.
Earlier(e) == <<[event |-> e, eligible |-> FALSE, fresh |-> FALSE, status |-> "disabled"]>>

MatchingInit(past) ==
  /\ sub \in Subscriptions
  /\ history = past
  /\ deliveries = {}
  /\ alert = [i \in DOMAIN past |-> 0]

\* Faulty variant: only the alerts of active subscriptions are refreshed.
MutRefreshed(i, version) ==
  IF version > 1 /\ alert[i] # 0 /\ sub.status = "active" THEN version ELSE alert[i]

\* refreshTelegramAlertMessages, for a change of kind "updated".
Refreshed(i, version) ==
  IF version > 1 /\ alert[i] # 0 /\ sub.status # "disabled" THEN version ELSE alert[i]

\* The next version of incident i is applied.  Only a change from a
\* realtime poll after the baseline is eligible for deliveries; fresh says
\* whether the earthquake is young enough for the subscription.
Apply(i, e, eligible, fresh) ==
  LET version == Len(history[i]) + 1
      old == IF version = 1 THEN <<>> ELSE <<history[i][version - 1].event>>
      triggers == IF eligible THEN TriggersOf(sub, old, e, fresh) ELSE {}
      telegram == sub.channel = "telegram"
  IN  /\ history' = [history EXCEPT ![i] =
           Append(@, [event |-> e, eligible |-> eligible, fresh |-> fresh,
                      status |-> sub.status])]
      /\ deliveries' = IF telegram THEN deliveries
                       ELSE deliveries \cup {<<i, version, t>> : t \in triggers}
      /\ alert' = [alert EXCEPT ![i] = IF telegram /\ triggers # {} THEN version
                                       ELSE Refreshed(i, version)]
      /\ UNCHANGED sub

\* The user, or an operator, changes the status of the subscription.
SetStatus(status) ==
  /\ status # sub.status
  /\ sub' = [sub EXCEPT !.status = status]
  /\ UNCHANGED <<history, deliveries, alert>>

----------------------------------------------------------------------------
(* Properties.                                                             *)

Told(i) == alert[i] # 0 \/ \E d \in deliveries : d[1] = i

\* The condition of the subscription that an earthquake may come to meet,
\* and the filters that it meets from the first version on or not.
Reached(s, e) == IF Personal(s) THEN Felt(s, e, e.place)
                 ELSE s.minimumMagnitude # NoLimit /\ e.magnitude >= s.minimumMagnitude

OtherFilters(s, e) ==
  /\ Matches([s EXCEPT !.minimumMagnitude = NoLimit], e)
  /\ ~Personal(s) => s.radius = NoLimit \/ e.place <= s.radius

DistancesAgree(s, e) == Personal(s) => (Felt(s, e, e.place) <=> Felt(s, e, Surface[e.place]))

Uninterrupted(i) ==
  /\ {"new_event", "magnitude_threshold_crossed", "intensity_threshold_crossed"} \subseteq sub.notifyOn
  /\ history[i][1].fresh
  /\ \A v \in DOMAIN history[i] :
       LET h == history[i][v]
       IN  h.eligible /\ h.status = "active" /\ OtherFilters(sub, h.event)
           /\ DistancesAgree(sub, h.event)

\* A subscriber whose magnitude or intensity is reached by any version of an
\* incident was told of it, by its first version or at the crossing, and the
\* search radius hides no one.  The conditions are what the code does not
\* promise: a version applied in recovery or while the subscription was not
\* active, another filter met later, and an estimate of the old version
\* whose distance, by another formula, falls on the other side of the
\* boundary (repository.go:713-727, model.go:62-79, 148-170).
ReachedIsTold ==
  \A i \in DOMAIN history :
    /\ history[i] # <<>>
    /\ Uninterrupted(i)
    /\ \E v \in DOMAIN history[i] : Reached(sub, history[i][v].event)
    => Told(i)

\* "Remaining above the threshold does not retrigger"
\* (docs/notifications.md): between two deliveries for the same trigger its
\* condition was not met, or the level was lower, and the first sighting is
\* delivered once and as the first version.
NoRetrigger ==
  \A d, x \in deliveries :
    LET E(v) == history[d[1]][v].event
        below(v) == CASE d[3] = "magnitude_threshold_crossed" -> E(v).magnitude < sub.minimumMagnitude
                      [] d[3] = "tsunami_activated" -> ~E(v).tsunami
                      [] d[3] = "alert_level_increased" -> E(v).level < E(x[2]).level
                      [] OTHER -> FALSE
    IN  /\ d[3] = "new_event" => d[2] = 1
        /\ d[1] = x[1] /\ d[3] = x[3] /\ d[2] < x[2] => \E v \in d[2]..x[2] - 1 : below(v)

\* A Telegram alert asks for the newest version unless each version after
\* it was applied while the subscription was disabled; a paused one follows,
\* and activating it again does not catch up (repository.go:784).
AlertMissesOnlyWhileDisabled ==
  \A i \in DOMAIN history : alert[i] # 0 =>
    \A v \in alert[i] + 1..Len(history[i]) : history[i][v].status = "disabled"
=============================================================================
