-------------------------- MODULE DecisionsProofs ---------------------------
(***************************************************************************)
(* Proofs about a subscription, for any earthquakes, catalogues,           *)
(* thresholds and numbers of changes, and whatever is decided about        *)
(* correlation and intensity: its alert misses a version only while it is  *)
(* disabled, and nothing that stayed as it was is delivered again.         *)
(*                                                                         *)
(* To be inductive both need that only applied versions were asked for or  *)
(* delivered: the next version then comes after all of them.               *)
(*                                                                         *)
(* And proofs about correlation, for any reports and any incidents that    *)
(* are compared: a decision picks a clear best of all candidates, or none. *)
(* A page of candidates that is not full has them all; scores are compared *)
(* as whole numbers over one denominator, so there is a best one; and what *)
(* is above an acceptable score is acceptable.                             *)
(*                                                                         *)
(* And proofs about both at once: whoever is reached is told.  The search  *)
(* radius ends where the estimate is below the lowest intensity, so it     *)
(* hides no one; and the first version that reaches a subscriber is news.  *)
(***************************************************************************)
EXTENDS Decisions, FiniteSetTheorems, WellFoundedInduction, TLAPS

ValuesOf(s) == {s[k] : k \in DOMAIN s}

\* An alert asks for a version that was applied, or for none.
AskedIsApplied ==
  /\ history = [i \in Slots |-> history[i]]
  /\ alert \in [Slots -> Nat]
  /\ \A i \in Slots : history[i] \in Seq(ValuesOf(history[i]))
  /\ \A i \in Slots : alert[i] <= Len(history[i])

AlertInv == AskedIsApplied /\ AlertMissesOnlyWhileDisabled

\* One more value at the end of a sequence of whatever values.
LEMMA AppendOne ==
  ASSUME NEW s, s \in Seq(ValuesOf(s)), NEW x
  PROVE  /\ Append(s, x) \in Seq(ValuesOf(Append(s, x)))
         /\ Len(s) \in Nat
         /\ Len(Append(s, x)) = Len(s) + 1
         /\ Append(s, x)[Len(s) + 1] = x
         /\ \A k \in 1..Len(s) : Append(s, x)[k] = s[k]
<1> DEFINE S == ValuesOf(s) \cup {x}
           t == Append(s, x)
<1>1. s \in Seq(S)
  OBVIOUS
<1>2. /\ t \in Seq(S)
      /\ Len(s) \in Nat
      /\ Len(t) = Len(s) + 1
      /\ t[Len(s) + 1] = x
      /\ \A k \in 1..Len(s) : t[k] = s[k]
  BY <1>1
<1> HIDE DEF t
<1>3. t \in Seq(ValuesOf(t))
  BY <1>2 DEF ValuesOf
<1> QED
  BY <1>2, <1>3 DEF t

\* The next version of an incident raises its alert, or leaves it behind
\* while the subscription is disabled.
LEMMA ApplyKeeps ==
  ASSUME AlertInv, NEW i, NEW e, NEW eligible, NEW fresh, Apply(i, e, eligible, fresh)
  PROVE  AlertInv'
<1> DEFINE version == Len(history[i]) + 1
           met == [event |-> e, eligible |-> eligible, fresh |-> fresh, status |-> sub.status]
<1>1. history' = [history EXCEPT ![i] = Append(@, met)]
  BY DEF Apply
<1>2. PICK v : /\ alert' = [alert EXCEPT ![i] = v]
               /\ v = version \/ v = Refreshed(i, version)
  BY DEF Apply
<1>3. CASE i \notin Slots
  <2>1. history' = history /\ alert' = alert
    BY <1>1, <1>2, <1>3 DEF AlertInv, AskedIsApplied
  <2> QED
    BY <2>1 DEF AlertInv, AskedIsApplied, AlertMissesOnlyWhileDisabled
<1>4. CASE i \in Slots
  <2> DEFINE longer == Append(history[i], met)
  <2>1. /\ longer \in Seq(ValuesOf(longer))
        /\ Len(history[i]) \in Nat
        /\ Len(longer) = version
        /\ longer[version] = met
        /\ \A k \in 1..Len(history[i]) : longer[k] = history[i][k]
    BY <1>4, AppendOne DEF AlertInv, AskedIsApplied
  <2>2. met.status = sub.status
    OBVIOUS
  <2>3. /\ history' = [j \in Slots |-> history'[j]]
        /\ history'[i] = longer
        /\ \A j \in Slots \ {i} : history'[j] = history[j]
    BY <1>1, <1>4 DEF AlertInv, AskedIsApplied
  <2> HIDE DEF longer, met
  <2>4. /\ v \in Nat
        /\ v <= version
        /\ v = version \/ (v = alert[i] /\ (v # 0 => sub.status = "disabled"))
    BY <1>2, <1>4, <2>1 DEF Refreshed, AlertInv, AskedIsApplied
  <2>5. /\ alert' \in [Slots -> Nat]
        /\ alert'[i] = v
        /\ \A j \in Slots \ {i} : alert'[j] = alert[j]
    BY <1>2, <1>4, <2>4 DEF AlertInv, AskedIsApplied
  <2>6. AskedIsApplied'
    BY <2>1, <2>3, <2>4, <2>5 DEF AlertInv, AskedIsApplied
  <2>7. ASSUME NEW j \in Slots, alert'[j] # 0, NEW n \in alert'[j] + 1..Len(history'[j])
        PROVE  history'[j][n].status = "disabled"
    <3>1. CASE j # i
      BY <2>3, <2>5, <2>7, <3>1 DEF AlertInv, AskedIsApplied, AlertMissesOnlyWhileDisabled
    <3>2. CASE j = i
      <4>1. v # 0 /\ n \in v + 1..version
        BY <2>1, <2>3, <2>5, <2>7, <3>2
      <4>2. v = alert[i] /\ sub.status = "disabled"
        BY <2>1, <2>4, <4>1
      <4>3. CASE n = version
        BY <2>1, <2>2, <2>3, <3>2, <4>2, <4>3
      <4>4. CASE n # version
        <5>1. n \in alert[i] + 1..Len(history[i]) /\ n \in 1..Len(history[i])
          BY <2>1, <2>4, <4>1, <4>2, <4>4
        <5> QED
          BY <1>4, <2>1, <2>3, <3>2, <4>1, <4>2, <5>1
          DEF AlertInv, AskedIsApplied, AlertMissesOnlyWhileDisabled
      <4> QED
        BY <4>3, <4>4
    <3> QED
      BY <3>1, <3>2
  <2> QED
    BY <2>3, <2>6, <2>7 DEF AlertInv, AlertMissesOnlyWhileDisabled
<1> QED
  BY <1>3, <1>4

\* Every version raises the alert or leaves it (refreshTelegramAlertMessages
\* and Apply), so AlertInv is an invariant.
LEMMA AlertInvariance == Spec => []AlertInv
<1>1. ASSUME DecisionsAssumption, Init PROVE AlertInv
  <2>1. /\ history = [i \in Slots |-> history[i]]
        /\ alert = [i \in Slots |-> 0]
        /\ \A i \in Slots : history[i] = <<>> \/ \E x : history[i] = <<x>>
    BY <1>1 DEF Init, MatchingInit, Earlier
  <2>2. ASSUME NEW i \in Slots
        PROVE  history[i] \in Seq(ValuesOf(history[i])) /\ Len(history[i]) \in Nat
    <3>1. CASE history[i] = <<>>
      <4>1. <<>> \in Seq(ValuesOf(<<>>)) /\ Len(<<>>) \in Nat
        OBVIOUS
      <4> QED
        BY <3>1, <4>1
    <3>2. CASE \E x : history[i] = <<x>>
      <4>1. PICK x : history[i] = <<x>>
        BY <3>2
      <4>2. <<x>> \in Seq({x}) /\ Len(<<x>>) = 1 /\ <<x>>[1] = x
        OBVIOUS
      <4>3. ValuesOf(<<x>>) = {x}
        BY <4>2 DEF ValuesOf
      <4> QED
        BY <4>1, <4>2, <4>3
    <3> QED
      BY <2>1, <3>1, <3>2
  <2> QED
    BY <2>1, <2>2 DEF AlertInv, AskedIsApplied, AlertMissesOnlyWhileDisabled
<1>2. AlertInv /\ [Next]_vars => AlertInv'
  <2> SUFFICES ASSUME AlertInv, [Next]_vars PROVE AlertInv'
    OBVIOUS
  <2>1. CASE Change
    <3>1. PICK i : Changed(i)
      BY <2>1 DEF Change, Sight
    <3>2. PICK e, eligible, fresh : Apply(i, e, eligible, fresh)
      BY <3>1 DEF Changed
    <3> QED
      BY <3>2, ApplyKeeps
  <2>2. CASE Switch \/ UNCHANGED vars
    <3>1. history' = history /\ alert' = alert
      BY <2>2 DEF Switch, SetStatus, vars, matchingVars
    <3> QED
      BY <3>1 DEF AlertInv, AskedIsApplied, AlertMissesOnlyWhileDisabled
  <2> QED
    BY <2>1, <2>2 DEF Next
<1> QED
  BY <1>1, <1>2, DecisionsAssumption, PTL DEF Spec

\* A Telegram alert misses a version only if it was applied while the
\* subscription was disabled, for any subscription and any changes: the
\* other statuses do not stop refreshTelegramAlertMessages
\* (repository.go:784).
THEOREM MissesOnlyWhileDisabled == Spec => []AlertMissesOnlyWhileDisabled
<1>1. AlertInv => AlertMissesOnlyWhileDisabled
  BY DEF AlertInv
<1> QED
  BY <1>1, AlertInvariance, PTL

----------------------------------------------------------------------------
(* Retriggering.                                                           *)

\* A delivery is of a version that was applied.
DeliveredIsApplied ==
  \A d \in deliveries :
    d[1] \in Slots /\ d[2] \in 1..Len(history[d[1]])

\* The condition of trigger t, for minimum m, is not met by earthquake e, or
\* was less than in earthquake f.
Below(t, m, e, f) ==
  CASE t = "magnitude_threshold_crossed" -> e.magnitude < m
    [] t = "tsunami_activated" -> ~e.tsunami
    [] t = "alert_level_increased" -> e.level < f.level
    [] OTHER -> FALSE

\* NoRetrigger, with the condition under a name.
LEMMA RetriggerMeans ==
  NoRetrigger <=>
    /\ \A d \in deliveries : d[3] = "new_event" => d[2] = 1
    /\ \A d, x \in deliveries : d[1] = x[1] /\ d[3] = x[3] /\ d[2] < x[2] =>
         \E v \in d[2]..x[2] - 1 : Below(d[3], sub.minimumMagnitude, history[d[1]][v].event,
                                         history[d[1]][x[2]].event)
BY DEF NoRetrigger, Below

\* What triggers a delivery was not so in the version before; a first
\* version triggers new_event only, and no other version does.
LEMMA TriggerIsNews ==
  ASSUME NEW s, s.channel # "telegram", NEW old, NEW e, NEW fresh,
         old = <<>> \/ old = <<old[1]>>,
         NEW t \in TriggersOf(s, old, e, fresh)
  PROVE  /\ old = <<>> => t = "new_event"
         /\ old # <<>> =>
              \/ t = "magnitude_threshold_crossed" /\ old[1].magnitude < s.minimumMagnitude
              \/ t = "tsunami_activated" /\ ~old[1].tsunami
              \/ t = "alert_level_increased" /\ e.level > old[1].level
<1>1. t \in Triggers(s, old, e, fresh)
  BY DEF TriggersOf
<1> QED
  BY <1>1 DEF Triggers, Crosses

\* The deliveries of one more version keep the distance.
LEMMA ApplyRetriggersNothing ==
  ASSUME AskedIsApplied, DeliveredIsApplied, NoRetrigger,
         NEW i \in Slots, NEW e, NEW eligible, NEW fresh, Apply(i, e, eligible, fresh)
  PROVE  DeliveredIsApplied' /\ NoRetrigger'
<1> DEFINE count == Len(history[i])
           version == count + 1
           old == IF version = 1 THEN <<>> ELSE <<history[i][version - 1].event>>
           met == [event |-> e, eligible |-> eligible, fresh |-> fresh, status |-> sub.status]
           longer == Append(history[i], met)
<1>1. /\ count \in Nat
      /\ Len(longer) = version
      /\ longer[version] = met
      /\ \A k \in 1..count : longer[k] = history[i][k]
  BY AppendOne DEF AskedIsApplied
<1>2. /\ history'[i] = longer
      /\ \A j \in Slots \ {i} : history'[j] = history[j]
      /\ sub' = sub
  BY DEF Apply, AskedIsApplied
<1>3. ASSUME NEW d \in deliveries', d \notin deliveries
      PROVE  /\ sub.channel # "telegram"
             /\ \E t \in TriggersOf(sub, old, e, fresh) : d = <<i, version, t>>
  BY <1>3 DEF Apply
<1>4. met.event = e
  OBVIOUS
<1> HIDE DEF longer, met
<1>5. ASSUME NEW d \in deliveries', d \notin deliveries
      PROVE  /\ d[1] = i
             /\ d[2] = version
             /\ old = <<>> => d[3] = "new_event"
             /\ old # <<>> =>
                  \/ d[3] = "magnitude_threshold_crossed" /\ old[1].magnitude < sub.minimumMagnitude
                  \/ d[3] = "tsunami_activated" /\ ~old[1].tsunami
                  \/ d[3] = "alert_level_increased" /\ e.level > old[1].level
  <2>1. PICK t \in TriggersOf(sub, old, e, fresh) : d = <<i, version, t>>
    BY <1>3, <1>5
  <2>2. old = <<>> \/ old = <<old[1]>>
    OBVIOUS
  <2>3. sub.channel # "telegram"
    BY <1>3, <1>5
  <2>4. d[1] = i /\ d[2] = version /\ d[3] = t
    BY <2>1
  <2> HIDE DEF old, version
  <2> QED
    BY <2>2, <2>3, <2>4, TriggerIsNews
<1>6. (version = 1 <=> old = <<>>) /\ (version # 1 => old[1] = history[i][count].event)
  BY <1>1
<1> HIDE DEF old
<1>7. ASSUME NEW d \in deliveries
      PROVE  /\ d[1] \in Slots
             /\ Len(history[d[1]]) \in Nat
             /\ d[2] \in 1..Len(history[d[1]])
             /\ Len(history'[d[1]]) >= Len(history[d[1]])
             /\ Len(history'[d[1]]) \in Nat
             /\ \A k \in 1..Len(history[d[1]]) : history'[d[1]][k] = history[d[1]][k]
  <2>1. d[1] \in Slots /\ d[2] \in 1..Len(history[d[1]])
    BY DEF DeliveredIsApplied
  <2>2. Len(history[d[1]]) \in Nat
    BY <2>1, AppendOne DEF AskedIsApplied
  <2>3. CASE d[1] = i
    BY <1>1, <1>2, <2>1, <2>2, <2>3
  <2>4. CASE d[1] # i
    BY <1>2, <2>1, <2>2, <2>4
  <2> QED
    BY <2>3, <2>4
<1>8. DeliveredIsApplied'
  <2> SUFFICES ASSUME NEW d \in deliveries'
               PROVE  d[1] \in Slots /\ d[2] \in 1..Len(history'[d[1]])
    BY DEF DeliveredIsApplied
  <2>1. CASE d \in deliveries
    BY <1>7, <2>1
  <2>2. CASE d \notin deliveries
    BY <1>1, <1>2, <1>5, <2>2
  <2> QED
    BY <2>1, <2>2
<1>9. \A d \in deliveries' : d[3] = "new_event" => d[2] = 1
  <2> SUFFICES ASSUME NEW d \in deliveries', d[3] = "new_event" PROVE d[2] = 1
    OBVIOUS
  <2>1. CASE d \in deliveries
    BY <2>1, RetriggerMeans
  <2>2. CASE d \notin deliveries
    BY <1>5, <1>6, <2>2
  <2> QED
    BY <2>1, <2>2
<1>10. ASSUME NEW d \in deliveries', NEW x \in deliveries',
              d[1] = x[1], d[3] = x[3], d[2] < x[2]
       PROVE  \E v \in d[2]..x[2] - 1 : Below(d[3], sub'.minimumMagnitude, history'[d[1]][v].event,
                                               history'[d[1]][x[2]].event)
  <2>1. CASE x \in deliveries
    <3>1. d \in deliveries
      BY <1>1, <1>5, <1>7, <1>10, <2>1
    <3>2. PICK v \in d[2]..x[2] - 1 :
                 Below(d[3], sub.minimumMagnitude, history[d[1]][v].event, history[d[1]][x[2]].event)
      BY <1>10, <2>1, <3>1, RetriggerMeans
    <3>3. /\ history'[d[1]][v] = history[d[1]][v]
          /\ history'[d[1]][x[2]] = history[d[1]][x[2]]
      <4>1. /\ Len(history[d[1]]) \in Nat
            /\ d[2] \in 1..Len(history[d[1]])
            /\ \A k \in 1..Len(history[d[1]]) : history'[d[1]][k] = history[d[1]][k]
        BY <1>7, <3>1
      <4>2. x[2] \in 1..Len(history[d[1]])
        BY <1>7, <1>10, <2>1
      <4>3. v \in 1..Len(history[d[1]])
        BY <4>1, <4>2
      <4> QED
        BY <4>1, <4>2, <4>3
    <3> QED
      BY <1>2, <3>2, <3>3
  <2>2. CASE x \notin deliveries
    <3>1. x[1] = i /\ x[2] = version
      BY <1>5, <2>2
    <3>2. d \in deliveries /\ d[2] \in 1..count
      BY <1>1, <1>5, <1>7, <1>10, <3>1
    <3>3. count \in d[2]..x[2] - 1 /\ version # 1 /\ count \in 1..count
      BY <1>1, <3>1, <3>2
    <3>4. /\ history'[i][count] = history[i][count]
          /\ history'[i][version].event = e
      BY <1>1, <1>2, <1>4, <3>3
    <3>5. Below(d[3], sub'.minimumMagnitude, history'[i][count].event, history'[i][version].event)
      <4>1. \/ d[3] = "magnitude_threshold_crossed"
               /\ history'[i][count].event.magnitude < sub'.minimumMagnitude
            \/ d[3] = "tsunami_activated" /\ ~history'[i][count].event.tsunami
            \/ d[3] = "alert_level_increased"
               /\ history'[i][count].event.level < history'[i][version].event.level
        BY <1>2, <1>5, <1>6, <1>10, <2>2, <3>3, <3>4
      <4> QED
        BY <4>1 DEF Below
    <3> QED
      BY <1>10, <3>1, <3>3, <3>5
  <2> QED
    BY <2>1, <2>2
<1>11. NoRetrigger'
  <2>1. /\ \A d \in deliveries' : d[3] = "new_event" => d[2] = 1
        /\ \A d, x \in deliveries' : d[1] = x[1] /\ d[3] = x[3] /\ d[2] < x[2] =>
             \E v \in d[2]..x[2] - 1 : Below(d[3], sub'.minimumMagnitude, history'[d[1]][v].event,
                                               history'[d[1]][x[2]].event)
    BY <1>9, <1>10
  <2> QED
    BY <2>1 DEF NoRetrigger, Below
<1> QED
  BY <1>8, <1>11

\* The status does not matter to what was delivered.
LEMMA SwitchRetriggersNothing ==
  ASSUME DeliveredIsApplied, NoRetrigger, DOMAIN sub = SubscriptionFields,
         NEW status, sub' = [sub EXCEPT !.status = status],
         history' = history, deliveries' = deliveries
  PROVE  DeliveredIsApplied' /\ NoRetrigger' /\ DOMAIN sub' = SubscriptionFields
<1>1. sub'.minimumMagnitude = sub.minimumMagnitude /\ DOMAIN sub' = SubscriptionFields
  BY DEF SubscriptionFields
<1>2. NoRetrigger'
  <2>1. /\ \A d \in deliveries' : d[3] = "new_event" => d[2] = 1
        /\ \A d, x \in deliveries' : d[1] = x[1] /\ d[3] = x[3] /\ d[2] < x[2] =>
             \E v \in d[2]..x[2] - 1 : Below(d[3], sub'.minimumMagnitude, history'[d[1]][v].event,
                                               history'[d[1]][x[2]].event)
    BY <1>1, RetriggerMeans
  <2> QED
    BY <2>1 DEF NoRetrigger, Below
<1> QED
  BY <1>1, <1>2 DEF DeliveredIsApplied

\* No subscriber is told twice of what stayed as it was, for any
\* subscription, earthquakes and order of changes: createDeliveries compares
\* each version with the one before it (repository.go:687-746,
\* model.go:62-79, 148-170).
THEOREM NothingRetriggered == Spec => []NoRetrigger
<1> DEFINE IInv == DeliveredIsApplied /\ NoRetrigger /\ DOMAIN sub = SubscriptionFields
<1>1. Init => IInv
  BY MatchingAssumption DEF Init, MatchingInit, MatchingAssumption, DeliveredIsApplied, NoRetrigger
<1>2. IInv /\ AlertInv /\ [Next]_vars => IInv'
  <2> SUFFICES ASSUME IInv, AlertInv, [Next]_vars PROVE IInv'
    OBVIOUS
  <2>1. CASE Change
    <3>1. PICK i : Changed(i)
      BY <2>1 DEF Change, Sight
    <3>2. PICK e, eligible, fresh : i \in Slots /\ Apply(i, e, eligible, fresh)
      BY <3>1 DEF Changed
    <3>3. sub' = sub
      BY <3>2 DEF Apply
    <3> QED
      BY <3>2, <3>3, ApplyRetriggersNothing DEF AlertInv
  <2>2. CASE Switch
    <3>1. PICK status : SetStatus(status)
      BY <2>2 DEF Switch
    <3> QED
      BY <3>1, SwitchRetriggersNothing DEF SetStatus
  <2>3. CASE UNCHANGED vars
    BY <2>3 DEF vars, matchingVars, DeliveredIsApplied, NoRetrigger
  <2> QED
    BY <2>1, <2>2, <2>3 DEF Next
<1>3. IInv => NoRetrigger
  OBVIOUS
<1> QED
  BY <1>1, <1>2, <1>3, AlertInvariance, PTL DEF Spec

----------------------------------------------------------------------------
(* Correlation: the scores.                                                *)

\* What magnitude and depth add to the weights leaves four sums.
Weights == {80, 85, 95, 100}
Sums == 0..6000
IsScore(s) == s.weights \in Weights /\ s.weighted \in Sums

\* Lead and Acceptable, of numerators x, y and denominators w, v.
NotBelow(x, w, y, v) == 100 * (x * v - y * w) >= 0
Reaches(x, w) == 100 * x >= AcceptanceThreshold * Scale * w

LEMMA ScoresAreFractions ==
  ASSUME NEW s, NEW t
  PROVE  /\ Lead(s, t) >= 0 <=> NotBelow(s.weighted, s.weights, t.weighted, t.weights)
         /\ Acceptable(s) <=> Reaches(s.weighted, s.weights)
BY Zenon DEF Lead, Acceptable, NotBelow, Reaches

\* What is not below an acceptable score is acceptable.
LEMMA ReachesUpward ==
  ASSUME NEW w \in Weights, NEW v \in Weights, NEW x \in Sums, NEW y \in Sums,
         NotBelow(x, w, y, v), Reaches(y, v)
  PROVE  Reaches(x, w)
<1> USE DEF Weights, Sums, NotBelow, Reaches, AcceptanceThreshold, Scale
<1>1. CASE w = 80
  BY SMT, <1>1
<1>2. CASE w = 85
  BY SMT, <1>2
<1>3. CASE w = 95
  BY SMT, <1>3
<1>4. CASE w = 100
  BY SMT, <1>4
<1> QED
  BY SMT, <1>1, <1>2, <1>3, <1>4

LEMMA AcceptableUpward ==
  ASSUME NEW s, NEW t, IsScore(s), IsScore(t), Lead(s, t) >= 0, Acceptable(t)
  PROVE  Acceptable(s)
BY ScoresAreFractions, ReachesUpward DEF IsScore

\* A score as a whole number: 129200 is the least number that all sums of
\* weights divide; and what the scores do not exceed.
Shared(x, w) ==
  IF w = 80 THEN 1615 * x
  ELSE IF w = 85 THEN 1520 * x
  ELSE IF w = 95 THEN 1360 * x
  ELSE 1292 * x
Top == 9690000

\* Fractions compare as the whole numbers do, ...
LEMMA SharedOrder ==
  ASSUME NEW w \in Weights, NEW v \in Weights, NEW x \in Sums, NEW y \in Sums
  PROVE  NotBelow(x, w, y, v) <=> Shared(x, w) >= Shared(y, v)
<1> USE DEF Weights, Sums, NotBelow, Shared
<1>1. CASE w = 80
  BY SMT, <1>1
<1>2. CASE w = 85
  BY SMT, <1>2
<1>3. CASE w = 95
  BY SMT, <1>3
<1>4. CASE w = 100
  BY SMT, <1>4
<1> QED
  BY SMT, <1>1, <1>2, <1>3, <1>4

\* ... which are bounded.
LEMMA SharedBounds ==
  ASSUME NEW w \in Weights, NEW x \in Sums
  PROVE  /\ Shared(x, w) \in Int /\ Top \in Int
         /\ Shared(x, w) >= 0 /\ Shared(x, w) <= Top
<1> USE DEF Weights, Sums, Shared, Top
<1>1. CASE w = 80
  BY SMT, <1>1
<1>2. CASE w = 85
  BY SMT, <1>2
<1>3. CASE w = 95
  BY SMT, <1>3
<1>4. CASE w = 100
  BY SMT, <1>4
<1> QED
  BY SMT, <1>1, <1>2, <1>3, <1>4

Natural(e) == {e.time, e.place, e.magnitude, e.depth} \subseteq Nat

\* Earthquakes that may be compared have a score.
LEMMA ScoreOfComparable ==
  ASSUME NEW a, NEW b, Natural(a), Natural(b), Comparable(a, b)
  PROVE  IsScore(Score(a, b))
<1> DEFINE magnitude == IF BothHave("magnitude", a, b) THEN MagnitudeWeight ELSE 0
           depth == IF BothHave("depth", a, b) THEN DepthWeight ELSE 0
           T == Closeness(Delta(a.time, b.time), MaximumTimeDelta)
           D == Closeness(Delta(a.place, b.place), MaximumDistance)
           M == Closeness(Delta(a.magnitude, b.magnitude), MaximumMagnitudeDiff)
           Q == Closeness(Delta(a.depth, b.depth), MaximumDepthDiff)
<1>1. /\ Delta(a.time, b.time) \in 0..3 /\ Delta(a.place, b.place) \in 0..5
      /\ Delta(a.magnitude, b.magnitude) \in Nat /\ Delta(a.depth, b.depth) \in Nat
      /\ magnitude # 0 => Delta(a.magnitude, b.magnitude) \in 0..4
      /\ depth # 0 => Delta(a.depth, b.depth) \in 0..3
  BY DEF Natural, Comparable, Delta, MaximumTimeDelta, MaximumDistance, MaximumMagnitudeDiff,
         MaximumDepthDiff
<1>2. magnitude \in {0, 15} /\ depth \in {0, 5}
  BY DEF MagnitudeWeight, DepthWeight
<1>3. /\ Scale \div MaximumTimeDelta = 20 /\ Scale \div MaximumDistance = 12
      /\ Scale \div MaximumMagnitudeDiff = 15 /\ Scale \div MaximumDepthDiff = 20
  BY DEF Scale, MaximumTimeDelta, MaximumDistance, MaximumMagnitudeDiff, MaximumDepthDiff
<1>4. /\ T \in 0..60 /\ D \in 0..60 /\ M \in Int /\ Q \in Int
      /\ magnitude # 0 => M \in 0..60
      /\ depth # 0 => Q \in 0..60
  BY <1>1, <1>3 DEF Closeness, Scale
<1>5. Score(a, b) = [weighted |-> 45 * T + 35 * D + magnitude * M + depth * Q,
                     weights |-> 45 + 35 + magnitude + depth]
  BY DEF Score, TimeWeight, DistanceWeight
<1> HIDE DEF magnitude, depth, T, D, M, Q
<1>6. /\ magnitude * M \in 0..900
      /\ depth * Q \in 0..300
  <2>1. magnitude = 0 \/ (magnitude = 15 /\ M \in 0..60)
    BY <1>2, <1>4
  <2>2. depth = 0 \/ (depth = 5 /\ Q \in 0..60)
    BY <1>2, <1>4
  <2> QED
    BY <1>4, <2>1, <2>2
<1>7. /\ 45 * T + 35 * D + magnitude * M + depth * Q \in Sums
      /\ 45 + 35 + magnitude + depth \in Weights
  BY <1>2, <1>4, <1>6 DEF Weights, Sums
<1> QED
  BY <1>5, <1>7 DEF IsScore

\* Every set of natural numbers that has an element has a least one.
LEMMA LeastNatural ==
  ASSUME NEW T \in SUBSET Nat, T # {}
  PROVE  \E x \in T : \A y \in T : x <= y
<1> DEFINE R == OpToRel(<, Nat)
<1>1. IsWellFoundedOn(R, Nat)
  BY NatLessThanWellFounded
<1>2. PICK x \in T : \A y \in T : ~(<<y, x>> \in R)
  <2> HIDE DEF R
  <2> QED
    BY <1>1, WFMin
<1>3. \A y \in T : ~(y < x)
  BY <1>2 DEF OpToRel
<1> QED
  BY <1>3

\* Of incidents with scores, one has no other above it.
LEMMA BestExists ==
  ASSUME NEW ranked, ranked # {}, NEW S, \A i \in ranked : IsScore(S[i])
  PROVE  \E i \in ranked : \A j \in ranked : Lead(S[i], S[j]) >= 0
<1> DEFINE value(i) == Shared(S[i].weighted, S[i].weights)
           T == {Top - value(i) : i \in ranked}
<1>1. \A i, j \in ranked :
        /\ value(i) \in Int /\ Top \in Int /\ value(i) <= Top
        /\ Lead(S[i], S[j]) >= 0 <=> value(i) >= value(j)
  BY ScoresAreFractions, SharedOrder, SharedBounds DEF IsScore
<1> HIDE DEF value
<1>2. T \in SUBSET Nat /\ T # {}
  BY <1>1
<1>3. PICK x \in T : \A y \in T : x <= y
  <2> HIDE DEF T
  <2> QED
    BY <1>2, LeastNatural
<1>4. PICK i \in ranked : x = Top - value(i)
  OBVIOUS
<1>5. \A j \in ranked : Top - value(i) <= Top - value(j)
  BY <1>3, <1>4
<1>6. \A j \in ranked : value(i) >= value(j)
  BY <1>1, <1>5
<1> QED
  BY <1>1, <1>6

----------------------------------------------------------------------------
(* Correlation: the decision.                                              *)

\* R orders F strictly and totally, as ORDER BY does.
Ordered(F, R) ==
  /\ \A i \in F : <<i, i>> \notin R
  /\ \A i, j, k \in F : <<i, j>> \in R /\ <<j, k>> \in R => <<i, k>> \in R
  /\ \A i, j \in F : i = j \/ <<i, j>> \in R \/ <<j, i>> \in R

AheadOf(F, R, i) == {j \in F : <<j, i>> \in R}

\* A row has more rows ahead of it than the rows ahead of it have.
LEMMA Ranks ==
  ASSUME NEW F, IsFiniteSet(F), NEW R, Ordered(F, R)
  PROVE  \A i, j \in F :
           /\ IsFiniteSet(AheadOf(F, R, i)) /\ Cardinality(AheadOf(F, R, i)) \in Nat
           /\ <<j, i>> \in R <=> Cardinality(AheadOf(F, R, j)) < Cardinality(AheadOf(F, R, i))
<1> DEFINE A(i) == AheadOf(F, R, i)
           rank(i) == Cardinality(A(i))
<1>1. ASSUME NEW i \in F
      PROVE  A(i) \in SUBSET F /\ IsFiniteSet(A(i)) /\ rank(i) \in Nat
  <2>1. A(i) \in SUBSET F
    BY DEF AheadOf
  <2> QED
    BY <2>1, FS_Subset, FS_CardinalityType
<1>2. ASSUME NEW i \in F, NEW j \in F, <<j, i>> \in R
      PROVE  rank(j) < rank(i)
  <2>1. A(j) \in SUBSET A(i) /\ j \in A(i) /\ j \notin A(j)
    BY <1>2 DEF AheadOf, Ordered
  <2>2. rank(j) <= rank(i) /\ rank(j) # rank(i)
    BY <1>1, <2>1, FS_Subset
  <2> QED
    BY <1>1, <2>2
<1>3. \A i, j \in F : i = j \/ <<i, j>> \in R \/ <<j, i>> \in R
  BY DEF Ordered
<1>4. ASSUME NEW i \in F, NEW j \in F, rank(j) < rank(i)
      PROVE  <<j, i>> \in R
  <2>1. rank(i) \in Nat /\ rank(j) \in Nat
    BY <1>1
  <2>2. ~(rank(i) < rank(j)) /\ i # j
    BY <1>4, <2>1
  <2> QED
    BY <1>2, <1>3, <2>2
<1> QED
  BY <1>1, <1>2, <1>4

\* A page, the rows with fewer than limit ahead of them, shows every row if
\* it is not full: the first row beyond it has just the page ahead of it, and
\* the last row of the page all others.
LEMMA PageShowsAll ==
  ASSUME NEW F, IsFiniteSet(F), NEW R, Ordered(F, R), NEW limit \in Nat,
         Cardinality({i \in F : Cardinality(AheadOf(F, R, i)) < limit}) # limit
  PROVE  {i \in F : Cardinality(AheadOf(F, R, i)) < limit} = F
<1> DEFINE rank(i) == Cardinality(AheadOf(F, R, i))
           page == {i \in F : rank(i) < limit}
           beyond == F \ page
           T == {rank(i) : i \in beyond}
<1> SUFFICES ASSUME beyond # {} PROVE FALSE
  OBVIOUS
<1>1. /\ \A i \in F : IsFiniteSet(AheadOf(F, R, i)) /\ rank(i) \in Nat
      /\ \A i, j \in F : <<j, i>> \in R <=> rank(j) < rank(i)
      /\ \A i, j \in F : i = j \/ rank(i) < rank(j) \/ rank(j) < rank(i)
  BY Ranks DEF Ordered
<1>2. \A i \in F : AheadOf(F, R, i) = {j \in F : rank(j) < rank(i)}
  BY <1>1 DEF AheadOf
<1>3. PICK i \in beyond : \A j \in beyond : rank(i) <= rank(j)
  <2>1. T \in SUBSET Nat /\ T # {}
    BY <1>1
  <2>2. PICK x \in T : \A y \in T : x <= y
    <3> HIDE DEF T
    <3> QED
      BY <2>1, LeastNatural
  <2> QED
    BY <2>2
<1>4. i \in F /\ rank(i) \in Nat /\ limit <= rank(i)
  BY <1>1
<1>5. AheadOf(F, R, i) = page
  <2> HIDE DEF rank
  <2>1. \A j \in F : rank(j) < rank(i) <=> rank(j) < limit
    BY <1>1, <1>3, <1>4
  <2> QED
    BY <1>2, <1>4, <2>1
<1>6. limit < rank(i)
  BY <1>4, <1>5
<1> DEFINE U == {rank(i) - rank(j) : j \in page}
<1>7. PICK m \in page : \A j \in page : rank(j) <= rank(m)
  <2>1. page # {}
    BY <1>4, <1>5, <1>6, FS_EmptySet
  <2>2. U \in SUBSET Nat /\ U # {}
    BY <1>1, <1>4, <2>1
  <2>3. PICK x \in U : \A y \in U : x <= y
    <3> HIDE DEF U
    <3> QED
      BY <2>2, LeastNatural
  <2>4. PICK m \in page : x = rank(i) - rank(m)
    OBVIOUS
  <2>5. \A j \in page : rank(i) - rank(m) <= rank(i) - rank(j)
    BY <2>3, <2>4
  <2>6. \A j \in page : rank(j) \in Nat
    BY <1>1
  <2> HIDE DEF rank, page, U
  <2> QED
    BY <1>4, <2>4, <2>5, <2>6
<1>8. page \ {m} \in SUBSET AheadOf(F, R, m)
  <2> HIDE DEF rank
  <2> QED
    BY <1>1, <1>2, <1>7
<1>9. rank(i) - 1 <= rank(m)
  <2>1. IsFiniteSet(page) /\ Cardinality(page) = rank(i)
    BY <1>1, <1>4, <1>5
  <2>2. Cardinality(page \ {m}) = rank(i) - 1
    <3> HIDE DEF page, rank
    <3> QED
      BY <1>7, <2>1, FS_RemoveElement
  <2>3. IsFiniteSet(AheadOf(F, R, m))
    BY <1>1
  <2> HIDE DEF page
  <2> QED
    BY <1>8, <2>2, <2>3, FS_Subset
<1>10. rank(m) < limit /\ rank(m) \in Nat
  BY <1>1
<1> QED
  BY <1>4, <1>6, <1>9, <1>10

\* A page that is not full shows every incident that the query finds.
LEMMA NotFullShowsAll ==
  ASSUME NEW table \in Seq(Incident), NEW p, NEW r \in Events,
         Cardinality(Fetched(table, p, r)) # PageLimit
  PROVE  Fetched(table, p, r) = Near(table, p, r)
<1> DEFINE found == Near(table, p, r)
           time == [i \in found |-> Delta(table[i].event.time, r.time)]
           R == {x \in found \X found : time[x[1]] < time[x[2]]
                                        \/ (time[x[1]] = time[x[2]] /\ x[1] < x[2])}
<1>1. found \in SUBSET (1..Len(table)) /\ Len(table) \in Nat
  BY DEF Near
<1>2. found \in SUBSET Nat /\ IsFiniteSet(found)
  <2> HIDE DEF found
  <2>1. IsFiniteSet(1..Len(table)) /\ 1..Len(table) \in SUBSET Nat
    BY <1>1, FS_Interval
  <2> QED
    BY <1>1, <2>1, FS_Subset
<1>3. \A i \in found : table[i].event.time \in Nat /\ r.time \in Nat
  <2> TAKE i \in found
  <2>1. table[i] \in Incident
    BY <1>1
  <2>2. table[i].event \in Events
    BY <2>1 DEF Incident
  <2> QED
    BY <2>2, DecisionsAssumption
<1>4. \A i \in found : time[i] = Delta(table[i].event.time, r.time) /\ time[i] \in Nat
  BY <1>3 DEF Delta
<1>5. \A i, j \in found : <<j, i>> \in R <=> time[j] < time[i] \/ (time[j] = time[i] /\ j < i)
  <2> HIDE DEF time, found
  <2> QED
    OBVIOUS
<1>6. \A i \in found :
        {j \in found : LET di == Delta(table[j].event.time, r.time)
                           dj == Delta(table[i].event.time, r.time)
                       IN  di < dj \/ (di = dj /\ j < i)} = AheadOf(found, R, i)
  <2> HIDE DEF time, found, R
  <2> QED
    BY <1>4, <1>5 DEF AheadOf
<1>7. Fetched(table, p, r) = {i \in found : Cardinality(AheadOf(found, R, i)) < PageLimit}
  BY <1>6 DEF Fetched
<1>8. Ordered(found, R)
  <2> HIDE DEF time, found, R
  <2> QED
    BY <1>2, <1>4, <1>5 DEF Ordered
<1>9. PageLimit \in Nat
  BY CorrelationAssumption
<1> HIDE DEF found, R
<1>10. Fetched(table, p, r) = found
  BY <1>2, <1>7, <1>8, <1>9, PageShowsAll
<1> QED
  BY <1>10 DEF found

\* What DecisionIsSafe says of a decision.
Fits(table, p, r, decision) ==
  LET found == {i \in Near(table, p, r) : Comparable(r, table[i].event)}
      S(i) == Score(r, table[i].event)
      chosen == decision.match
  IN  /\ chosen # 0 =>
           /\ chosen \in found
           /\ Acceptable(S(chosen))
           /\ \A i \in found \ {chosen} : ClearlyAbove(S(chosen), S(i))
      /\ chosen = 0 /\ ~decision.ambiguous /\ r.magnitude # Null =>
           \A i \in found : ~Acceptable(S(i))

\* A decision on all incidents near the report fits.
LEMMA CorrelateFits ==
  ASSUME NEW table \in Seq(Incident), NEW p, NEW r \in Events
  PROVE  Fits(table, p, r, Correlate(table, r, Near(table, p, r)))
<1> DEFINE ranked == {i \in Near(table, p, r) : Comparable(r, table[i].event)}
           S(i) == Score(r, table[i].event)
           first == CHOOSE i \in ranked : \A j \in ranked : Lead(S(i), S(j)) >= 0
           decision == Correlate(table, r, Near(table, p, r))
<1>1. decision =
        IF ranked = {} \/ ~Acceptable(S(first)) THEN [match |-> 0, ambiguous |-> FALSE]
        ELSE IF \E j \in ranked \ {first} : ~ClearlyAbove(S(first), S(j))
             THEN [match |-> 0, ambiguous |-> TRUE]
             ELSE [match |-> first, ambiguous |-> FALSE]
  BY DEF Correlate
<1>2. \A i \in ranked : i \in Nat \ {0} /\ IsScore(S(i))
  <2> SUFFICES ASSUME NEW i \in ranked
               PROVE  i \in Nat \ {0} /\ IsScore(Score(r, table[i].event))
    OBVIOUS
  <2>1. i \in 1..Len(table) /\ Len(table) \in Nat /\ Comparable(r, table[i].event)
    BY DEF Near
  <2>2. table[i] \in Incident
    BY <2>1
  <2>3. table[i].event \in Events
    BY <2>2 DEF Incident
  <2> QED
    BY <2>1, <2>3, ScoreOfComparable, DecisionsAssumption DEF Natural
<1>3. /\ decision.match # 0 =>
           /\ decision.match \in ranked
           /\ Acceptable(S(decision.match))
           /\ \A i \in ranked \ {decision.match} : ClearlyAbove(S(decision.match), S(i))
      /\ decision.match = 0 /\ ~decision.ambiguous =>
           \A i \in ranked : ~Acceptable(S(i))
  <2> HIDE DEF ranked, S, decision
  <2>1. CASE ranked = {}
    BY <1>1, <2>1
  <2>2. CASE ranked # {}
    <3>1. first \in ranked /\ \A j \in ranked : Lead(S(first), S(j)) >= 0
      <4> DEFINE R == [i \in ranked |-> S(i)]
      <4>1. \E i \in ranked : \A j \in ranked : Lead(R[i], R[j]) >= 0
        BY <1>2, <2>2, BestExists
      <4> QED
        BY <4>1
    <3> HIDE DEF first
    <3>2. first # 0
      BY <1>2, <3>1
    <3>3. ~Acceptable(S(first)) => \A i \in ranked : ~Acceptable(S(i))
      BY <1>2, <3>1, AcceptableUpward
    <3> QED
      BY <1>1, <2>2, <3>1, <3>2, <3>3
  <2> QED
    BY <2>1, <2>2
<1> QED
  BY <1>3 DEF Fits

\* Every decision fits: a page that is full is not trusted.
LEMMA DecisionFits ==
  ASSUME NEW table \in Seq(Incident), NEW p, NEW r \in Events
  PROVE  Fits(table, p, r, Decision(table, p, r))
<1>1. CASE r.magnitude = Null
  BY <1>1 DEF Decision, Fits
<1>2. CASE r.magnitude # Null /\ Cardinality(Fetched(table, p, r)) = PageLimit
  BY <1>2 DEF Decision, Fits
<1>3. CASE r.magnitude # Null /\ Cardinality(Fetched(table, p, r)) # PageLimit
  <2>1. Decision(table, p, r) = Correlate(table, r, Near(table, p, r))
    BY <1>3, NotFullShowsAll DEF Decision
  <2> QED
    BY <2>1, CorrelateFits
<1> QED
  BY <1>1, <1>2, <1>3

DecisionInv == incidents \in Seq(Incident) /\ DecisionIsSafe

\* A sighting decides on the incidents there are; a revision decides
\* nothing.
LEMMA SightingDecides ==
  ASSUME incidents \in Seq(Incident), NEW p \in Providers, NEW r \in Reports, Sight(p, r)
  PROVE  DecisionInv'
<1>1. r \in Events /\ Fits(incidents, p, r, Decision(incidents, p, r))
  BY DecisionFits DEF Events
<1>2. last' = [report |-> r, provider |-> p, table |-> incidents,
               decision |-> Decision(incidents, p, r)]
  BY DEF Sight, NewIncident, CorrelatedSource
<1>3. DecisionIsSafe'
  BY <1>1, <1>2 DEF DecisionIsSafe, Fits
<1>4. incidents' \in Seq(Incident)
  <2>1. CASE NewIncident(p, r)
    <3>1. [event |-> r, preferred |-> p, providers |-> {p}] \in Incident
      BY <1>1 DEF Incident
    <3> QED
      BY <2>1, <3>1 DEF NewIncident
  <2>2. ASSUME NEW i \in DOMAIN incidents, CorrelatedSource(i, p, r)
        PROVE  incidents' \in Seq(Incident)
    <3>1. incidents[i] \in Incident
      OBVIOUS
    <3> DEFINE preferred == Priority(p) > Priority(incidents[i].preferred)
               x == [event |-> IF preferred THEN r ELSE incidents[i].event,
                     preferred |-> IF preferred THEN p ELSE incidents[i].preferred,
                     providers |-> incidents[i].providers \cup {p}]
    <3>2. x \in Incident
      BY <1>1, <3>1 DEF Incident
    <3>3. incidents' = [incidents EXCEPT ![i] = x]
      BY <2>2 DEF CorrelatedSource
    <3> HIDE DEF x
    <3> QED
      BY <3>2, <3>3
  <2> QED
    BY <2>1, <2>2 DEF Sight
<1> QED
  BY <1>3, <1>4 DEF DecisionInv

\* Every sighting decides safely, and the incidents it leaves are incidents.
LEMMA DecisionInvariance == Spec => []DecisionInv
<1>1. Init => DecisionInv
  BY DecisionsAssumption DEF Init, DecisionInv, DecisionIsSafe, NoDecision
<1>2. DecisionInv /\ [Next]_vars => DecisionInv'
  <2> SUFFICES ASSUME DecisionInv, [Next]_vars PROVE DecisionInv'
    OBVIOUS
  <2>1. ASSUME NEW p \in Providers, NEW r \in Reports, Sight(p, r)
        PROVE  DecisionInv'
    BY <2>1, SightingDecides DEF DecisionInv
  <2>2. ASSUME NEW r \in Reports, NEW i \in DOMAIN incidents, ReviseSource(i, r)
        PROVE  DecisionInv'
    <3>1. DecisionIsSafe'
      BY <2>2 DEF ReviseSource, NoDecision, DecisionIsSafe
    <3>2. r \in Events /\ incidents[i] \in Incident /\ incidents \in Seq(Incident)
      BY DEF DecisionInv, Events
    <3>3. [incidents[i] EXCEPT !.event = r] \in Incident
      BY <3>2 DEF Incident
    <3>4. incidents' \in Seq(Incident)
      BY <2>2, <3>2, <3>3 DEF ReviseSource
    <3> QED
      BY <3>1, <3>4 DEF DecisionInv
  <2>3. CASE Switch
    BY <2>3 DEF Switch, correlationVars, DecisionInv, DecisionIsSafe
  <2>4. CASE UNCHANGED vars
    BY <2>4 DEF vars, correlationVars, DecisionInv, DecisionIsSafe
  <2> QED
    BY <2>1, <2>2, <2>3, <2>4 DEF Next, Change
<1> QED
  BY <1>1, <1>2, PTL DEF Spec

\* For any reports and any page size: a match is the one incident near the
\* report that reaches the threshold with the margin to all others, and
\* where nothing is matched or ambiguous no incident reaches it.
THEOREM DecisionsAreSafe == Spec => []DecisionIsSafe
<1>1. DecisionInv => DecisionIsSafe
  BY DEF DecisionInv
<1> QED
  BY <1>1, DecisionInvariance, PTL

----------------------------------------------------------------------------
(* The search radius.                                                      *)

\* A table of the intensity formula falls with the distance.
LEMMA Falls ==
  ASSUME NEW m \in DOMAIN UpperMMI, NEW a \in 0..Farthest, NEW b \in 0..Farthest, a <= b
  PROVE  /\ UpperMMI[m][a] \in Nat /\ UpperMMI[m][b] \in Nat
         /\ UpperMMI[m][b] <= UpperMMI[m][a]
<1> DEFINE U == UpperMMI[m]
           T == {x \in Nat : a + x <= Farthest /\ U[a + x] > U[a]}
<1>1. /\ U \in [0..Farthest -> Nat] /\ Farthest \in Nat
      /\ \A d \in 1..Farthest : U[d] <= U[d - 1]
  BY MatchingAssumption DEF MatchingAssumption
<1> HIDE DEF U
<1>2. ASSUME T # {} PROVE FALSE
  <2>1. PICK x \in T : \A y \in T : x <= y
    BY <1>2, LeastNatural
  <2>2. x \in Nat /\ a + x \in 0..Farthest /\ U[a + x] > U[a]
    BY <1>1
  <2>3. x # 0 /\ a + x \in 1..Farthest /\ (a + x) - 1 = a + (x - 1)
    <3>1. U[a] \in Nat
      BY <1>1
    <3>2. x # 0
      <4>1. a + 0 = a
        BY <1>1
      <4> QED
        BY <2>2, <3>1, <4>1
    <3> QED
      BY <1>1, <2>2, <3>2
  <2>4. U[a + x] <= U[a + (x - 1)]
    BY <1>1, <2>3
  <2>5. a + (x - 1) \in 0..Farthest
    BY <1>1, <2>2, <2>3
  <2>6. U[a + (x - 1)] \in Nat /\ U[a + x] \in Nat /\ U[a] \in Nat
    BY <1>1, <2>2, <2>5
  <2>7. x - 1 \in T
    BY <1>1, <2>2, <2>3, <2>4, <2>5, <2>6
  <2> QED
    BY <2>1, <2>2, <2>7
<1>3. b - a \notin T /\ b - a \in Nat /\ a + (b - a) = b
  <2>1. b - a \in Nat /\ a + (b - a) = b
    BY <1>1
  <2> HIDE DEF T
  <2> QED
    BY <1>2, <2>1
<1>4. ~(U[b] > U[a]) /\ U[a] \in Nat /\ U[b] \in Nat
  <2>1. a + (b - a) <= Farthest
    BY <1>1, <1>3
  <2>2. ~(U[a + (b - a)] > U[a])
    BY <1>3, <2>1
  <2>3. ~(U[b] > U[a])
    BY <1>3, <2>2
  <2> QED
    BY <1>1, <2>3
<1>5. U[b] <= U[a]
  BY <1>4
<1> QED
  BY <1>4, <1>5 DEF U

\* The range of the search after each of k rounds.
Rounds(m, minimum, k, range) ==
  range = [n \in 0..k |-> IF n = 0 THEN [low |-> 0, high |-> Farthest]
                          ELSE Narrowed(m, minimum, range[n - 1])]

\* Each round has a range to start from, so the search is defined.
LEMMA SearchIsDefined ==
  ASSUME NEW m, NEW minimum, NEW k \in Nat
  PROVE  \E range : Rounds(m, minimum, k, range)
<1> DEFINE T == {n \in Nat : ~\E range : Rounds(m, minimum, n, range)}
<1>1. ASSUME T # {} PROVE FALSE
  <2>1. PICK n \in T : \A y \in T : n <= y
    BY <1>1, LeastNatural
  <2>2. n \in Nat /\ ~\E range : Rounds(m, minimum, n, range)
    OBVIOUS
  <2>3. CASE n = 0
    <3> DEFINE g == [x \in 0..0 |-> [low |-> 0, high |-> Farthest]]
    <3>1. Rounds(m, minimum, 0, g)
      BY DEF Rounds
    <3> QED
      BY <2>2, <2>3, <3>1
  <2>4. CASE n # 0
    <3>1. n - 1 \in Nat /\ ~(n <= n - 1)
      BY <2>2, <2>4
    <3>2. n - 1 \notin T
      BY <2>1, <3>1
    <3>3. PICK f : Rounds(m, minimum, n - 1, f)
      BY <3>1, <3>2
    <3> DEFINE newest == Narrowed(m, minimum, f[n - 1])
               g == [x \in 0..n |-> IF x = n THEN newest ELSE f[x]]
    <3>4. \A x \in 0..n - 1 : f[x] = IF x = 0 THEN [low |-> 0, high |-> Farthest]
                                     ELSE Narrowed(m, minimum, f[x - 1])
      BY <3>3 DEF Rounds
    <3>5. \A x \in 0..n : g[x] = IF x = 0 THEN [low |-> 0, high |-> Farthest]
                                 ELSE Narrowed(m, minimum, g[x - 1])
      <4> SUFFICES ASSUME NEW x \in 0..n
                   PROVE  g[x] = IF x = 0 THEN [low |-> 0, high |-> Farthest]
                                 ELSE Narrowed(m, minimum, g[x - 1])
        OBVIOUS
      <4>1. CASE x = n
        <5>1. n - 1 \in 0..n /\ n - 1 # n /\ n \in 0..n
          BY <2>2, <3>1
        <5>2. g[n] = newest /\ g[n - 1] = f[n - 1]
          BY <5>1
        <5> QED
          BY <2>4, <4>1, <5>2
      <4>2. CASE x = 0
        <5>1. 0 \in 0..n - 1 /\ 0 # n
          BY <2>2, <2>4
        <5>2. g[0] = f[0]
          BY <2>2, <5>1
        <5> QED
          BY <3>4, <4>2, <5>1, <5>2
      <4>3. CASE x # n /\ x # 0
        <5>1. x \in 0..n - 1 /\ x - 1 \in 0..n /\ x - 1 # n
          BY <2>2, <4>3
        <5>2. g[x] = f[x] /\ g[x - 1] = f[x - 1]
          BY <4>3, <5>1
        <5> HIDE DEF g
        <5> QED
          BY <3>4, <4>3, <5>1, <5>2
      <4> QED
        BY <4>1, <4>2, <4>3
    <3>6. g = [x \in 0..n |-> g[x]]
      OBVIOUS
    <3> HIDE DEF g
    <3>7. g = [x \in 0..n |-> IF x = 0 THEN [low |-> 0, high |-> Farthest]
                              ELSE Narrowed(m, minimum, g[x - 1])]
      BY <3>5, <3>6
    <3> QED
      BY <2>2, <3>7 DEF Rounds
  <2> QED
    BY <2>3, <2>4
<1> QED
  BY <1>1

\* One round keeps the estimate at the range's end below the minimum.
LEMMA NarrowedKeeps ==
  ASSUME NEW m \in DOMAIN UpperMMI, NEW minimum \in Nat,
         NEW range \in [low: 0..Farthest, high: 0..Farthest], UpperMMI[m][range.high] < minimum
  PROVE  /\ Narrowed(m, minimum, range) \in [low: 0..Farthest, high: 0..Farthest]
         /\ UpperMMI[m][Narrowed(m, minimum, range).high] < minimum
<1> DEFINE mid == (range.low + range.high) \div 2
<1>1. /\ UpperMMI[m] \in [0..Farthest -> Nat] /\ Farthest \in Nat
      /\ range.low \in 0..Farthest /\ range.high \in 0..Farthest
  BY MatchingAssumption DEF MatchingAssumption
<1>2. mid \in 0..Farthest
  BY <1>1
<1> HIDE DEF mid
<1>3. UpperMMI[m][mid] \in Nat
  BY <1>1, <1>2
<1> QED
  BY <1>1, <1>2, <1>3 DEF Narrowed, mid

\* The search ends above every distance at which the minimum is reached.
LEMMA SearchEndsAbove ==
  ASSUME NEW m \in DOMAIN UpperMMI, NEW minimum \in Nat, UpperMMI[m][Farthest] < minimum
  PROVE  /\ Bisect(m, minimum) \in 0..Farthest
         /\ UpperMMI[m][Bisect(m, minimum)] < minimum
<1> DEFINE range == CHOOSE f : Rounds(m, minimum, SearchRounds, f)
           Good(r) == r \in [low: 0..Farthest, high: 0..Farthest] /\ UpperMMI[m][r.high] < minimum
           T == {n \in Nat : n <= SearchRounds /\ ~Good(range[n])}
<1>1. Farthest \in Nat /\ SearchRounds \in Nat
  BY MatchingAssumption DEF MatchingAssumption
<1>2. Bisect(m, minimum) = range[SearchRounds].high
  BY DEF Bisect, Rounds
<1>3. Rounds(m, minimum, SearchRounds, range)
  BY <1>1, SearchIsDefined
<1> HIDE DEF range
<1>4. \A n \in 0..SearchRounds : range[n] = IF n = 0 THEN [low |-> 0, high |-> Farthest]
                                            ELSE Narrowed(m, minimum, range[n - 1])
  BY <1>3 DEF Rounds
<1>5. ASSUME T # {} PROVE FALSE
  <2>1. PICK n \in T : \A y \in T : n <= y
    BY <1>5, LeastNatural
  <2>2. n \in 0..SearchRounds /\ ~Good(range[n])
    BY <1>1
  <2>3. CASE n = 0
    <3>1. range[n] = [low |-> 0, high |-> Farthest]
      BY <1>4, <2>2, <2>3
    <3> QED
      BY <1>1, <2>2, <3>1
  <2>4. CASE n # 0
    <3>1. n - 1 \in Nat /\ n - 1 <= SearchRounds /\ ~(n <= n - 1)
      BY <1>1, <2>2, <2>4
    <3>2. Good(range[n - 1])
      BY <2>1, <3>1
    <3>3. range[n] = Narrowed(m, minimum, range[n - 1])
      BY <1>4, <2>2, <2>4
    <3> QED
      BY <2>2, <3>2, <3>3, NarrowedKeeps
  <2> QED
    BY <2>3, <2>4
<1>6. Good(range[SearchRounds])
  BY <1>1, <1>5
<1> QED
  BY <1>2, <1>6

\* The table has the magnitude and the place of every earthquake.
LEMMA ShownInTable ==
  /\ Farthest \in Nat \ {0}
  /\ \A e \in Events : /\ e.place \in 0..Farthest
                       /\ e.magnitude \in Nat
                       /\ e.magnitude \in DOMAIN UpperMMI \cup {NoMagnitude}
<1>1. Farthest \in Nat \ {0}
  BY MatchingAssumption DEF MatchingAssumption
<1>2. ASSUME NEW e \in Events
      PROVE  /\ e.place \in Nat /\ e.place <= Farthest /\ e.magnitude \in Nat
             /\ e.magnitude \in DOMAIN UpperMMI \cup {NoMagnitude}
  BY DecisionsAssumption
<1> QED
  BY <1>1, <1>2

\* Wherever the lowest intensity that may be asked for is reached, the
\* search radius reaches, too.
LEMMA RadiusReaches ==
  ASSUME NEW e \in Events, NEW minimum \in Nat \ {0}, EstimateAt(e, e.place) >= minimum
  PROVE  CandidateRadiusKM(e, minimum) > 0 /\ e.place <= CandidateRadiusKM(e, minimum)
<1> DEFINE m == e.magnitude
<1>1. /\ Farthest \in Nat \ {0} /\ e.place \in 0..Farthest
      /\ 0 \in 0..Farthest /\ Farthest \in 0..Farthest
      /\ m \in DOMAIN UpperMMI \cup {NoMagnitude}
  BY ShownInTable
<1>2. m # NoMagnitude /\ m \in DOMAIN UpperMMI
  BY <1>1 DEF EstimateAt
<1> HIDE DEF m
<1>3. \A d : EstimateAt(e, d) = UpperMMI[m][d]
  BY <1>2 DEF EstimateAt, m
<1>4. /\ UpperMMI[m][0] \in Nat /\ UpperMMI[m][e.place] \in Nat /\ UpperMMI[m][Farthest] \in Nat
      /\ UpperMMI[m][e.place] <= UpperMMI[m][0]
      /\ UpperMMI[m][e.place] >= minimum
  BY <1>1, <1>2, <1>3, Falls
<1>5. ~(EstimateAt(e, 0) < minimum)
  BY <1>3, <1>4
<1>6. CASE EstimateAt(e, Farthest) >= minimum
  BY <1>1, <1>5, <1>6 DEF CandidateRadiusKM
<1>7. CASE ~(EstimateAt(e, Farthest) >= minimum)
  <2> DEFINE h == Bisect(m, minimum)
  <2>1. CandidateRadiusKM(e, minimum) = h
    BY <1>5, <1>7 DEF CandidateRadiusKM, m
  <2>2. h \in 0..Farthest /\ UpperMMI[m][h] < minimum
    BY <1>2, <1>3, <1>4, <1>7, SearchEndsAbove
  <2> HIDE DEF h
  <2>3. ~(h <= e.place)
    <3>1. h <= e.place => UpperMMI[m][e.place] <= UpperMMI[m][h] /\ UpperMMI[m][h] \in Nat
      BY <1>1, <1>2, <2>2, Falls
    <3> QED
      BY <1>4, <2>2, <3>1
  <2> QED
    BY <1>1, <2>1, <2>2, <2>3
<1> QED
  BY <1>6, <1>7

----------------------------------------------------------------------------
(* Whoever is reached is told.                                             *)

\* What a subscription may ask for.
SubscriptionOK ==
  /\ DOMAIN sub = SubscriptionFields
  /\ sub.minimumMagnitude \in Nat \cup {NoLimit}
  /\ sub.minimumIntensity # NoLimit =>
       /\ sub.channel = "telegram"
       /\ sub.minimumIntensity \in Nat /\ sub.minimumIntensity >= MinimumSupportedMMI

AllNews == {"new_event", "magnitude_threshold_crossed", "intensity_threshold_crossed"}

\* The intensity that a person asks for is estimated where the search
\* radius reaches, so the query of createDeliveries selects the person.
LEMMA ReachedIsSelected ==
  ASSUME SubscriptionOK, sub.status = "active", NEW e \in Events,
         Reached(sub, e), OtherFilters(sub, e)
  PROVE  Selected(sub, e)
<1>1. CASE Personal(sub)
  <2> DEFINE lowest == IntensityDecisionBoundary(MinimumSupportedMMI)
  <2>1. /\ lowest \in Nat \ {0} /\ IntensityDecisionBoundary(sub.minimumIntensity) \in Nat
        /\ lowest <= IntensityDecisionBoundary(sub.minimumIntensity)
    BY <1>1 DEF SubscriptionOK, Personal, IntensityDecisionBoundary, IntensityCategoryHalfWidth,
                MinimumSupportedMMI
  <2> HIDE DEF lowest
  <2>2. EstimateAt(e, e.place) \in Nat
    <3>1. e.place \in 0..Farthest /\ e.magnitude \in DOMAIN UpperMMI \cup {NoMagnitude}
      BY ShownInTable
    <3>2. e.magnitude # NoMagnitude => UpperMMI[e.magnitude] \in [0..Farthest -> Nat]
      BY <3>1, MatchingAssumption DEF MatchingAssumption
    <3> QED
      BY <3>1, <3>2 DEF EstimateAt
  <2>3. EstimateAt(e, e.place) >= lowest
    BY <1>1, <2>1, <2>2 DEF Reached, Felt
  <2>4. CandidateRadiusKM(e, lowest) > 0 /\ e.place <= CandidateRadiusKM(e, lowest)
    BY <2>1, <2>3, RadiusReaches
  <2> QED
    BY <1>1, <2>4 DEF Selected, lowest
<1>2. CASE ~Personal(sub)
  BY <1>2 DEF Selected, OtherFilters
<1> QED
  BY <1>1, <1>2

\* The first version that reaches a subscriber is news: as a new event, or
\* because the version before it did not reach the subscriber.
LEMMA ReachedIsNews ==
  ASSUME SubscriptionOK, sub.status = "active", AllNews \subseteq sub.notifyOn,
         NEW e \in Events, Reached(sub, e), OtherFilters(sub, e),
         NEW fresh \in BOOLEAN, NEW old,
         \/ old = <<>> /\ fresh
         \/ \E o \in Events : old = <<o>> /\ ~Reached(sub, o) /\ DistancesAgree(sub, o)
  PROVE  TriggersOf(sub, old, e, fresh) # {}
<1>1. Selected(sub, e)
  BY ReachedIsSelected
<1>2. MatchesNonMagnitude(sub, e)
  BY DEF OtherFilters, Matches, MatchesNonMagnitude, SubscriptionOK, SubscriptionFields
<1>3. CASE Personal(sub)
  <2>1. TriggersOf(sub, old, e, fresh) = IntensityTriggers(sub, old, e, fresh)
    BY <1>1, <1>3 DEF TriggersOf, SubscriptionOK, Personal
  <2>2. Felt(sub, e, e.place)
    BY <1>3 DEF Reached
  <2>3. CASE old = <<>> /\ fresh
    <3>1. IntensityTriggers(sub, old, e, fresh) = {"new_event"} \cap sub.notifyOn
      BY <1>2, <2>2, <2>3 DEF IntensityTriggers
    <3> QED
      BY <2>1, <3>1 DEF AllNews
  <2>4. ASSUME NEW o \in Events, old = <<o>>, ~Reached(sub, o), DistancesAgree(sub, o)
        PROVE  TriggersOf(sub, old, e, fresh) # {}
    <3>1. ~Felt(sub, o, Surface[o.place])
      BY <1>3, <2>4 DEF Reached, DistancesAgree
    <3>2. old # <<>> /\ old[1] = o
      BY <2>4
    <3>3. IntensityTriggers(sub, old, e, fresh) = {"intensity_threshold_crossed"} \cap sub.notifyOn
      BY <1>2, <2>2, <3>1, <3>2 DEF IntensityTriggers
    <3> QED
      BY <2>1, <3>3 DEF AllNews
  <2> QED
    BY <2>3, <2>4
<1>4. CASE ~Personal(sub)
  <2>1. TriggersOf(sub, old, e, fresh) = Triggers(sub, old, e, fresh)
    BY <1>1, <1>4 DEF TriggersOf
  <2>2. sub.minimumMagnitude # NoLimit /\ e.magnitude >= sub.minimumMagnitude
    BY <1>4 DEF Reached
  <2>3. Matches(sub, e)
    BY <1>2, <2>2 DEF OtherFilters, Matches, SubscriptionOK, SubscriptionFields
  <2>4. CASE old = <<>> /\ fresh
    <3>1. Triggers(sub, old, e, fresh) = {"new_event"} \cap sub.notifyOn
      BY <2>3, <2>4 DEF Triggers
    <3> QED
      BY <2>1, <3>1 DEF AllNews
  <2>5. ASSUME NEW o \in Events, old = <<o>>, ~Reached(sub, o)
        PROVE  TriggersOf(sub, old, e, fresh) # {}
    <3>1. old # <<>> /\ old[1] = o
      BY <2>5
    <3>2. o.magnitude \in Nat /\ sub.minimumMagnitude \in Nat
      BY <2>2, ShownInTable DEF SubscriptionOK
    <3>3. ~(o.magnitude >= sub.minimumMagnitude)
      BY <1>4, <2>2, <2>5 DEF Reached
    <3>4. Crosses(sub, o, e)
      BY <2>2, <3>2, <3>3 DEF Crosses
    <3>5. "magnitude_threshold_crossed" \in Triggers(sub, old, e, fresh)
      BY <2>3, <3>1, <3>4 DEF Triggers, AllNews
    <3> QED
      BY <2>1, <3>5
  <2> QED
    BY <2>4, <2>5
<1> QED
  BY <1>3, <1>4

\* The versions show earthquakes that were reported.
EventsShown == \A i \in Slots : \A v \in 1..Len(history[i]) : history[i][v].event \in Events

TellInv == SubscriptionOK /\ EventsShown /\ ReachedIsTold

\* What was told stays told.
LEMMA ToldStays ==
  ASSUME AlertInv, NEW i \in Slots, NEW e, NEW eligible, NEW fresh, Apply(i, e, eligible, fresh),
         NEW j \in Slots, Told(j)
  PROVE  Told(j)'
<1>1. deliveries \subseteq deliveries'
  BY DEF Apply
<1>2. PICK v : /\ alert' = [alert EXCEPT ![i] = v]
               /\ v = Len(history[i]) + 1 \/ v = Refreshed(i, Len(history[i]) + 1)
  BY DEF Apply
<1>3. Len(history[i]) \in Nat /\ alert \in [Slots -> Nat]
  BY DEF AlertInv, AskedIsApplied
<1>4. alert[i] # 0 => v # 0
  BY <1>2, <1>3 DEF Refreshed
<1>5. alert[j] # 0 => alert'[j] # 0
  BY <1>2, <1>3, <1>4
<1> QED
  BY <1>1, <1>5 DEF Told

\* A version that is news to the subscription is told.
LEMMA NewsIsTold ==
  ASSUME AlertInv, NEW i \in Slots, NEW e, NEW fresh, Apply(i, e, TRUE, fresh), NEW old,
         old = (IF Len(history[i]) + 1 = 1 THEN <<>> ELSE <<history[i][Len(history[i])].event>>),
         TriggersOf(sub, old, e, fresh) # {}
  PROVE  Told(i)'
<1> DEFINE version == Len(history[i]) + 1
           triggers == TriggersOf(sub, old, e, fresh)
<1>1. /\ Len(history[i]) \in Nat /\ version # 0 /\ version - 1 = Len(history[i])
      /\ alert \in [Slots -> Nat]
  BY DEF AlertInv, AskedIsApplied
<1>2. old = (IF version = 1 THEN <<>> ELSE <<history[i][version - 1].event>>)
  BY <1>1
<1> HIDE DEF version
<1>3. /\ deliveries' = IF sub.channel = "telegram" THEN deliveries
                       ELSE deliveries \cup {<<i, version, t>> : t \in triggers}
      /\ alert' = [alert EXCEPT ![i] = IF sub.channel = "telegram" /\ triggers # {} THEN version
                                       ELSE Refreshed(i, version)]
  BY <1>2 DEF Apply, version
<1> HIDE DEF triggers
<1>4. CASE sub.channel = "telegram"
  <2>1. alert'[i] = version
    BY <1>1, <1>3, <1>4 DEF triggers
  <2> QED
    BY <1>1, <2>1 DEF Told
<1>5. CASE sub.channel # "telegram"
  <2>1. PICK t \in triggers : TRUE
    BY DEF triggers
  <2>2. <<i, version, t>> \in deliveries' /\ <<i, version, t>>[1] = i
    BY <1>3, <1>5, <2>1
  <2> QED
    BY <2>2 DEF Told
<1> QED
  BY <1>4, <1>5

\* The first version that reaches the subscriber is told when it is applied.
LEMMA ApplyTells ==
  ASSUME AlertInv, TellInv, NEW i \in Slots, NEW e \in Events, NEW eligible \in BOOLEAN,
         NEW fresh \in BOOLEAN, Apply(i, e, eligible, fresh)
  PROVE  TellInv'
<1> DEFINE n == Len(history[i])
           met == [event |-> e, eligible |-> eligible, fresh |-> fresh, status |-> sub.status]
           longer == Append(history[i], met)
<1>1. sub' = sub /\ SubscriptionOK'
  BY DEF Apply, TellInv, SubscriptionOK
<1>2. /\ longer \in Seq(ValuesOf(longer))
      /\ n \in Nat
      /\ Len(longer) = n + 1
      /\ longer[n + 1] = met
      /\ \A k \in 1..n : longer[k] = history[i][k]
  BY AppendOne DEF AlertInv, AskedIsApplied
<1>3. /\ history' = [j \in Slots |-> history'[j]]
      /\ history'[i] = longer
      /\ \A j \in Slots \ {i} : history'[j] = history[j]
  BY DEF Apply, AlertInv, AskedIsApplied
<1>4. met.event = e /\ met.eligible = eligible /\ met.fresh = fresh /\ met.status = sub.status
  OBVIOUS
<1>5. DOMAIN history = Slots /\ DOMAIN history' = Slots
  BY <1>3 DEF AlertInv, AskedIsApplied
<1>6. DOMAIN longer = 1..n + 1 /\ DOMAIN history[i] = 1..n /\ longer # <<>>
  <2>1. ASSUME NEW S, NEW s \in Seq(S) PROVE DOMAIN s = 1..Len(s)
    OBVIOUS
  <2>2. history[i] \in Seq(ValuesOf(history[i]))
    BY DEF AlertInv, AskedIsApplied
  <2>3. DOMAIN longer = 1..n + 1 /\ DOMAIN history[i] = 1..n
    BY <1>2, <2>1, <2>2
  <2>4. Len(longer) # 0 /\ Len(<<>>) = 0
    BY <1>2
  <2> QED
    BY <2>3, <2>4
<1> HIDE DEF longer, met, n
<1>7. EventsShown'
  <2> SUFFICES ASSUME NEW j \in Slots, NEW v \in 1..Len(history'[j])
               PROVE  history'[j][v].event \in Events
    BY DEF EventsShown
  <2>1. CASE j # i
    BY <1>3, <2>1 DEF TellInv, EventsShown
  <2>2. CASE j = i
    <3>1. v \in 1..n \/ v = n + 1
      BY <1>2, <1>3, <2>2
    <3> QED
      BY <1>2, <1>3, <1>4, <2>2, <3>1 DEF TellInv, EventsShown, n
  <2> QED
    BY <2>1, <2>2
<1>8. ReachedIsTold'
  <2> SUFFICES ASSUME NEW j \in Slots, history'[j] # <<>>, Uninterrupted(j)',
                      NEW v \in DOMAIN history'[j], Reached(sub, history'[j][v].event)
               PROVE  Told(j)'
    BY <1>1, <1>5 DEF ReachedIsTold
  <2>1. CASE j # i
    <3>1. Uninterrupted(j)
      BY <1>1, <1>3, <2>1 DEF Uninterrupted
    <3>2. history[j] = history'[j]
      BY <1>3, <2>1
    <3>3. Told(j)
      BY <1>5, <3>1, <3>2 DEF TellInv, ReachedIsTold
    <3> QED
      BY <3>3, ToldStays
  <2>2. CASE j = i
    <3>1. /\ AllNews \subseteq sub.notifyOn
          /\ longer[1].fresh
          /\ \A k \in 1..n + 1 :
               /\ longer[k].eligible /\ longer[k].status = "active"
               /\ OtherFilters(sub, longer[k].event) /\ DistancesAgree(sub, longer[k].event)
      BY <1>1, <1>3, <1>6, <2>2 DEF Uninterrupted, AllNews
    <3>2. n + 1 \in 1..n + 1 /\ 1..n \subseteq 1..n + 1 /\ v \in 1..n + 1
      BY <1>2, <1>3, <1>6, <2>2
    <3>3. CASE \E k \in 1..n : Reached(sub, history[i][k].event)
      <4>1. history[i] # <<>> /\ 1 \in 1..n
        BY <1>2, <1>6, <3>3
      <4>2. Uninterrupted(i)
        BY <1>2, <1>6, <3>1, <3>2, <4>1 DEF Uninterrupted, AllNews
      <4>3. Told(i)
        BY <1>5, <1>6, <3>3, <4>1, <4>2 DEF TellInv, ReachedIsTold
      <4> QED
        BY <2>2, <4>3, ToldStays
    <3>4. CASE ~\E k \in 1..n : Reached(sub, history[i][k].event)
      <4>1. v = n + 1
        BY <1>2, <1>3, <2>2, <3>2, <3>4
      <4>2. Reached(sub, e) /\ OtherFilters(sub, e) /\ eligible = TRUE /\ sub.status = "active"
        BY <1>2, <1>3, <1>4, <2>2, <3>1, <3>2, <4>1
      <4> DEFINE old == IF n + 1 = 1 THEN <<>> ELSE <<history[i][n].event>>
      <4>3. \/ old = <<>> /\ fresh
            \/ \E o \in Events : old = <<o>> /\ ~Reached(sub, o) /\ DistancesAgree(sub, o)
        <5>1. CASE n = 0
          BY <1>2, <1>4, <3>1, <5>1
        <5>2. CASE n # 0
          <6>1. n \in 1..n /\ n + 1 # 1
            BY <1>2, <5>2
          <6>2. history[i][n].event \in Events
            BY <6>1 DEF TellInv, EventsShown, n
          <6>3. ~Reached(sub, history[i][n].event) /\ DistancesAgree(sub, history[i][n].event)
            BY <1>2, <3>1, <3>2, <3>4, <6>1
          <6> QED
            BY <6>1, <6>2, <6>3
        <5> QED
          BY <5>1, <5>2
      <4> HIDE DEF old
      <4>4. TriggersOf(sub, old, e, fresh) # {}
        BY <3>1, <4>2, <4>3, ReachedIsNews DEF TellInv
      <4>5. Told(i)'
        BY <4>2, <4>4, NewsIsTold DEF old, n
      <4> QED
        BY <2>2, <4>5
    <3> QED
      BY <3>3, <3>4
  <2> QED
    BY <2>1, <2>2
<1> QED
  BY <1>1, <1>7, <1>8 DEF TellInv

\* An incident shows an earthquake.
LEMMA ShowsEvent ==
  ASSUME NEW s \in Seq(Incident), NEW i \in DOMAIN s
  PROVE  s[i].event \in Events
<1>1. s[i] \in Incident
  OBVIOUS
<1> QED
  BY <1>1 DEF Incident

\* Another status changes nothing of what reaches the subscriber.
LEMMA SwitchTells ==
  ASSUME TellInv, NEW status, SetStatus(status)
  PROVE  TellInv'
<1>1. /\ DOMAIN sub = SubscriptionFields /\ DOMAIN sub' = SubscriptionFields
      /\ \A f \in SubscriptionFields \ {"status"} : sub'[f] = sub[f]
  BY DEF SetStatus, TellInv, SubscriptionOK
<1>2. history' = history /\ deliveries' = deliveries /\ alert' = alert
  BY DEF SetStatus
<1>3. /\ sub'.channel = sub.channel /\ sub'.notifyOn = sub.notifyOn
      /\ sub'.minimumMagnitude = sub.minimumMagnitude /\ sub'.maximumMagnitude = sub.maximumMagnitude
      /\ sub'.minimumIntensity = sub.minimumIntensity /\ sub'.radius = sub.radius
      /\ sub'.tsunamiOnly = sub.tsunamiOnly /\ sub'.alertLevels = sub.alertLevels
  BY <1>1 DEF SubscriptionFields
<1>4. \A e : /\ Reached(sub', e) <=> Reached(sub, e)
             /\ DistancesAgree(sub', e) <=> DistancesAgree(sub, e)
  BY <1>3 DEF Reached, Personal, Felt, DistancesAgree
<1>5. \A e : OtherFilters(sub', e) <=> OtherFilters(sub, e)
  BY <1>1, <1>3 DEF OtherFilters, Matches, MatchesNonMagnitude, Personal, SubscriptionFields
<1>6. SubscriptionOK' /\ EventsShown'
  BY <1>1, <1>2, <1>3 DEF TellInv, SubscriptionOK, EventsShown
<1>7. \A i : Uninterrupted(i)' <=> Uninterrupted(i)
  BY <1>2, <1>3, <1>4, <1>5 DEF Uninterrupted
<1>8. ReachedIsTold'
  BY <1>2, <1>4, <1>7 DEF TellInv, ReachedIsTold, Told
<1> QED
  BY <1>6, <1>8 DEF TellInv

\* Whoever an earthquake reaches is told, for any subscription, any table of
\* intensities that falls with the distance, and any number of rounds of the
\* search: the radius hides no one, and either the first version or the first
\* one that reaches the subscriber is news (repository.go:649-746,
\* model.go:62-79, 148-170).
THEOREM ReachedAreTold == Spec => []ReachedIsTold
<1>1. Init => TellInv
  <2> SUFFICES ASSUME Init PROVE TellInv
    OBVIOUS
  <2>1. sub \in Subscriptions /\ SubscriptionOK
    BY MatchingAssumption DEF Init, MatchingInit, MatchingAssumption, SubscriptionOK
  <2>2. incidents \in Seq(Incident)
    BY DecisionsAssumption DEF Init
  <2>3. ASSUME NEW i \in Slots
        PROVE  \/ history[i] = <<>>
               \/ \E e \in Events : history[i] = Earlier(e)
    <3>1. i \in DOMAIN incidents => incidents[i].event \in Events
      BY <2>2, ShowsEvent
    <3> QED
      BY <3>1 DEF Init, MatchingInit
  <2>4. \A e : /\ Len(Earlier(e)) = 1
               /\ Earlier(e)[1].event = e /\ Earlier(e)[1].eligible = FALSE
               /\ 1 \in DOMAIN Earlier(e)
    BY DEF Earlier
  <2>5. EventsShown
    <3> SUFFICES ASSUME NEW i \in Slots, NEW v \in 1..Len(history[i])
                 PROVE  history[i][v].event \in Events
      BY DEF EventsShown
    <3> QED
      BY <2>3, <2>4
  <2>6. ReachedIsTold
    <3>1. DOMAIN history = Slots
      BY DEF Init, MatchingInit
    <3>2. ASSUME NEW i \in Slots, history[i] # <<>> PROVE ~Uninterrupted(i)
      BY <2>3, <2>4, <3>2 DEF Uninterrupted
    <3> QED
      BY <3>1, <3>2 DEF ReachedIsTold
  <2> QED
    BY <2>1, <2>5, <2>6 DEF TellInv
<1>2. AlertInv /\ DecisionInv' /\ TellInv /\ [Next]_vars => TellInv'
  <2> SUFFICES ASSUME AlertInv, DecisionInv', TellInv, [Next]_vars PROVE TellInv'
    OBVIOUS
  <2>1. ASSUME NEW i \in DOMAIN incidents', Changed(i) PROVE TellInv'
    <3>1. incidents'[i].event \in Events
      BY ShowsEvent DEF DecisionInv
    <3>2. PICK eligible, fresh \in BOOLEAN :
            i \in Slots /\ Apply(i, incidents'[i].event, eligible, fresh)
      BY <2>1 DEF Changed
    <3> QED
      BY <3>1, <3>2, ApplyTells
  <2>2. CASE Change
    <3>1. PICK i \in DOMAIN incidents' : Changed(i)
      <4>1. ASSUME NEW p, NEW r, NewIncident(p, r), Changed(Len(incidents'))
            PROVE  \E i \in DOMAIN incidents' : Changed(i)
        <5>1. Len(incidents') \in DOMAIN incidents'
          BY <4>1 DEF DecisionInv, NewIncident
        <5> QED
          BY <4>1, <5>1
      <4>2. ASSUME NEW p, NEW r, NEW i \in DOMAIN incidents, CorrelatedSource(i, p, r)
            PROVE  i \in DOMAIN incidents'
        BY <4>2 DEF CorrelatedSource
      <4>3. ASSUME NEW r, NEW i \in DOMAIN incidents, ReviseSource(i, r)
            PROVE  i \in DOMAIN incidents'
        BY <4>3 DEF ReviseSource
      <4> QED
        BY <2>2, <4>1, <4>2, <4>3 DEF Change, Sight
    <3> QED
      BY <2>1, <3>1
  <2>3. CASE Switch
    BY <2>3, SwitchTells DEF Switch
  <2>4. CASE UNCHANGED vars
    <3>1. sub' = sub /\ history' = history /\ deliveries' = deliveries /\ alert' = alert
      BY <2>4 DEF vars, matchingVars
    <3> QED
      BY <3>1 DEF TellInv, SubscriptionOK, EventsShown, ReachedIsTold, Uninterrupted, Told
  <2> QED
    BY <2>2, <2>3, <2>4 DEF Next
<1>3. TellInv => ReachedIsTold
  BY DEF TellInv
<1> QED
  BY <1>1, <1>2, <1>3, AlertInvariance, DecisionInvariance, PTL DEF Spec
=============================================================================
