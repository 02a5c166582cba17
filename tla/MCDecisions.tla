---------------------------- MODULE MCDecisions ----------------------------
(* Decisions on small instances.                                           *)
EXTENDS Decisions

Report(time, place, magnitude, depth, tsunami, level) ==
  [time |-> time, place |-> place, magnitude |-> magnitude, depth |-> depth,
   tsunami |-> tsunami, level |-> level]

Weak == Report(5, 3, 25, 1, FALSE, 0)
Strong == Report(5, 2, 26, 1, TRUE, 1)
Unknown == Report(6, 3, Null, Null, FALSE, 2)
Distant == Report(7, 5, 28, 2, TRUE, 0)

FourReports == {Weak, Strong, Unknown, Distant}

\* No incident, or three of one catalogue of which a page shows two.
NoneOrThree ==
  {<<>>, [i \in 1..3 |-> [event |-> [Weak EXCEPT !.place = <<7, 2, 3>>[i]],
                         preferred |-> "kndc", providers |-> {"kndc"}]]}

\* Half units of intensity; two distances that are confused.
Intensities == [m \in {25, 26, 28} |-> [d \in 0..8 |-> IF m - 18 > d THEN m - 18 - d ELSE 0]]
Surfaces == [d \in 0..8 |-> IF d = 3 THEN 2 ELSE d]

AllTriggers == {"new_event", "magnitude_threshold_crossed", "intensity_threshold_crossed",
                "tsunami_activated", "alert_level_increased"}

Webhook == [channel |-> "webhook", status |-> "active", notifyOn |-> AllTriggers,
            minimumMagnitude |-> 26, maximumMagnitude |-> NoLimit,
            minimumIntensity |-> NoLimit, radius |-> NoLimit,
            tsunamiOnly |-> FALSE, alertLevels |-> {}]

Filtered == [Webhook EXCEPT !.minimumMagnitude = 25, !.maximumMagnitude = 26, !.radius = 4,
                            !.tsunamiOnly = TRUE, !.alertLevels = {0, 1}]

Person == [Webhook EXCEPT !.channel = "telegram", !.minimumMagnitude = NoLimit,
                          !.minimumIntensity = 6]

GlobalChannel == [Webhook EXCEPT !.channel = "telegram", !.notifyOn = {"new_event"}]

FourSubscriptions == {Webhook, Filtered, Person, GlobalChannel}
=============================================================================
