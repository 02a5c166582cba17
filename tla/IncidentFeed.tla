---------------------------- MODULE IncidentFeed ----------------------------
(***************************************************************************)
(* What the core's outbox, Kafka and the notification consumer promise     *)
(* together for one incident: each of its versions takes effect in the     *)
(* notification database exactly once, in some order, and the alert never  *)
(* goes back to an older version.                                          *)
(***************************************************************************)
EXTENDS Naturals

CONSTANT MaxVersion  \* bound: the incident has at most this many versions

VARIABLES
  version,   \* the incident's current version, 0 before it exists
  effective, \* the versions that took effect in the notification database
  alert      \* the version the alert should show, 0 if there is no alert

feedVars == <<version, effective, alert>>

Newer(m, n) == IF m > n THEN m ELSE n

Init == version = 0 /\ effective = {} /\ alert = 0

(* The core commits the next version.                                      *)
Commit ==
  /\ version < MaxVersion
  /\ version' = version + 1
  /\ UNCHANGED <<effective, alert>>

(* A version takes effect: an alert is raised to it, or may start with it. *)
TakeEffect(v) ==
  /\ v \in 1 .. version
  /\ v \notin effective
  /\ effective' = effective \cup {v}
  /\ \/ alert' = Newer(alert, v)
     \/ alert = 0 /\ alert' = 0
  /\ UNCHANGED version

Next == Commit \/ \E v \in 1 .. MaxVersion : TakeEffect(v)

(* No version is forgotten.                                                *)
Fairness == \A v \in 1 .. MaxVersion : WF_feedVars(TakeEffect(v))

Spec == Init /\ [][Next]_feedVars /\ Fairness
=============================================================================
