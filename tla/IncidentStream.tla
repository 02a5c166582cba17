--------------------------- MODULE IncidentStream ---------------------------
(***************************************************************************)
(* How the versions of one incident travel from the core to the alerts:    *)
(* rows of core_outbox_messages, the relays that publish them, the Kafka   *)
(* partition of the incident's key, the group of notification consumers,   *)
(* the inbox that recognises duplicates, and the desired version of an     *)
(* alert.  A message is named by the version it announces.                 *)
(*                                                                         *)
(* A relay claims a batch, publishes each message outside any transaction  *)
(* and then marks it; a consumer fetches a record, applies it and its      *)
(* inbox row in one transaction, and then commits the offset.  Either may  *)
(* stop between any two of these steps.                                    *)
(*                                                                         *)
(* Abstractions.                                                           *)
(*  - Of a message, only whether it triggers an alert for the one          *)
(*    subscription matters; an eligible version triggers it or not.  The   *)
(*    subscription stays enabled.                                          *)
(*  - A record that does not decode or has another key is left out: it     *)
(*    stops its consumers by design.                                       *)
(*  - Offsets count from 1, and committed is the last offset handled.      *)
(*  - Publishing answers with an error only when something failed (a full  *)
(*    message, a topic that is missing, a shutdown): each error is a fault *)
(*    and so is a crash, a lost write, a lock that times out under a live  *)
(*    relay, and an eviction of a live consumer.                           *)
(***************************************************************************)
EXTENDS Naturals, Sequences, FiniteSets

CONSTANTS
  Relays,      \* the core's outbox relays, one in each replica
  Consumers,   \* the members of the notification consumer group
  None,        \* no relay, no consumer
  MaxVersion,  \* bound: the incident has at most this many versions
  Batch,       \* kafka.outbox_batch_size
  MaxFaults,   \* bound: how many things go wrong
  MaxLosses    \* bound: how often the broker loses the end of its log

ASSUME StreamAssumption ==
  /\ None \notin Relays \cup Consumers
  /\ MaxVersion \in Nat \ {0}
  /\ Batch \in Nat \ {0}
  /\ MaxFaults \in Nat
  /\ MaxLosses \in Nat

VARIABLES
  version,    \* the incident's version; the outbox has rows 1 .. version
  triggers,   \* the versions that trigger an alert
  outbox,     \* outbox[v]: the row of message v
  relay,      \* relay[r]: what relay r has in memory
  log,        \* the records of the partition
  committed,  \* the group's committed offset
  owner,      \* the consumer the partition is assigned to
  consumer,   \* consumer[c]: the record consumer c is handling
  inbox,      \* the rows of notification_message_inbox
  alert,      \* the alert's desired version, 0 if there is no alert
  applied,    \* history: the versions in the order they took effect
  faults,     \* how many things went wrong so far
  losses      \* how often the broker lost records so far

core == <<version, triggers>>
relaying == <<outbox, relay>>
consuming == <<committed, owner, consumer, inbox, alert, applied>>
vars == <<core, relaying, log, consuming, faults, losses>>

----------------------------------------------------------------------------
Version == 1 .. MaxVersion

OutboxRow == [published: BOOLEAN, holder: Relays \cup {None},
              lock: {"none", "held", "expired"}, due: BOOLEAN]

FreshRow == [published |-> FALSE, holder |-> None, lock |-> "none", due |-> TRUE]

\* now is the message being published; outcome, how that went.
RelayState == [todo: SUBSET Version, now: 0 .. MaxVersion,
               outcome: {"none", "sent", "unsent"}]

IdleRelay == [todo |-> {}, now |-> 0, outcome |-> "none"]

IdleConsumer == [phase |-> "idle", offset |-> 0, msg |-> 0]

ConsumerState ==
  {IdleConsumer} \cup [phase: {"fetched", "applied"}, offset: Nat \ {0}, msg: Version]

InboxRow == [msg: Version, offset: Nat \ {0}]

Larger(m, n) == IF m > n THEN m ELSE n

Smaller(m, n) == IF m < n THEN m ELSE n

Elements(sequence) == {sequence[k] : k \in 1 .. Len(sequence)}

Init ==
  /\ version = 0
  /\ triggers = {}
  /\ outbox = [v \in Version |-> FreshRow]
  /\ relay = [r \in Relays |-> IdleRelay]
  /\ log = <<>>
  /\ committed = 0
  /\ owner = None
  /\ consumer = [c \in Consumers |-> IdleConsumer]
  /\ inbox = {}
  /\ alert = 0
  /\ applied = <<>>
  /\ faults = 0
  /\ losses = 0

Fault == faults < MaxFaults /\ faults' = faults + 1

----------------------------------------------------------------------------
(* The core and its relays.                                                *)

(* A transaction of the core changes the incident and enqueues a message.  *)
Commit ==
  /\ version < MaxVersion
  /\ version' = version + 1
  /\ \/ UNCHANGED triggers
     \/ triggers' = triggers \cup {version + 1}
  /\ UNCHANGED <<relaying, log, consuming, faults, losses>>

\* Faulty variant: a lock is never taken over.
MutClaimable(v) ==
  /\ v <= version
  /\ ~outbox[v].published
  /\ outbox[v].due
  /\ outbox[v].lock = "none"

Claimable(v) ==
  /\ v <= version
  /\ ~outbox[v].published
  /\ outbox[v].due
  /\ outbox[v].lock # "held"

(* ClaimCoreOutbox, once the previous batch is done.                       *)
Claim(r) ==
  /\ relay[r] = IdleRelay
  /\ \E S \in SUBSET {v \in Version : Claimable(v)} :
       /\ S # {}
       /\ Cardinality(S) <= Batch
       /\ relay' = [relay EXCEPT ![r].todo = S]
       /\ outbox' = [v \in Version |->
                       IF v \in S THEN [outbox[v] EXCEPT !.holder = r, !.lock = "held"]
                                  ELSE outbox[v]]
  /\ UNCHANGED <<core, log, consuming, faults, losses>>

\* Relay r takes message v from its batch; publishing it ended in outcome.
Attempted(r, v, outcome) ==
  /\ relay[r].now = 0
  /\ v \in relay[r].todo
  /\ relay' = [relay EXCEPT ![r] = [todo |-> @.todo \ {v}, now |-> v, outcome |-> outcome]]

PublishAcked(r, v) ==
  /\ Attempted(r, v, "sent")
  /\ log' = Append(log, v)
  /\ UNCHANGED <<core, outbox, consuming, faults, losses>>

(* The broker did not get the message, or it did and its answer is lost.   *)
PublishFailed(r, v) ==
  /\ Attempted(r, v, "unsent")
  /\ Fault
  /\ log' \in {log, Append(log, v)}
  /\ UNCHANGED <<core, outbox, consuming, losses>>

Done(r) == relay' = [relay EXCEPT ![r] = [@ EXCEPT !.now = 0, !.outcome = "none"]]

\* WHERE id=... AND locked_by=... AND published_at IS NULL
Holds(r, v) == outbox[v].holder = r /\ ~outbox[v].published

\* Faulty variant: the message counts as published once it was attempted.
MutRecorded(row, outcome) == [row EXCEPT !.published = TRUE, !.holder = None, !.lock = "none"]

\* CompleteCoreOutbox after an acknowledged publish, else FailCoreOutbox.
Recorded(row, outcome) ==
  [row EXCEPT !.published = outcome = "sent", !.holder = None, !.lock = "none",
              !.due = outcome = "sent"]

(* The relay marks the row if it still holds it, or logs that it does not. *)
RecordOutcome(r) ==
  /\ relay[r].now # 0
  /\ LET v == relay[r].now IN
       IF Holds(r, v)
         THEN outbox' = [outbox EXCEPT ![v] = Recorded(@, relay[r].outcome)]
         ELSE UNCHANGED outbox
  /\ Done(r)
  /\ UNCHANGED <<core, log, consuming, faults, losses>>

(* The database refuses the write; the relay logs it and goes on.          *)
LoseOutcome(r) ==
  /\ relay[r].now # 0
  /\ Fault
  /\ Done(r)
  /\ UNCHANGED <<core, outbox, log, consuming, losses>>

(* The relay's process stops.  The next one has another worker id.         *)
CrashRelay(r) ==
  /\ relay[r] # IdleRelay
  /\ Fault
  /\ relay' = [relay EXCEPT ![r] = IdleRelay]
  /\ outbox' = [v \in Version |->
                  IF outbox[v].holder = r THEN [outbox[v] EXCEPT !.holder = None]
                                          ELSE outbox[v]]
  /\ UNCHANGED <<core, log, consuming, losses>>

Abandoned(v) ==
  \A r \in Relays : outbox[v].holder = r => v \notin relay[r].todo \cup {relay[r].now}

(* A lock grows older than the lock timeout: the holder forgot the message *)
(* or, as a fault, is slower than that.                                    *)
LockExpires(v) ==
  /\ outbox[v].lock = "held"
  /\ IF Abandoned(v) THEN UNCHANGED faults ELSE Fault
  /\ outbox' = [outbox EXCEPT ![v].lock = "expired"]
  /\ UNCHANGED <<core, relay, log, consuming, losses>>

(* The delay after a failed attempt is over.                               *)
BackoffEnds(v) ==
  /\ ~outbox[v].due
  /\ outbox' = [outbox EXCEPT ![v].due = TRUE]
  /\ UNCHANGED <<core, relay, log, consuming, faults, losses>>

----------------------------------------------------------------------------
(* The notification consumers.                                             *)

(* The group assigns the partition to a member.                            *)
Assign(c) ==
  /\ owner = None
  /\ consumer[c] = IdleConsumer
  /\ owner' = c
  /\ UNCHANGED <<core, relaying, log, committed, consumer, inbox, alert, applied, faults, losses>>

(* The group gives up on a member that is handling a record.               *)
Evict(c) ==
  /\ owner = c
  /\ Fault
  /\ owner' = None
  /\ UNCHANGED <<core, relaying, log, committed, consumer, inbox, alert, applied, losses>>

Fetch(c) ==
  /\ owner = c
  /\ consumer[c] = IdleConsumer
  /\ committed < Len(log)
  /\ consumer' = [consumer EXCEPT ![c] =
       [phase |-> "fetched", offset |-> committed + 1, msg |-> log[committed + 1]]]
  /\ UNCHANGED <<core, relaying, log, committed, owner, inbox, alert, applied, faults, losses>>

\* The inbox row of this offset belongs to another message.
Conflicts(record) ==
  \E row \in inbox : row.offset = record.offset /\ row.msg # record.msg

\* Faulty variant: the inbox recognises offsets only, not message ids.
MutSeen(record) == \E row \in inbox : row.offset = record.offset

\* INSERT ... ON CONFLICT DO NOTHING meets the offset or the message id.
Seen(record) ==
  \E row \in inbox : row.offset = record.offset \/ row.msg = record.msg

\* Faulty variant: an update is matched against the subscriptions only.
MutAlertAfter(v) == IF v \in triggers THEN Larger(alert, v) ELSE alert

\* refreshTelegramAlertMessages raises the alert that exists, and
\* createDeliveries the one a trigger asks for.
AlertAfter(v) ==
  IF alert # 0 \/ v \in triggers THEN Larger(alert, v) ELSE 0

(* ApplyIncidentMessage commits.                                           *)
Apply(c) ==
  LET record == consumer[c] IN
  /\ record.phase = "fetched"
  /\ ~Conflicts(record)
  /\ IF Seen(record) THEN UNCHANGED <<inbox, alert, applied>>
     ELSE /\ inbox' = inbox \cup {[msg |-> record.msg, offset |-> record.offset]}
          /\ alert' = AlertAfter(record.msg)
          /\ applied' = Append(applied, record.msg)
  /\ consumer' = [consumer EXCEPT ![c].phase = "applied"]
  /\ UNCHANGED <<core, relaying, log, committed, owner, faults, losses>>

\* Run returned an error or the process stopped; it starts again.
Leave(c) ==
  /\ consumer' = [consumer EXCEPT ![c] = IdleConsumer]
  /\ owner' = IF owner = c THEN None ELSE owner

(* ApplyIncidentMessage finds a position that is taken: Run ends.          *)
Reject(c) ==
  /\ consumer[c].phase = "fetched"
  /\ Conflicts(consumer[c])
  /\ Leave(c)
  /\ UNCHANGED <<core, relaying, log, committed, inbox, alert, applied, faults, losses>>

\* The consumer is done with its record.
Handled(c) == consumer[c].phase = "applied"

\* Faulty variant: the offset of the record is committed as the next one.
MutPosition(c) == Smaller(consumer[c].offset - 1, Len(log))

\* What Commit makes the group's offset.
Position(c) == Smaller(consumer[c].offset, Len(log))

(* The offset is committed, or an evicted member's commit is refused.  An  *)
(* offset past the end of a log that lost records is reset to its end.     *)
CommitOffset(c) ==
  /\ Handled(c)
  /\ IF owner = c
       THEN /\ committed' = Position(c)
            /\ consumer' = [consumer EXCEPT ![c] = IdleConsumer]
            /\ UNCHANGED owner
       ELSE Leave(c) /\ UNCHANGED committed
  /\ UNCHANGED <<core, relaying, log, inbox, alert, applied, faults, losses>>

(* The transaction fails, the commit fails, or the process stops.          *)
CrashConsumer(c) ==
  /\ consumer[c] # IdleConsumer
  /\ Fault
  /\ Leave(c)
  /\ UNCHANGED <<core, relaying, log, committed, inbox, alert, applied, losses>>

(* The broker stops uncleanly and loses the end of its log; the client     *)
(* goes on from the new end.                                               *)
LoseRecords ==
  /\ losses < MaxLosses
  /\ Fault
  /\ losses' = losses + 1
  /\ \E n \in 0 .. Len(log) - 1 :
       /\ log' = SubSeq(log, 1, n)
       /\ committed' = Smaller(committed, n)
  /\ UNCHANGED <<core, relaying, owner, consumer, inbox, alert, applied>>

----------------------------------------------------------------------------
Publish(r) == \E v \in Version : PublishAcked(r, v) \/ PublishFailed(r, v)

RelayStep(r) == Claim(r) \/ Publish(r) \/ RecordOutcome(r) \/ LoseOutcome(r) \/ CrashRelay(r)

ConsumerStep(c) ==
  \/ Assign(c) \/ Evict(c) \/ Fetch(c) \/ Apply(c) \/ Reject(c)
  \/ CommitOffset(c) \/ CrashConsumer(c)

Next ==
  \/ Commit
  \/ \E r \in Relays : RelayStep(r)
  \/ \E v \in Version : LockExpires(v) \/ BackoffEnds(v)
  \/ \E c \in Consumers : ConsumerStep(c)
  \/ LoseRecords

Spec == Init /\ [][Next]_vars

(* The relay polls on a ticker, time passes, the group assigns a partition *)
(* that has no owner, and a consumer handles record after record.          *)
Fairness ==
  /\ \A r \in Relays : WF_vars(Claim(r)) /\ WF_vars(Publish(r)) /\ WF_vars(RecordOutcome(r))
  /\ \A v \in Version : WF_vars(Abandoned(v) /\ LockExpires(v)) /\ WF_vars(BackoffEnds(v))
  /\ WF_vars(\E c \in Consumers : Assign(c))
  /\ \A c \in Consumers :
       WF_vars(Fetch(c)) /\ WF_vars(Apply(c) \/ Reject(c)) /\ WF_vars(CommitOffset(c))

FairSpec == Spec /\ Fairness

----------------------------------------------------------------------------
(* Properties.                                                             *)

\* Every variable keeps its type; in particular an outbox row never has a
\* holder that is not a relay, and an alert never a version out of range.
TypeOK ==
  /\ version \in 0 .. MaxVersion
  /\ triggers \subseteq Version
  /\ outbox \in [Version -> OutboxRow]
  /\ relay \in [Relays -> RelayState]
  /\ log \in Seq(Version)
  /\ committed \in 0 .. Len(log)
  /\ owner \in Consumers \cup {None}
  /\ consumer \in [Consumers -> ConsumerState]
  /\ inbox \subseteq InboxRow
  /\ alert \in 0 .. MaxVersion
  /\ applied \in Seq(Version)
  /\ faults \in 0 .. MaxFaults
  /\ losses \in 0 .. MaxLosses

\* However often a message is published, fetched or handled by two members
\* at once, it takes effect in the notification database at most once.
AppliedAtMostOnce ==
  \A j, k \in 1 .. Len(applied) : applied[j] = applied[k] => j = k

\* A row marked as published was accepted by Kafka, whoever marked it: a
\* crash, a lock that timed out or a failed attempt never hides a message.
PublishedIsLogged ==
  losses = 0 => \A v \in Version : outbox[v].published => v \in Elements(log)

\* The first records of the versions are in the order of the versions.
LogInOrder ==
  \A j, k \in 1 .. Len(log) :
    j < k /\ log[j] > log[k] => \E i \in 1 .. j : log[i] = log[k]

\* When the log has the versions in order, an alert asks for the newest
\* version that took effect, through duplicates, evictions and restarts of
\* the consumers: an evicted member that is late never brings back an old one.
AlertNewestIfLogInOrder ==
  losses = 0 /\ LogInOrder /\ alert # 0 => \A v \in Elements(applied) : v <= alert

Feed == INSTANCE IncidentFeed WITH effective <- Elements(applied)

\* Whatever happens, a version takes effect once at most and not before the
\* core committed it, and an alert never goes back: every step of the stream
\* is one of the abstract feed, or none.
FeedSteps == Feed!Init /\ [][Feed!Next]_(Feed!feedVars)

\* While the broker loses nothing, what the core commits takes effect
\* exactly once and eventually: the stream implements the abstract feed.
FeedSpec == FeedSteps /\ (<>(losses > 0) \/ Feed!Fairness)

\* The group keeps up: again and again it has handled every record there is,
\* unless the broker lost records and others have taken their offsets.
GroupKeepsUp == []<>(committed = Len(log) \/ losses > 0)
=============================================================================
