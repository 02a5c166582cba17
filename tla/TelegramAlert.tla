--------------------------- MODULE TelegramAlert ---------------------------
(***************************************************************************)
(* The Telegram alert projection: the rows of telegram_alert_messages, one *)
(* for each (subscription, incident), the workers that claim them, and the *)
(* Telegram chat the workers write to.                                     *)
(*                                                                         *)
(* A row holds the incident version the chat should show (desired), the    *)
(* newest version a worker reported as shown (delivered) and the id of the *)
(* remote message, once known.  A worker claims rows in one transaction,   *)
(* calls Telegram outside any transaction with the snapshot it claimed,    *)
(* and writes the outcome in a second statement.  Between the two, the     *)
(* incident consumer may raise the desired version, the lock may time out, *)
(* another worker may claim the same row, and the worker may stop.         *)
(*                                                                         *)
(* Abstractions.                                                           *)
(*  - Time is two flags: due says next_attempt_at has passed and lock says *)
(*    whether locked_at is unset, recent, or older than the lock timeout.  *)
(*  - A payload is the version it renders.  A payload that does not render *)
(*    is a refused call.                                                   *)
(*  - The NULL of telegram_message_id and of delivered_earthquake_version  *)
(*    is 0, and a row that does not exist has the status "absent".         *)
(*  - A claim takes any claimable rows up to the batch size: rows another  *)
(*    transaction holds are skipped (SKIP LOCKED), and RETURNING gives the *)
(*    batch in no order.                                                   *)
(*  - A call has its effect in the chat, if any, before its answer or its  *)
(*    error reaches the worker: none takes effect after it was given up.   *)
(***************************************************************************)
EXTENDS Naturals, Sequences, FiniteSets

CONSTANTS
  Alerts,       \* the (subscription, incident) pairs that may get an alert
  Workers,      \* the notification worker replicas
  MaxVersion,   \* bound: incident versions are 1 .. MaxVersion
  MaxAttempts,  \* notifications.max_attempts
  Batch,        \* notifications.batch_size
  MaxFaults     \* bound: worker crashes and failed result writes

ASSUME AlertAssumption ==
  /\ MaxVersion \in Nat \ {0}
  /\ MaxAttempts \in Nat \ {0}
  /\ Batch \in Nat \ {0}
  /\ MaxFaults \in Nat

VARIABLES
  row,         \* row[a]: the projection row in PostgreSQL
  job,         \* job[w][a]: worker w's snapshot of row a and its progress
  chat,        \* chat[a][i]: the version that remote message i displays
  faults,      \* number of crashes and failed writes so far
  overlapped,  \* history: the alerts two workers were busy with at once
  ambiguous    \* history: the alerts with a sent message whose id was lost

vars == <<row, job, chat, faults, overlapped, ambiguous>>

----------------------------------------------------------------------------
(* Rows and snapshots.                                                     *)

Version == 1 .. MaxVersion

Claimed == "processing"
\* The statuses a claim looks for once next_attempt_at has passed.
Waiting == {"pending_send", "pending_edit", "retry"}
Status == {"absent", "active", "dead", Claimed} \cup Waiting

Row == [status: Status, msg: Nat, desired: 0 .. MaxVersion,
        delivered: 0 .. MaxVersion, attempt: Nat, due: BOOLEAN,
        lock: {"none", "held", "expired"}]

NoRow == [status |-> "absent", msg |-> 0, desired |-> 0, delivered |-> 0,
          attempt |-> 0, due |-> FALSE, lock |-> "none"]

\* "claimed": not delivered yet; "accepted" and "failed": Telegram answered,
\* or the call ended in an error, and the outcome is not written yet.
Phase == {"none", "claimed", "accepted", "failed"}

Job == [phase: Phase, msg: Nat, version: 0 .. MaxVersion, attempt: Nat]

NoJob == [phase |-> "none", msg |-> 0, version |-> 0, attempt |-> 0]

Busy(w, a) == job[w][a].phase # "none"

Idle(w) == \A a \in Alerts : ~Busy(w, a)

\* A worker is one goroutine: it writes an outcome before the next call.
BetweenCalls(w) == \A a \in Alerts : job[w][a].phase \in {"none", "claimed"}

Larger(m, n) == IF m > n THEN m ELSE n

----------------------------------------------------------------------------
(* What each statement does to a row.                                      *)

\* INSERT of upsertTelegramAlertMessage.
Inserted(v) ==
  [status |-> "pending_send", msg |-> 0, desired |-> v, delivered |-> 0,
   attempt |-> 0, due |-> TRUE, lock |-> "none"]

\* Faulty variant: a row at rest stays at rest when a newer version arrives.
MutRaisedAtRest(r, v) ==
  [r EXCEPT !.desired = v, !.due = TRUE,
            !.status = IF r.status = "active" THEN "active"
                       ELSE IF r.msg = 0 THEN "pending_send" ELSE "pending_edit"]

\* Faulty variant: every raised row is taken to have a message already.
MutRaisedAlwaysEdit(r, v) ==
  [r EXCEPT !.desired = v, !.due = TRUE, !.status = "pending_edit"]

\* ON CONFLICT DO UPDATE, for a version above the desired one.  It looks at
\* neither the lock nor the status, and it leaves the attempts as they are.
Raised(r, v) ==
  [status |-> IF r.msg = 0 THEN "pending_send" ELSE "pending_edit",
   msg |-> r.msg, desired |-> v, delivered |-> r.delivered,
   attempt |-> r.attempt, due |-> TRUE, lock |-> r.lock]

ClaimedRow(r) == [r EXCEPT !.status = Claimed, !.lock = "held"]

Snapshot(r) ==
  [phase |-> "claimed", msg |-> r.msg, version |-> r.desired, attempt |-> r.attempt]

\* Faulty variant: what is desired when the write runs counts as delivered.
MutCompletedAsDesired(r, j) ==
  [r EXCEPT !.msg = IF r.msg = 0 THEN j.msg ELSE r.msg,
            !.delivered = r.desired, !.status = "active",
            !.attempt = j.attempt + 1, !.due = TRUE, !.lock = "none"]

\* Faulty variant: the newest message id replaces the stored one.
MutCompletedLastId(r, j) ==
  [r EXCEPT !.msg = j.msg, !.delivered = Larger(r.delivered, j.version),
            !.status = IF r.desired > j.version THEN "pending_edit" ELSE "active",
            !.attempt = j.attempt + 1, !.due = TRUE, !.lock = "none"]

\* Faulty variant: an outdated result does not store the message id.
MutCompletedOutdatedId(r, j) ==
  [r EXCEPT !.msg = IF r.msg = 0 /\ r.desired = j.version THEN j.msg ELSE r.msg,
            !.delivered = Larger(r.delivered, j.version),
            !.status = IF r.desired = j.version THEN "active"
                       ELSE IF r.msg = 0 THEN "pending_send" ELSE "pending_edit",
            !.attempt = j.attempt + 1, !.due = TRUE, !.lock = "none"]

\* CompleteTelegramAlertMessage: j.msg is the id the call used or returned.
Completed(r, j) ==
  [status |-> IF r.desired > j.version THEN "pending_edit" ELSE "active",
   msg |-> IF r.msg = 0 THEN j.msg ELSE r.msg,
   desired |-> r.desired, delivered |-> Larger(r.delivered, j.version),
   attempt |-> j.attempt + 1, due |-> TRUE, lock |-> "none"]

\* FailTelegramAlertMessage: the backoff starts, or the row is given up.
Failed(r, j) ==
  [status |-> IF j.attempt + 1 >= MaxAttempts THEN "dead" ELSE "retry",
   msg |-> r.msg, desired |-> r.desired, delivered |-> r.delivered,
   attempt |-> j.attempt + 1, due |-> FALSE, lock |-> "none"]

\* Faulty variant: a claim whose worker stopped is never taken over.
MutClaimableOnce(a) == row[a].status \in Waiting /\ row[a].due

Claimable(a) ==
  \/ row[a].status \in Waiting /\ row[a].due
  \/ row[a].status = Claimed /\ row[a].lock = "expired"

----------------------------------------------------------------------------
Init ==
  /\ row = [a \in Alerts |-> NoRow]
  /\ job = [w \in Workers |-> [a \in Alerts |-> NoJob]]
  /\ chat = [a \in Alerts |-> <<>>]
  /\ faults = 0
  /\ overlapped = {}
  /\ ambiguous = {}

(* The incident consumer asks for version v of the alert to be shown.      *)
(* Messages may be applied in any order and more than once: a version that *)
(* is not newer changes nothing.                                           *)
Upsert(a, v) ==
  /\ v > row[a].desired
  /\ row' = [row EXCEPT ![a] =
               IF row[a].status = "absent" THEN Inserted(v) ELSE Raised(row[a], v)]
  /\ UNCHANGED <<job, chat, faults, overlapped, ambiguous>>

(* A worker that finished its batch claims another one.                    *)
Claim(w) ==
  /\ Idle(w)
  /\ \E S \in SUBSET {a \in Alerts : Claimable(a)} :
       /\ S # {}
       /\ Cardinality(S) <= Batch
       /\ row' = [a \in Alerts |-> IF a \in S THEN ClaimedRow(row[a]) ELSE row[a]]
       /\ job' = [job EXCEPT ![w] =
                    [a \in Alerts |-> IF a \in S THEN Snapshot(row[a]) ELSE NoJob]]
       /\ overlapped' = overlapped \cup
                          {a \in S : \E u \in Workers : Busy(u, a)}
  /\ UNCHANGED <<chat, faults, ambiguous>>

\* The worker's next call is the one for alert a.
MayCall(w, a) == job[w][a].phase = "claimed" /\ BetweenCalls(w)

\* The chat after Telegram executed the call of snapshot j for alert a.
ChatAfter(a, j) ==
  IF j.msg = 0 THEN Append(chat[a], j.version)
               ELSE [chat[a] EXCEPT ![j.msg] = j.version]

(* Telegram executes sendMessage or editMessageText and the worker learns  *)
(* of it.  After a send it also learns the message id.                     *)
CallAccepted(w, a) ==
  /\ MayCall(w, a)
  /\ LET j == job[w][a] IN
       /\ chat' = [chat EXCEPT ![a] = ChatAfter(a, j)]
       /\ job' = [job EXCEPT ![w][a] =
                    [j EXCEPT !.phase = "accepted",
                              !.msg = IF j.msg = 0 THEN Len(chat[a]) + 1 ELSE j.msg]]
  /\ UNCHANGED <<row, faults, overlapped, ambiguous>>

(* Telegram, or the network before it, refuses the call; or the worker is  *)
(* shutting down, which cancels its calls and not the writing of outcomes. *)
CallRefused(w, a) ==
  /\ MayCall(w, a)
  /\ job' = [job EXCEPT ![w][a].phase = "failed"]
  /\ UNCHANGED <<row, chat, faults, overlapped, ambiguous>>

(* Telegram executes the call and the answer is lost.                      *)
AnswerLost(w, a) ==
  /\ MayCall(w, a)
  /\ chat' = [chat EXCEPT ![a] = ChatAfter(a, job[w][a])]
  /\ job' = [job EXCEPT ![w][a].phase = "failed"]
  /\ ambiguous' = IF job[w][a].msg = 0 THEN ambiguous \cup {a} ELSE ambiguous
  /\ UNCHANGED <<row, faults, overlapped>>

(* The worker writes what happened.  Neither statement looks at locked_by. *)
SaveDelivered(w, a) ==
  /\ job[w][a].phase = "accepted"
  /\ row' = [row EXCEPT ![a] = Completed(row[a], job[w][a])]
  /\ job' = [job EXCEPT ![w][a] = NoJob]
  /\ UNCHANGED <<chat, faults, overlapped, ambiguous>>

SaveFailed(w, a) ==
  /\ job[w][a].phase = "failed"
  /\ row' = [row EXCEPT ![a] = Failed(row[a], job[w][a])]
  /\ job' = [job EXCEPT ![w][a] = NoJob]
  /\ UNCHANGED <<chat, faults, overlapped, ambiguous>>

\* Alerts whose message worker w sent and whose id it has not stored.
UnsavedSends(w) ==
  {a \in Alerts : job[w][a].phase = "accepted" /\ row[a].msg = 0}

(* The write fails: the worker logs it and goes on with the next job.      *)
LoseResult(w, a) ==
  /\ faults < MaxFaults
  /\ job[w][a].phase \in {"accepted", "failed"}
  /\ faults' = faults + 1
  /\ ambiguous' = ambiguous \cup (UnsavedSends(w) \cap {a})
  /\ job' = [job EXCEPT ![w][a] = NoJob]
  /\ UNCHANGED <<row, chat, overlapped>>

(* The worker process stops and starts again with nothing in memory.       *)
Crash(w) ==
  /\ faults < MaxFaults
  /\ ~Idle(w)
  /\ faults' = faults + 1
  /\ ambiguous' = ambiguous \cup UnsavedSends(w)
  /\ job' = [job EXCEPT ![w] = [a \in Alerts |-> NoJob]]
  /\ UNCHANGED <<row, chat, overlapped>>

(* Time passes: a backoff ends, a lock grows older than the lock timeout.  *)
BackoffEnds(a) ==
  /\ row[a].status # "absent"
  /\ ~row[a].due
  /\ row' = [row EXCEPT ![a].due = TRUE]
  /\ UNCHANGED <<job, chat, faults, overlapped, ambiguous>>

LockExpires(a) ==
  /\ row[a].lock = "held"
  /\ row' = [row EXCEPT ![a].lock = "expired"]
  /\ UNCHANGED <<job, chat, faults, overlapped, ambiguous>>

Next ==
  \/ \E a \in Alerts, v \in Version : Upsert(a, v)
  \/ \E w \in Workers : Claim(w) \/ Crash(w)
  \/ \E w \in Workers, a \in Alerts :
       \/ CallAccepted(w, a) \/ CallRefused(w, a) \/ AnswerLost(w, a)
       \/ SaveDelivered(w, a) \/ SaveFailed(w, a) \/ LoseResult(w, a)
  \/ \E a \in Alerts : BackoffEnds(a) \/ LockExpires(a)

Call(w, a) == CallAccepted(w, a) \/ CallRefused(w, a) \/ AnswerLost(w, a)

Spec == Init /\ [][Next]_vars

(* Run polls on a ticker for as long as the process lives, every HTTP call *)
(* ends within the client's timeout, and time passes.                      *)
Fairness ==
  /\ \A w \in Workers : WF_vars(Claim(w))
  /\ \A w \in Workers, a \in Alerts :
       /\ WF_vars(Call(w, a))
       /\ WF_vars(SaveDelivered(w, a) \/ SaveFailed(w, a))
  /\ \A a \in Alerts : WF_vars(BackoffEnds(a)) /\ WF_vars(LockExpires(a))

FairSpec == Spec /\ Fairness

----------------------------------------------------------------------------
(* Properties.                                                             *)

\* Every variable keeps its type, whatever order the workers, the consumer
\* and the faults take: in particular no row gets a version nobody asked for.
TypeOK ==
  /\ row \in [Alerts -> Row]
  /\ job \in [Workers -> [Alerts -> Job]]
  /\ chat \in [Alerts -> Seq(Version)]
  /\ faults \in 0 .. MaxFaults
  /\ overlapped \subseteq Alerts
  /\ ambiguous \subseteq Alerts

\* The status of a row never lies about what a worker may do with it: a row
\* that asks for an edit knows the message to edit and one that asks for a
\* first send knows none, a claimed row carries a lock that can time out (a
\* claim without one would never be taken again), and the message id is one
\* Telegram returned.  Completed and Failed clear the lock and Raised sets
\* the status without looking at either.
RowWellFormed ==
  \A a \in Alerts :
    /\ row[a].status = "pending_edit" => row[a].msg # 0
    /\ row[a].status = "pending_send" => row[a].msg = 0
    /\ row[a].status = Claimed => row[a].lock # "none"
    /\ row[a].msg <= Len(chat[a])

\* The comparison CompleteTelegramAlertMessage makes after the remote call
\* loses no update that arrived during it: a row at rest as "active" has
\* been delivered in the version asked for, and a row that is behind waits,
\* is being worked on, or was given up.
ActiveIsUpToDate ==
  \A a \in Alerts :
    row[a].status = "active" => row[a].msg # 0 /\ row[a].delivered = row[a].desired

\* A message that was sent but is not the one the row tracks (its id was
\* lost, or another worker stored another id first) is never touched again:
\* every edit goes to the tracked message, even from an outdated snapshot.
EditsOnlyTrackedMessage ==
  [][\A a \in Alerts : \A i \in 1 .. Len(chat[a]) :
       chat'[a][i] # chat[a][i] => i = row[a].msg]_vars

\* Convergence: once a row is active and no worker is busy with it, the
\* tracked message displays the desired version, through lost answers, lost
\* results and crashes, as long as no two workers were ever busy with the
\* row at the same time.
ConvergedUnlessOverlapped ==
  \A a \in Alerts \ overlapped :
    row[a].status = "active" /\ (\A w \in Workers : ~Busy(w, a))
      => chat[a][row[a].msg] = row[a].desired

\* A chat gets a second message for one incident only if the id of a sent
\* one was lost or two workers were busy with the row at the same time.
SingleMessageUnlessAmbiguous ==
  \A a \in Alerts : Len(chat[a]) > 1 => a \in ambiguous \cup overlapped

\* What docs/event-correlation.md says of Telegram convergence: operations
\* after a persisted message id converge by editing that message.  In a chat
\* with one message the send that made it is the one whose id was persisted,
\* and what came to the chat after it are edits of that message; so, however
\* the edits overlap, the message of an alert at rest as "active" shows the
\* desired version.
Converged ==
  \A a \in Alerts :
    /\ Len(chat[a]) = 1
    /\ row[a].status = "active"
    /\ \A w \in Workers : ~Busy(w, a)
    => chat[a][row[a].msg] = row[a].desired

\* Every alert that was asked for comes to rest, shown or given up.
EventuallySettled ==
  \A a \in Alerts : []<>(row[a].status \in {"absent", "active", "dead"})
=============================================================================
