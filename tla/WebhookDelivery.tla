-------------------------- MODULE WebhookDelivery --------------------------
(***************************************************************************)
(* The queue of webhook deliveries, table notification_deliveries, and the *)
(* workers that empty it.                                                  *)
(*                                                                         *)
(* A worker claims a batch, calls the webhooks one after the other without *)
(* a transaction, writes each outcome, and then has its turn at the        *)
(* Telegram alerts (module TelegramAlert).  A claim that is older than the *)
(* lock timeout may be taken over while the first worker is still calling. *)
(* An operator may ask for a delivery to be tried again.                   *)
(*                                                                         *)
(* Abstractions.                                                           *)
(*  - Payloads, signatures and addresses are left out: an attempt ends in  *)
(*    a call that is accepted or refused, or before there is a request.    *)
(*  - A shutdown cancels the calls, but neither the attempts at the rest   *)
(*    of a batch nor the writing of their outcomes, and nobody waits for   *)
(*    the worker: the process may end at any step of these.                *)
(*  - Time is a flag for the backoff and one for the age of the lock.      *)
(***************************************************************************)
EXTENDS Naturals, FiniteSets

CONSTANTS
  Deliveries,   \* the deliveries: a subscription, an incident version, a trigger
  Workers,      \* notification workers
  MaxAttempts,  \* notifications.max_attempts
  Batch,        \* notifications.batch_size
  MaxFaults,    \* bound: how many things go wrong
  MaxRetries    \* bound: how often an operator retries a delivery

ASSUME DeliveryAssumption ==
  /\ MaxAttempts \in Nat \ {0} /\ Batch \in Nat \ {0}
  /\ MaxFaults \in Nat /\ MaxRetries \in Nat

VARIABLES
  row,         \* row[d]: the row of delivery d
  job,         \* job[w][d]: worker w's snapshot of d and its progress
  at,          \* at[w]: where worker w is in its loop, or that it shuts down
  faults,      \* how many things went wrong so far
  called,      \* history: called[d] counts the requests sent for d
  unsent,      \* history: unsent[d] counts the attempts without a request
  accepted,    \* history: accepted[d] counts the calls its receiver accepted
  retries,     \* history: retries[d] counts the retries operators asked for
  overlapped,  \* history: the deliveries two workers were busy with at once
  ambiguous    \* history: the deliveries whose outcome was lost on the way

calls == <<called, unsent, accepted>>
history == <<calls, retries, overlapped, ambiguous>>
vars == <<row, job, at, faults, history>>

----------------------------------------------------------------------------
Row == [status: {"absent", "pending", "processing", "retry", "sent", "dead"},
        attempts: Nat, due: BOOLEAN, lock: {"none", "held", "expired"}]

NoRow == [status |-> "absent", attempts |-> 0, due |-> FALSE, lock |-> "none"]

Job == [phase: {"none", "claimed", "accepted", "failed"}, attempts: Nat]

NoJob == [phase |-> "none", attempts |-> 0]

NoJobs == [d \in Deliveries |-> NoJob]

Busy(w, d) == job[w][d].phase # "none"

Idle(w) == \A d \in Deliveries : ~Busy(w, d)

BetweenCalls(w) == \A d \in Deliveries : job[w][d].phase \in {"none", "claimed"}

Smaller(m, n) == IF m < n THEN m ELSE n

----------------------------------------------------------------------------
(* What each statement does to a row.                                      *)

\* INSERT of createDeliveries; a second one for the same key does nothing.
Inserted == [status |-> "pending", attempts |-> 0, due |-> TRUE, lock |-> "none"]

\* Faulty variant: the attempt is counted with the claim, too.
MutClaimedRow(r) == [r EXCEPT !.status = "processing", !.lock = "held",
                              !.attempts = @ + 1]

ClaimedRow(r) == [r EXCEPT !.status = "processing", !.lock = "held"]

\* Faulty variant: the last attempt is not the last.
MutGivenUp(attempt) == attempt > MaxAttempts

GivenUp(attempt) == attempt >= MaxAttempts

\* Faulty variant: a delivery is given up whatever its last outcome was.
MutSaved(r, j) ==
  [status |-> IF GivenUp(j.attempts + 1) THEN "dead"
              ELSE IF j.phase = "accepted" THEN "sent" ELSE "retry",
   attempts |-> j.attempts + 1, due |-> FALSE, lock |-> "none"]

\* CompleteDelivery writes what deliver made of the call over whatever the
\* row became meanwhile.
Saved(r, j) ==
  [status |-> IF j.phase = "accepted" THEN "sent"
              ELSE IF GivenUp(j.attempts + 1) THEN "dead" ELSE "retry",
   attempts |-> j.attempts + 1, due |-> FALSE, lock |-> "none"]

\* Faulty variant: a claim whose worker stopped is never taken over.
MutClaimable(d) == row[d].status \in {"pending", "retry"} /\ row[d].due

Claimable(d) ==
  \/ row[d].status \in {"pending", "retry"} /\ row[d].due
  \/ row[d].status = "processing" /\ row[d].lock = "expired"

Retryable == {"dead", "retry", "pending"}

\* Faulty variant: a retry forgets the attempts that were made.
MutRetried(r) == [r EXCEPT !.status = "retry", !.attempts = 0, !.due = TRUE]

\* RetryDelivery: a call is due now, and the attempts stay as they are.
Retried(r) == [r EXCEPT !.status = "retry", !.due = TRUE, !.lock = "none"]

----------------------------------------------------------------------------
Init ==
  /\ row = [d \in Deliveries |-> NoRow]
  /\ job = [w \in Workers |-> NoJobs]
  /\ at = [w \in Workers |-> "poll"]
  /\ faults = 0
  /\ called = [d \in Deliveries |-> 0]
  /\ unsent = [d \in Deliveries |-> 0]
  /\ accepted = [d \in Deliveries |-> 0]
  /\ retries = [d \in Deliveries |-> 0]
  /\ overlapped = {}
  /\ ambiguous = {}

Fault == faults < MaxFaults /\ faults' = faults + 1

(* A version of an incident takes effect that triggers d.                  *)
Create(d) ==
  /\ row[d].status = "absent"
  /\ row' = [row EXCEPT ![d] = Inserted]
  /\ UNCHANGED <<job, at, faults, history>>

(* A worker's poll: it claims a full batch, if there is one.               *)
Claim(w) ==
  /\ at[w] = "poll"
  /\ \E S \in SUBSET {d \in Deliveries : Claimable(d)} :
       /\ Cardinality(S) = Smaller(Batch, Cardinality({d \in Deliveries : Claimable(d)}))
       /\ row' = [d \in Deliveries |-> IF d \in S THEN ClaimedRow(row[d]) ELSE row[d]]
       /\ job' = [job EXCEPT ![w] = [d \in Deliveries |->
                    IF d \in S THEN [phase |-> "claimed", attempts |-> row[d].attempts]
                               ELSE NoJob]]
       /\ overlapped' = overlapped \cup {d \in S : \E u \in Workers : Busy(u, d)}
  /\ at' = [at EXCEPT ![w] = "deliver"]
  /\ UNCHANGED <<faults, calls, retries, ambiguous>>

(* The claim fails, and the poll ends with it.                             *)
ClaimFails(w) ==
  /\ at[w] = "poll"
  /\ Fault
  /\ UNCHANGED <<row, job, at, history>>

\* The worker's next attempt is the one for d; how it ends.
Attempted(w, d, outcome) ==
  /\ job[w][d].phase = "claimed"
  /\ BetweenCalls(w)
  /\ job' = [job EXCEPT ![w][d].phase = outcome]
  /\ UNCHANGED <<row, at, faults, retries, overlapped>>

Called(w, d, outcome) ==
  /\ at[w] = "deliver"
  /\ Attempted(w, d, outcome)
  /\ called' = [called EXCEPT ![d] = @ + 1]
  /\ UNCHANGED unsent

(* The receiver answers 2xx.                                               *)
CallAccepted(w, d) ==
  /\ Called(w, d, "accepted")
  /\ accepted' = [accepted EXCEPT ![d] = @ + 1]
  /\ UNCHANGED ambiguous

(* No answer comes, or it is not 2xx.                                      *)
CallRefused(w, d) ==
  /\ Called(w, d, "failed")
  /\ UNCHANGED <<accepted, ambiguous>>

(* The receiver accepts, and its answer does not arrive in time.           *)
AnswerLost(w, d) ==
  /\ Called(w, d, "failed")
  /\ accepted' = [accepted EXCEPT ![d] = @ + 1]
  /\ ambiguous' = ambiguous \cup {d}

(* The attempt ends before a request: the secret, the address or the       *)
(* connection is refused, or the worker is shutting down.                  *)
NotSent(w, d) ==
  /\ Attempted(w, d, "failed")
  /\ unsent' = [unsent EXCEPT ![d] = @ + 1]
  /\ UNCHANGED <<called, accepted, ambiguous>>

(* The worker writes the outcome.                                          *)
SaveOutcome(w, d) ==
  /\ job[w][d].phase \in {"accepted", "failed"}
  /\ row' = [row EXCEPT ![d] = Saved(row[d], job[w][d])]
  /\ job' = [job EXCEPT ![w][d] = NoJob]
  /\ UNCHANGED <<at, faults, history>>

(* The write fails: the worker logs it and goes on with the next job.      *)
LoseOutcome(w, d) ==
  /\ job[w][d].phase \in {"accepted", "failed"}
  /\ Fault
  /\ job' = [job EXCEPT ![w][d] = NoJob]
  /\ ambiguous' = ambiguous \cup {d}
  /\ UNCHANGED <<row, at, calls, retries, overlapped>>

\* Faulty variant: a poll ends with its deliveries.
MutAfterBatch == "poll"

\* Where a worker is after its batch.
AfterBatch == "alerts"

(* The batch is done; the Telegram alerts have their turn.                 *)
BeginAlerts(w) ==
  /\ at[w] = "deliver"
  /\ Idle(w)
  /\ at' = [at EXCEPT ![w] = AfterBatch]
  /\ UNCHANGED <<row, job, faults, history>>

(* The alerts are done, and the next tick of Run comes.                    *)
EndAlerts(w) ==
  /\ at[w] = "alerts"
  /\ at' = [at EXCEPT ![w] = "poll"]
  /\ UNCHANGED <<row, job, faults, history>>

\* The process ends and begins anew with nothing in memory.
Forgets(w) ==
  /\ at' = [at EXCEPT ![w] = "poll"]
  /\ job' = [job EXCEPT ![w] = NoJobs]
  /\ ambiguous' = ambiguous \cup {d \in Deliveries : job[w][d].phase \in {"accepted", "failed"}}
  /\ UNCHANGED <<row, calls, retries, overlapped>>

(* The worker process stops anywhere.                                      *)
Crash(w) ==
  /\ at[w] # "poll"
  /\ Fault
  /\ Forgets(w)

(* The process is told to stop in the middle of a batch.                   *)
Shutdown(w) ==
  /\ at[w] = "deliver"
  /\ Fault
  /\ at' = [at EXCEPT ![w] = "stopping"]
  /\ UNCHANGED <<row, job, history>>

(* It ends, with the rest of the batch done or not.                        *)
Exit(w) ==
  /\ at[w] = "stopping"
  /\ Forgets(w)
  /\ UNCHANGED faults

(* RetryDelivery: an operator, through one of the two HTTP interfaces.     *)
Retry(d) ==
  /\ retries[d] < MaxRetries
  /\ row[d].status \in Retryable
  /\ row' = [row EXCEPT ![d] = Retried(@)]
  /\ retries' = [retries EXCEPT ![d] = @ + 1]
  /\ UNCHANGED <<job, at, faults, calls, overlapped, ambiguous>>

(* Time passes: a backoff ends, a lock grows older than the lock timeout.  *)
BackoffEnds(d) ==
  /\ row[d].status = "retry"
  /\ ~row[d].due
  /\ row' = [row EXCEPT ![d].due = TRUE]
  /\ UNCHANGED <<job, at, faults, history>>

LockExpires(d) ==
  /\ row[d].lock = "held"
  /\ row' = [row EXCEPT ![d].lock = "expired"]
  /\ UNCHANGED <<job, at, faults, history>>

Attempt(w, d) ==
  CallAccepted(w, d) \/ CallRefused(w, d) \/ AnswerLost(w, d) \/ NotSent(w, d)

Next ==
  \/ \E d \in Deliveries : Create(d) \/ Retry(d) \/ BackoffEnds(d) \/ LockExpires(d)
  \/ \E w \in Workers :
       \/ Claim(w) \/ ClaimFails(w) \/ BeginAlerts(w) \/ EndAlerts(w)
       \/ Crash(w) \/ Shutdown(w) \/ Exit(w)
       \/ \E d \in Deliveries : Attempt(w, d) \/ SaveOutcome(w, d) \/ LoseOutcome(w, d)

Spec == Init /\ [][Next]_vars

(* Run polls on a ticker for as long as the process lives, every request   *)
(* ends within the client's timeout, a process that was told to stop does  *)
(* so and is started again, and time passes.                               *)
Fairness ==
  /\ \A w \in Workers :
       /\ WF_vars(Claim(w)) /\ WF_vars(BeginAlerts(w)) /\ WF_vars(EndAlerts(w))
       /\ WF_vars(Exit(w))
       /\ \A d \in Deliveries : WF_vars(Attempt(w, d)) /\ WF_vars(SaveOutcome(w, d))
  /\ \A d \in Deliveries : WF_vars(BackoffEnds(d)) /\ WF_vars(LockExpires(d))

FairSpec == Spec /\ Fairness

----------------------------------------------------------------------------
(* Properties.                                                             *)

\* Every variable keeps its type; a claimed row has a lock that can time out
\* and no other row has one, though outcomes and retries clear the lock
\* without a look at its owner.
TypeOK ==
  /\ row \in [Deliveries -> Row]
  /\ \A d \in Deliveries : row[d].status = "processing" <=> row[d].lock # "none"
  /\ job \in [Workers -> [Deliveries -> Job]]
  /\ at \in [Workers -> {"poll", "deliver", "alerts", "stopping"}]
  /\ faults \in 0 .. MaxFaults
  /\ called \in [Deliveries -> Nat] /\ unsent \in [Deliveries -> Nat]
  /\ accepted \in [Deliveries -> Nat]
  /\ retries \in [Deliveries -> 0 .. MaxRetries]
  /\ overlapped \subseteq Deliveries /\ ambiguous \subseteq Deliveries

Blurred(d) == d \in overlapped \cup ambiguous

\* What the table says of a delivery is what happened to it, unless workers
\* overlapped or an outcome was lost: a receiver accepts it once at most, it
\* is sent only if its receiver accepted it, and it is dead or waits for a
\* retry only if it did not.
OutcomeIsTrue ==
  \A d \in Deliveries : ~Blurred(d) =>
    /\ accepted[d] <= 1
    /\ row[d].status = "sent" => accepted[d] = 1
    /\ row[d].status \in {"pending", "retry", "dead"} => accepted[d] = 0

\* A delivery is given up only after the configured number of attempts, and
\* a worker that stopped between the claim and the attempt used none of them.
\* Attempts are not calls: one that ends before its request counts, so each
\* shutdown may use up one of every delivery left in the batch, and a dead
\* delivery has been called that much less often.
DeadOnlyAfterMaxAttempts ==
  \A d \in Deliveries : row[d].status = "dead" => called[d] + unsent[d] >= MaxAttempts

\* A receiver is not called more often than configured, but for one call for
\* every time an operator asks, unless workers overlapped or an outcome was
\* lost.  What was attempted without a request takes the place of a call.
NoMoreCallsThanAllowed ==
  \A d \in Deliveries : ~Blurred(d) => called[d] + unsent[d] <= MaxAttempts + retries[d]

\* Only an operator or a worker that overlaps with another one takes up a
\* delivery again that was sent or given up, or forgets attempts.
OnlyOverlapsUndo ==
  [][\A d \in Deliveries : d \notin overlapped =>
       /\ row'[d].attempts >= row[d].attempts
       /\ row[d].status = "sent" => row'[d].status = "sent"
       /\ row[d].status = "dead" => row'[d].status = "dead" \/ retries'[d] > retries[d]]_vars

\* Every delivery is sent or given up in the end, whoever stops or overlaps.
EventuallySettled ==
  \A d \in Deliveries :
    row[d].status # "absent" ~> row[d].status \in {"sent", "dead"}

\* The deliveries do not starve the Telegram alerts of a worker.
AlertsGetTheirTurn == \A w \in Workers : []<>(at[w] = "alerts")
=============================================================================
