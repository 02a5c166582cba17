----------------------- MODULE WebhookDeliveryProofs -----------------------
(***************************************************************************)
(* What WebhookDelivery promises, proved for every set of deliveries and   *)
(* workers and for every limit.                                            *)
(***************************************************************************)
EXTENDS WebhookDelivery, TLAPS

----------------------------------------------------------------------------
(* The inductive invariant.  Saving an outcome writes what a worker has in *)
(* memory, so most of it says what a worker may have there.                *)

Made(j) == j.phase \in {"accepted", "failed"}

Free(d) == \A w \in Workers : ~Busy(w, d)

\* The attempts made for a delivery, with a request or without.
tried == [d \in Deliveries |-> called[d] + unsent[d]]

\* Where a worker may have jobs.
Working == {"deliver", "stopping"}

\* Without an overlap one worker at most is busy with a delivery.
Exclusive(d) ==
  d \notin overlapped =>
    \A u, w \in Workers : Busy(u, d) /\ Busy(w, d) => u = w

\* A row counts no attempt that was not made and, as long as workers do not
\* overlap and no outcome is lost, all of them but the one under way.
RowOK(d) ==
  /\ row[d].attempts <= tried[d]
  /\ row[d].status = "absent" => row[d].attempts = 0
  /\ row[d].status = "dead" => row[d].attempts >= MaxAttempts
  /\ ~Blurred(d) =>
       /\ row[d].attempts <= MaxAttempts + retries[d]
       /\ row[d].status \in {"pending", "processing", "retry"} =>
            row[d].attempts < MaxAttempts + retries[d]
       /\ row[d].status = "sent" => accepted[d] = 1
       /\ row[d].status # "sent" /\ Free(d) => accepted[d] = 0
       /\ Free(d) => tried[d] = row[d].attempts

\* A job counts no attempt that was not made; without an overlap it agrees with
\* its row, which is claimed, and its phase tells what the receiver did.
JobOK(w, d) ==
  /\ job[w][d].phase = "claimed" => job[w][d].attempts <= tried[d]
  /\ Made(job[w][d]) => job[w][d].attempts < tried[d]
  /\ d \notin overlapped /\ Busy(w, d) =>
       row[d].status = "processing" /\ job[w][d].attempts = row[d].attempts
  /\ ~Blurred(d) =>
       /\ job[w][d].phase = "claimed" =>
            accepted[d] = 0 /\ tried[d] = job[w][d].attempts
       /\ Made(job[w][d]) => tried[d] = job[w][d].attempts + 1
       /\ job[w][d].phase = "accepted" => accepted[d] = 1
       /\ job[w][d].phase = "failed" => accepted[d] = 0

IInv ==
  /\ TypeOK
  /\ \A w \in Workers : at[w] \notin Working => Idle(w)
  /\ \A d \in Deliveries :
       RowOK(d) /\ Exclusive(d) /\ \A w \in Workers : JobOK(w, d)

----------------------------------------------------------------------------
(* Types.                                                                  *)

\* What the type invariant says of one delivery and one worker.
LEMMA Facts ==
  ASSUME TypeOK, NEW w \in Workers, NEW d \in Deliveries
  PROVE  /\ row[d] \in Row /\ job[w][d] \in Job
         /\ row[d].status = "processing" <=> row[d].lock # "none"
         /\ tried[d] \in Nat /\ accepted[d] \in Nat /\ retries[d] \in Nat
         /\ MaxAttempts \in Nat \ {0} /\ MaxFaults \in Nat
  BY DeliveryAssumption DEF TypeOK, tried

\* The same without a worker.
LEMMA RowFacts ==
  ASSUME TypeOK, NEW d \in Deliveries
  PROVE  /\ row[d] \in Row
         /\ row[d].status = "processing" <=> row[d].lock # "none"
         /\ tried[d] \in Nat /\ accepted[d] \in Nat /\ retries[d] \in Nat
         /\ MaxAttempts \in Nat \ {0} /\ MaxFaults \in Nat
  BY DeliveryAssumption DEF TypeOK, tried

\* Nothing is of the right type, and so is an insert.
LEMMA NoTypes ==
  NoRow \in Row /\ Inserted \in Row /\ NoJob \in Job /\ NoJobs \in [Deliveries -> Job]
<1>1. NoRow \in Row /\ Inserted \in Row /\ NoJob \in Job
  BY DEF NoRow, Inserted, NoJob, Row, Job
<1> QED BY <1>1 DEF NoJobs

\* An outcome is written as a row without a lock.
LEMMA SavedType ==
  ASSUME NEW r \in Row, NEW j \in Job
  PROVE  /\ Saved(r, j) \in Row
         /\ Saved(r, j).status \in {"sent", "dead", "retry"} /\ Saved(r, j).lock = "none"
  BY DeliveryAssumption DEF Saved, Row, Job, GivenUp

\* A claim and a retry change the status and the lock together.
LEMMA ChangedTypes ==
  ASSUME NEW r \in Row
  PROVE  /\ ClaimedRow(r) \in Row /\ Retried(r) \in Row
         /\ ClaimedRow(r).status = "processing" /\ ClaimedRow(r).lock = "held"
         /\ ClaimedRow(r).attempts = r.attempts
         /\ Retried(r).status = "retry" /\ Retried(r).lock = "none"
         /\ Retried(r).attempts = r.attempts
  BY DEF ClaimedRow, Retried, Row

\* Nothing exists and nobody works yet.
LEMMA InitIInv == Init => IInv
<1> SUFFICES ASSUME Init PROVE IInv
  OBVIOUS
<1>1. TypeOK
  BY DeliveryAssumption DEF Init, TypeOK, NoRow, NoJobs, NoJob, Row, Job
<1>2. ASSUME NEW d \in Deliveries
      PROVE  RowOK(d) /\ Exclusive(d) /\ \A w \in Workers : JobOK(w, d) /\ ~Busy(w, d)
  BY DeliveryAssumption
  DEF Init, RowOK, Exclusive, JobOK, Busy, Free, Made, NoRow, NoJobs, NoJob, tried
<1> QED BY <1>1, <1>2 DEF IInv, Idle, Init

----------------------------------------------------------------------------
(* Every step keeps the invariant.                                         *)

\* A step that concerns one delivery d keeps the invariant if it does so
\* for d.
LEMMA OneDelivery ==
  ASSUME IInv, NEW d \in Deliveries, TypeOK',
         \A w \in Workers : at'[w] \notin Working => Idle(w)',
         \A c \in Deliveries \ {d} :
           /\ row'[c] = row[c] /\ tried'[c] = tried[c] /\ accepted'[c] = accepted[c]
           /\ retries'[c] = retries[c]
           /\ c \in overlapped' <=> c \in overlapped
           /\ c \in ambiguous' <=> c \in ambiguous
           /\ \A w \in Workers : job'[w][c] = job[w][c],
         RowOK(d)', Exclusive(d)', \A w \in Workers : JobOK(w, d)'
  PROVE  IInv'
<1>1. ASSUME NEW c \in Deliveries, c # d
      PROVE  RowOK(c)' /\ Exclusive(c)' /\ \A w \in Workers : JobOK(w, c)'
  BY <1>1 DEF IInv, RowOK, Exclusive, JobOK, Busy, Free, Blurred
<1> QED BY <1>1 DEF IInv

\* A step that changes only the row of d, and not to or from processing:
\* a delivery is created or retried, or its backoff ends.
LEMMA Waiting ==
  ASSUME IInv, NEW d \in Deliveries, NEW r \in Row, row' = [row EXCEPT ![d] = r],
         row[d].status # "processing", r.status \in {"pending", "retry"}, r.lock = "none",
         r.attempts = row[d].attempts,
         retries' \in [Deliveries -> 0 .. MaxRetries],
         \A c \in Deliveries \ {d} : retries'[c] = retries[c],
         \/ retries'[d] = retries[d] + 1 /\ row[d].status # "sent"
         \/ retries'[d] = retries[d] /\ row[d].status \in {"absent", "retry"},
         UNCHANGED <<job, at, faults, calls, overlapped, ambiguous>>
  PROVE  IInv'
<1>1. UNCHANGED <<called, unsent, tried, accepted>>
  BY DEF calls, tried
<1>2. TypeOK'
  BY <1>1 DEF IInv, TypeOK
<1>3. row'[d] = r
  BY DEF IInv, TypeOK
<1>4. \A w \in Workers : JobOK(w, d)'
  BY <1>1, <1>3, RowFacts DEF IInv, JobOK, Busy, Blurred
<1>5. RowOK(d)'
  <2>1. /\ Free(d)' <=> Free(d)
        /\ Blurred(d)' <=> Blurred(d)
    BY DEF Free, Busy, Blurred
  <2>2. RowOK(d) /\ TypeOK
    BY DEF IInv
  <2>3. row[d].attempts \in Nat /\ MaxAttempts \in Nat /\ tried[d] \in Nat
    BY <2>2, RowFacts DEF Row
  <2> HIDE DEF tried
  <2> QED
    BY <1>1, <1>3, <2>1, <2>2, <2>3, RowFacts DEF RowOK
<1>6. Exclusive(d)' /\ \A w \in Workers : at'[w] \notin Working => Idle(w)'
  BY DEF IInv, Exclusive, Idle, Busy
<1>7. \A c \in Deliveries \ {d} : row'[c] = row[c]
  BY DEF IInv, TypeOK
<1> QED BY <1>1, <1>2, <1>4, <1>5, <1>6, <1>7, OneDelivery

\* The lock of a claimed row gets old.
LEMMA LockExpiresIInv ==
  ASSUME IInv, NEW d \in Deliveries, LockExpires(d)
  PROVE  IInv'
<1>1. /\ row[d].lock = "held" /\ row' = [row EXCEPT ![d].lock = "expired"]
      /\ UNCHANGED <<job, at, faults, called, unsent, tried, accepted, retries>>
      /\ UNCHANGED <<overlapped, ambiguous>>
  BY DEF LockExpires, history, calls, tried
<1>2. TypeOK'
  <2>1. TypeOK /\ row \in [Deliveries -> Row] /\ row[d] \in Row
    BY DEF IInv, TypeOK
  <2>2. row[d].status = "processing"
    BY <1>1, <2>1, RowFacts
  <2>3. [row[d] EXCEPT !.lock = "expired"] \in Row
    BY <2>1 DEF Row
  <2>4. /\ row' \in [Deliveries -> Row]
        /\ row'[d] = [row[d] EXCEPT !.lock = "expired"]
        /\ \A c \in Deliveries \ {d} : row'[c] = row[c]
    BY <1>1, <2>1, <2>3
  <2>5. row'[d].status = "processing" /\ row'[d].lock = "expired"
    BY <2>1, <2>2, <2>4 DEF Row
  <2>6. \A c \in Deliveries : row'[c].status = "processing" <=> row'[c].lock # "none"
    BY <2>1, <2>4, <2>5 DEF TypeOK
  <2> QED BY <1>1, <2>1, <2>4, <2>6 DEF TypeOK
<1>3. row'[d].status = row[d].status /\ row'[d].attempts = row[d].attempts
  BY <1>1, RowFacts DEF IInv, TypeOK, Row
<1>4. RowOK(d)' /\ Exclusive(d)' /\ \A w \in Workers : JobOK(w, d)'
  BY <1>1, <1>3 DEF IInv, RowOK, Exclusive, JobOK, Busy, Free, Blurred
<1>5. \A w \in Workers : at'[w] \notin Working => Idle(w)'
  BY <1>1 DEF IInv, Idle, Busy
<1>6. \A c \in Deliveries \ {d} : row'[c] = row[c]
  BY <1>1 DEF IInv, TypeOK
<1> QED BY <1>1, <1>2, <1>4, <1>5, <1>6, OneDelivery

\* A worker's job for d and the histories of d change, and the row does not:
\* an attempt is made.
LEMMA AttemptIInv ==
  ASSUME IInv, NEW w \in Workers, NEW d \in Deliveries, Attempt(w, d)
  PROVE  IInv'
<1>1. PICK outcome \in {"accepted", "failed"} :
        /\ Attempted(w, d, outcome)
        /\ \/ called' = [called EXCEPT ![d] = @ + 1] /\ unsent' = unsent
           \/ called' = called /\ unsent' = [unsent EXCEPT ![d] = @ + 1]
        /\ ambiguous' \in {ambiguous, ambiguous \cup {d}}
        /\ accepted' \in {accepted, [accepted EXCEPT ![d] = @ + 1]}
        /\ d \notin ambiguous' =>
             /\ ambiguous' = ambiguous
             /\ accepted' = IF outcome = "accepted" THEN [accepted EXCEPT ![d] = @ + 1]
                                                    ELSE accepted
  <2>1. CASE CallAccepted(w, d)
    BY <2>1 DEF CallAccepted, Called
  <2>2. CASE CallRefused(w, d)
    BY <2>2 DEF CallRefused, Called
  <2>3. CASE AnswerLost(w, d)
    BY <2>3 DEF AnswerLost, Called
  <2>4. CASE NotSent(w, d)
    BY <2>4 DEF NotSent
  <2> QED BY <2>1, <2>2, <2>3, <2>4 DEF Attempt
<1>2. /\ job[w][d].phase = "claimed"
      /\ job' = [job EXCEPT ![w][d].phase = outcome]
      /\ UNCHANGED <<row, at, faults, retries, overlapped>>
  BY <1>1 DEF Attempted
<1>3. /\ job'[w][d] = [phase |-> outcome, attempts |-> job[w][d].attempts]
      /\ \A u \in Workers : u # w => job'[u][d] = job[u][d]
      /\ \A c \in Deliveries \ {d}, u \in Workers : job'[u][c] = job[u][c]
      /\ job' \in [Workers -> [Deliveries -> Job]]
  BY <1>1, <1>2, Facts DEF IInv, TypeOK, Job
<1>4. /\ tried'[d] = tried[d] + 1
      /\ called' \in [Deliveries -> Nat] /\ unsent' \in [Deliveries -> Nat]
      /\ \A c \in Deliveries \ {d} : tried'[c] = tried[c] /\ accepted'[c] = accepted[c]
      /\ accepted' \in [Deliveries -> Nat]
      /\ ambiguous' \subseteq Deliveries
      /\ \A c \in Deliveries \ {d} : c \in ambiguous' <=> c \in ambiguous
  <2>1. /\ called \in [Deliveries -> Nat] /\ unsent \in [Deliveries -> Nat]
        /\ accepted \in [Deliveries -> Nat] /\ ambiguous \subseteq Deliveries
    BY DEF IInv, TypeOK
  <2>2. /\ called' \in [Deliveries -> Nat] /\ unsent' \in [Deliveries -> Nat]
        /\ called'[d] + unsent'[d] = called[d] + unsent[d] + 1
        /\ \A c \in Deliveries \ {d} : called'[c] = called[c] /\ unsent'[c] = unsent[c]
    BY <1>1, <2>1
  <2>3. tried'[d] = tried[d] + 1 /\ \A c \in Deliveries \ {d} : tried'[c] = tried[c]
    BY <2>2 DEF tried
  <2>4. /\ accepted' \in [Deliveries -> Nat] /\ ambiguous' \subseteq Deliveries
        /\ \A c \in Deliveries \ {d} : accepted'[c] = accepted[c]
        /\ \A c \in Deliveries \ {d} : c \in ambiguous' <=> c \in ambiguous
    BY <1>1, <2>1
  <2> QED BY <2>2, <2>3, <2>4
<1>5. TypeOK'
  BY <1>2, <1>3, <1>4 DEF IInv, TypeOK
<1>6. ASSUME NEW u \in Workers PROVE Busy(u, d)' <=> Busy(u, d)
  <2>1. CASE u = w
    <3>1. job'[w][d].phase = outcome
      BY <1>3
    <3> QED BY <1>1, <1>2, <2>1, <3>1 DEF Busy
  <2>2. CASE u # w
    BY <1>3, <2>2 DEF Busy
  <2> QED BY <2>1, <2>2
<1>7. Exclusive(d)'
  BY <1>2, <1>6 DEF IInv, Exclusive
<1>8. ASSUME ~Blurred(d)'
      PROVE  /\ ~Blurred(d) /\ accepted[d] = 0
             /\ accepted'[d] = (IF outcome = "accepted" THEN 1 ELSE 0)
             /\ tried[d] = job[w][d].attempts
             /\ \A u \in Workers : u # w => ~Busy(u, d)
  <2>1. ~Blurred(d) /\ ambiguous' = ambiguous
    BY <1>1, <1>2, <1>8 DEF Blurred
  <2>2. accepted[d] = 0 /\ tried[d] = job[w][d].attempts
    BY <1>2, <2>1 DEF IInv, JobOK
  <2>3. \A u \in Workers : u # w => ~Busy(u, d)
    BY <1>2, <2>1 DEF IInv, Exclusive, Busy, Blurred
  <2>4. accepted'[d] = IF outcome = "accepted" THEN 1 ELSE 0
    BY <1>1, <2>1, <2>2 DEF Blurred, IInv, TypeOK
  <2> QED BY <2>1, <2>2, <2>3, <2>4
<1>9. ASSUME NEW u \in Workers PROVE JobOK(u, d)'
  <2>1. CASE u = w
    <3>1. job[w][d].attempts \in Nat /\ tried[d] \in Nat /\ job[w][d].attempts <= tried[d]
      BY <1>2, Facts DEF IInv, JobOK, Job
    <3>2. d \notin overlapped => row[d].status = "processing" /\ job[w][d].attempts = row[d].attempts
      BY <1>2 DEF IInv, JobOK, Busy
    <3> QED BY <1>1, <1>2, <1>3, <1>4, <1>8, <2>1, <3>1, <3>2 DEF JobOK, Busy, Made
  <2>2. CASE u # w
    <3>1. JobOK(u, d) /\ job[u][d].attempts \in Nat /\ tried[d] \in Nat
      BY Facts DEF IInv, Job
    <3> QED BY <1>2, <1>3, <1>4, <1>8, <2>2, <3>1 DEF JobOK, Busy, Made
  <2> QED BY <2>1, <2>2
<1>10. RowOK(d)'
  <2>1. Busy(w, d)'
    BY <1>2, <1>6 DEF Busy
  <2>2. ~Blurred(d)' => row[d].status = "processing"
    BY <1>2, <1>8 DEF IInv, JobOK, Busy, Blurred
  <2> QED BY <1>2, <1>4, <1>8, <2>1, <2>2, RowFacts DEF IInv, RowOK, Free, Row
<1>11. \A u \in Workers : at'[u] \notin Working => Idle(u)'
  <2>1. at[w] \in Working
    BY <1>2 DEF IInv, Idle, Busy
  <2> QED BY <1>2, <1>3, <2>1 DEF IInv, Idle, Busy
<1> QED BY <1>2, <1>3, <1>4, <1>5, <1>7, <1>9, <1>10, <1>11, OneDelivery

\* What an outcome makes of a row.
LEMMA SavedFacts ==
  ASSUME NEW r \in Row, NEW j \in Job, Made(j)
  PROVE  /\ Saved(r, j).attempts = j.attempts + 1
         /\ Saved(r, j).status = "sent" <=> j.phase = "accepted"
         /\ Saved(r, j).status = "dead" => j.attempts + 1 >= MaxAttempts
         /\ Saved(r, j).status = "retry" => j.attempts + 1 < MaxAttempts
  BY DeliveryAssumption DEF Saved, GivenUp, Made, Row, Job

\* A worker that is done with d has no job for it; the others keep theirs.
LEMMA DroppedJob ==
  ASSUME TypeOK, NEW w \in Workers, NEW d \in Deliveries, job' = [job EXCEPT ![w][d] = NoJob]
  PROVE  /\ job' \in [Workers -> [Deliveries -> Job]]
         /\ job'[w][d] = NoJob /\ ~Busy(w, d)'
         /\ \A u \in Workers \ {w} : job'[u] = job[u]
         /\ \A c \in Deliveries \ {d}, u \in Workers : job'[u][c] = job[u][c]
         /\ \A u \in Workers : Idle(u) => Idle(u)'
<1>1. /\ job' \in [Workers -> [Deliveries -> Job]]
      /\ job'[w][d] = NoJob
      /\ \A u \in Workers \ {w} : job'[u] = job[u]
      /\ \A c \in Deliveries \ {d}, u \in Workers : job'[u][c] = job[u][c]
  BY NoTypes DEF TypeOK
<1>2. ~Busy(w, d)'
  BY <1>1 DEF Busy, NoJob
<1>3. ASSUME NEW u \in Workers, Idle(u) PROVE Idle(u)'
  <2>1. ASSUME NEW c \in Deliveries PROVE ~Busy(u, c)'
    <3>1. CASE u = w /\ c = d
      BY <1>2, <3>1
    <3>2. CASE ~(u = w /\ c = d)
      BY <1>1, <1>3, <3>2 DEF Idle, Busy
    <3> QED BY <3>1, <3>2
  <2> QED BY <2>1 DEF Idle
<1> QED BY <1>1, <1>2, <1>3

\* A worker writes its outcome, over whatever the row became meanwhile.
LEMMA SaveOutcomeIInv ==
  ASSUME IInv, NEW w \in Workers, NEW d \in Deliveries, SaveOutcome(w, d)
  PROVE  IInv'
<1> DEFINE j == job[w][d]
           r == Saved(row[d], j)
<1>1. /\ Made(j) /\ job' = [job EXCEPT ![w][d] = NoJob]
      /\ row' = [row EXCEPT ![d] = r]
      /\ UNCHANGED <<at, faults, called, unsent, tried, accepted, retries, overlapped, ambiguous>>
  BY DEF SaveOutcome, history, calls, tried, Made
<1>2. row[d] \in Row /\ j \in Job /\ tried[d] \in Nat /\ accepted[d] \in Nat
      /\ retries[d] \in Nat /\ MaxAttempts \in Nat
  BY Facts DEF IInv
<1>3. JobOK(w, d) /\ RowOK(d) /\ Exclusive(d) /\ TypeOK
  BY DEF IInv
<1>4. /\ r \in Row /\ r.status \in {"sent", "dead", "retry"} /\ r.lock = "none"
      /\ r.attempts = j.attempts + 1
      /\ r.status = "sent" <=> j.phase = "accepted"
      /\ r.status = "dead" => j.attempts + 1 >= MaxAttempts
      /\ r.status = "retry" => j.attempts + 1 < MaxAttempts
  BY <1>1, <1>2, SavedFacts, SavedType
<1>5. row' \in [Deliveries -> Row] /\ row'[d] = r
      /\ \A c \in Deliveries \ {d} : row'[c] = row[c]
  BY <1>1, <1>3, <1>4 DEF TypeOK
<1>6. /\ job' \in [Workers -> [Deliveries -> Job]] /\ ~Busy(w, d)' /\ job'[w][d] = NoJob
      /\ \A u \in Workers \ {w} : job'[u] = job[u]
      /\ \A c \in Deliveries \ {d}, u \in Workers : job'[u][c] = job[u][c]
      /\ \A u \in Workers : Idle(u) => Idle(u)'
  BY <1>1, <1>3, DroppedJob
<1> HIDE DEF r
<1>7. TypeOK'
  <2>1. \A c \in Deliveries : row'[c].status = "processing" <=> row'[c].lock # "none"
    BY <1>3, <1>4, <1>5 DEF TypeOK
  <2> QED BY <1>1, <1>3, <1>5, <1>6, <2>1 DEF TypeOK
<1>8. d \notin overlapped =>
        /\ \A u \in Workers : ~Busy(u, d)'
        /\ row[d].status = "processing" /\ row[d].attempts = j.attempts
  <2>1. Busy(w, d)
    BY <1>1 DEF Made, Busy
  <2> QED BY <1>3, <1>6, <2>1 DEF Exclusive, JobOK, Busy
<1>9. Exclusive(d)'
  BY <1>1, <1>8 DEF Exclusive
<1>10. ASSUME NEW u \in Workers PROVE JobOK(u, d)'
  <2>1. CASE u = w
    BY <1>6, <2>1 DEF JobOK, Busy, Made, NoJob
  <2>2. CASE u # w
    BY <1>1, <1>6, <1>8, <2>2 DEF IInv, JobOK, Busy, Made, Blurred
  <2> QED BY <2>1, <2>2
<1>11. RowOK(d)'
  <2>1. r.attempts <= tried[d]
    BY <1>1, <1>2, <1>3, <1>4 DEF JobOK, Job
  <2>2. r.status = "dead" => r.attempts >= MaxAttempts
    BY <1>4
  <2>3. ASSUME ~Blurred(d)
        PROVE  /\ r.attempts <= MaxAttempts + retries[d]
               /\ r.status \in {"pending", "processing", "retry"} =>
                    r.attempts < MaxAttempts + retries[d]
               /\ r.status = "sent" => accepted[d] = 1
               /\ r.status # "sent" => accepted[d] = 0
               /\ tried[d] = r.attempts
    <3>1. row[d].status = "processing" /\ row[d].attempts = j.attempts
      BY <1>8, <2>3 DEF Blurred
    <3>2. j.attempts < MaxAttempts + retries[d]
      BY <1>3, <2>3, <3>1 DEF RowOK
    <3>3. tried[d] = j.attempts + 1
      BY <1>1, <1>3, <2>3 DEF JobOK
    <3>4. j.phase = "accepted" => accepted[d] = 1
      BY <1>3, <2>3 DEF JobOK
    <3>5. j.phase # "accepted" => accepted[d] = 0
      BY <1>1, <1>3, <2>3 DEF JobOK, Made
    <3>6. j.attempts \in Nat
      BY <1>2 DEF Job
    <3> HIDE DEF j
    <3> QED BY <1>2, <1>4, <3>2, <3>3, <3>4, <3>5, <3>6
  <2> QED BY <1>1, <1>4, <1>5, <2>1, <2>2, <2>3 DEF RowOK, Blurred
<1> QED BY <1>1, <1>5, <1>6, <1>7, <1>9, <1>10, <1>11, OneDelivery DEF IInv

\* An outcome is lost, and the delivery is not judged any more.
LEMMA LoseOutcomeIInv ==
  ASSUME IInv, NEW w \in Workers, NEW d \in Deliveries, LoseOutcome(w, d)
  PROVE  IInv'
<1>1. /\ job' = [job EXCEPT ![w][d] = NoJob] /\ ambiguous' = ambiguous \cup {d}
      /\ faults < MaxFaults /\ faults' = faults + 1
      /\ UNCHANGED <<row, at, called, unsent, tried, accepted, retries, overlapped>>
  BY DEF LoseOutcome, Fault, calls, tried
<1>2. /\ job' \in [Workers -> [Deliveries -> Job]] /\ ~Busy(w, d)' /\ job'[w][d] = NoJob
      /\ \A u \in Workers \ {w} : job'[u] = job[u]
      /\ \A c \in Deliveries \ {d}, u \in Workers : job'[u][c] = job[u][c]
      /\ \A u \in Workers : Idle(u) => Idle(u)'
  BY <1>1, DroppedJob DEF IInv
<1>3. TypeOK'
  BY <1>1, <1>2, DeliveryAssumption DEF IInv, TypeOK
<1>4. Blurred(d)'
  BY <1>1 DEF Blurred
<1>5. RowOK(d)'
  BY <1>1, <1>4 DEF IInv, RowOK
<1>6. Exclusive(d)'
  BY <1>1, <1>2 DEF IInv, Exclusive, Busy
<1>7. ASSUME NEW u \in Workers PROVE JobOK(u, d)'
  <2>1. CASE u = w
    BY <1>2, <2>1 DEF JobOK, Busy, Made, NoJob
  <2>2. CASE u # w
    BY <1>1, <1>2, <1>4, <2>2 DEF IInv, JobOK, Busy, Made
  <2> QED BY <2>1, <2>2
<1> QED BY <1>1, <1>2, <1>3, <1>5, <1>6, <1>7, OneDelivery DEF IInv

\* A worker claims rows that it, without an overlap, is the only one to hold;
\* it had no job left.
LEMMA ClaimIInv ==
  ASSUME IInv, NEW w \in Workers, Claim(w)
  PROVE  IInv'
<1>1. PICK S \in SUBSET {d \in Deliveries : Claimable(d)} :
        /\ row' = [d \in Deliveries |-> IF d \in S THEN ClaimedRow(row[d]) ELSE row[d]]
        /\ job' = [job EXCEPT ![w] = [d \in Deliveries |->
                     IF d \in S THEN [phase |-> "claimed", attempts |-> row[d].attempts]
                                ELSE NoJob]]
        /\ overlapped' = overlapped \cup {d \in S : \E u \in Workers : Busy(u, d)}
  BY DEF Claim
<1>2. /\ at[w] = "poll" /\ at' = [at EXCEPT ![w] = "deliver"]
      /\ UNCHANGED <<faults, called, unsent, tried, accepted, retries, ambiguous>>
      /\ TypeOK /\ Idle(w)
  BY DEF Claim, calls, tried, IInv, Working
<1>3. ASSUME NEW d \in S
      PROVE  d \in Deliveries /\ row[d].status \in {"pending", "retry", "processing"}
  BY DEF Claimable
<1>4. ASSUME NEW d \in Deliveries
      PROVE  /\ row'[d] = IF d \in S THEN ClaimedRow(row[d]) ELSE row[d]
             /\ job'[w][d] = IF d \in S THEN [phase |-> "claimed", attempts |-> row[d].attempts]
                                        ELSE NoJob
             /\ \A u \in Workers \ {w} : job'[u][d] = job[u][d]
  BY <1>1, <1>2 DEF TypeOK
<1>5. TypeOK'
  <2>1. ASSUME NEW d \in Deliveries
        PROVE  /\ row'[d] \in Row
               /\ row'[d].status = "processing" <=> row'[d].lock # "none"
               /\ [phase |-> "claimed", attempts |-> row[d].attempts] \in Job
    <3>1. [phase |-> "claimed", attempts |-> row[d].attempts] \in Job
      BY <1>2, RowFacts DEF Row, Job
    <3> QED BY <1>2, <1>4, <3>1, RowFacts, ChangedTypes
  <2>2. row' \in [Deliveries -> Row]
    BY <1>1, <2>1
  <2>3. job' \in [Workers -> [Deliveries -> Job]]
    BY <1>1, <1>2, <2>1, NoTypes DEF TypeOK
  <2>4. overlapped' \subseteq Deliveries
    BY <1>1, <1>2, <1>3 DEF TypeOK
  <2> QED BY <1>2, <2>1, <2>2, <2>3, <2>4 DEF TypeOK
<1>6. \A u \in Workers : at'[u] \notin Working => Idle(u)'
  <2>1. ASSUME NEW u \in Workers, u # w PROVE at'[u] = at[u] /\ Idle(u)' = Idle(u)
    BY <1>2, <1>4, <2>1 DEF Idle, Busy, TypeOK
  <2>2. at'[w] \in Working
    BY <1>2 DEF TypeOK, Working
  <2> QED BY <2>1, <2>2 DEF IInv
<1>7. ASSUME NEW d \in Deliveries
      PROVE  RowOK(d)' /\ Exclusive(d)' /\ \A u \in Workers : JobOK(u, d)'
  <2>1. RowOK(d) /\ Exclusive(d) /\ ~Busy(w, d) /\ \A u \in Workers : JobOK(u, d)
    BY <1>2 DEF IInv, Idle
  <2>2. row[d] \in Row /\ tried[d] \in Nat /\ accepted[d] \in Nat /\ retries[d] \in Nat
        /\ row[d].attempts \in Nat
    BY <1>2, RowFacts DEF Row
  <2>3. CASE d \in S
    <3>1. /\ row'[d].status = "processing" /\ row'[d].attempts = row[d].attempts
          /\ job'[w][d] = [phase |-> "claimed", attempts |-> row[d].attempts]
          /\ Busy(w, d)'
      BY <1>4, <2>2, <2>3, ChangedTypes DEF Busy
    <3>2. d \notin overlapped' => d \notin overlapped /\ Free(d)
      BY <1>1, <2>3 DEF Free
    <3>3. ASSUME NEW u \in Workers, u # w
          PROVE  job'[u][d] = job[u][d] /\ (Busy(u, d)' <=> Busy(u, d))
      BY <1>4, <3>3 DEF Busy
    <3>4. Exclusive(d)'
      BY <3>2, <3>3 DEF Exclusive, Free
    <3>5. ~Blurred(d)' => ~Blurred(d) /\ accepted[d] = 0 /\ tried[d] = row[d].attempts
      BY <1>2, <1>3, <2>1, <2>3, <3>2 DEF RowOK, Blurred
    <3>6. JobOK(w, d)'
      BY <1>2, <2>1, <3>1, <3>5 DEF JobOK, RowOK, Made, Busy
    <3>7. ASSUME NEW u \in Workers, u # w PROVE JobOK(u, d)'
      BY <1>2, <2>1, <3>2, <3>3, <3>7 DEF JobOK, Free, Made, Busy, Blurred
    <3>8. RowOK(d)'
      BY <1>2, <1>3, <2>1, <2>3, <3>1, <3>5 DEF RowOK, Free
    <3> QED BY <3>4, <3>6, <3>7, <3>8
  <2>4. CASE d \notin S
    <3>1. row'[d] = row[d] /\ (d \in overlapped' <=> d \in overlapped)
      BY <1>1, <1>4, <2>4
    <3>. job'[w][d] = NoJob
      BY <1>4, <2>4
    <3>2. ASSUME NEW u \in Workers PROVE Busy(u, d)' <=> Busy(u, d)
      <4>1. CASE u = w
        BY <2>1, <4>1 DEF Busy, NoJob
      <4>2. CASE u # w
        BY <1>4, <4>2 DEF Busy
      <4> QED BY <4>1, <4>2
    <3>3. ASSUME NEW u \in Workers PROVE JobOK(u, d)'
      <4>1. CASE u = w
        BY <1>4, <2>4, <4>1 DEF JobOK, Busy, Made, NoJob
      <4>2. CASE u # w
        BY <1>2, <1>4, <2>1, <3>1, <4>2 DEF JobOK, Busy, Made, Blurred
      <4> QED BY <4>1, <4>2
    <3>4. RowOK(d)' /\ Exclusive(d)'
      BY <1>2, <2>1, <3>1, <3>2 DEF RowOK, Exclusive, Free, Blurred
    <3> QED BY <3>3, <3>4
  <2> QED BY <2>3, <2>4
<1> QED BY <1>5, <1>6, <1>7 DEF IInv

\* A worker stops and forgets its jobs; outcomes among them are lost.
LEMMA ForgetsIInv ==
  ASSUME IInv, NEW w \in Workers, Crash(w) \/ Exit(w)
  PROVE  IInv'
<1>1. /\ at' = [at EXCEPT ![w] = "poll"] /\ job' = [job EXCEPT ![w] = NoJobs]
      /\ faults' \in 0 .. MaxFaults
      /\ ambiguous' = ambiguous \cup
           {d \in Deliveries : job[w][d].phase \in {"accepted", "failed"}}
      /\ UNCHANGED <<row, called, unsent, tried, accepted, retries, overlapped>>
  BY DeliveryAssumption DEF Crash, Exit, Forgets, Fault, calls, tried, IInv, TypeOK
<1>2. TypeOK'
  BY <1>1, NoTypes, DeliveryAssumption DEF IInv, TypeOK
<1>3. ASSUME NEW d \in Deliveries
      PROVE  job'[w][d] = NoJob /\ \A u \in Workers \ {w} : job'[u][d] = job[u][d]
  BY <1>1 DEF IInv, TypeOK, NoJobs
<1>4. \A u \in Workers : at'[u] \notin Working => Idle(u)'
  BY <1>1, <1>3 DEF IInv, TypeOK, Idle, Busy, NoJob
<1>5. ASSUME NEW d \in Deliveries
      PROVE  RowOK(d)' /\ Exclusive(d)' /\ \A u \in Workers : JobOK(u, d)'
  <2>1. RowOK(d) /\ Exclusive(d) /\ \A u \in Workers : JobOK(u, d)
    BY DEF IInv
  <2>2. \A u \in Workers : Busy(u, d)' <=> Busy(u, d) /\ u # w
    BY <1>3 DEF Busy, NoJob
  <2>3. ~Blurred(d)' => ~Blurred(d) /\ ~Made(job[w][d])
    BY <1>1 DEF Blurred, Made
  <2>4. ASSUME NEW u \in Workers PROVE JobOK(u, d)'
    <3>1. CASE u = w
      BY <1>3, <3>1 DEF JobOK, Busy, Made, NoJob
    <3>2. CASE u # w
      BY <1>1, <1>3, <2>1, <2>3, <3>2 DEF JobOK, Busy, Made, Blurred
    <3> QED BY <3>1, <3>2
  <2>5. Exclusive(d)'
    BY <1>1, <2>1, <2>2 DEF Exclusive
  <2>6. ASSUME ~Blurred(d)', Free(d)'
        PROVE  (row[d].status # "sent" => accepted[d] = 0) /\ tried[d] = row[d].attempts
    <3>1. CASE Free(d)
      BY <2>1, <2>3, <2>6, <3>1 DEF RowOK
    <3>2. CASE Busy(w, d)
      <4>1. job[w][d].phase = "claimed"
        BY <2>3, <2>6, <3>2, Facts DEF Busy, Made, Job, IInv
      <4> QED BY <2>1, <2>3, <2>6, <3>2, <4>1 DEF JobOK, Blurred
    <3> QED BY <2>2, <2>6, <3>1, <3>2 DEF Free
  <2>7. RowOK(d)'
    BY <1>1, <2>1, <2>3, <2>6 DEF RowOK
  <2> QED BY <2>4, <2>5, <2>7
<1> QED BY <1>2, <1>4, <1>5 DEF IInv

\* A step that moves a worker without a job through its loop.
LEMMA LoopIInv ==
  ASSUME IInv, TypeOK', UNCHANGED <<row, job, history>>,
         \A w \in Workers : at'[w] \notin Working => Idle(w)
  PROVE  IInv'
<1>1. UNCHANGED <<row, job, called, unsent, tried, accepted, retries, overlapped, ambiguous>>
  BY DEF history, calls, tried
<1>2. ASSUME NEW d \in Deliveries
      PROVE  RowOK(d)' /\ Exclusive(d)' /\ \A w \in Workers : JobOK(w, d)'
  BY <1>1 DEF IInv, RowOK, Exclusive, JobOK, Busy, Free, Made, Blurred
<1>3. \A w \in Workers : Idle(w)' <=> Idle(w)
  BY <1>1 DEF Idle, Busy
<1> QED BY <1>2, <1>3 DEF IInv

\* Every step keeps the invariant.
LEMMA NextIInv == IInv /\ [Next]_vars => IInv'
<1> SUFFICES ASSUME IInv, [Next]_vars PROVE IInv'
  OBVIOUS
<1>1. ASSUME NEW d \in Deliveries, Create(d) PROVE IInv'
  <2>1. /\ row' = [row EXCEPT ![d] = Inserted] /\ row[d].status = "absent"
        /\ UNCHANGED <<job, at, faults, calls, retries, overlapped, ambiguous>>
    BY <1>1 DEF Create, history
  <2>2. row[d].attempts = 0 /\ retries' \in [Deliveries -> 0 .. MaxRetries]
    BY <2>1 DEF IInv, RowOK, TypeOK
  <2>3. /\ Inserted \in Row /\ Inserted.status = "pending" /\ Inserted.lock = "none"
        /\ Inserted.attempts = 0
    BY NoTypes DEF Inserted
  <2> QED BY <2>1, <2>2, <2>3, Waiting
<1>2. ASSUME NEW d \in Deliveries, Retry(d) PROVE IInv'
  <2>1. /\ row' = [row EXCEPT ![d] = Retried(row[d])]
        /\ row[d].status \in {"dead", "retry", "pending"}
        /\ retries[d] < MaxRetries /\ retries' = [retries EXCEPT ![d] = @ + 1]
        /\ UNCHANGED <<job, at, faults, calls, overlapped, ambiguous>>
    BY <1>2 DEF Retry, Retryable, IInv, TypeOK
  <2>2. /\ retries' \in [Deliveries -> 0 .. MaxRetries]
        /\ retries'[d] = retries[d] + 1
        /\ \A c \in Deliveries \ {d} : retries'[c] = retries[c]
    BY <2>1, DeliveryAssumption DEF IInv, TypeOK
  <2>3. /\ Retried(row[d]) \in Row /\ Retried(row[d]).status = "retry"
        /\ Retried(row[d]).lock = "none" /\ Retried(row[d]).attempts = row[d].attempts
    BY RowFacts, ChangedTypes DEF IInv
  <2> QED BY <2>1, <2>2, <2>3, Waiting
<1>3. ASSUME NEW d \in Deliveries, BackoffEnds(d) PROVE IInv'
  <2> DEFINE r == [row[d] EXCEPT !.due = TRUE]
  <2>1. /\ row' = [row EXCEPT ![d] = r] /\ row[d].status = "retry"
        /\ UNCHANGED <<job, at, faults, calls, retries, overlapped, ambiguous>>
    BY <1>3 DEF BackoffEnds, history, IInv, TypeOK
  <2>2. /\ r \in Row /\ r.status = "retry" /\ r.lock = "none" /\ r.attempts = row[d].attempts
    BY <2>1, RowFacts DEF IInv, Row
  <2>3. retries' \in [Deliveries -> 0 .. MaxRetries]
    BY <2>1 DEF IInv, TypeOK
  <2> HIDE DEF r
  <2> QED BY <2>1, <2>2, <2>3, Waiting
<1>4. ASSUME NEW w \in Workers, ClaimFails(w) PROVE IInv'
  <2>1. TypeOK' /\ UNCHANGED <<row, job, at, history>>
    BY <1>4, DeliveryAssumption DEF ClaimFails, Fault, IInv, TypeOK, history, calls
  <2> QED BY <2>1, LoopIInv DEF IInv
<1>7. ASSUME NEW w \in Workers, Shutdown(w) PROVE IInv'
  <2>1. TypeOK' /\ UNCHANGED <<row, job, history>>
    BY <1>7, DeliveryAssumption DEF Shutdown, Fault, IInv, TypeOK, history, calls
  <2>2. ASSUME NEW u \in Workers, at'[u] \notin Working PROVE Idle(u)
    <3>1. u # w
      BY <1>7, <2>2 DEF Shutdown, IInv, TypeOK, Working
    <3> QED BY <1>7, <2>2, <3>1 DEF Shutdown, IInv, TypeOK
  <2> QED BY <2>1, <2>2, LoopIInv
<1>5. ASSUME NEW w \in Workers, BeginAlerts(w) \/ EndAlerts(w) PROVE IInv'
  <2>1. TypeOK' /\ UNCHANGED <<row, job, history>>
    BY <1>5 DEF BeginAlerts, EndAlerts, AfterBatch, IInv, TypeOK, history, calls
  <2>2. ASSUME NEW u \in Workers, at'[u] \notin Working PROVE Idle(u)
    <3>1. CASE u = w
      BY <1>5, <3>1 DEF BeginAlerts, EndAlerts, IInv, TypeOK, Working
    <3>2. CASE u # w
      BY <1>5, <2>2, <3>2 DEF BeginAlerts, EndAlerts, IInv, TypeOK
    <3> QED BY <3>1, <3>2
  <2> QED BY <2>1, <2>2, LoopIInv
<1>6. CASE UNCHANGED vars
  <2>1. TypeOK' /\ UNCHANGED <<row, job, at, history>>
    BY <1>6 DEF vars, IInv, TypeOK, history, calls
  <2> QED BY <2>1, LoopIInv DEF IInv
<1> QED BY <1>1, <1>2, <1>3, <1>4, <1>5, <1>6, <1>7, LockExpiresIInv, AttemptIInv, SaveOutcomeIInv,
           LoseOutcomeIInv, ClaimIInv, ForgetsIInv DEF Next

----------------------------------------------------------------------------
(* The theorems.                                                           *)

\* The inductive invariant holds in every reachable state.
THEOREM Invariance == Spec => []IInv
BY InitIInv, NextIInv, PTL DEF Spec

\* Rows, jobs and histories keep their types, and exactly the claimed rows
\* have a lock, though outcomes and retries clear it without a look at its
\* owner.
THEOREM TypeCorrect == Spec => []TypeOK
<1>1. IInv => TypeOK
  BY DEF IInv
<1> QED BY <1>1, Invariance, PTL

\* CompleteDelivery and the claims together make no delivery dead before the
\* configured number of attempts, of which those without a request (in a
\* shutdown, or if the request cannot be built) are no calls of the receiver.
THEOREM NoEarlyGivingUp == Spec => []DeadOnlyAfterMaxAttempts
<1>1. IInv => DeadOnlyAfterMaxAttempts
  <2> SUFFICES ASSUME IInv, NEW d \in Deliveries, row[d].status = "dead"
               PROVE  called[d] + unsent[d] >= MaxAttempts
    BY DEF DeadOnlyAfterMaxAttempts
  <2>1. tried[d] >= MaxAttempts
    BY RowFacts DEF IInv, RowOK, Row
  <2> QED BY <2>1 DEF tried
<1> QED BY <1>1, Invariance, PTL

\* Unless workers overlap or an outcome is lost, a delivery is accepted once
\* at most and its row tells whether it was.
THEOREM TruthfulTable == Spec => []OutcomeIsTrue
<1>1. IInv => OutcomeIsTrue
  <2> SUFFICES ASSUME IInv, NEW d \in Deliveries, ~Blurred(d)
               PROVE  /\ accepted[d] <= 1
                      /\ row[d].status = "sent" => accepted[d] = 1
                      /\ row[d].status \in {"pending", "retry", "dead"} => accepted[d] = 0
    BY DEF OutcomeIsTrue
  <2>1. RowOK(d) /\ \A w \in Workers : JobOK(w, d)
    BY DEF IInv
  <2>2. CASE Free(d)
    BY <2>1, <2>2 DEF RowOK
  <2>3. CASE ~Free(d)
    <3>1. PICK w \in Workers : Busy(w, d)
      BY <2>3 DEF Free
    <3>2. row[d].status = "processing"
      BY <2>1, <3>1 DEF JobOK, Blurred
    <3>3. accepted[d] \in {0, 1}
      BY <2>1, <3>1, Facts DEF IInv, JobOK, Busy, Job
    <3> QED BY <3>2, <3>3
  <2> QED BY <2>2, <2>3
<1> QED BY <1>1, Invariance, PTL

\* Unless workers overlap or an outcome is lost, a receiver is called no more
\* often than configured, and once more for every retry of an operator;
\* attempts without a request take the place of calls.
THEOREM BoundedCalls == Spec => []NoMoreCallsThanAllowed
<1>1. IInv => NoMoreCallsThanAllowed
  <2> SUFFICES ASSUME IInv, NEW d \in Deliveries, ~Blurred(d)
               PROVE  tried[d] <= MaxAttempts + retries[d]
    BY DEF NoMoreCallsThanAllowed, tried
  <2>1. RowOK(d) /\ \A w \in Workers : JobOK(w, d)
    BY DEF IInv
  <2>2. CASE Free(d)
    BY <2>1, <2>2 DEF RowOK
  <2>3. CASE ~Free(d)
    <3>1. PICK w \in Workers : Busy(w, d)
      BY <2>3 DEF Free
    <3>2. /\ row[d].attempts < MaxAttempts + retries[d]
          /\ job[w][d].attempts = row[d].attempts
      BY <2>1, <3>1 DEF RowOK, JobOK, Blurred
    <3>3. tried[d] = job[w][d].attempts \/ tried[d] = job[w][d].attempts + 1
      BY <2>1, <3>1, Facts DEF IInv, JobOK, Busy, Made, Job
    <3> QED BY <3>2, <3>3, Facts DEF IInv, Row
  <2> QED BY <2>2, <2>3
<1> QED BY <1>1, Invariance, PTL

\* Only an operator, or a worker that overlaps with another one, takes up a
\* delivery again that was sent or given up, or forgets attempts: no write of
\* CompleteDelivery does so, though it looks at neither lock nor status.
THEOREM UndoneOnlyByOverlaps == Spec => OnlyOverlapsUndo
<1> DEFINE Kept(d) ==
      /\ row'[d].attempts >= row[d].attempts
      /\ row[d].status = "sent" => row'[d].status = "sent"
      /\ row[d].status = "dead" => row'[d].status = "dead" \/ retries'[d] > retries[d]
<1>1. ASSUME IInv, [Next]_vars, NEW d \in Deliveries, d \notin overlapped
      PROVE  Kept(d)
  <2>1. RowOK(d) /\ row[d] \in Row /\ row[d].attempts \in Nat /\ TypeOK
    BY <1>1, RowFacts DEF IInv, Row
  <2>2. CASE row'[d] = row[d]
    BY <2>1, <2>2
  <2>3. ASSUME NEW c \in Deliveries, Create(c) PROVE Kept(d)
    <3>1. CASE c = d
      <4>1. row[d].status = "absent" /\ row'[d] = Inserted
        BY <2>1, <2>3, <3>1 DEF Create, TypeOK
      <4> QED BY <2>1, <4>1 DEF RowOK, Inserted
    <3>2. CASE c # d
      BY <2>1, <2>2, <2>3, <3>2 DEF Create, TypeOK
    <3> QED BY <3>1, <3>2
  <2>4. ASSUME NEW c \in Deliveries, Retry(c) PROVE Kept(d)
    <3>1. CASE c = d
      <4>1. /\ row'[d] = Retried(row[d]) /\ row[d].status # "sent"
            /\ retries'[d] = retries[d] + 1 /\ retries[d] \in Nat
        BY <2>1, <2>4, <3>1, RowFacts DEF Retry, Retryable, TypeOK
      <4>2. row'[d].attempts = row[d].attempts
        BY <2>1, <4>1, ChangedTypes
      <4> QED BY <2>1, <4>1, <4>2
    <3>2. CASE c # d
      BY <2>1, <2>2, <2>4, <3>2 DEF Retry, TypeOK
    <3> QED BY <3>1, <3>2
  <2>5. ASSUME NEW c \in Deliveries, BackoffEnds(c) \/ LockExpires(c) PROVE Kept(d)
    <3>1. CASE c = d
      <4>1. row'[d].status = row[d].status /\ row'[d].attempts = row[d].attempts
        BY <2>1, <2>5, <3>1 DEF BackoffEnds, LockExpires, TypeOK, Row
      <4> QED BY <2>1, <4>1
    <3>2. CASE c # d
      BY <2>1, <2>2, <2>5, <3>2 DEF BackoffEnds, LockExpires, TypeOK
    <3> QED BY <3>1, <3>2
  <2>6. ASSUME NEW w \in Workers, Claim(w) PROVE Kept(d)
    <3>1. PICK S \in SUBSET {c \in Deliveries : Claimable(c)} :
            row' = [c \in Deliveries |-> IF c \in S THEN ClaimedRow(row[c]) ELSE row[c]]
      BY <2>6 DEF Claim
    <3>2. CASE d \in S
      <4>1. row'[d] = ClaimedRow(row[d]) /\ row[d].status \notin {"sent", "dead"}
        BY <3>1, <3>2 DEF Claimable
      <4> QED BY <2>1, <4>1, ChangedTypes
    <3>3. CASE d \notin S
      BY <2>2, <3>1, <3>3
    <3> QED BY <3>2, <3>3
  <2>7. ASSUME NEW w \in Workers, NEW c \in Deliveries, SaveOutcome(w, c) PROVE Kept(d)
    <3>1. CASE c = d
      <4>1. Busy(w, d) /\ Made(job[w][d]) /\ row'[d] = Saved(row[d], job[w][d])
        BY <2>1, <2>7, <3>1 DEF SaveOutcome, Busy, Made, TypeOK
      <4>2. row[d].status = "processing" /\ job[w][d].attempts = row[d].attempts
        BY <1>1, <4>1 DEF IInv, JobOK
      <4>3. row'[d].attempts = row[d].attempts + 1
        BY <2>1, <4>1, <4>2, Facts, SavedFacts
      <4> QED BY <2>1, <4>2, <4>3
    <3>2. CASE c # d
      BY <2>1, <2>2, <2>7, <3>2 DEF SaveOutcome, TypeOK
    <3> QED BY <3>1, <3>2
  <2>8. ASSUME NEW w \in Workers,
               \/ ClaimFails(w) \/ BeginAlerts(w) \/ EndAlerts(w)
               \/ Crash(w) \/ Shutdown(w) \/ Exit(w)
               \/ \E c \in Deliveries : Attempt(w, c) \/ LoseOutcome(w, c)
        PROVE  Kept(d)
    <3>1. row' = row
      BY <2>8 DEF ClaimFails, BeginAlerts, EndAlerts, Crash, Shutdown, Exit, Forgets, Attempt,
                  CallAccepted, CallRefused, AnswerLost, NotSent, Called, Attempted,
                  LoseOutcome
    <3> QED BY <2>2, <3>1
  <2>9. CASE UNCHANGED vars
    BY <2>2, <2>9 DEF vars
  <2> HIDE DEF Kept
  <2> QED BY <1>1, <2>3, <2>4, <2>5, <2>6, <2>7, <2>8, <2>9 DEF Next
<1>2. IInv /\ [Next]_vars =>
        [\A d \in Deliveries : d \notin overlapped => Kept(d)]_vars
  BY <1>1
<1> QED BY <1>2, Invariance, PTL DEF Spec, OnlyOverlapsUndo
=============================================================================
