------------------------ MODULE TelegramAlertProofs ------------------------
(***************************************************************************)
(* Proofs about TelegramAlert, for any alerts, workers, versions, attempts *)
(* and faults.                                                             *)
(***************************************************************************)
EXTENDS TelegramAlert, SequenceTheorems, TLAPS

(* Types.                                                                  *)

\* What a statement makes of a row is a row, and a snapshot is a job.
LEMMA InsertedType == ASSUME NEW v \in Version PROVE Inserted(v) \in Row
  BY AlertAssumption DEF Inserted, Row, Status, Waiting, Claimed, Version

\* A raised row is a row.
LEMMA RaisedType == ASSUME NEW r \in Row, NEW v \in Version PROVE Raised(r, v) \in Row
  BY AlertAssumption DEF Raised, Row, Status, Waiting, Claimed, Version

\* A claimed row is a row and its snapshot a job.
LEMMA ClaimedType ==
  ASSUME NEW r \in Row PROVE ClaimedRow(r) \in Row /\ Snapshot(r) \in Job
  BY AlertAssumption DEF ClaimedRow, Snapshot, Row, Status, Waiting, Claimed, Version, Job, Phase

\* A row saved as delivered is a row.
LEMMA CompletedType ==
  ASSUME NEW r \in Row, NEW j \in Job PROVE Completed(r, j) \in Row
  BY AlertAssumption DEF Completed, Larger, Row, Status, Waiting, Claimed, Version, Job

\* A row saved as failed is a row.
LEMMA FailedType ==
  ASSUME NEW r \in Row, NEW j \in Job PROVE Failed(r, j) \in Row
  BY AlertAssumption DEF Failed, Row, Status, Waiting, Claimed, Version, Job

\* The row that does not exist and the job of an idle worker have their types.
LEMMA NoTypes == NoRow \in Row /\ NoJob \in Job
  BY AlertAssumption DEF NoRow, NoJob, Row, Status, Waiting, Claimed, Version, Job, Phase

----------------------------------------------------------------------------
(* The inductive invariant.                                                *)

\* What is true of a row r of a chat with n messages.
RowOK(r, n) ==
  /\ r.delivered <= r.desired
  /\ r.status = "absent" => r.msg = 0
  /\ r.status # "absent" => r.desired # 0
  /\ r.status = "pending_edit" => r.msg # 0
  /\ r.status = "pending_send" => r.msg = 0
  /\ r.status = Claimed => r.lock # "none"
  /\ r.status = "active" => r.msg # 0 /\ r.delivered = r.desired
  /\ r.msg <= n

\* What is true of a job j for the row r of a chat with n messages: no job
\* is ahead of its row, and one that has not called Telegram yet edits the
\* message of the row or none.
JobOK(j, r, n) ==
  /\ j.version <= r.desired
  /\ j.phase # "none" => j.version # 0
  /\ j.msg <= n
  /\ j.phase = "accepted" => j.msg # 0
  /\ j.phase = "claimed" /\ j.msg # 0 => j.msg = r.msg

IInv ==
  /\ TypeOK
  /\ \A a \in Alerts : RowOK(row[a], Len(chat[a]))
  /\ \A w \in Workers, a \in Alerts : JobOK(job[w][a], row[a], Len(chat[a]))

\* What each statement does to a row keeps the row right, and every job any
\* worker holds for it.
LEMMA InsertedKeeps ==
  ASSUME NEW r \in Row, NEW n \in Nat, NEW v \in Version, NEW k \in Job,
         RowOK(r, n), JobOK(k, r, n), v > r.desired, r.status = "absent"
  PROVE  RowOK(Inserted(v), n) /\ JobOK(k, Inserted(v), n)
  BY DEF RowOK, JobOK, Inserted, Row, Job, Version, Claimed

\* Raising the desired version, whatever the status and the lock are.
LEMMA RaisedKeeps ==
  ASSUME NEW r \in Row, NEW n \in Nat, NEW v \in Version, NEW k \in Job,
         RowOK(r, n), JobOK(k, r, n), v > r.desired
  PROVE  RowOK(Raised(r, v), n) /\ JobOK(k, Raised(r, v), n)
  BY DEF RowOK, JobOK, Raised, Row, Job, Version, Claimed

\* Claiming a row that exists, also over the lock of another worker.
LEMMA ClaimedKeeps ==
  ASSUME NEW r \in Row, NEW n \in Nat, NEW k \in Job, RowOK(r, n), JobOK(k, r, n),
         r.status # "absent"
  PROVE  /\ RowOK(ClaimedRow(r), n)
         /\ JobOK(k, ClaimedRow(r), n)
         /\ JobOK(Snapshot(r), ClaimedRow(r), n)
  BY DEF RowOK, JobOK, ClaimedRow, Snapshot, Row, Job, Version, Claimed

\* Saving a delivery, over whatever another worker did meanwhile.
LEMMA CompletedKeeps ==
  ASSUME NEW r \in Row, NEW n \in Nat, NEW j \in Job, NEW k \in Job,
         RowOK(r, n), JobOK(j, r, n), JobOK(k, r, n), j.phase = "accepted"
  PROVE  RowOK(Completed(r, j), n) /\ JobOK(k, Completed(r, j), n)
  BY DEF RowOK, JobOK, Completed, Larger, Row, Job, Version, Claimed

\* Saving a failure, over whatever another worker did meanwhile.
LEMMA FailedKeeps ==
  ASSUME NEW r \in Row, NEW n \in Nat, NEW j \in Job, NEW k \in Job,
         RowOK(r, n), JobOK(j, r, n), JobOK(k, r, n), j.phase = "failed"
  PROVE  RowOK(Failed(r, j), n) /\ JobOK(k, Failed(r, j), n)
  BY DEF RowOK, JobOK, Failed, Row, Job, Version, Claimed

\* A worker that holds no job for a row cannot disagree with it.
LEMMA NoJobOK ==
  ASSUME NEW r \in Row, NEW n \in Nat
  PROVE  JobOK(NoJob, r, n)
  BY DEF JobOK, NoJob, Row

\* What a call leaves in the chat: a longer chat or an edited message.
LEMMA ChatAfterType ==
  ASSUME TypeOK, NEW a \in Alerts, NEW j \in Job, j.version # 0, j.msg <= Len(chat[a])
  PROVE  /\ ChatAfter(a, j) \in Seq(Version)
         /\ j.msg = 0 => Len(ChatAfter(a, j)) = Len(chat[a]) + 1
         /\ j.msg # 0 => Len(ChatAfter(a, j)) = Len(chat[a])
         /\ \A i \in 1 .. Len(chat[a]) : i # j.msg => ChatAfter(a, j)[i] = chat[a][i]
<1>1. chat[a] \in Seq(Version) /\ j.version \in Version /\ Len(chat[a]) \in Nat
  BY AlertAssumption DEF TypeOK, Job, Version
<1>2. CASE j.msg = 0
  BY <1>1, <1>2, AppendProperties DEF ChatAfter
<1>3. CASE j.msg # 0
  <2>1. j.msg \in 1 .. Len(chat[a])
    BY <1>1, <1>3 DEF Job
  <2> QED BY <1>1, <1>3, <2>1, ExceptSeq DEF ChatAfter
<1> QED BY <1>2, <1>3

----------------------------------------------------------------------------
(* The invariant holds initially and every step keeps it.                  *)

\* No alert and no job exists yet.
LEMMA InitIInv == Init => IInv
<1> SUFFICES ASSUME Init PROVE IInv
  OBVIOUS
<1>1. TypeOK
  BY NoTypes, AlertAssumption, EmptySeq DEF Init, TypeOK
<1>2. ASSUME NEW a \in Alerts
      PROVE  RowOK(row[a], Len(chat[a])) /\ \A w \in Workers : JobOK(job[w][a], row[a], Len(chat[a]))
  BY EmptySeq DEF Init, RowOK, JobOK, NoRow, NoJob, Claimed
<1> QED BY <1>1, <1>2 DEF IInv

\* A step that changes at most the row and the jobs of one alert a keeps the
\* invariant if the new row and every job left for it are right.
LEMMA OneAlert ==
  ASSUME IInv, NEW a \in Alerts, NEW r \in Row, NEW J \in [Workers -> Job],
         row' = [row EXCEPT ![a] = r],
         job' \in [Workers -> [Alerts -> Job]],
         \A w \in Workers, b \in Alerts : job'[w][b] = IF b = a THEN J[w] ELSE job[w][b],
         chat' \in [Alerts -> Seq(Version)],
         \A b \in Alerts : b # a => chat'[b] = chat[b],
         RowOK(r, Len(chat'[a])),
         \A w \in Workers : JobOK(J[w], r, Len(chat'[a])),
         faults' \in 0 .. MaxFaults,
         overlapped' \subseteq Alerts, ambiguous' \subseteq Alerts
  PROVE  IInv'
<1>1. row' \in [Alerts -> Row]
  BY DEF IInv, TypeOK
<1>2. TypeOK'
  BY <1>1 DEF TypeOK
<1>3. ASSUME NEW b \in Alerts
      PROVE  /\ RowOK(row'[b], Len(chat'[b]))
             /\ \A w \in Workers : JobOK(job'[w][b], row'[b], Len(chat'[b]))
  <2>1. CASE b = a
    BY <2>1 DEF IInv, TypeOK
  <2>2. CASE b # a
    BY <2>2 DEF IInv, TypeOK
  <2> QED BY <2>1, <2>2
<1> QED BY <1>2, <1>3 DEF IInv

\* A step that changes a row and no job: a newer version is asked for, or
\* time passes.
LEMMA RowOnly ==
  ASSUME IInv, NEW a \in Alerts, NEW r \in Row, row' = [row EXCEPT ![a] = r],
         RowOK(r, Len(chat[a])),
         \A w \in Workers : JobOK(job[w][a], r, Len(chat[a])),
         UNCHANGED <<job, chat, faults, overlapped, ambiguous>>
  PROVE  IInv'
<1> DEFINE J == [w \in Workers |-> job[w][a]]
<1>1. J \in [Workers -> Job] /\ \A w \in Workers : J[w] = job[w][a]
  BY DEF IInv, TypeOK
<1> HIDE DEF J
<1> QED BY <1>1, OneAlert DEF IInv, TypeOK

\* A step with which worker w drops its job for the row: an outcome is saved
\* or lost.
LEMMA Dropped ==
  ASSUME IInv, NEW w \in Workers, NEW a \in Alerts, NEW r \in Row,
         row' = [row EXCEPT ![a] = r], job' = [job EXCEPT ![w][a] = NoJob],
         RowOK(r, Len(chat[a])),
         \A u \in Workers : JobOK(job[u][a], r, Len(chat[a])),
         chat' = chat, faults' \in 0 .. MaxFaults,
         overlapped' = overlapped, ambiguous' \subseteq Alerts
  PROVE  IInv'
<1> DEFINE J == [u \in Workers |-> IF u = w THEN NoJob ELSE job[u][a]]
<1>1. J \in [Workers -> Job]
      /\ \A u \in Workers : J[u] = IF u = w THEN NoJob ELSE job[u][a]
  BY NoTypes DEF IInv, TypeOK
<1>2. JobOK(NoJob, r, Len(chat[a]))
  BY NoJobOK, LenProperties DEF IInv, TypeOK
<1>3. job' \in [Workers -> [Alerts -> Job]]
      /\ \A u \in Workers, b \in Alerts : job'[u][b] = IF b = a THEN J[u] ELSE job[u][b]
  BY <1>1, NoTypes DEF IInv, TypeOK
<1> HIDE DEF J
<1>4. \A u \in Workers : JobOK(J[u], r, Len(chat'[a]))
  BY <1>1, <1>2
<1> QED BY <1>1, <1>3, <1>4, OneAlert DEF IInv, TypeOK

\* A call of worker w, which leaves the row and changes its job and the chat.
LEMMA Called ==
  ASSUME IInv, NEW w \in Workers, NEW a \in Alerts, NEW k \in Job, NEW c \in Seq(Version),
         row' = row, job' = [job EXCEPT ![w][a] = k], chat' = [chat EXCEPT ![a] = c],
         Len(c) >= Len(chat[a]), JobOK(k, row[a], Len(c)),
         faults' = faults,
         overlapped' = overlapped, ambiguous' \subseteq Alerts
  PROVE  IInv'
<1> DEFINE J == [u \in Workers |-> IF u = w THEN k ELSE job[u][a]]
<1>1. J \in [Workers -> Job]
      /\ \A u \in Workers : J[u] = IF u = w THEN k ELSE job[u][a]
  BY DEF IInv, TypeOK
<1>2. row[a] \in Row /\ row' = [row EXCEPT ![a] = row[a]]
  BY DEF IInv, TypeOK
<1>3. job' \in [Workers -> [Alerts -> Job]]
      /\ \A u \in Workers, b \in Alerts : job'[u][b] = IF b = a THEN J[u] ELSE job[u][b]
  BY <1>1 DEF IInv, TypeOK
<1>4. /\ chat' \in [Alerts -> Seq(Version)]
      /\ chat'[a] = c
      /\ \A b \in Alerts : b # a => chat'[b] = chat[b]
  BY DEF IInv, TypeOK
<1>5. Len(chat[a]) \in Nat /\ Len(c) \in Nat
  BY LenProperties DEF IInv, TypeOK
<1>6. RowOK(row[a], Len(c))
  BY <1>2, <1>5 DEF IInv, RowOK, Row
<1>7. \A u \in Workers : JobOK(job[u][a], row[a], Len(c))
  BY <1>5 DEF IInv, TypeOK, JobOK, Job
<1> HIDE DEF J
<1>8. \A u \in Workers : JobOK(J[u], row[a], Len(chat'[a]))
  BY <1>1, <1>4, <1>7
<1> QED BY <1>1, <1>2, <1>3, <1>4, <1>6, <1>8, OneAlert DEF IInv, TypeOK

\* The rows, jobs and chats of a state that satisfies the invariant.
LEMMA Facts ==
  ASSUME IInv, NEW w \in Workers, NEW a \in Alerts
  PROVE  /\ row[a] \in Row /\ job[w][a] \in Job /\ chat[a] \in Seq(Version)
         /\ Len(chat[a]) \in Nat
         /\ RowOK(row[a], Len(chat[a]))
         /\ JobOK(job[w][a], row[a], Len(chat[a]))
  BY LenProperties DEF IInv, TypeOK

\* The rows and jobs are the only part of the state a claim changes: each
\* claimed row is locked and its snapshot becomes the worker's job.
LEMMA ClaimIInv == ASSUME IInv, NEW w \in Workers, Claim(w) PROVE IInv'
<1>1. PICK S \in SUBSET {a \in Alerts : Claimable(a)} :
        /\ row' = [a \in Alerts |-> IF a \in S THEN ClaimedRow(row[a]) ELSE row[a]]
        /\ job' = [job EXCEPT ![w] =
                     [a \in Alerts |-> IF a \in S THEN Snapshot(row[a]) ELSE NoJob]]
        /\ overlapped' = overlapped \cup {a \in S : \E u \in Workers : Busy(u, a)}
  BY DEF Claim
<1>2. /\ S \subseteq Alerts
      /\ \A a \in S : row[a].status # "absent"
  BY DEF Claimable, Waiting, Claimed
<1>3. UNCHANGED <<chat, faults, ambiguous>>
  BY DEF Claim
<1>4. TypeOK'
  <2>1. row' \in [Alerts -> Row]
    BY <1>1, ClaimedType DEF IInv, TypeOK
  <2>2. job' \in [Workers -> [Alerts -> Job]]
    BY <1>1, ClaimedType, NoTypes DEF IInv, TypeOK
  <2>3. overlapped' \subseteq Alerts
    BY <1>1, <1>2 DEF IInv, TypeOK
  <2> QED BY <1>3, <2>1, <2>2, <2>3 DEF IInv, TypeOK
<1>5. ASSUME NEW a \in Alerts, NEW u \in Workers
      PROVE  RowOK(row'[a], Len(chat[a])) /\ JobOK(job'[u][a], row'[a], Len(chat[a]))
  <2> USE Facts
  <2>1. CASE a \in S
    <3>1. row'[a] = ClaimedRow(row[a])
      BY <1>1, <2>1
    <3>2. job'[u][a] = IF u = w THEN Snapshot(row[a]) ELSE job[u][a]
      BY <1>1, <2>1 DEF IInv, TypeOK
    <3> QED BY <1>2, <2>1, <3>1, <3>2, ClaimedKeeps
  <2>2. CASE a \notin S
    <3>1. row'[a] = row[a]
      BY <1>1, <2>2
    <3>2. job'[u][a] = IF u = w THEN NoJob ELSE job[u][a]
      BY <1>1, <2>2 DEF IInv, TypeOK
    <3> QED BY <3>1, <3>2, NoJobOK
  <2> QED BY <2>1, <2>2
<1> QED BY <1>3, <1>4, <1>5 DEF IInv

\* A crash forgets the jobs of one worker and writes nothing.
LEMMA CrashIInv == ASSUME IInv, NEW w \in Workers, Crash(w) PROVE IInv'
<1>1. /\ UNCHANGED <<row, chat, overlapped>>
      /\ job' = [job EXCEPT ![w] = [a \in Alerts |-> NoJob]]
  BY DEF Crash
<1>2. TypeOK'
  <2>1. job' \in [Workers -> [Alerts -> Job]]
    BY <1>1, NoTypes DEF IInv, TypeOK
  <2>2. faults' \in 0 .. MaxFaults
    BY AlertAssumption DEF IInv, TypeOK, Crash
  <2>3. ambiguous' \subseteq Alerts
    BY DEF IInv, TypeOK, Crash, UnsavedSends
  <2> QED BY <1>1, <2>1, <2>2, <2>3 DEF IInv, TypeOK
<1>3. ASSUME NEW a \in Alerts, NEW u \in Workers
      PROVE  JobOK(job'[u][a], row[a], Len(chat[a]))
  <2>1. job'[u][a] = IF u = w THEN NoJob ELSE job[u][a]
    BY <1>1 DEF IInv, TypeOK
  <2> QED BY <2>1, Facts, NoJobOK
<1> QED BY <1>1, <1>2, <1>3 DEF IInv

\* Every step keeps the invariant.
LEMMA NextIInv == IInv /\ [Next]_vars => IInv'
<1> SUFFICES ASSUME IInv, [Next]_vars PROVE IInv'
  OBVIOUS
<1>a. ASSUME NEW a \in Alerts
      PROVE  row[a] \in Row /\ Len(chat[a]) \in Nat /\ RowOK(row[a], Len(chat[a]))
  BY LenProperties DEF IInv, TypeOK
<1>1. ASSUME NEW a \in Alerts, NEW v \in Version, Upsert(a, v) PROVE IInv'
  <2> USE <1>1, <1>a
  <2> UNCHANGED <<job, chat, faults, overlapped, ambiguous>> /\ v > row[a].desired
    BY DEF Upsert
  <2>1. CASE row[a].status = "absent"
    <3>1. row' = [row EXCEPT ![a] = Inserted(v)]
      BY <2>1 DEF Upsert
    <3>2. /\ RowOK(Inserted(v), Len(chat[a]))
          /\ \A w \in Workers : JobOK(job[w][a], Inserted(v), Len(chat[a]))
      <4>1. NoJob \in Job /\ JobOK(NoJob, row[a], Len(chat[a]))
        BY NoTypes, NoJobOK
      <4> QED BY <2>1, <4>1, InsertedKeeps, Facts
    <3> QED BY <3>1, <3>2, InsertedType, RowOnly
  <2>2. CASE row[a].status # "absent"
    <3>1. row' = [row EXCEPT ![a] = Raised(row[a], v)]
      BY <2>2 DEF Upsert
    <3>2. /\ RowOK(Raised(row[a], v), Len(chat[a]))
          /\ \A w \in Workers : JobOK(job[w][a], Raised(row[a], v), Len(chat[a]))
      <4>1. NoJob \in Job /\ JobOK(NoJob, row[a], Len(chat[a]))
        BY NoTypes, NoJobOK
      <4> QED BY <4>1, RaisedKeeps, Facts
    <3> QED BY <3>1, <3>2, RaisedType, RowOnly
  <2> QED BY <2>1, <2>2
<1>2. ASSUME NEW w \in Workers, Claim(w) PROVE IInv'
  BY <1>2, ClaimIInv
<1>3. ASSUME NEW w \in Workers, Crash(w) PROVE IInv'
  BY <1>3, CrashIInv
<1>4. ASSUME NEW w \in Workers, NEW a \in Alerts, CallAccepted(w, a) PROVE IInv'
  <2> DEFINE j == job[w][a]
             c == ChatAfter(a, j)
             m == IF j.msg = 0 THEN Len(chat[a]) + 1 ELSE j.msg
             k == [j EXCEPT !.phase = "accepted", !.msg = m]
  <2>1. /\ j.phase = "claimed"
        /\ chat' = [chat EXCEPT ![a] = c]
        /\ job' = [job EXCEPT ![w][a] = k]
        /\ UNCHANGED <<row, faults, overlapped, ambiguous>>
    BY <1>4 DEF CallAccepted, MayCall
  <2>2. /\ j \in Job /\ j.version # 0 /\ j.msg <= Len(chat[a])
        /\ JobOK(j, row[a], Len(chat[a])) /\ Len(chat[a]) \in Nat
    BY <2>1, Facts DEF JobOK
  <2>3. /\ c \in Seq(Version)
        /\ j.msg = 0 => Len(c) = Len(chat[a]) + 1
        /\ j.msg # 0 => Len(c) = Len(chat[a])
    BY <2>2, ChatAfterType DEF IInv
  <2>4. /\ k \in Job /\ k.phase = "accepted" /\ k.version = j.version
        /\ k.msg = IF j.msg = 0 THEN Len(chat[a]) + 1 ELSE j.msg
    <3>1. m \in Nat
      BY <2>2 DEF Job
    <3>2. m = IF j.msg = 0 THEN Len(chat[a]) + 1 ELSE j.msg
      OBVIOUS
    <3> HIDE DEF j, m
    <3> QED BY <2>2, <3>1, <3>2 DEF Job, Phase
  <2>5. ambiguous' \subseteq Alerts
    BY <2>1 DEF IInv, TypeOK
  <2> HIDE DEF j, c, m, k
  <2>6. Len(c) >= Len(chat[a]) /\ JobOK(k, row[a], Len(c))
    BY <2>2, <2>3, <2>4 DEF JobOK, Job
  <2> QED BY <2>1, <2>3, <2>4, <2>5, <2>6, Called
<1>5. ASSUME NEW w \in Workers, NEW a \in Alerts, CallRefused(w, a) PROVE IInv'
  <2> DEFINE k == [job[w][a] EXCEPT !.phase = "failed"]
  <2>1. /\ job[w][a].phase = "claimed"
        /\ job' = [job EXCEPT ![w][a] = k]
        /\ UNCHANGED <<row, chat, faults, overlapped, ambiguous>>
    BY <1>5 DEF CallRefused, MayCall
  <2>2. k \in Job /\ JobOK(k, row[a], Len(chat[a]))
    BY <2>1, Facts DEF Job, Phase, JobOK
  <2>3. chat[a] \in Seq(Version) /\ chat' = [chat EXCEPT ![a] = chat[a]]
    BY <2>1 DEF IInv, TypeOK
  <2> HIDE DEF k
  <2> QED BY <1>a, <2>1, <2>2, <2>3, Called DEF IInv, TypeOK
<1>6. ASSUME NEW w \in Workers, NEW a \in Alerts, AnswerLost(w, a) PROVE IInv'
  <2> DEFINE j == job[w][a]
             c == ChatAfter(a, j)
             k == [j EXCEPT !.phase = "failed"]
  <2>1. /\ j.phase = "claimed"
        /\ chat' = [chat EXCEPT ![a] = c]
        /\ job' = [job EXCEPT ![w][a] = k]
        /\ UNCHANGED <<row, faults, overlapped>>
    BY <1>6 DEF AnswerLost, MayCall
  <2>2. /\ j \in Job /\ j.version # 0 /\ j.msg <= Len(chat[a])
        /\ JobOK(j, row[a], Len(chat[a])) /\ Len(chat[a]) \in Nat
    BY <2>1, Facts DEF JobOK
  <2>3. /\ c \in Seq(Version)
        /\ j.msg = 0 => Len(c) = Len(chat[a]) + 1
        /\ j.msg # 0 => Len(c) = Len(chat[a])
    BY <2>2, ChatAfterType DEF IInv
  <2>4. /\ k \in Job /\ k.phase = "failed" /\ k.version = j.version
        /\ k.msg = j.msg
    BY <2>2 DEF Job, Phase
  <2>5. ambiguous' \subseteq Alerts
    BY <1>6 DEF AnswerLost, IInv, TypeOK
  <2> HIDE DEF j, c, k
  <2>6. Len(c) >= Len(chat[a]) /\ JobOK(k, row[a], Len(c))
    BY <2>2, <2>3, <2>4 DEF JobOK, Job
  <2> QED BY <2>1, <2>3, <2>4, <2>5, <2>6, Called
<1>7. ASSUME NEW w \in Workers, NEW a \in Alerts, SaveDelivered(w, a) PROVE IInv'
  <2>1. Completed(row[a], job[w][a]) \in Row
    BY <1>a, Facts, CompletedType
  <2>2. /\ RowOK(Completed(row[a], job[w][a]), Len(chat[a]))
        /\ \A u \in Workers : JobOK(job[u][a], Completed(row[a], job[w][a]), Len(chat[a]))
    BY <1>7, Facts, CompletedKeeps DEF SaveDelivered
  <2> QED BY <1>7, <2>1, <2>2, Dropped DEF SaveDelivered, IInv, TypeOK
<1>8. ASSUME NEW w \in Workers, NEW a \in Alerts, SaveFailed(w, a) PROVE IInv'
  <2>1. Failed(row[a], job[w][a]) \in Row
    BY <1>a, Facts, FailedType
  <2>2. /\ RowOK(Failed(row[a], job[w][a]), Len(chat[a]))
        /\ \A u \in Workers : JobOK(job[u][a], Failed(row[a], job[w][a]), Len(chat[a]))
    BY <1>8, Facts, FailedKeeps DEF SaveFailed
  <2> QED BY <1>8, <2>1, <2>2, Dropped DEF SaveFailed, IInv, TypeOK
<1>9. ASSUME NEW w \in Workers, NEW a \in Alerts, LoseResult(w, a) PROVE IInv'
  <2>1. row' = [row EXCEPT ![a] = row[a]]
    BY <1>9 DEF LoseResult, IInv, TypeOK
  <2>2. faults' \in 0 .. MaxFaults /\ ambiguous' \subseteq Alerts
    BY <1>9, AlertAssumption DEF LoseResult, IInv, TypeOK
  <2>3. \A u \in Workers : JobOK(job[u][a], row[a], Len(chat[a]))
    BY Facts
  <2> QED BY <1>9, <1>a, <2>1, <2>2, <2>3, Dropped DEF LoseResult
<1>10. ASSUME NEW a \in Alerts, BackoffEnds(a) PROVE IInv'
  <2> DEFINE r == [row[a] EXCEPT !.due = TRUE]
  <2>1. /\ r \in Row /\ RowOK(r, Len(chat[a]))
        /\ \A w \in Workers : JobOK(job[w][a], r, Len(chat[a]))
    BY <1>a, Facts DEF Row, RowOK, JobOK
  <2>2. row' = [row EXCEPT ![a] = r]
    BY <1>10 DEF BackoffEnds
  <2> HIDE DEF r
  <2> QED BY <1>10, <2>1, <2>2, RowOnly DEF BackoffEnds
<1>11. ASSUME NEW a \in Alerts, LockExpires(a) PROVE IInv'
  <2> DEFINE r == [row[a] EXCEPT !.lock = "expired"]
  <2>1. /\ r \in Row /\ RowOK(r, Len(chat[a]))
        /\ \A w \in Workers : JobOK(job[w][a], r, Len(chat[a]))
    BY <1>a, Facts DEF Row, RowOK, JobOK
  <2>2. row' = [row EXCEPT ![a] = r]
    BY <1>11 DEF LockExpires
  <2> HIDE DEF r
  <2> QED BY <1>11, <2>1, <2>2, RowOnly DEF LockExpires
<1>12. CASE UNCHANGED vars
  BY <1>12 DEF vars, IInv, TypeOK, RowOK, JobOK
<1> QED
  BY <1>1, <1>2, <1>3, <1>4, <1>5, <1>6, <1>7, <1>8, <1>9, <1>10, <1>11, <1>12 DEF Next

----------------------------------------------------------------------------
(* Alerts that no two workers were busy with at once.                      *)

\* One worker at most is busy with the alert, and never while it rests.
\* What that worker has claimed is the row's message; what it has sent or
\* edited is shown, and is the row's message unless the row has none yet.
Alone(a) ==
  /\ \A w, u \in Workers : Busy(w, a) /\ Busy(u, a) => w = u
  /\ row[a].status = "active" =>
       /\ \A w \in Workers : ~Busy(w, a)
       /\ chat[a][row[a].msg] = row[a].desired
  /\ \A w \in Workers :
       /\ job[w][a].phase = "claimed" => job[w][a].msg = row[a].msg
       /\ job[w][a].phase = "accepted" =>
            /\ row[a].msg \in {0, job[w][a].msg}
            /\ chat[a][job[w][a].msg] = job[w][a].version

\* The chat's only message is the row's, or a worker is about to save it.
OneMessage(a) ==
  /\ Len(chat[a]) <= 1
  /\ Len(chat[a]) = 1 =>
       \/ row[a].msg = 1
       \/ \E w \in Workers : job[w][a].phase = "accepted" /\ job[w][a].msg = 1

Orderly(a) == Alone(a) /\ (a \notin ambiguous => OneMessage(a))

SInv == IInv /\ \A a \in Alerts \ overlapped : Orderly(a)

\* A step that sends nothing for the alert: time passes, the row is raised or
\* given up, or a worker forgets its job.  Forgetting a message whose id the
\* row does not have is what makes the alert ambiguous.
LEMMA NothingSent ==
  ASSUME IInv, NEW a \in Alerts, Orderly(a),
         chat'[a] = chat[a], row'[a].msg = row[a].msg,
         row'[a].status = "active" => row[a].status = "active" /\ row'[a].desired = row[a].desired,
         \A w \in Workers :
           \/ job'[w][a] = job[w][a]
           \/ /\ job'[w][a].phase \in {"none", "failed"}
              /\ job'[w][a].phase = "failed" => Busy(w, a)
              /\ job[w][a].phase = "accepted" /\ row[a].msg = 0 => a \in ambiguous',
         ambiguous \subseteq ambiguous'
  PROVE  Orderly(a)'
<1>1. \A w \in Workers : Busy(w, a)' => Busy(w, a)
  BY DEF Busy
<1>2. Alone(a)'
  BY <1>1 DEF Orderly, Alone
<1>3. ASSUME a \notin ambiguous'
      PROVE  OneMessage(a)'
  <2>1. OneMessage(a)
    BY <1>3 DEF Orderly
  <2>2. row[a].msg \in Nat /\ row[a].msg <= Len(chat[a]) /\ Len(chat[a]) \in Nat
    BY LenProperties DEF IInv, TypeOK, RowOK, Row
  <2>3. ASSUME Len(chat[a]) = 1, row[a].msg # 1
        PROVE  \E w \in Workers : job'[w][a].phase = "accepted" /\ job'[w][a].msg = 1
    <3>1. PICK w \in Workers : job[w][a].phase = "accepted" /\ job[w][a].msg = 1
      BY <2>1, <2>3 DEF OneMessage
    <3>2. row[a].msg = 0
      BY <2>2, <2>3
    <3>3. job'[w][a] = job[w][a]
      BY <1>3, <3>1, <3>2
    <3> QED BY <3>1, <3>3
  <2> QED BY <2>1, <2>3 DEF OneMessage
<1> QED BY <1>2, <1>3 DEF Orderly

\* A claim that does not overlap takes the alert over from nobody.
LEMMA ClaimOrderly ==
  ASSUME IInv, NEW w \in Workers, Claim(w), NEW a \in Alerts \ overlapped', Orderly(a)
  PROVE  Orderly(a)'
<1>1. PICK S \in SUBSET {b \in Alerts : Claimable(b)} :
        /\ row' = [b \in Alerts |-> IF b \in S THEN ClaimedRow(row[b]) ELSE row[b]]
        /\ job' = [job EXCEPT ![w] =
                     [b \in Alerts |-> IF b \in S THEN Snapshot(row[b]) ELSE NoJob]]
        /\ overlapped' = overlapped \cup {b \in S : \E u \in Workers : Busy(u, b)}
  BY DEF Claim
<1>2. UNCHANGED <<chat, ambiguous>> /\ Idle(w)
  BY DEF Claim
<1>3. \A u \in Workers : u # w => job'[u][a] = job[u][a]
  BY <1>1 DEF IInv, TypeOK
<1>4. NoJob.phase = "none" /\ Claimed # "active"
  BY DEF NoJob, Claimed
<1>5. CASE a \in S
  <2>1. \A u \in Workers : ~Busy(u, a)
    BY <1>1, <1>5
  <2>2. row'[a] = ClaimedRow(row[a]) /\ job'[w][a] = Snapshot(row[a])
    BY <1>1, <1>5 DEF IInv, TypeOK
  <2>3. row[a] \in Row
    BY DEF IInv, TypeOK
  <2>4. /\ row'[a].status = Claimed /\ row'[a].msg = row[a].msg
        /\ job'[w][a].phase = "claimed" /\ job'[w][a].msg = row[a].msg
    BY <2>2, <2>3 DEF ClaimedRow, Snapshot, Row
  <2>5. \A u \in Workers : u # w => job'[u][a].phase = "none"
    BY <1>3, <2>1 DEF Busy
  <2>6. Alone(a)'
    BY <1>2, <1>4, <2>4, <2>5 DEF Alone, Busy
  <2>7. a \notin ambiguous => OneMessage(a)'
    BY <1>2, <2>1, <2>4 DEF Orderly, OneMessage, Busy
  <2> QED BY <1>2, <2>6, <2>7 DEF Orderly
<1>6. CASE a \notin S
  <2>1. row'[a] = row[a] /\ job'[w][a] = NoJob
    BY <1>1, <1>6 DEF IInv, TypeOK
  <2>2. job[w][a].phase = "none"
    BY <1>2 DEF Idle, Busy
  <2> QED BY <1>2, <1>3, <1>4, <2>1, <2>2, NothingSent
<1> QED BY <1>5, <1>6

\* The only worker that is busy with an alert calls Telegram: it edits the
\* message of the row, or sends one if there is none.
LEMMA CallOrderly ==
  ASSUME IInv, NEW w \in Workers, NEW a \in Alerts, Orderly(a),
         CallAccepted(w, a) \/ AnswerLost(w, a)
  PROVE  Orderly(a)'
<1> DEFINE j == job[w][a]
           k == job'[w][a]
<1>1. /\ j.phase = "claimed" /\ row' = row
      /\ chat' = [chat EXCEPT ![a] = ChatAfter(a, j)]
      /\ \A u \in Workers : u # w => job'[u][a] = job[u][a]
      /\ ambiguous \subseteq ambiguous'
  BY DEF CallAccepted, AnswerLost, MayCall, IInv, TypeOK
<1>2. /\ j \in Job /\ j.version # 0 /\ j.msg <= Len(chat[a]) /\ j.msg \in Nat
      /\ chat[a] \in Seq(Version) /\ Len(chat[a]) \in Nat
      /\ row[a].msg = j.msg
      /\ row[a].status # "active"
      /\ \A u \in Workers : u # w => job[u][a].phase = "none"
  <2>1. Busy(w, a)
    BY <1>1 DEF Busy
  <2> QED BY <1>1, <2>1, Facts DEF Orderly, Alone, JobOK, Job, Busy
<1> DEFINE m == IF j.msg = 0 THEN Len(chat[a]) + 1 ELSE j.msg
<1>3. /\ k.phase = "accepted" => k.msg = m /\ k.version = j.version
      /\ k.phase \in {"accepted", "failed"}
      /\ k.phase = "failed" /\ j.msg = 0 => a \in ambiguous'
  <2>1. CASE CallAccepted(w, a)
    <3>1. k = [j EXCEPT !.phase = "accepted", !.msg = m]
      BY <2>1 DEF CallAccepted, IInv, TypeOK
    <3> HIDE DEF k, j, m
    <3> QED BY <1>2, <3>1 DEF Job
  <2>2. CASE AnswerLost(w, a)
    <3>1. k = [j EXCEPT !.phase = "failed"] /\ (j.msg = 0 => a \in ambiguous')
      BY <2>2 DEF AnswerLost, IInv, TypeOK
    <3> HIDE DEF k, j
    <3> QED BY <1>2, <3>1 DEF Job
  <2> QED BY <2>1, <2>2
<1>4. /\ chat'[a] = ChatAfter(a, j)
      /\ chat'[a][m] = j.version
      /\ Len(chat'[a]) = IF j.msg = 0 THEN Len(chat[a]) + 1 ELSE Len(chat[a])
  <2>1. chat'[a] = ChatAfter(a, j)
    BY <1>1 DEF IInv, TypeOK
  <2>2. Len(ChatAfter(a, j)) = IF j.msg = 0 THEN Len(chat[a]) + 1 ELSE Len(chat[a])
    BY <1>2, ChatAfterType DEF IInv
  <2>3. ChatAfter(a, j)[m] = j.version
    <3>1. j.version \in Version
      BY <1>2, AlertAssumption DEF Job, Version
    <3>2. CASE j.msg = 0
      BY <1>2, <3>1, <3>2, AppendProperties DEF ChatAfter
    <3>3. CASE j.msg # 0
      BY <1>2, <3>1, <3>3, ExceptSeq DEF ChatAfter
    <3> QED BY <3>2, <3>3
  <2> QED BY <2>1, <2>2, <2>3
<1> HIDE DEF j, k
<1>5. Alone(a)'
  <2>1. \A u \in Workers : u # w => job'[u][a].phase = "none"
    BY <1>1, <1>2
  <2>2. row'[a].msg \in {0, m}
    BY <1>1, <1>2
  <2> HIDE DEF m
  <2> QED BY <1>1, <1>2, <1>3, <1>4, <2>1, <2>2 DEF Alone, Busy, k
<1>6. ASSUME a \notin ambiguous'
      PROVE  OneMessage(a)'
  <2>1. OneMessage(a)
    BY <1>1, <1>6 DEF Orderly
  <2>2. \A u \in Workers : job[u][a].phase # "accepted"
    BY <1>1, <1>2 DEF j
  <2>3. CASE j.msg = 0
    <3>1. Len(chat[a]) = 0
      <4>1. row[a].msg # 1
        BY <1>2, <2>3
      <4>2. Len(chat[a]) <= 1 /\ Len(chat[a]) # 1
        BY <2>1, <2>2, <4>1 DEF OneMessage
      <4>3. Len(chat[a]) \in Nat
        BY <1>2
      <4>4. \A n \in Nat : n <= 1 /\ n # 1 => n = 0
        OBVIOUS
      <4> QED BY <4>2, <4>3, <4>4
    <3> QED BY <1>3, <1>4, <1>6, <2>3, <3>1 DEF OneMessage, k
  <2>4. CASE j.msg # 0
    BY <1>1, <1>2, <1>4, <2>1, <2>4 DEF OneMessage
  <2> QED BY <2>3, <2>4
<1> QED BY <1>5, <1>6 DEF Orderly

\* The only worker that is busy with an alert saves what it sent or edited:
\* the row comes to rest only in the version that the message shows.
LEMMA SaveOrderly ==
  ASSUME IInv, NEW w \in Workers, NEW a \in Alerts, Orderly(a), SaveDelivered(w, a)
  PROVE  Orderly(a)'
<1> DEFINE j == job[w][a]
           r == row[a]
<1>1. /\ j.phase = "accepted" /\ row'[a] = Completed(r, j) /\ UNCHANGED <<chat, ambiguous>>
      /\ job'[w][a] = NoJob
      /\ \A u \in Workers : u # w => job'[u][a] = job[u][a]
  BY DEF SaveDelivered, IInv, TypeOK
<1>2. /\ j \in Job /\ r \in Row /\ Len(chat[a]) \in Nat
      /\ j.version <= r.desired /\ j.msg # 0 /\ j.msg <= Len(chat[a]) /\ r.msg <= Len(chat[a])
      /\ r.msg \in {0, j.msg} /\ chat[a][j.msg] = j.version
      /\ \A u \in Workers : u # w => job[u][a].phase = "none"
  <2>1. Busy(w, a)
    BY <1>1 DEF Busy
  <2> QED BY <1>1, <2>1, Facts DEF Orderly, Alone, JobOK, RowOK, Busy
<1>3. /\ row'[a].msg = j.msg
      /\ row'[a].status = "active" => row'[a].desired = j.version
  <2> HIDE DEF j, r
  <2> QED BY <1>1, <1>2 DEF Completed, Row, Job
<1>4. \A u \in Workers : job'[u][a].phase = "none"
  BY <1>1, <1>2 DEF NoJob
<1>5. Alone(a)'
  BY <1>1, <1>2, <1>3, <1>4 DEF Alone, Busy
<1>6. a \notin ambiguous => OneMessage(a)'
  BY <1>1, <1>2, <1>3 DEF Orderly, OneMessage, Job
<1> QED BY <1>1, <1>5, <1>6 DEF Orderly

\* The strengthened invariant holds at first and after every step.
LEMMA InitSInv == Init => SInv
<1> SUFFICES ASSUME Init PROVE SInv
  OBVIOUS
<1>1. ASSUME NEW a \in Alerts PROVE Orderly(a)
  <2>1. /\ row[a] = NoRow /\ chat[a] = <<>>
        /\ \A w \in Workers : job[w][a] = NoJob
    BY DEF Init
  <2> QED BY <2>1, EmptySeq DEF Orderly, Alone, OneMessage, Busy, NoRow, NoJob
<1> QED BY <1>1, InitIInv DEF SInv

LEMMA NextSInv == SInv /\ [Next]_vars => SInv'
<1> SUFFICES ASSUME SInv, [Next]_vars, NEW a \in Alerts \ overlapped' PROVE Orderly(a)'
  BY NextIInv DEF SInv
<1>a. /\ IInv /\ row \in [Alerts -> Row] /\ job \in [Workers -> [Alerts -> Job]]
      /\ chat \in [Alerts -> Seq(Version)]
  BY DEF SInv, IInv, TypeOK
<1>b. Orderly(a)
  <2>1. overlapped \subseteq overlapped'
    BY DEF Next, Upsert, Claim, Crash, CallAccepted, CallRefused, AnswerLost, SaveDelivered,
           SaveFailed, LoseResult, BackoffEnds, LockExpires, vars
  <2> QED BY <2>1 DEF SInv
<1>c. NoJob.phase = "none" /\ row[a] \in Row
  BY <1>a DEF NoJob
\* A step for another alert.
<1>d. ASSUME NEW b \in Alerts, b # a,
             \A x \in Alerts : x # b => row'[x] = row[x] /\ chat'[x] = chat[x],
             \A w \in Workers, x \in Alerts : x # b => job'[w][x] = job[w][x],
             ambiguous \subseteq ambiguous'
      PROVE  Orderly(a)'
  <2>1. /\ row'[a] = row[a] /\ chat'[a] = chat[a]
        /\ \A w \in Workers : job'[w][a] = job[w][a]
    BY <1>d
  <2> QED BY <1>a, <1>b, <1>d, <2>1, NothingSent
<1>1. ASSUME NEW b \in Alerts, NEW v \in Version, Upsert(b, v) PROVE Orderly(a)'
  <2>1. /\ UNCHANGED <<job, chat, ambiguous>>
        /\ row' = [row EXCEPT ![b] =
              IF row[b].status = "absent" THEN Inserted(v) ELSE Raised(row[b], v)]
    BY <1>1 DEF Upsert
  <2>2. CASE b = a
    <3>1. row[a].status = "absent" => row[a].msg = 0
      BY <1>a DEF IInv, RowOK
    <3>2. row'[a].msg = row[a].msg /\ row'[a].status # "active"
      BY <1>a, <2>1, <2>2, <3>1 DEF Inserted, Raised
    <3> QED BY <1>a, <1>b, <2>1, <3>2, NothingSent
  <2>3. CASE b # a
    BY <1>a, <1>d, <2>1, <2>3
  <2> QED BY <2>2, <2>3
<1>2. ASSUME NEW w \in Workers, Claim(w) PROVE Orderly(a)'
  BY <1>2, <1>a, <1>b, ClaimOrderly
<1>3. ASSUME NEW w \in Workers, Crash(w) PROVE Orderly(a)'
  <2>1. /\ UNCHANGED <<row, chat>>
        /\ job' = [job EXCEPT ![w] = [b \in Alerts |-> NoJob]]
        /\ ambiguous' = ambiguous \cup UnsavedSends(w)
    BY <1>3 DEF Crash
  <2>2. \A u \in Workers : job'[u][a] = IF u = w THEN NoJob ELSE job[u][a]
    BY <1>a, <2>1
  <2>3. job[w][a].phase = "accepted" /\ row[a].msg = 0 => a \in ambiguous'
    BY <2>1 DEF UnsavedSends
  <2> QED BY <1>a, <1>b, <1>c, <2>1, <2>2, <2>3, NothingSent
<1>4. ASSUME NEW w \in Workers, NEW b \in Alerts, CallAccepted(w, b) \/ AnswerLost(w, b)
      PROVE  Orderly(a)'
  <2>1. CASE b = a
    BY <1>4, <1>a, <1>b, <2>1, CallOrderly
  <2>2. CASE b # a
    <3>1. /\ row' = row
          /\ \A x \in Alerts : x # b => chat'[x] = chat[x]
          /\ \A u \in Workers, x \in Alerts : x # b => job'[u][x] = job[u][x]
          /\ ambiguous \subseteq ambiguous'
      <4>1. CASE CallAccepted(w, b)
        BY <1>a, <4>1 DEF CallAccepted
      <4>2. CASE AnswerLost(w, b)
        BY <1>a, <4>2 DEF AnswerLost
      <4> QED BY <1>4, <4>1, <4>2
    <3> QED BY <1>d, <2>2, <3>1
  <2> QED BY <2>1, <2>2
<1>5. ASSUME NEW w \in Workers, NEW b \in Alerts, CallRefused(w, b) PROVE Orderly(a)'
  <2>1. /\ UNCHANGED <<row, chat, ambiguous>>
        /\ job' = [job EXCEPT ![w][b].phase = "failed"]
        /\ job[w][b].phase = "claimed"
    BY <1>5 DEF CallRefused, MayCall
  <2>2. CASE b = a
    <3>1. /\ job'[w][a].phase = "failed" /\ Busy(w, a) /\ job[w][a].phase # "accepted"
          /\ \A u \in Workers : u # w => job'[u][a] = job[u][a]
      BY <1>a, <2>1, <2>2 DEF Busy, Job
    <3> QED BY <1>a, <1>b, <2>1, <3>1, NothingSent
  <2>3. CASE b # a
    BY <1>a, <1>d, <2>1, <2>3
  <2> QED BY <2>2, <2>3
<1>6. ASSUME NEW w \in Workers, NEW b \in Alerts, SaveDelivered(w, b) PROVE Orderly(a)'
  <2>1. CASE b = a
    BY <1>6, <1>a, <1>b, <2>1, SaveOrderly
  <2>2. CASE b # a
    BY <1>6, <1>a, <1>d, <2>2 DEF SaveDelivered
  <2> QED BY <2>1, <2>2
<1>7. ASSUME NEW w \in Workers, NEW b \in Alerts, SaveFailed(w, b) PROVE Orderly(a)'
  <2>1. /\ UNCHANGED <<chat, ambiguous>> /\ job[w][b].phase = "failed"
        /\ row' = [row EXCEPT ![b] = Failed(row[b], job[w][b])]
        /\ job' = [job EXCEPT ![w][b] = NoJob]
    BY <1>7 DEF SaveFailed
  <2>2. CASE b = a
    <3>1. row'[a].msg = row[a].msg /\ row'[a].status # "active"
      BY <1>a, <2>1, <2>2 DEF Failed
    <3>2. \A u \in Workers : job'[u][a] = IF u = w THEN NoJob ELSE job[u][a]
      BY <1>a, <2>1, <2>2
    <3>3. job[w][a].phase # "accepted"
      BY <2>1, <2>2
    <3> QED BY <1>a, <1>b, <1>c, <2>1, <3>1, <3>2, <3>3, NothingSent
  <2>3. CASE b # a
    BY <1>a, <1>d, <2>1, <2>3
  <2> QED BY <2>2, <2>3
<1>8. ASSUME NEW w \in Workers, NEW b \in Alerts, LoseResult(w, b) PROVE Orderly(a)'
  <2>1. /\ UNCHANGED <<row, chat>>
        /\ job' = [job EXCEPT ![w][b] = NoJob]
        /\ ambiguous' = ambiguous \cup (UnsavedSends(w) \cap {b})
    BY <1>8 DEF LoseResult
  <2>2. CASE b = a
    <3>1. \A u \in Workers : job'[u][a] = IF u = w THEN NoJob ELSE job[u][a]
      BY <1>a, <2>1, <2>2
    <3>2. job[w][a].phase = "accepted" /\ row[a].msg = 0 => a \in ambiguous'
      BY <2>1, <2>2 DEF UnsavedSends
    <3> QED BY <1>a, <1>b, <1>c, <2>1, <3>1, <3>2, NothingSent
  <2>3. CASE b # a
    BY <1>a, <1>d, <2>1, <2>3
  <2> QED BY <2>2, <2>3
<1>9. ASSUME NEW b \in Alerts, BackoffEnds(b) \/ LockExpires(b) PROVE Orderly(a)'
  <2>1. /\ UNCHANGED <<job, chat, ambiguous>>
        /\ \/ row' = [row EXCEPT ![b].due = TRUE]
           \/ row' = [row EXCEPT ![b].lock = "expired"]
    BY <1>9 DEF BackoffEnds, LockExpires
  <2>2. CASE b = a
    <3>1. /\ row'[a].msg = row[a].msg /\ row'[a].status = row[a].status
          /\ row'[a].desired = row[a].desired
      BY <1>a, <2>1, <2>2 DEF Row
    <3> QED BY <1>a, <1>b, <2>1, <3>1, NothingSent
  <2>3. CASE b # a
    BY <1>a, <1>d, <2>1, <2>3
  <2> QED BY <2>2, <2>3
<1>10. CASE UNCHANGED vars
  BY <1>10, <1>a, <1>b, NothingSent DEF vars
<1> QED
  BY <1>1, <1>2, <1>3, <1>4, <1>5, <1>6, <1>7, <1>8, <1>9, <1>10 DEF Next

----------------------------------------------------------------------------
(* Theorems.                                                               *)

\* The strengthened invariant holds in every reachable state: no delivery is
\* ahead of what was asked for, and a job that has not called Telegram yet
\* edits the message its row tracks now, however old its snapshot is.
THEOREM Invariance == Spec => []IInv
  BY InitIInv, NextIInv, PTL DEF Spec

\* Rows, jobs and chats keep their types through every claim, call and save
\* of processTelegramAlerts and through every UPDATE of telegram_alert.go.
THEOREM TypeCorrect == Spec => []TypeOK
<1>1. IInv => TypeOK
  BY DEF IInv
<1> QED BY <1>1, Invariance, PTL

\* A row's status agrees with the message it knows and with its lock, though
\* UpsertTelegramAlertMessage sets the status without looking at the lock and
\* CompleteTelegramAlertMessage and FailTelegramAlertMessage clear a lock
\* that another worker may hold.
THEOREM WellFormedRows == Spec => []RowWellFormed
<1>1. IInv => RowWellFormed
  BY DEF IInv, RowOK, RowWellFormed
<1> QED BY <1>1, Invariance, PTL

\* A row that CompleteTelegramAlertMessage set to active was delivered in the
\* version the consumer asked for last, whatever arrived during the call.
THEOREM NoUpdateLost == Spec => []ActiveIsUpToDate
<1>1. IInv => ActiveIsUpToDate
  BY DEF IInv, RowOK, ActiveIsUpToDate
<1> QED BY <1>1, Invariance, PTL

\* editMessageText is only ever called for the message the row tracks: a
\* snapshot with a message id cannot outlive that id, because
\* CompleteTelegramAlertMessage never replaces one.
THEOREM OnlyTrackedMessageEdited == Spec => EditsOnlyTrackedMessage
<1> DEFINE Tracked == \A a \in Alerts : \A i \in 1 .. Len(chat[a]) :
                        chat'[a][i] # chat[a][i] => i = row[a].msg
<1>1. IInv /\ [Next]_vars => [Tracked]_vars
  <2> SUFFICES ASSUME IInv, Next PROVE Tracked
    BY DEF vars
  <2>1. CASE chat' = chat
    BY <2>1
  <2>2. ASSUME NEW w \in Workers, NEW a \in Alerts, MayCall(w, a),
               chat' = [chat EXCEPT ![a] = ChatAfter(a, job[w][a])]
        PROVE  Tracked
    <3>1. /\ job[w][a] \in Job /\ job[w][a].version # 0
          /\ job[w][a].msg <= Len(chat[a]) /\ Len(chat[a]) \in Nat
          /\ job[w][a].msg # 0 => job[w][a].msg = row[a].msg
      BY <2>2, Facts DEF JobOK, MayCall
    <3>2. \A i \in 1 .. Len(chat[a]) :
            i # job[w][a].msg => ChatAfter(a, job[w][a])[i] = chat[a][i]
      BY <3>1, ChatAfterType DEF IInv
    <3>3. /\ chat'[a] = ChatAfter(a, job[w][a])
          /\ \A b \in Alerts : b # a => chat'[b] = chat[b]
      BY <2>2 DEF IInv, TypeOK
    <3>4. ASSUME NEW b \in Alerts, NEW i \in 1 .. Len(chat[b]), chat'[b][i] # chat[b][i]
          PROVE  i = row[b].msg
      <4>1. b = a /\ i = job[w][a].msg
        BY <3>2, <3>3, <3>4
      <4> QED BY <3>1, <3>4, <4>1
    <3> QED BY <3>4
  <2>3. ASSUME NEW w \in Workers, NEW a \in Alerts, CallAccepted(w, a) PROVE Tracked
    BY <2>2, <2>3 DEF CallAccepted
  <2>4. ASSUME NEW w \in Workers, NEW a \in Alerts, AnswerLost(w, a) PROVE Tracked
    BY <2>2, <2>4 DEF AnswerLost
  <2> QED
    BY <2>1, <2>3, <2>4
    DEF Next, Upsert, Claim, Crash, CallRefused, SaveDelivered, SaveFailed,
        LoseResult, BackoffEnds, LockExpires
<1> QED BY <1>1, Invariance, PTL DEF Spec, EditsOnlyTrackedMessage

\* What the invariant says of the alerts that no two workers were busy with
\* at once.
LEMMA OrderlyAlerts == Spec => []SInv
  BY InitSInv, NextSInv, PTL DEF Spec

\* CompleteTelegramAlertMessage sets a row to active only when the message it
\* tracks shows the desired version, through lost answers, lost results and
\* crashes, unless two workers were busy with the row at once.
THEOREM Converges == Spec => []ConvergedUnlessOverlapped
<1>1. SInv => ConvergedUnlessOverlapped
  BY DEF SInv, Orderly, Alone, ConvergedUnlessOverlapped
<1> QED BY <1>1, OrderlyAlerts, PTL

\* processTelegramAlerts sends a second message for an alert only after the
\* id of a sent one was lost, or while two workers were busy with the row.
THEOREM SecondMessageExplained == Spec => []SingleMessageUnlessAmbiguous
<1>1. SInv => SingleMessageUnlessAmbiguous
  <2> SUFFICES ASSUME SInv, NEW a \in Alerts, a \notin overlapped, a \notin ambiguous
               PROVE  ~(Len(chat[a]) > 1)
    BY DEF SingleMessageUnlessAmbiguous
  <2>1. Len(chat[a]) <= 1
    BY DEF SInv, Orderly, OneMessage
  <2>2. Len(chat[a]) \in Nat
    BY LenProperties DEF SInv, IInv, TypeOK
  <2> QED BY <2>1, <2>2
<1> QED BY <1>1, OrderlyAlerts, PTL
=============================================================================
