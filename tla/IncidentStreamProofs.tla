------------------------ MODULE IncidentStreamProofs ------------------------
(***************************************************************************)
(* Proofs about the stream, for any relays and consumers, any versions,    *)
(* batches and faults, a broker that loses records included: a version     *)
(* takes effect once at most, what is marked as published is in the log,   *)
(* and every step is one of the abstract feed.                             *)
(***************************************************************************)
EXTENDS IncidentStream, SequenceTheorems, TLAPS

\* Only versions that the core committed travel.
OnlyCommitted ==
  /\ \A k \in 1..Len(log) : log[k] \in 1..version
  /\ \A r \in Relays : relay[r].todo \subseteq 1..version /\ relay[r].now \in 0..version
  /\ \A c \in Consumers : consumer[c].phase # "idle" => consumer[c].msg \in 1..version

\* The inbox has the messages that took effect.
InboxIsApplied == Elements(applied) = {row.msg : row \in inbox}

\* A relay that got an acknowledgement has its message in the log.
SentIsLogged ==
  losses = 0 => \A r \in Relays : relay[r].outcome = "sent" => relay[r].now \in Elements(log)

\* Every record up to the committed offset took effect, and the inbox and
\* the consumers go no further than one record beyond.
CommittedIsApplied == \A k \in 1..committed : log[k] \in Elements(applied)

InboxPositions ==
  \A row \in inbox :
    /\ row.offset \in 1..Len(log)
    /\ row.offset <= committed + 1
    /\ row.msg = log[row.offset]

ConsumerPositions ==
  \A c \in Consumers : consumer[c].phase # "idle" =>
    /\ consumer[c].offset \in 1..Len(log)
    /\ consumer[c].offset <= committed + 1
    /\ owner = c => consumer[c].offset = committed + 1
    /\ consumer[c].msg = log[consumer[c].offset]
    /\ consumer[c].phase = "applied" => consumer[c].msg \in Elements(applied)

Positions ==
  losses = 0 => CommittedIsApplied /\ InboxPositions /\ ConsumerPositions

IInv ==
  /\ TypeOK
  /\ OnlyCommitted
  /\ InboxIsApplied
  /\ AppliedAtMostOnce
  /\ SentIsLogged
  /\ PublishedIsLogged
  /\ Positions
  /\ AlertNewestIfLogInOrder

USE StreamAssumption DEF StreamAssumption

----------------------------------------------------------------------------
(* The operators.                                                          *)

\* What an append adds to a sequence of versions.
LEMMA AppendVersion ==
  ASSUME NEW s \in Seq(Version), NEW v \in Version
  PROVE  /\ Append(s, v) \in Seq(Version)
         /\ Len(s) \in Nat
         /\ Len(Append(s, v)) = Len(s) + 1
         /\ \A k \in 1..Len(s) : Append(s, v)[k] = s[k]
         /\ Append(s, v)[Len(s) + 1] = v
         /\ Elements(Append(s, v)) = Elements(s) \cup {v}
<1>1. /\ Append(s, v) \in Seq(Version)
      /\ Len(s) \in Nat
      /\ Len(Append(s, v)) = Len(s) + 1
      /\ \A k \in 1..Len(s) : Append(s, v)[k] = s[k]
      /\ Append(s, v)[Len(s) + 1] = v
  BY AppendProperties, LenProperties
<1> DEFINE longer == Append(s, v)
<1>2. 1..Len(longer) = 1..Len(s) \cup {Len(s) + 1}
  BY <1>1
<1> HIDE DEF longer
<1>3. Elements(longer) = Elements(s) \cup {v}
  BY <1>1, <1>2 DEF Elements, longer
<1> QED
  BY <1>1, <1>3 DEF longer

\* The broker loses the records after the first n.
LEMMA Truncated ==
  ASSUME NEW s \in Seq(Version), NEW n \in 0..Len(s) - 1
  PROVE  /\ SubSeq(s, 1, n) \in Seq(Version)
         /\ Len(SubSeq(s, 1, n)) = n
         /\ \A k \in 1..n : SubSeq(s, 1, n)[k] = s[k]
<1>1. Len(s) \in Nat
  BY LenProperties
<1> QED
  BY <1>1, SubSeqProperties

\* A row whose outcome is recorded is marked as published if it was sent.
LEMMA RecordedRow ==
  ASSUME NEW row \in OutboxRow, NEW outcome
  PROVE  /\ Recorded(row, outcome) \in OutboxRow
         /\ Recorded(row, outcome).published <=> outcome = "sent"
<1>1. (outcome = "sent") \in BOOLEAN
  OBVIOUS
<1> QED
  BY <1>1 DEF Recorded, OutboxRow

----------------------------------------------------------------------------
(* Types.                                                                  *)

\* What TypeOK says of single relays, rows and consumers.
LEMMA Types ==
  ASSUME TypeOK
  PROVE  /\ \A r \in Relays : relay[r] \in RelayState
         /\ \A v \in Version : outbox[v] \in OutboxRow
         /\ \A c \in Consumers : consumer[c] \in ConsumerState
         /\ Len(log) \in Nat /\ Len(applied) \in Nat /\ committed \in Nat
         /\ \A k \in 1..Len(log) : log[k] \in Version
         /\ \A k \in 1..Len(applied) : applied[k] \in Version
BY LenProperties, ElementOfSeq DEF TypeOK

\* A relay that is done with a message has forgotten it.
LEMMA DoneRelay ==
  ASSUME TypeOK, NEW r \in Relays, Done(r)
  PROVE  /\ relay' \in [Relays -> RelayState]
         /\ relay'[r].todo = relay[r].todo
         /\ relay'[r].now = 0
         /\ relay'[r].outcome = "none"
         /\ \A q \in Relays \ {r} : relay'[q] = relay[q]
<1> DEFINE x == [relay[r] EXCEPT !.now = 0, !.outcome = "none"]
<1>1. x \in RelayState /\ x.todo = relay[r].todo /\ x.now = 0 /\ x.outcome = "none"
  <2>1. relay[r] \in RelayState /\ 0 \in 0..MaxVersion
    BY Types
  <2> QED
    BY <2>1 DEF RelayState
<1>2. relay' = [relay EXCEPT ![r] = x]
  BY DEF Done
<1>3. relay \in [Relays -> RelayState]
  BY DEF TypeOK
<1> HIDE DEF x
<1>4. /\ relay' \in [Relays -> RelayState]
      /\ relay'[r] = x
      /\ \A q \in Relays \ {r} : relay'[q] = relay[q]
  BY <1>1, <1>2, <1>3
<1> QED
  BY <1>1, <1>4

\* Claiming, publishing and marking keep the types of relays and rows.
LEMMA RelayTypes ==
  ASSUME TypeOK, NEW r \in Relays, RelayStep(r)
  PROVE  TypeOK'
<1>1. CASE Claim(r)
  <2>1. PICK S \in SUBSET Version :
          /\ relay' = [relay EXCEPT ![r].todo = S]
          /\ outbox' = [v \in Version |->
                          IF v \in S THEN [outbox[v] EXCEPT !.holder = r, !.lock = "held"]
                                     ELSE outbox[v]]
    BY <1>1 DEF Claim
  <2>2. relay' \in [Relays -> RelayState]
    BY <2>1 DEF TypeOK, RelayState
  <2>3. outbox' \in [Version -> OutboxRow]
    <3>1. \A v \in Version : [outbox[v] EXCEPT !.holder = r, !.lock = "held"] \in OutboxRow
      BY Types DEF OutboxRow
    <3> QED
      BY <2>1, <3>1, Types
  <2> QED
    BY <1>1, <2>2, <2>3 DEF Claim, TypeOK, core, consuming
<1>2. CASE Publish(r)
  <2>1. PICK v \in Version, outcome \in {"sent", "unsent"} :
          /\ Attempted(r, v, outcome)
          /\ log' \in {log, Append(log, v)}
          /\ faults' \in 0..MaxFaults
          /\ UNCHANGED <<core, outbox, consuming, losses>>
    <3>1. PICK v \in Version : PublishAcked(r, v) \/ PublishFailed(r, v)
      BY <1>2 DEF Publish
    <3>2. faults \in 0..MaxFaults
      BY DEF TypeOK
    <3>3. CASE PublishAcked(r, v)
      BY <3>2, <3>3 DEF PublishAcked
    <3>4. CASE PublishFailed(r, v)
      BY <3>2, <3>4 DEF PublishFailed, Fault
    <3> QED
      BY <3>1, <3>3, <3>4
  <2>2. relay' \in [Relays -> RelayState]
    BY <2>1 DEF Attempted, TypeOK, RelayState, Version
  <2>3. log' \in Seq(Version) /\ Len(log) \in Nat /\ Len(log) <= Len(log')
    <3>1. log \in Seq(Version) /\ Len(log) \in Nat
      BY Types DEF TypeOK
    <3> QED
      BY <2>1, <3>1, AppendVersion
  <2> QED
    BY <2>1, <2>2, <2>3 DEF TypeOK, core, consuming
<1>3. CASE RecordOutcome(r)
  <2>1. relay' \in [Relays -> RelayState]
    BY <1>3, DoneRelay DEF RecordOutcome
  <2>2. relay[r].now \in Version
    BY <1>3, Types DEF RecordOutcome, RelayState, Version
  <2>3. outbox' \in [Version -> OutboxRow]
    BY <1>3, <2>2, RecordedRow, Types DEF RecordOutcome, TypeOK
  <2> QED
    BY <1>3, <2>1, <2>3 DEF RecordOutcome, TypeOK, core, consuming
<1>4. CASE LoseOutcome(r)
  <2>1. relay' \in [Relays -> RelayState]
    BY <1>4, DoneRelay DEF LoseOutcome
  <2> QED
    BY <1>4, <2>1 DEF LoseOutcome, Fault, TypeOK, core, consuming
<1>5. CASE CrashRelay(r)
  <2>1. relay' \in [Relays -> RelayState]
    BY <1>5 DEF CrashRelay, TypeOK, IdleRelay, RelayState
  <2>2. outbox' \in [Version -> OutboxRow]
    BY <1>5 DEF CrashRelay, TypeOK, OutboxRow
  <2> QED
    BY <1>5, <2>1, <2>2 DEF CrashRelay, Fault, TypeOK, core, consuming
<1> QED
  BY <1>1, <1>2, <1>3, <1>4, <1>5 DEF RelayStep

\* A row whose lock expires or whose delay ends stays a row.
LEMMA RowTypes ==
  ASSUME TypeOK, NEW v \in Version, LockExpires(v) \/ BackoffEnds(v)
  PROVE  TypeOK'
<1>1. outbox' \in [Version -> OutboxRow]
  <2>1. /\ [outbox[v] EXCEPT !.lock = "expired"] \in OutboxRow
        /\ [outbox[v] EXCEPT !.due = TRUE] \in OutboxRow
    BY Types DEF OutboxRow
  <2> QED
    BY <2>1 DEF LockExpires, BackoffEnds, TypeOK
<1>2. faults' \in 0..MaxFaults
  BY DEF LockExpires, BackoffEnds, Fault, TypeOK
<1> QED
  BY <1>1, <1>2 DEF LockExpires, BackoffEnds, TypeOK, core, consuming

\* Fetching, applying and committing keep the types of the consumers.
LEMMA ConsumerTypes ==
  ASSUME TypeOK, NEW c \in Consumers, ConsumerStep(c)
  PROVE  TypeOK'
<1>1. IdleConsumer \in ConsumerState
  BY DEF IdleConsumer, ConsumerState
<1>2. ASSUME Leave(c)
      PROVE  consumer' \in [Consumers -> ConsumerState] /\ owner' \in Consumers \cup {None}
  BY <1>1, <1>2 DEF Leave, TypeOK
<1>3. CASE Assign(c) \/ Evict(c)
  BY <1>3 DEF Assign, Evict, Fault, TypeOK, core, relaying
<1>4. CASE Fetch(c)
  <2>1. committed + 1 \in 1..Len(log)
    BY <1>4, Types DEF Fetch, TypeOK
  <2>2. [phase |-> "fetched", offset |-> committed + 1, msg |-> log[committed + 1]]
          \in ConsumerState
    BY <2>1, Types DEF ConsumerState, Version
  <2> QED
    BY <1>4, <2>2 DEF Fetch, TypeOK, core, relaying
<1>5. CASE Apply(c)
  <2> DEFINE record == consumer[c]
  <2>1. record \in [phase: {"fetched", "applied"}, offset: Nat \ {0}, msg: Version]
    BY <1>5, Types DEF Apply, ConsumerState, IdleConsumer
  <2>2. consumer' \in [Consumers -> ConsumerState]
    BY <1>5, <2>1 DEF Apply, TypeOK, ConsumerState
  <2>3. CASE Seen(record)
    BY <1>5, <2>2, <2>3 DEF Apply, TypeOK, core, relaying
  <2>4. CASE ~Seen(record)
    <3>1. inbox' \subseteq InboxRow
      BY <1>5, <2>1, <2>4 DEF Apply, TypeOK, InboxRow
    <3>2. alert' \in 0..MaxVersion
      BY <1>5, <2>1, <2>4 DEF Apply, AlertAfter, Larger, TypeOK, Version
    <3>3. applied' \in Seq(Version)
      <4>1. applied' = Append(applied, record.msg) /\ record.msg \in Version
        BY <1>5, <2>1, <2>4 DEF Apply
      <4>2. applied \in Seq(Version)
        BY DEF TypeOK
      <4> QED
        BY <4>1, <4>2, AppendVersion
    <3>4. UNCHANGED <<core, relaying, log, committed, owner, faults, losses>>
      BY <1>5 DEF Apply
    <3> QED
      BY <2>2, <3>1, <3>2, <3>3, <3>4 DEF TypeOK, core, relaying
  <2> QED
    BY <2>3, <2>4
<1>6. CASE Reject(c) \/ CrashConsumer(c)
  <2>1. Leave(c)
    BY <1>6 DEF Reject, CrashConsumer
  <2> QED
    BY <1>2, <1>6, <2>1 DEF Reject, CrashConsumer, Fault, TypeOK, core, relaying
<1>7. CASE CommitOffset(c)
  <2>1. consumer[c].offset \in Nat
    BY Types DEF ConsumerState, IdleConsumer
  <2>2. committed' \in 0..Len(log)
    BY <1>7, <2>1, Types DEF CommitOffset, Position, Smaller, TypeOK
  <2>3. consumer' \in [Consumers -> ConsumerState] /\ owner' \in Consumers \cup {None}
    BY <1>1, <1>2, <1>7 DEF CommitOffset, TypeOK
  <2> QED
    BY <1>7, <2>2, <2>3 DEF CommitOffset, TypeOK, core, relaying
<1> QED
  BY <1>3, <1>4, <1>5, <1>6, <1>7 DEF ConsumerStep

\* The types hold at first and after every step.
LEMMA InitTypes == Init => TypeOK
<1> SUFFICES ASSUME Init PROVE TypeOK
  OBVIOUS
<1>1. outbox \in [Version -> OutboxRow]
  BY DEF Init, FreshRow, OutboxRow
<1>2. relay \in [Relays -> RelayState]
  BY DEF Init, IdleRelay, RelayState
<1>3. consumer \in [Consumers -> ConsumerState]
  BY DEF Init, ConsumerState
<1>4. log \in Seq(Version) /\ applied \in Seq(Version) /\ Len(log) = 0
  BY DEF Init
<1> QED
  BY <1>1, <1>2, <1>3, <1>4 DEF Init, TypeOK

LEMMA NextTypes ==
  ASSUME TypeOK, [Next]_vars
  PROVE  TypeOK'
<1>1. CASE Commit
  <2>1. version' \in 0..MaxVersion /\ triggers' \subseteq Version
    <3>1. version \in 0..MaxVersion /\ triggers \subseteq Version
      BY DEF TypeOK
    <3>2. /\ version < MaxVersion /\ version' = version + 1
          /\ triggers' = triggers \/ triggers' = triggers \cup {version + 1}
      BY <1>1 DEF Commit
    <3>3. version + 1 \in 0..MaxVersion /\ version + 1 \in Version
      BY <3>1, <3>2 DEF Version
    <3> QED
      BY <3>1, <3>2, <3>3
  <2>2. /\ UNCHANGED <<outbox, relay, log, faults, losses>>
        /\ UNCHANGED <<committed, owner, consumer, inbox, alert, applied>>
    BY <1>1 DEF Commit, relaying, consuming
  <2> QED
    BY <2>1, <2>2 DEF TypeOK
<1>2. CASE LoseRecords
  <2>1. PICK n \in 0..Len(log) - 1 :
          log' = SubSeq(log, 1, n) /\ committed' = Smaller(committed, n)
    BY <1>2 DEF LoseRecords
  <2>2. log' \in Seq(Version) /\ Len(log') = n
    BY <2>1, Truncated DEF TypeOK
  <2>3. committed' \in 0..Len(log')
    BY <2>1, <2>2, Types DEF Smaller
  <2>4. faults' \in 0..MaxFaults /\ losses' \in 0..MaxLosses
    BY <1>2 DEF LoseRecords, Fault, TypeOK
  <2> QED
    BY <1>2, <2>2, <2>3, <2>4 DEF LoseRecords, TypeOK, core, relaying
<1>3. CASE UNCHANGED vars
  BY <1>3 DEF vars, TypeOK, core, relaying, consuming
<1>4. CASE \E r \in Relays : RelayStep(r)
  BY <1>4, RelayTypes
<1>5. CASE \E v \in Version : LockExpires(v) \/ BackoffEnds(v)
  BY <1>5, RowTypes
<1>6. CASE \E c \in Consumers : ConsumerStep(c)
  BY <1>6, ConsumerTypes
<1> QED
  BY <1>1, <1>2, <1>3, <1>4, <1>5, <1>6 DEF Next

----------------------------------------------------------------------------
(* The core and its relays.                                                *)

\* A log that at most grows keeps what the consumers rely on: the records
\* they handled stay where they are.
LEMMA LogGrows ==
  ASSUME IInv, UNCHANGED <<consuming, losses>>,
         log' = log \/ \E v \in 1..version : log' = Append(log, v)
  PROVE  /\ Elements(log) \subseteq Elements(log')
         /\ \A k \in 1..Len(log') : log'[k] \in 1..version
         /\ InboxIsApplied' /\ AppliedAtMostOnce' /\ Positions' /\ AlertNewestIfLogInOrder'
<1>1. log \in Seq(Version) /\ Len(log) \in Nat /\ version \in 0..MaxVersion
  BY Types DEF IInv, TypeOK
<1>2. /\ Elements(log) \subseteq Elements(log')
      /\ \A k \in 1..Len(log') : log'[k] \in 1..version
      /\ Len(log') \in Nat /\ Len(log) <= Len(log')
      /\ \A k \in 1..Len(log) : log'[k] = log[k]
  <2>1. CASE log' = log
    BY <1>1, <2>1 DEF IInv, OnlyCommitted
  <2>2. CASE \E v \in 1..version : log' = Append(log, v)
    <3>1. PICK v \in 1..version : log' = Append(log, v)
      BY <2>2
    <3>2. v \in Version
      BY <1>1, <3>1 DEF Version
    <3>3. /\ Len(log') = Len(log) + 1
          /\ \A k \in 1..Len(log) : log'[k] = log[k]
          /\ log'[Len(log) + 1] = v
          /\ Elements(log') = Elements(log) \cup {v}
      BY <1>1, <3>1, <3>2, AppendVersion
    <3>4. ASSUME NEW k \in 1..Len(log')
          PROVE  log'[k] \in 1..version
      <4>1. k \in 1..Len(log) \/ k = Len(log) + 1
        BY <1>1, <3>3
      <4> QED
        BY <3>1, <3>3, <4>1 DEF IInv, OnlyCommitted
    <3> QED
      BY <1>1, <3>3, <3>4
  <2> QED
    BY <2>1, <2>2
<1>3. /\ UNCHANGED <<committed, owner, consumer, inbox, alert, applied, losses>>
      /\ committed \in 0..Len(log)
  BY DEF consuming, IInv, TypeOK
<1>4. InboxIsApplied' /\ AppliedAtMostOnce'
  BY <1>3 DEF IInv, InboxIsApplied, AppliedAtMostOnce, Elements
<1>5. Positions'
  <2> SUFFICES ASSUME losses = 0
               PROVE  CommittedIsApplied' /\ InboxPositions' /\ ConsumerPositions'
    BY <1>3 DEF Positions
  <2>1. CommittedIsApplied /\ InboxPositions /\ ConsumerPositions
    BY DEF IInv, Positions
  <2>2. \A k \in 1..committed : k \in 1..Len(log)
    BY <1>1, <1>3
  <2>3. CommittedIsApplied'
    BY <1>2, <1>3, <2>1, <2>2 DEF CommittedIsApplied, Elements
  <2>4. InboxPositions'
    BY <1>1, <1>2, <1>3, <2>1 DEF InboxPositions
  <2>5. ConsumerPositions'
    BY <1>1, <1>2, <1>3, <2>1 DEF ConsumerPositions, Elements
  <2> QED
    BY <2>3, <2>4, <2>5
<1>6. AlertNewestIfLogInOrder'
  <2>1. LogInOrder' => LogInOrder
    <3> SUFFICES ASSUME LogInOrder',
                        NEW j \in 1..Len(log), NEW k \in 1..Len(log), j < k, log[j] > log[k]
                 PROVE  \E i \in 1..j : log[i] = log[k]
      BY DEF LogInOrder
    <3>1. j \in 1..Len(log') /\ k \in 1..Len(log') /\ log'[j] > log'[k]
      BY <1>1, <1>2
    <3>2. PICK i \in 1..j : log'[i] = log'[k]
      BY <3>1 DEF LogInOrder
    <3>3. i \in 1..Len(log)
      BY <1>1
    <3> QED
      BY <1>2, <3>2, <3>3
  <2> QED
    BY <1>3, <2>1 DEF IInv, AlertNewestIfLogInOrder, Elements
<1> QED
  BY <1>2, <1>4, <1>5, <1>6

\* Committing a version disturbs nothing.
LEMMA CommitKeeps ==
  ASSUME IInv, Commit, TypeOK'
  PROVE  IInv'
<1>1. /\ UNCHANGED <<outbox, relay, log, losses>>
      /\ UNCHANGED <<committed, owner, consumer, inbox, alert, applied>>
  BY DEF Commit, relaying, consuming
<1>2. version \in Nat /\ version' = version + 1
  BY DEF Commit, IInv, TypeOK
<1>3. 1..version \subseteq 1..version' /\ 0..version \subseteq 0..version'
  BY <1>2
<1>4. OnlyCommitted'
  BY <1>1, <1>3 DEF IInv, OnlyCommitted
<1>5. SentIsLogged' /\ PublishedIsLogged'
  BY <1>1 DEF IInv, SentIsLogged, PublishedIsLogged, Elements
<1>6. InboxIsApplied' /\ AppliedAtMostOnce' /\ Positions' /\ AlertNewestIfLogInOrder'
  BY <1>1, LogGrows DEF consuming
<1> QED
  BY <1>4, <1>5, <1>6 DEF IInv

\* Claiming, publishing and marking: only an acknowledged message that is
\* in the log is ever marked as published.
LEMMA RelayKeeps ==
  ASSUME IInv, NEW r \in Relays, RelayStep(r), TypeOK'
  PROVE  IInv'
<1>1. /\ UNCHANGED <<version, losses>>
      /\ UNCHANGED <<committed, owner, consumer, inbox, alert, applied>>
      /\ log' = log \/ \E v \in 1..version : log' = Append(log, v)
  <2>1. CASE Publish(r)
    <3>1. PICK v \in Version : PublishAcked(r, v) \/ PublishFailed(r, v)
      BY <2>1 DEF Publish
    <3>2. v \in relay[r].todo
      BY <3>1 DEF PublishAcked, PublishFailed, Attempted
    <3>3. v \in 1..version
      BY <3>2 DEF IInv, OnlyCommitted
    <3> QED
      BY <3>1, <3>3 DEF PublishAcked, PublishFailed, core, consuming
  <2>2. CASE Claim(r)
    BY <2>2 DEF Claim, core, consuming
  <2>3. CASE RecordOutcome(r) \/ LoseOutcome(r) \/ CrashRelay(r)
    BY <2>3 DEF RecordOutcome, LoseOutcome, CrashRelay, core, consuming
  <2> QED
    BY <2>1, <2>2, <2>3 DEF RelayStep
<1>2. /\ Elements(log) \subseteq Elements(log')
      /\ \A k \in 1..Len(log') : log'[k] \in 1..version
      /\ InboxIsApplied' /\ AppliedAtMostOnce' /\ Positions' /\ AlertNewestIfLogInOrder'
  BY <1>1, LogGrows DEF consuming
<1>3. \A q \in Relays :
        /\ relay[q] \in RelayState
        /\ relay[q].todo \subseteq 1..version
        /\ relay[q].now \in 0..version
        /\ losses = 0 /\ relay[q].outcome = "sent" => relay[q].now \in Elements(log)
  BY Types DEF IInv, OnlyCommitted, SentIsLogged
<1>4. relay \in [Relays -> RelayState] /\ outbox \in [Version -> OutboxRow]
  BY DEF IInv, TypeOK
\* The relays: what each has claimed and what it learnt.
<1>5. \A q \in Relays :
        /\ relay'[q].todo \subseteq 1..version
        /\ relay'[q].now \in 0..version
        /\ losses = 0 /\ relay'[q].outcome = "sent" => relay'[q].now \in Elements(log')
  <2>1. CASE Claim(r)
    <3>1. PICK S \in SUBSET {v \in Version : Claimable(v)} :
            relay' = [relay EXCEPT ![r].todo = S]
      BY <2>1 DEF Claim
    <3>2. S \subseteq 1..version
      BY <3>1 DEF Claimable, Version, IInv, TypeOK
    <3> QED
      BY <1>2, <1>3, <1>4, <3>1, <3>2 DEF RelayState
  <2>2. CASE Publish(r)
    <3>1. PICK v \in Version, outcome \in {"sent", "unsent"} :
            /\ v \in relay[r].todo
            /\ relay' = [relay EXCEPT ![r] =
                           [todo |-> @.todo \ {v}, now |-> v, outcome |-> outcome]]
            /\ outcome = "sent" => log' = Append(log, v)
      BY <2>2 DEF Publish, PublishAcked, PublishFailed, Attempted
    <3>2. v \in 1..version /\ v \in 0..version
      BY <1>3, <3>1
    <3>3. outcome = "sent" => v \in Elements(log')
      <4>1. log \in Seq(Version)
        BY DEF IInv, TypeOK
      <4>2. Elements(Append(log, v)) = Elements(log) \cup {v}
        BY <4>1, AppendVersion
      <4> QED
        BY <3>1, <4>2
    <3> QED
      BY <1>2, <1>3, <1>4, <3>1, <3>2, <3>3
  <2>3. CASE RecordOutcome(r) \/ LoseOutcome(r)
    <3>1. /\ relay'[r].todo = relay[r].todo
          /\ relay'[r].now = 0
          /\ relay'[r].outcome = "none"
          /\ \A q \in Relays \ {r} : relay'[q] = relay[q]
      BY <2>3, DoneRelay DEF RecordOutcome, LoseOutcome, IInv
    <3>2. 0 \in 0..version
      BY DEF IInv, TypeOK
    <3> QED
      BY <1>2, <1>3, <3>1, <3>2
  <2>4. CASE CrashRelay(r)
    <3>1. relay' = [relay EXCEPT ![r] = IdleRelay] /\ 0 \in 0..version
      BY <2>4 DEF CrashRelay, IInv, TypeOK
    <3> QED
      BY <1>2, <1>3, <1>4, <3>1 DEF IdleRelay
  <2> QED
    BY <2>1, <2>2, <2>3, <2>4 DEF RelayStep
<1>6. OnlyCommitted' /\ SentIsLogged'
  BY <1>1, <1>2, <1>5 DEF IInv, OnlyCommitted, SentIsLogged
\* The rows: one is marked only by the relay that got the acknowledgement.
<1>7. PublishedIsLogged'
  <2> SUFFICES ASSUME losses = 0, NEW w \in Version, outbox'[w].published
               PROVE  w \in Elements(log')
    BY <1>1 DEF PublishedIsLogged
  <2>1. outbox[w].published => w \in Elements(log')
    BY <1>2 DEF IInv, PublishedIsLogged
  <2>2. CASE Claim(r) \/ CrashRelay(r)
    <3>1. outbox'[w].published = outbox[w].published
      <4>1. outbox[w] \in OutboxRow
        BY <1>4
      <4>2. /\ [outbox[w] EXCEPT !.holder = r, !.lock = "held"].published = outbox[w].published
            /\ [outbox[w] EXCEPT !.holder = None].published = outbox[w].published
        BY <4>1 DEF OutboxRow
      <4>3. outbox'[w] \in {outbox[w], [outbox[w] EXCEPT !.holder = r, !.lock = "held"],
                            [outbox[w] EXCEPT !.holder = None]}
        BY <2>2 DEF Claim, CrashRelay
      <4> QED
        BY <4>2, <4>3
    <3> QED
      BY <2>1, <3>1
  <2>3. CASE Publish(r) \/ LoseOutcome(r)
    BY <2>1, <2>3 DEF Publish, PublishAcked, PublishFailed, LoseOutcome
  <2>4. CASE RecordOutcome(r)
    <3> DEFINE v == relay[r].now
    <3>1. CASE w = v /\ Holds(r, v)
      <4>1. outbox'[w] = Recorded(outbox[w], relay[r].outcome) /\ outbox[w] \in OutboxRow
        BY <1>4, <2>4, <3>1 DEF RecordOutcome
      <4>2. relay[r].outcome = "sent"
        BY <4>1, RecordedRow
      <4> QED
        BY <1>2, <1>3, <3>1, <4>2
    <3>2. CASE ~(w = v /\ Holds(r, v))
      <4>1. outbox'[w] = outbox[w]
        BY <1>4, <2>4, <3>2 DEF RecordOutcome
      <4> QED
        BY <2>1, <4>1
    <3> QED
      BY <3>1, <3>2
  <2> QED
    BY <2>2, <2>3, <2>4 DEF RelayStep
<1> QED
  BY <1>2, <1>6, <1>7 DEF IInv

\* An expired lock and the end of a delay leave the rows as published as
\* they were.
LEMMA RowKeeps ==
  ASSUME IInv, NEW v \in Version, LockExpires(v) \/ BackoffEnds(v), TypeOK'
  PROVE  IInv'
<1>1. /\ UNCHANGED <<version, relay, log, losses>>
      /\ UNCHANGED <<committed, owner, consumer, inbox, alert, applied>>
  BY DEF LockExpires, BackoffEnds, core, consuming
<1>2. \A w \in Version : outbox'[w].published = outbox[w].published
  <2>1. outbox \in [Version -> OutboxRow]
    BY DEF IInv, TypeOK
  <2> QED
    BY <2>1 DEF LockExpires, BackoffEnds, OutboxRow
<1>3. OnlyCommitted'
  BY <1>1 DEF IInv, OnlyCommitted
<1>4. SentIsLogged' /\ PublishedIsLogged'
  BY <1>1, <1>2 DEF IInv, SentIsLogged, PublishedIsLogged, Elements
<1>5. InboxIsApplied' /\ AppliedAtMostOnce' /\ Positions' /\ AlertNewestIfLogInOrder'
  BY <1>1, LogGrows DEF consuming
<1> QED
  BY <1>3, <1>4, <1>5 DEF IInv

----------------------------------------------------------------------------
(* The notification consumers.                                             *)

\* A consumer that starts, loses or commits its position handles no record
\* twice: the group goes on at the first record that did not take effect.
LEMMA PositionKeeps ==
  ASSUME IInv, NEW c \in Consumers, ConsumerStep(c), ~Apply(c)
  PROVE  /\ Positions'
         /\ \A d \in Consumers : consumer'[d].phase # "idle" => consumer'[d].msg \in 1..version
<1>1. UNCHANGED <<log, inbox, applied, losses>>
  BY DEF ConsumerStep, Assign, Evict, Fetch, Reject, CommitOffset, CrashConsumer, relaying
<1>2. /\ Len(log) \in Nat /\ committed \in 0..Len(log)
      /\ consumer \in [Consumers -> ConsumerState]
      /\ None \notin Consumers
      /\ \A k \in 1..Len(log) : log[k] \in 1..version
      /\ \A d \in Consumers : consumer[d].phase # "idle" => consumer[d].msg \in 1..version
  BY Types DEF IInv, TypeOK, OnlyCommitted
<1>3. losses = 0 => CommittedIsApplied /\ InboxPositions /\ ConsumerPositions
  BY DEF IInv, Positions
<1>4. IdleConsumer.phase = "idle"
  BY DEF IdleConsumer
\* A position that stays where it is.
<1>5. ASSUME committed' = committed,
             \A d \in Consumers :
               \/ consumer'[d].phase = "idle"
               \/ consumer'[d] = consumer[d] /\ (owner' = d => owner = d)
      PROVE  /\ Positions'
             /\ \A d \in Consumers : consumer'[d].phase # "idle" => consumer'[d].msg \in 1..version
  <2>1. losses = 0 => CommittedIsApplied' /\ InboxPositions'
    BY <1>1, <1>3, <1>5 DEF CommittedIsApplied, InboxPositions, Elements
  <2>2. losses = 0 => ConsumerPositions'
    BY <1>1, <1>3, <1>5 DEF ConsumerPositions, Elements
  <2> QED
    BY <1>1, <1>2, <1>5, <2>1, <2>2 DEF Positions
<1>6. CASE Assign(c)
  <2>1. /\ committed' = committed /\ consumer' = consumer /\ owner' = c
        /\ consumer[c].phase = "idle"
    BY <1>4, <1>6 DEF Assign
  <2> QED
    BY <1>5, <2>1
<1>7. CASE Evict(c)
  <2>1. committed' = committed /\ consumer' = consumer /\ owner' = None
    BY <1>7 DEF Evict
  <2> QED
    BY <1>2, <1>5, <2>1
<1>8. ASSUME Leave(c), committed' = committed
      PROVE  /\ Positions'
             /\ \A d \in Consumers : consumer'[d].phase # "idle" => consumer'[d].msg \in 1..version
  <2>1. /\ consumer'[c].phase = "idle"
        /\ \A d \in Consumers \ {c} : consumer'[d] = consumer[d]
        /\ owner' = owner \/ owner' = None
    BY <1>2, <1>4, <1>8 DEF Leave
  <2> QED
    BY <1>2, <1>5, <1>8, <2>1
<1>9. CASE Reject(c) \/ CrashConsumer(c)
  BY <1>8, <1>9 DEF Reject, CrashConsumer
<1>10. CASE Fetch(c)
  <2>1. /\ committed + 1 \in 1..Len(log)
        /\ consumer'[c] = [phase |-> "fetched", offset |-> committed + 1,
                           msg |-> log[committed + 1]]
        /\ \A d \in Consumers \ {c} : consumer'[d] = consumer[d]
        /\ committed' = committed /\ owner' = owner
    BY <1>2, <1>10 DEF Fetch
  <2>2. /\ consumer'[c].phase = "fetched"
        /\ consumer'[c].offset = committed + 1
        /\ consumer'[c].msg = log[committed + 1]
    BY <2>1
  <2>3. losses = 0 => CommittedIsApplied' /\ InboxPositions'
    BY <1>1, <1>3, <2>1 DEF CommittedIsApplied, InboxPositions, Elements
  <2>4. losses = 0 => ConsumerPositions'
    BY <1>1, <1>2, <1>3, <2>1, <2>2 DEF ConsumerPositions, Elements
  <2> QED
    BY <1>1, <1>2, <2>1, <2>2, <2>3, <2>4 DEF Positions
<1>11. CASE CommitOffset(c)
  <2>1. CASE owner = c
    <3>1. /\ consumer[c].phase = "applied"
          /\ consumer'[c].phase = "idle"
          /\ \A d \in Consumers \ {c} : consumer'[d] = consumer[d]
          /\ owner' = c
          /\ committed' = Position(c)
      BY <1>2, <1>4, <1>11, <2>1 DEF CommitOffset, Handled
    <3>2. ASSUME losses = 0
          PROVE  CommittedIsApplied' /\ InboxPositions' /\ ConsumerPositions'
      <4>1. /\ committed + 1 \in 1..Len(log)
            /\ consumer[c].offset = committed + 1
            /\ log[committed + 1] \in Elements(applied)
        BY <1>2, <1>3, <2>1, <3>1, <3>2 DEF ConsumerPositions
      <4>2. committed' = committed + 1
        BY <1>2, <3>1, <4>1 DEF Position, Smaller
      <4>3. CommittedIsApplied'
        <5>1. \A k \in 1..committed + 1 : k \in 1..committed \/ k = committed + 1
          BY <1>2
        <5> QED
          BY <1>1, <1>3, <3>2, <4>1, <4>2, <5>1 DEF CommittedIsApplied, Elements
      <4>4. InboxPositions'
        BY <1>1, <1>2, <1>3, <3>2, <4>1, <4>2 DEF InboxPositions, InboxRow, IInv, TypeOK
      <4>5. ConsumerPositions'
        <5> SUFFICES ASSUME NEW d \in Consumers \ {c}, consumer[d].phase # "idle"
                     PROVE  /\ consumer[d].offset \in 1..Len(log)
                            /\ consumer[d].offset <= committed + 2
                            /\ consumer[d].msg = log[consumer[d].offset]
                            /\ consumer[d].phase = "applied" =>
                                 consumer[d].msg \in Elements(applied)
          BY <1>1, <1>2, <3>1, <4>2 DEF ConsumerPositions, Elements
        <5> QED
          BY <1>2, <1>3, <3>2 DEF ConsumerPositions
      <4> QED
        BY <4>3, <4>4, <4>5
    <3> QED
      BY <1>1, <1>2, <3>1, <3>2 DEF Positions
  <2>2. CASE owner # c
    BY <1>8, <1>11, <2>2 DEF CommitOffset
  <2> QED
    BY <2>1, <2>2
<1> QED
  BY <1>6, <1>7, <1>9, <1>10, <1>11 DEF ConsumerStep

\* What a consumer applies either took effect before or is recorded in the
\* inbox in the same transaction.
LEMMA Applies ==
  ASSUME IInv, NEW c \in Consumers, Apply(c)
  PROVE  LET m == consumer[c].msg IN
         /\ m \in 1..version
         /\ consumer[c].phase = "fetched"
         /\ consumer'[c].phase = "applied"
         /\ consumer'[c].offset = consumer[c].offset
         /\ consumer'[c].msg = m
         /\ \A d \in Consumers \ {c} : consumer'[d] = consumer[d]
         /\ UNCHANGED <<version, outbox, relay, log, committed, owner, losses>>
         /\ \/ /\ m \in Elements(applied)
               /\ UNCHANGED <<inbox, alert, applied>>
            \/ /\ m \notin Elements(applied)
               /\ inbox' = inbox \cup {[msg |-> m, offset |-> consumer[c].offset]}
               /\ alert' = AlertAfter(m)
               /\ applied' = Append(applied, m)
               /\ Elements(applied') = Elements(applied) \cup {m}
<1> DEFINE m == consumer[c].msg
<1>1. /\ consumer[c].phase = "fetched" /\ ~Conflicts(consumer[c])
      /\ consumer' = [consumer EXCEPT ![c].phase = "applied"]
      /\ UNCHANGED <<version, outbox, relay, log, committed, owner, losses>>
  BY DEF Apply, core, relaying
<1>2. /\ consumer \in [Consumers -> ConsumerState]
      /\ consumer[c] \in [phase: {"fetched", "applied"}, offset: Nat \ {0}, msg: Version]
      /\ applied \in Seq(Version)
  BY <1>1, Types DEF IInv, TypeOK, ConsumerState, IdleConsumer
<1>3. m \in Version /\ m \in 1..version
  BY <1>1, <1>2 DEF IInv, OnlyCommitted
<1>4. /\ consumer'[c].phase = "applied"
      /\ consumer'[c].offset = consumer[c].offset
      /\ consumer'[c].msg = m
      /\ \A d \in Consumers \ {c} : consumer'[d] = consumer[d]
  BY <1>1, <1>2
<1>5. CASE Seen(consumer[c])
  <2>1. \E row \in inbox : row.msg = m
    BY <1>1, <1>5 DEF Seen, Conflicts
  <2>2. m \in Elements(applied)
    BY <2>1 DEF IInv, InboxIsApplied
  <2> QED
    BY <1>1, <1>3, <1>4, <1>5, <2>2 DEF Apply
<1>6. CASE ~Seen(consumer[c])
  <2>1. m \notin Elements(applied)
    BY <1>6 DEF IInv, InboxIsApplied, Seen
  <2>2. /\ inbox' = inbox \cup {[msg |-> m, offset |-> consumer[c].offset]}
        /\ alert' = AlertAfter(m)
        /\ applied' = Append(applied, m)
    BY <1>6 DEF Apply
  <2>3. Elements(applied') = Elements(applied) \cup {m}
    BY <1>2, <1>3, <2>2, AppendVersion
  <2> QED
    BY <1>1, <1>3, <1>4, <2>1, <2>2, <2>3
<1> QED
  BY <1>5, <1>6

\* A version takes effect: it did not before, and if it starts the alert
\* while the log is in order, no newer version took effect before it.
LEMMA ApplyKeeps ==
  ASSUME IInv, NEW c \in Consumers, Apply(c), TypeOK'
  PROVE  IInv'
<1> DEFINE m == consumer[c].msg
<1>1. /\ m \in 1..version
      /\ consumer[c].phase = "fetched"
      /\ consumer'[c].phase = "applied"
      /\ consumer'[c].offset = consumer[c].offset
      /\ consumer'[c].msg = m
      /\ \A d \in Consumers \ {c} : consumer'[d] = consumer[d]
      /\ UNCHANGED <<version, outbox, relay, log, committed, owner, losses>>
  BY Applies
<1>2. \/ /\ m \in Elements(applied)
         /\ UNCHANGED <<inbox, alert, applied>>
      \/ /\ m \notin Elements(applied)
         /\ inbox' = inbox \cup {[msg |-> m, offset |-> consumer[c].offset]}
         /\ alert' = AlertAfter(m)
         /\ applied' = Append(applied, m)
         /\ Elements(applied') = Elements(applied) \cup {m}
  BY Applies
<1> HIDE DEF m
<1>3. /\ Len(log) \in Nat /\ committed \in 0..Len(log)
      /\ applied \in Seq(Version) /\ Len(applied) \in Nat
      /\ version \in 0..MaxVersion /\ alert \in 0..MaxVersion
      /\ m \in Version
  BY <1>1, Types DEF IInv, TypeOK, Version
<1>4. OnlyCommitted'
  BY <1>1 DEF IInv, OnlyCommitted
<1>5. SentIsLogged' /\ PublishedIsLogged'
  BY <1>1 DEF IInv, SentIsLogged, PublishedIsLogged, Elements
<1>6. InboxIsApplied'
  <2>1. [msg |-> m, offset |-> consumer[c].offset].msg = m
    OBVIOUS
  <2> QED
    BY <1>2, <2>1 DEF IInv, InboxIsApplied, Elements
<1>7. AppliedAtMostOnce'
  <2>1. CASE UNCHANGED applied
    BY <2>1 DEF IInv, AppliedAtMostOnce
  <2>2. CASE m \notin Elements(applied) /\ applied' = Append(applied, m)
    <3>1. /\ Len(applied') = Len(applied) + 1
          /\ \A k \in 1..Len(applied) : applied'[k] = applied[k]
          /\ applied'[Len(applied) + 1] = m
      BY <1>3, <2>2, AppendVersion
    <3>2. \A k \in 1..Len(applied) : applied[k] # m
      BY <2>2 DEF Elements
    <3>3. \A k \in 1..Len(applied') : k \in 1..Len(applied) \/ k = Len(applied) + 1
      BY <1>3, <3>1
    <3> QED
      BY <3>1, <3>2, <3>3 DEF IInv, AppliedAtMostOnce
  <2> QED
    BY <1>2, <2>1, <2>2
\* The record that is applied is at most one beyond the committed offset.
<1>8. losses = 0 =>
        /\ CommittedIsApplied /\ InboxPositions /\ ConsumerPositions
        /\ consumer[c].offset \in 1..Len(log)
        /\ consumer[c].offset <= committed + 1
        /\ m = log[consumer[c].offset]
  BY <1>1 DEF IInv, Positions, ConsumerPositions, m
<1>9. Elements(applied) \subseteq Elements(applied') /\ m \in Elements(applied')
  BY <1>2
<1>10. Positions'
  <2> SUFFICES ASSUME losses = 0
               PROVE  CommittedIsApplied' /\ InboxPositions' /\ ConsumerPositions'
    BY <1>1 DEF Positions
  <2>1. CommittedIsApplied'
    BY <1>1, <1>8, <1>9 DEF CommittedIsApplied, Elements
  <2>2. InboxPositions'
    BY <1>1, <1>2, <1>8 DEF InboxPositions
  <2>3. ConsumerPositions'
    BY <1>1, <1>8, <1>9 DEF ConsumerPositions
  <2> QED
    BY <2>1, <2>2, <2>3
<1>11. AlertNewestIfLogInOrder'
  <2> SUFFICES ASSUME losses = 0, LogInOrder, alert' # 0, NEW v \in Elements(applied')
               PROVE  v <= alert'
    BY <1>1 DEF AlertNewestIfLogInOrder, LogInOrder, Elements
  <2>1. alert # 0 => \A u \in Elements(applied) : u <= alert
    BY DEF IInv, AlertNewestIfLogInOrder
  <2>2. \A u \in Elements(applied) : u \in Nat
    BY <1>3, Types DEF Elements, IInv, Version
  <2>3. CASE UNCHANGED <<alert, applied>>
    BY <2>1, <2>3 DEF Elements
  <2>4. CASE /\ m \notin Elements(applied)
             /\ alert' = AlertAfter(m)
             /\ Elements(applied') = Elements(applied) \cup {m}
    <3>1. CASE alert # 0
      BY <1>3, <2>1, <2>2, <2>4, <3>1 DEF AlertAfter, Larger, Version
    <3>2. CASE alert = 0
      <4>1. alert' = m
        BY <1>3, <2>4, <3>2 DEF AlertAfter, Larger, Version
      <4>2. ASSUME v > m, v \in Elements(applied)
            PROVE  FALSE
        <5>1. PICK row \in inbox : row.msg = v
          BY <4>2 DEF IInv, InboxIsApplied
        <5> DEFINE j == row.offset
                   k == consumer[c].offset
        <5>2. /\ j \in 1..Len(log) /\ j <= committed + 1 /\ log[j] = v
              /\ k \in 1..Len(log) /\ k <= committed + 1 /\ log[k] = m
          BY <1>8, <5>1 DEF InboxPositions
        <5> HIDE DEF j, k
        <5>3. \A i \in 1..Len(log) : i <= committed => log[i] # m
          BY <1>3, <1>8, <2>4 DEF CommittedIsApplied
        <5>4. CASE j < k
          <6>1. PICK i \in 1..j : log[i] = m
            BY <4>2, <5>2, <5>4 DEF LogInOrder
          <6> QED
            BY <1>3, <5>2, <5>3, <5>4, <6>1
        <5>5. CASE j = k
          BY <1>3, <2>2, <4>2, <5>2, <5>5 DEF Version
        <5>6. CASE j > k
          BY <1>3, <5>2, <5>3, <5>6
        <5> QED
          BY <1>3, <5>2, <5>4, <5>5, <5>6
      <4> QED
        BY <1>3, <2>2, <2>4, <4>1, <4>2 DEF Version
    <3> QED
      BY <3>1, <3>2
  <2> QED
    BY <1>2, <2>3, <2>4
<1> QED
  BY <1>4, <1>5, <1>6, <1>7, <1>10, <1>11 DEF IInv

\* Every step of a consumer.
LEMMA ConsumerKeeps ==
  ASSUME IInv, NEW c \in Consumers, ConsumerStep(c), TypeOK'
  PROVE  IInv'
<1>1. CASE Apply(c)
  BY <1>1, ApplyKeeps
<1>2. CASE ~Apply(c)
  <2>1. UNCHANGED <<version, outbox, relay, log, inbox, alert, applied, losses>>
    BY <1>2 DEF ConsumerStep, Assign, Evict, Fetch, Reject, CommitOffset, CrashConsumer,
                core, relaying
  <2>2. Positions' /\ \A d \in Consumers :
          consumer'[d].phase # "idle" => consumer'[d].msg \in 1..version
    BY <1>2, PositionKeeps
  <2>3. OnlyCommitted'
    BY <2>1, <2>2 DEF IInv, OnlyCommitted
  <2>4. SentIsLogged' /\ PublishedIsLogged'
    BY <2>1 DEF IInv, SentIsLogged, PublishedIsLogged, Elements
  <2>5. InboxIsApplied' /\ AppliedAtMostOnce'
    BY <2>1 DEF IInv, InboxIsApplied, AppliedAtMostOnce, Elements
  <2>6. AlertNewestIfLogInOrder'
    BY <2>1 DEF IInv, AlertNewestIfLogInOrder, LogInOrder, Elements
  <2> QED
    BY <2>2, <2>3, <2>4, <2>5, <2>6 DEF IInv
<1> QED
  BY <1>1, <1>2

----------------------------------------------------------------------------
(* The broker, and the invariant.                                          *)

\* Once the broker lost records, only what does not depend on the log is
\* left: what took effect did so once.
LEMMA LossKeeps ==
  ASSUME IInv, LoseRecords, TypeOK'
  PROVE  IInv'
<1>1. PICK n \in 0..Len(log) - 1 : log' = SubSeq(log, 1, n)
  BY DEF LoseRecords
<1>2. /\ UNCHANGED <<version, relay, consumer, inbox, alert, applied>>
      /\ losses' # 0
  BY DEF LoseRecords, core, relaying, IInv, TypeOK
<1>3. \A k \in 1..Len(log') : log'[k] \in 1..version
  <2>1. /\ Len(log) \in Nat /\ Len(log') = n
        /\ \A k \in 1..n : log'[k] = log[k]
    BY <1>1, Truncated, Types DEF IInv, TypeOK
  <2> QED
    BY <2>1 DEF IInv, OnlyCommitted
<1>4. OnlyCommitted'
  BY <1>2, <1>3 DEF IInv, OnlyCommitted
<1>5. InboxIsApplied' /\ AppliedAtMostOnce'
  BY <1>2 DEF IInv, InboxIsApplied, AppliedAtMostOnce, Elements
<1>6. SentIsLogged' /\ PublishedIsLogged' /\ Positions' /\ AlertNewestIfLogInOrder'
  BY <1>2 DEF SentIsLogged, PublishedIsLogged, Positions, AlertNewestIfLogInOrder
<1> QED
  BY <1>4, <1>5, <1>6 DEF IInv

LEMMA InitInv == Init => IInv
<1> SUFFICES ASSUME Init PROVE IInv
  OBVIOUS
<1>1. TypeOK
  BY InitTypes
<1>2. Len(log) = 0 /\ Len(applied) = 0 /\ committed = 0 /\ inbox = {} /\ alert = 0
  BY DEF Init
<1>3. /\ \A r \in Relays : relay[r] = IdleRelay
      /\ \A c \in Consumers : consumer[c] = IdleConsumer
      /\ \A v \in Version : outbox[v] = FreshRow
      /\ version = 0
  BY DEF Init
<1>4. Elements(applied) = {} /\ 1..0 = {}
  BY <1>2 DEF Elements
<1>5. OnlyCommitted
  BY <1>2, <1>3 DEF OnlyCommitted, IdleRelay, IdleConsumer
<1>6. InboxIsApplied /\ AppliedAtMostOnce
  BY <1>2, <1>4 DEF InboxIsApplied, AppliedAtMostOnce
<1>7. SentIsLogged /\ PublishedIsLogged
  BY <1>3 DEF SentIsLogged, PublishedIsLogged, IdleRelay, FreshRow
<1>8. Positions
  BY <1>2, <1>3, <1>4 DEF Positions, CommittedIsApplied, InboxPositions, ConsumerPositions,
                          IdleConsumer
<1>9. AlertNewestIfLogInOrder
  BY <1>2 DEF AlertNewestIfLogInOrder
<1> QED
  BY <1>1, <1>5, <1>6, <1>7, <1>8, <1>9 DEF IInv

LEMMA NextInv ==
  ASSUME IInv, [Next]_vars
  PROVE  IInv'
<1>1. TypeOK'
  BY NextTypes DEF IInv
<1>2. CASE Commit
  BY <1>1, <1>2, CommitKeeps
<1>3. CASE \E r \in Relays : RelayStep(r)
  BY <1>1, <1>3, RelayKeeps
<1>4. CASE \E v \in Version : LockExpires(v) \/ BackoffEnds(v)
  BY <1>1, <1>4, RowKeeps
<1>5. CASE \E c \in Consumers : ConsumerStep(c)
  BY <1>1, <1>5, ConsumerKeeps
<1>6. CASE LoseRecords
  BY <1>1, <1>6, LossKeeps
<1>7. CASE UNCHANGED vars
  <2>1. UNCHANGED <<version, outbox, relay, losses>> /\ UNCHANGED log /\ UNCHANGED consuming
    BY <1>7 DEF vars, core, relaying
  <2>2. OnlyCommitted'
    BY <2>1 DEF IInv, OnlyCommitted, consuming
  <2>3. SentIsLogged' /\ PublishedIsLogged'
    BY <2>1 DEF IInv, SentIsLogged, PublishedIsLogged, Elements
  <2> QED
    BY <1>1, <2>1, <2>2, <2>3, LogGrows DEF IInv
<1> QED
  BY <1>2, <1>3, <1>4, <1>5, <1>6, <1>7 DEF Next

\* The inductive invariant: the messages in the inbox are those that took
\* effect, and until the broker loses records the group's offset, the inbox
\* and the consumers at work agree on the log up to one record.
THEOREM Invariance == Spec => []IInv
<1>1. Init => IInv
  BY InitInv
<1>2. IInv /\ [Next]_vars => IInv'
  BY NextInv
<1> QED
  BY <1>1, <1>2, PTL DEF Spec

\* The rows, the relays, the log, the consumers and the alert keep their
\* types (ClaimCoreOutbox, CompleteCoreOutbox, ApplyIncidentMessage).
THEOREM TypeCorrect == Spec => []TypeOK
<1>1. IInv => TypeOK
  BY DEF IInv
<1> QED
  BY <1>1, Invariance, PTL

\* ApplyIncidentMessage gives a version effect at most once, however often
\* it was published, fetched, or handled by two members, and also after the
\* broker lost records and others took their offsets.
THEOREM AppliedOnce == Spec => []AppliedAtMostOnce
<1>1. IInv => AppliedAtMostOnce
  BY DEF IInv
<1> QED
  BY <1>1, Invariance, PTL

\* CompleteCoreOutbox marks only a row whose message Kafka acknowledged,
\* although locks expire under live relays and relays crash: as long as the
\* broker loses nothing, what is marked is in the log.
THEOREM PublishedIsInLog == Spec => []PublishedIsLogged
<1>1. IInv => PublishedIsLogged
  BY DEF IInv
<1> QED
  BY <1>1, Invariance, PTL

\* refreshTelegramAlertMessages and createDeliveries never leave an alert
\* behind a version that took effect, if the first records of the versions
\* are in order and the broker loses nothing.
THEOREM AlertIsNewest == Spec => []AlertNewestIfLogInOrder
<1>1. IInv => AlertNewestIfLogInOrder
  BY DEF IInv
<1> QED
  BY <1>1, Invariance, PTL

----------------------------------------------------------------------------
(* The refinement.                                                         *)

\* The stream implements the steps of IncidentFeed: a commit of the core is
\* the feed's, applying a message that is not in the inbox is the version
\* taking effect, and no other step of a relay, a consumer or the broker
\* shows.
THEOREM ImplementsFeed == Spec => FeedSteps
<1>1. Init => Feed!Init
  <2> SUFFICES ASSUME Init PROVE Feed!Init
    OBVIOUS
  <2>1. Elements(applied) = {}
    BY DEF Init, Elements
  <2> QED
    BY <2>1 DEF Init, Feed!Init
<1>2. ASSUME IInv, [Next]_vars
      PROVE  [Feed!Next]_(Feed!feedVars)
  <2>1. CASE Commit
    <3>1. /\ version < MaxVersion /\ version' = version + 1
          /\ UNCHANGED <<alert, applied>>
      BY <2>1 DEF Commit, consuming
    <3> QED
      BY <3>1 DEF Feed!Next, Feed!Commit, Elements
  <2>2. CASE \E c \in Consumers : Apply(c)
    <3>1. PICK c \in Consumers : Apply(c)
      BY <2>2
    <3> DEFINE m == consumer[c].msg
    <3>2. /\ m \in 1..version /\ version' = version
          /\ \/ UNCHANGED <<alert, applied>>
             \/ /\ m \notin Elements(applied)
                /\ alert' = AlertAfter(m)
                /\ Elements(applied') = Elements(applied) \cup {m}
      BY <1>2, <3>1, Applies
    <3> HIDE DEF m
    <3>3. CASE UNCHANGED <<alert, applied>>
      BY <3>2, <3>3 DEF Feed!feedVars, Elements
    <3>4. CASE /\ m \notin Elements(applied)
               /\ alert' = AlertAfter(m)
               /\ Elements(applied') = Elements(applied) \cup {m}
      <4>1. m \in 1..MaxVersion /\ alert \in Nat
        BY <1>2, <3>2 DEF IInv, TypeOK
      <4>2. alert' = Feed!Newer(alert, m) \/ (alert = 0 /\ alert' = 0)
        BY <3>4, <4>1 DEF AlertAfter, Larger, Feed!Newer
      <4>3. Feed!TakeEffect(m)
        BY <3>2, <3>4, <4>2 DEF Feed!TakeEffect, Elements
      <4> QED
        BY <4>1, <4>3 DEF Feed!Next
    <3> QED
      BY <3>2, <3>3, <3>4
  <2>3. CASE UNCHANGED <<version, alert, applied>>
    BY <2>3 DEF Feed!feedVars, Elements
  <2>4. Commit \/ (\E c \in Consumers : Apply(c)) \/ UNCHANGED <<version, alert, applied>>
    <3>1. ASSUME NEW r \in Relays, RelayStep(r)
          PROVE  UNCHANGED <<version, alert, applied>>
      BY <3>1 DEF RelayStep, Claim, Publish, PublishAcked, PublishFailed, RecordOutcome,
                  LoseOutcome, CrashRelay, core, consuming
    <3>2. ASSUME NEW v \in Version, LockExpires(v) \/ BackoffEnds(v)
          PROVE  UNCHANGED <<version, alert, applied>>
      BY <3>2 DEF LockExpires, BackoffEnds, core, consuming
    <3>3. ASSUME NEW c \in Consumers, ConsumerStep(c), ~Apply(c)
          PROVE  UNCHANGED <<version, alert, applied>>
      BY <3>3 DEF ConsumerStep, Assign, Evict, Fetch, Reject, CommitOffset, CrashConsumer, core
    <3>4. LoseRecords \/ UNCHANGED vars => UNCHANGED <<version, alert, applied>>
      BY DEF LoseRecords, vars, core, consuming
    <3> QED
      BY <1>2, <3>1, <3>2, <3>3, <3>4 DEF Next
  <2> QED
    BY <2>1, <2>2, <2>3, <2>4
<1> QED
  BY <1>1, <1>2, Invariance, PTL DEF Spec, FeedSteps
=============================================================================
