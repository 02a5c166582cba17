------------------------- MODULE ProviderFeedProofs -------------------------
(***************************************************************************)
(* Proofs about a provider worker, for any lookback, windows, overlap and  *)
(* numbers of reports and faults: its state file hides no report, an ETag  *)
(* stands for published reports only, and the baseline is published once.  *)
(*                                                                         *)
(* The state file alone says too little: it must be known what the worker  *)
(* has in memory.  The invariant says what is published of the window it   *)
(* is in, or of the feed it has fetched, except what it still has to do,   *)
(* and that the state it holds is the one in the file.                     *)
(***************************************************************************)
EXTENDS ProviderFeed, TLAPS

Handled(t) == IsPublished(t) \/ t \in skipped \cup overtaken

InCatalogue(t) == topic["catalogue"][t] # "none"

\* Only reports are published, fetched or received.
OnlyReports ==
  /\ \A c \in Channel, t \in Time : topic[c][t] # "none" => t \in reports
  /\ worker.todo \subseteq reports /\ worker.feed \subseteq reports

\* The worker goes on from the state in the file.
HoldsSaved == worker.phase \in {"recover", "window", "poll"} => worker.state = saved

\* A recovery leaves nothing behind the window it is in, ...
RecoveredSoFar ==
  /\ worker.phase \in {"recover", "window"} =>
       \A t \in reports : t < worker.start => Handled(t)
  /\ worker.phase = "window" =>
       \A t \in reports : t < worker.end => Handled(t) \/ t \in worker.todo

\* ... and a poll nothing of the feed it has fetched.
PolledSoFar ==
  worker.phase = "poll" =>
    /\ covered <= worker.begun /\ worker.begun <= now
    /\ \A t \in worker.feed : InCatalogue(t) \/ t \in worker.todo
    /\ \A t \in reports : t < worker.begun /\ worker.begun <= t + Lookback[provider] =>
         t \in worker.feed

\* No poll or recovery that was saved reached into the future.
CoveredSoFar == covered \in Nat /\ covered <= now

\* The baseline is over when the file says so.
BaselineSaved ==
  /\ baselineAt \in Nat
  /\ baselineAt # 0 => saved.baseline

IInv ==
  /\ TypeOK /\ provider \in Providers
  /\ OnlyReports /\ HoldsSaved /\ RecoveredSoFar /\ PolledSoFar
  /\ CoveredSoFar /\ BaselineSaved
  /\ NothingHidden /\ NotModifiedIsPublished /\ BaselineOnlyOnce

USE ProviderAssumption DEF ProviderAssumption

----------------------------------------------------------------------------
(* Helpers.                                                                *)

LEMMA Minima ==
  ASSUME NEW m \in Nat, NEW n \in Nat
  PROVE  /\ Smaller(m, n) \in Nat /\ Smaller(m, n) <= m /\ Smaller(m, n) <= n
         /\ Minus(m, n) \in Nat /\ Minus(m, n) <= m
         /\ \A k \in Nat : k < Minus(m, n) => k + n < m
BY DEF Smaller, Minus

LEMMA Workers == Stopped \in Worker /\ Idle \in Worker /\ EmptyState \in State
<1>1. EmptyState \in State
  BY DEF EmptyState, State
<1>2. Stopped \in Worker
  BY <1>1 DEF Stopped, Worker
<1>3. Idle \in Worker
  BY <1>1 DEF Idle, Stopped, Worker
<1> QED
  BY <1>1, <1>2, <1>3

\* The topic keeps the first mode of a report.
LEMMA PublishedGrows ==
  ASSUME TypeOK, NEW c \in Channel, NEW t \in Time, NEW mode \in Mode,
         topic' \in {topic, Published(c, t, mode)}
  PROVE  /\ topic' \in [Channel -> [Time -> Mode \cup {"none"}]]
         /\ \A d \in Channel, u \in Time :
              \/ topic'[d][u] = topic[d][u]
              \/ d = c /\ u = t /\ topic[d][u] = "none" /\ topic'[d][u] = mode
<1>1. topic \in [Channel -> [Time -> Mode \cup {"none"}]]
  BY DEF TypeOK
<1>2. CASE topic' = topic
  BY <1>1, <1>2
<1>3. CASE topic[c][t] = "none" /\ topic' = [topic EXCEPT ![c][t] = mode]
  BY <1>1, <1>3
<1> QED
  BY <1>2, <1>3 DEF Published

LEMMA PublishNow ==
  ASSUME TypeOK, NEW c \in Channel, NEW t \in Time, NEW mode \in Mode,
         topic' = Published(c, t, mode)
  PROVE  topic'[c][t] # "none"
<1>1. topic \in [Channel -> [Time -> Mode \cup {"none"}]] /\ "none" \notin Mode
  BY DEF TypeOK, Mode
<1> QED
  BY <1>1 DEF Published

LEMMA ModeNow == CurrentMode \in Mode
BY DEF CurrentMode, Mode

\* What is published stays published.
LEMMA HandledStays ==
  ASSUME \A d \in Channel, u \in Time : topic[d][u] # "none" => topic'[d][u] # "none",
         skipped \subseteq skipped', overtaken \subseteq overtaken', NEW t \in Time
  PROVE  /\ IsPublished(t) => IsPublished(t)'
         /\ Handled(t) => Handled(t)'
         /\ InCatalogue(t) => InCatalogue(t)'
BY DEF Handled, IsPublished, InCatalogue, Channel

\* A window or a poll that fails, and a process that stops, leave the file
\* and the topic as they are.
LEMMA Quits ==
  ASSUME IInv, worker' \in {Stopped, Idle}, UNCHANGED <<source, saved, topic, history>>,
         connected' \in BOOLEAN, frames' \subseteq frames, faults' \in 0 .. MaxFaults
  PROVE  IInv'
<1>1. TypeOK'
  <2>1. worker' \in Worker
    BY Workers
  <2>2. /\ worker'.target = 0 /\ worker'.start = 0 /\ worker'.end = 0
        /\ 0 <= now
    BY DEF Stopped, Idle, IInv, TypeOK, Time
  <2> QED
    BY <2>1, <2>2 DEF IInv, TypeOK, source
<1>2. /\ OnlyReports' /\ HoldsSaved' /\ RecoveredSoFar' /\ PolledSoFar'
      /\ CoveredSoFar' /\ BaselineSaved'
  BY DEF IInv, OnlyReports, HoldsSaved, RecoveredSoFar, PolledSoFar, CoveredSoFar,
         BaselineSaved, Stopped, Idle, source, history
<1>3. NothingHidden' /\ NotModifiedIsPublished' /\ BaselineOnlyOnce' /\ provider' \in Providers
  BY DEF IInv, NothingHidden, Passed, NotModifiedIsPublished, BaselineOnlyOnce,
         IsPublished, source, history
<1> QED
  BY <1>1, <1>2, <1>3 DEF IInv

----------------------------------------------------------------------------
(* Actions.                                                                *)

LEMMA TickKeeps == ASSUME IInv, Tick PROVE IInv'
<1>1. /\ now' = now + 1 /\ now < MaxTime /\ now \in Nat
      /\ UNCHANGED <<provider, reports, saved, worker, connected, frames, topic, faults,
                     history>>
  BY DEF Tick, IInv, TypeOK, Time, streaming
<1>2. TypeOK'
  <2>1. /\ worker.target \in Nat /\ worker.end \in Nat /\ saved.checkpoint \in Nat
        /\ worker.target <= now /\ saved.checkpoint <= now
        /\ reports \subseteq 1 .. now /\ now' \in Time
    BY <1>1 DEF IInv, TypeOK, Worker, State, Time
  <2>2. reports \subseteq 1 .. now' /\ worker.target <= now' /\ saved.checkpoint <= now'
    BY <1>1, <2>1
  <2> QED
    BY <1>1, <2>1, <2>2 DEF IInv, TypeOK
<1>3. PolledSoFar'
  <2>1. worker.begun \in Nat
    BY DEF IInv, TypeOK, Worker
  <2> QED
    BY <1>1, <2>1 DEF IInv, PolledSoFar, InCatalogue, history
<1>4. OnlyReports' /\ HoldsSaved' /\ RecoveredSoFar' /\ CoveredSoFar' /\ BaselineSaved'
  BY <1>1 DEF IInv, OnlyReports, HoldsSaved, RecoveredSoFar, CoveredSoFar, BaselineSaved,
         Handled, IsPublished, history
<1>5. NothingHidden' /\ NotModifiedIsPublished' /\ BaselineOnlyOnce' /\ provider' \in Providers
  BY <1>1 DEF IInv, NothingHidden, Passed, NotModifiedIsPublished, BaselineOnlyOnce,
         IsPublished, history
<1> QED
  BY <1>2, <1>3, <1>4, <1>5 DEF IInv

\* A report that comes out is not before the checkpoint, nor in a window or a
\* feed that was fetched, and not published.
LEMMA ReportKeeps == ASSUME IInv, ReportComesOut PROVE IInv'
<1>1. /\ reports' = reports \cup {now} /\ now \notin reports /\ now \in Time /\ now \in Nat
      /\ frames' \subseteq reports'
      /\ UNCHANGED <<provider, now, saved, worker, connected, topic, faults>>
      /\ UNCHANGED <<baselineAt, covered, skipped, overtaken>>
  BY DEF ReportComesOut, IInv, TypeOK, Time, history
<1>2. /\ saved.checkpoint \in Nat /\ saved.checkpoint <= now
      /\ worker.end \in Nat /\ worker.end <= now /\ worker.target \in Nat
      /\ worker.start \in Nat /\ worker.start <= now /\ worker.begun \in Nat
  BY <1>1 DEF IInv, TypeOK, Worker, State
<1>3. TypeOK'
  BY <1>1 DEF IInv, TypeOK, Time
<1>4. \A c \in Channel : topic[c][now] = "none"
  BY <1>1 DEF IInv, OnlyReports
<1>5. OnlyReports' /\ HoldsSaved' /\ CoveredSoFar' /\ BaselineSaved'
  BY <1>1 DEF IInv, OnlyReports, HoldsSaved, CoveredSoFar, BaselineSaved
<1>6. RecoveredSoFar'
  <2>1. ~(now < worker.start) /\ ~(now < worker.end)
    BY <1>1, <1>2
  <2>2. \A t \in Time : Handled(t)' <=> Handled(t)
    BY <1>1 DEF Handled, IsPublished
  <2> QED
    BY <1>1, <2>1, <2>2 DEF IInv, TypeOK, RecoveredSoFar, Handled, IsPublished
<1>7. PolledSoFar'
  BY <1>1, <1>2 DEF IInv, PolledSoFar, InCatalogue
<1>8. NothingHidden'
  <2>1. ~(now < covered) /\ ~(now + Overlap < saved.checkpoint)
    BY <1>1, <1>2 DEF IInv, CoveredSoFar
  <2> QED
    BY <1>1, <2>1 DEF IInv, NothingHidden, Passed, IsPublished
<1>9. NotModifiedIsPublished' /\ BaselineOnlyOnce' /\ provider' \in Providers
  BY <1>1, <1>4 DEF IInv, NotModifiedIsPublished, BaselineOnlyOnce, Channel
<1> QED
  BY <1>3, <1>5, <1>6, <1>7, <1>8, <1>9 DEF IInv

\* A step of the worker alone keeps what does not speak of it.
LEMMA WorkerKeeps ==
  ASSUME IInv, worker' \in Worker, worker'.target <= now,
         worker'.start <= worker'.target, worker'.end <= worker'.target,
         worker'.todo \subseteq reports, worker'.feed \subseteq reports,
         HoldsSaved', RecoveredSoFar', PolledSoFar',
         UNCHANGED <<source, saved, streaming, topic, faults, history>>
  PROVE  IInv'
<1>1. TypeOK' /\ OnlyReports' /\ CoveredSoFar' /\ BaselineSaved' /\ provider' \in Providers
  BY DEF IInv, TypeOK, OnlyReports, CoveredSoFar, BaselineSaved, source, streaming, history
<1>2. NothingHidden' /\ NotModifiedIsPublished' /\ BaselineOnlyOnce'
  BY DEF IInv, NothingHidden, Passed, NotModifiedIsPublished, BaselineOnlyOnce,
         IsPublished, source, history
<1> QED
  BY <1>1, <1>2 DEF IInv

\* What a state of the worker holds, field by field.
LEMMA Fields ==
  ASSUME IInv
  PROVE  /\ worker \in Worker /\ worker.state \in State /\ saved \in State
         /\ now \in Nat /\ now \in 0 .. MaxTime
         /\ worker.start \in Nat /\ worker.end \in Nat /\ worker.target \in Nat
         /\ worker.start <= worker.target /\ worker.end <= worker.target /\ worker.target <= now
         /\ worker.begun \in Nat /\ worker.target <= MaxTime
         /\ saved.checkpoint \in Nat /\ saved.checkpoint <= now
         /\ reports \subseteq Time /\ \A t \in reports : t \in Nat /\ t <= now
BY DEF IInv, TypeOK, Worker, State, Time

\* The recovery starts an overlap before the checkpoint, and no report that
\* came out before that is hidden.
LEMMA StartKeeps == ASSUME IInv, Start PROVE IInv'
<1>1. CASE ~RecoveryDue(saved)
  <2>1. worker' = Idle /\ UNCHANGED <<source, saved, streaming, topic, faults, history>>
    BY <1>1 DEF Start
  <2>2. connected' \in BOOLEAN /\ frames' \subseteq frames /\ faults' \in 0 .. MaxFaults
    BY <2>1 DEF IInv, TypeOK, streaming
  <2> QED
    BY <2>1, <2>2, Quits
<1>2. CASE RecoveryDue(saved)
  <2> DEFINE w == [Stopped EXCEPT !.phase = "recover", !.state = saved,
                                  !.start = RecoverFrom(saved), !.target = now]
  <2>1. worker' = w /\ UNCHANGED <<source, saved, streaming, topic, faults, history>>
    BY <1>2 DEF Start
  <2>2. /\ RecoverFrom(saved) \in Nat /\ RecoverFrom(saved) <= now
        /\ \A k \in Nat : k < RecoverFrom(saved) => k + Overlap < saved.checkpoint
    <3> DEFINE cp == saved.checkpoint
    <3>1. cp \in Nat /\ cp <= now /\ now \in Nat /\ RecoverFrom(saved) = Minus(cp, Overlap)
      BY Fields DEF RecoverFrom
    <3> HIDE DEF cp
    <3>2. /\ Minus(cp, Overlap) \in Nat /\ Minus(cp, Overlap) <= cp
          /\ \A k \in Nat : k < Minus(cp, Overlap) => k + Overlap < cp
      BY <3>1, Minima
    <3>3. \A k \in Nat : k < RecoverFrom(saved) => k + Overlap < cp
      BY <3>1, <3>2
    <3> QED
      BY <3>1, <3>2, <3>3 DEF cp
  <2>3. /\ w \in Worker /\ w.phase = "recover" /\ w.state = saved /\ w.start = RecoverFrom(saved)
        /\ w.target = now /\ w.end = 0 /\ w.todo = {} /\ w.feed = {}
    <3>1. RecoverFrom(saved) \in 0 .. MaxTime /\ now \in 0 .. MaxTime /\ saved \in State
      BY <2>2, Fields
    <3>2. /\ Stopped \in Worker /\ Stopped.end = 0
          /\ Stopped.todo = {} /\ Stopped.feed = {}
      BY Workers DEF Stopped
    <3> QED
      BY <3>1, <3>2 DEF Worker
  <2> HIDE DEF w
  <2>4. HoldsSaved' /\ PolledSoFar'
    BY <2>1, <2>3 DEF HoldsSaved, PolledSoFar
  <2>5. RecoveredSoFar'
    <3>1. \A t \in reports : t < w.start => Handled(t)
      BY <2>2, <2>3, Fields DEF IInv, NothingHidden, Passed, Handled
    <3> QED
      BY <2>1, <2>3, <3>1 DEF RecoveredSoFar, Handled, IsPublished, source, history
  <2> QED
    BY <2>1, <2>2, <2>3, <2>4, <2>5, Fields, WorkerKeeps
<1> QED
  BY <1>1, <1>2

\* A window starts where the one before it ended.
LEMMA FetchWindowKeeps == ASSUME IInv, FetchWindow PROVE IInv'
<1> DEFINE found == {t \in reports : worker.start <= t /\ t < WindowEnd}
           w == [worker EXCEPT !.phase = "window", !.end = WindowEnd, !.todo = found]
<1>1. /\ worker.phase = "recover" /\ worker' = w
      /\ UNCHANGED <<source, saved, streaming, topic, faults, history>>
  BY DEF FetchWindow
<1>2. WindowEnd \in Nat /\ WindowEnd <= worker.target
  <2>1. worker.start + Chunk \in Nat /\ worker.target \in Nat
    BY Fields
  <2> QED
    BY <2>1, Minima DEF WindowEnd
<1>3. /\ found \subseteq reports /\ found \subseteq Time
  BY Fields
<1>4. /\ w \in Worker /\ w.phase = "window" /\ w.state = worker.state /\ w.start = worker.start
      /\ w.target = worker.target /\ w.end = WindowEnd /\ w.todo = found /\ w.feed = worker.feed
  <2>1. WindowEnd \in 0 .. MaxTime
    BY <1>2, Fields
  <2> HIDE DEF found
  <2> QED
    BY <2>1, <1>3, Fields DEF Worker
<1>5. \A t \in reports : t < WindowEnd => t < worker.start \/ t \in found
  BY <1>2, Fields
<1> HIDE DEF w, found
<1>6. HoldsSaved' /\ PolledSoFar'
  BY <1>1, <1>4 DEF IInv, HoldsSaved, PolledSoFar
<1>7. RecoveredSoFar'
  BY <1>1, <1>4, <1>5 DEF IInv, RecoveredSoFar, Handled, IsPublished, source, history
<1>8. worker.feed \subseteq reports
  BY DEF IInv, OnlyReports
<1> QED
  BY <1>1, <1>2, <1>3, <1>4, <1>6, <1>7, <1>8, Fields, WorkerKeeps

\* The feed has all reports since its lookback; if it was not modified, they
\* are published.
LEMMA BeginPollKeeps == ASSUME IInv, BeginPoll PROVE IInv'
<1> DEFINE left == IF NotModified(saved) THEN {} ELSE Feed
           w == [worker EXCEPT !.phase = "poll", !.state = saved, !.begun = now,
                               !.feed = Feed, !.todo = left]
<1>1. worker' = w /\ UNCHANGED <<source, saved, streaming, topic, faults, history>>
  BY DEF BeginPoll
<1>2. Feed \subseteq reports /\ left \subseteq reports /\ Feed \subseteq Time /\ left \subseteq Time
  BY Fields DEF Feed
<1>3. \A t \in Feed : InCatalogue(t) \/ t \in left
  BY DEF IInv, NotModifiedIsPublished, InCatalogue, NotModified
<1>4. \A t \in reports : now <= t + Lookback[provider] => t \in Feed
  BY DEF Feed
<1>5. /\ w \in Worker /\ w.phase = "poll" /\ w.state = saved /\ w.start = worker.start
      /\ w.target = worker.target /\ w.end = worker.end /\ w.todo = left /\ w.feed = Feed
      /\ w.begun = now
  <2> HIDE DEF left
  <2> QED
    BY <1>2, Fields DEF Worker
<1> HIDE DEF w, left
<1>6. HoldsSaved' /\ RecoveredSoFar'
  BY <1>1, <1>5 DEF HoldsSaved, RecoveredSoFar
<1>7. PolledSoFar'
  BY <1>1, <1>3, <1>4, <1>5, Fields DEF IInv, CoveredSoFar, PolledSoFar, InCatalogue, source, history
<1> QED
  BY <1>1, <1>2, <1>5, <1>6, <1>7, Fields, WorkerKeeps

\* What is published of the catalogue's reports, or of the stream's, keeps
\* what does not speak of the worker: only before the first poll was saved
\* it is published as part of the baseline.
LEMMA TopicKeeps ==
  ASSUME IInv, NEW c \in Channel, NEW t \in reports, NEW mode \in Mode,
         topic' \in {topic, Published(c, t, mode)},
         c = "catalogue" /\ mode = "baseline" => ~saved.baseline,
         UNCHANGED <<source, saved, history>>
  PROVE  /\ topic' \in [Channel -> [Time -> Mode \cup {"none"}]]
         /\ \A d \in Channel, u \in Time : topic[d][u] # "none" => topic'[d][u] # "none"
         /\ \A d \in Channel, u \in Time : topic'[d][u] # "none" => u \in reports'
         /\ \A u \in Time : Handled(u) => Handled(u)'
         /\ \A u \in Time : InCatalogue(u) => InCatalogue(u)'
         /\ CoveredSoFar' /\ BaselineSaved' /\ provider' \in Providers
         /\ NothingHidden' /\ NotModifiedIsPublished' /\ BaselineOnlyOnce'
<1>1. TypeOK /\ t \in Time /\ reports \subseteq Time /\ saved.etag \subseteq Time
  <2>1. saved.etag \subseteq Time
    BY Fields DEF State
  <2> QED
    BY <2>1, Fields DEF IInv
<1>2. /\ topic' \in [Channel -> [Time -> Mode \cup {"none"}]]
      /\ \A d \in Channel, u \in Time :
           \/ topic'[d][u] = topic[d][u]
           \/ d = c /\ u = t /\ topic[d][u] = "none" /\ topic'[d][u] = mode
  BY <1>1, PublishedGrows
<1>3. \A d \in Channel, u \in Time : topic[d][u] # "none" => topic'[d][u] # "none"
  BY <1>2
<1>4. /\ provider' = provider /\ reports' = reports /\ now' = now /\ saved' = saved
      /\ baselineAt' = baselineAt /\ covered' = covered
      /\ skipped' = skipped /\ overtaken' = overtaken
  BY DEF source, history
<1>5. \A d \in Channel, u \in Time : topic'[d][u] # "none" => u \in reports'
  BY <1>2, <1>4 DEF IInv, OnlyReports
<1>6. \A u \in Time : /\ IsPublished(u) => IsPublished(u)'
                      /\ Handled(u) => Handled(u)'
                      /\ InCatalogue(u) => InCatalogue(u)'
  BY <1>3, <1>4 DEF Handled, IsPublished, InCatalogue, Channel
<1>7. CoveredSoFar' /\ BaselineSaved' /\ provider' \in Providers
  BY <1>4 DEF IInv, CoveredSoFar, BaselineSaved
<1>8. NothingHidden'
  BY <1>1, <1>4, <1>6 DEF IInv, NothingHidden, Passed
<1>9. NotModifiedIsPublished'
  BY <1>1, <1>4, <1>6 DEF IInv, NotModifiedIsPublished, InCatalogue
<1>10. BaselineOnlyOnce'
  <2> SUFFICES ASSUME baselineAt' # 0, NEW u \in reports', topic'["catalogue"][u] = "baseline"
               PROVE  u <= baselineAt'
    BY DEF BaselineOnlyOnce
  <2>1. saved.baseline /\ u \in reports /\ u \in Time
    BY <1>1, <1>4 DEF IInv, BaselineSaved
  <2>2. topic["catalogue"][u] = "baseline"
    BY <1>2, <2>1 DEF Channel
  <2> QED
    BY <1>4, <2>1, <2>2 DEF IInv, BaselineOnlyOnce
<1> QED
  BY <1>2, <1>3, <1>5, <1>6, <1>7, <1>8, <1>9, <1>10

\* A step of the worker that publishes.
LEMMA PublishKeeps ==
  ASSUME IInv, NEW t \in worker.todo, Publishing,
         topic' \in {topic, Published("catalogue", t, CurrentMode)},
         UNCHANGED <<source, saved, history>>
  PROVE  /\ topic' \in [Channel -> [Time -> Mode \cup {"none"}]]
         /\ \A d \in Channel, u \in Time : topic'[d][u] # "none" => u \in reports'
         /\ \A u \in Time : Handled(u) => Handled(u)'
         /\ \A u \in Time : InCatalogue(u) => InCatalogue(u)'
         /\ CoveredSoFar' /\ BaselineSaved' /\ provider' \in Providers
         /\ NothingHidden' /\ NotModifiedIsPublished' /\ BaselineOnlyOnce'
<1>1. t \in reports /\ "catalogue" \in Channel
  BY DEF IInv, OnlyReports, Channel
<1>2. CurrentMode = "baseline" => ~saved.baseline
  <2>1. worker.state = saved
    BY DEF IInv, HoldsSaved, Publishing
  <2> QED
    BY <2>1 DEF CurrentMode
<1> QED
  BY <1>1, <1>2, ModeNow, TopicKeeps

LEMMA PublishNextKeeps ==
  ASSUME IInv, NEW t \in Time, PublishNext(t)
  PROVE  IInv'
<1> DEFINE w == [worker EXCEPT !.todo = worker.todo \ {t}]
<1>1. /\ Publishing /\ t \in worker.todo /\ worker' = w
      /\ topic' = Published("catalogue", t, CurrentMode)
      /\ UNCHANGED <<source, saved, streaming, faults, history>>
  BY DEF PublishNext
<1>2. /\ w \in Worker /\ w.phase = worker.phase /\ w.state = worker.state
      /\ w.start = worker.start /\ w.end = worker.end /\ w.target = worker.target
      /\ w.begun = worker.begun /\ w.feed = worker.feed /\ w.todo = worker.todo \ {t}
  BY Fields DEF Worker
<1> HIDE DEF w
<1>3. /\ topic' \in [Channel -> [Time -> Mode \cup {"none"}]]
      /\ \A d \in Channel, u \in Time : topic'[d][u] # "none" => u \in reports'
      /\ \A u \in Time : Handled(u) => Handled(u)'
      /\ \A u \in Time : InCatalogue(u) => InCatalogue(u)'
      /\ CoveredSoFar' /\ BaselineSaved' /\ provider' \in Providers
      /\ NothingHidden' /\ NotModifiedIsPublished' /\ BaselineOnlyOnce'
  BY <1>1, PublishKeeps
<1>4. InCatalogue(t)' /\ Handled(t)'
  <2>1. topic'["catalogue"][t] # "none"
    BY <1>1, PublishNow, ModeNow DEF IInv, Channel
  <2> QED
    BY <2>1 DEF InCatalogue, Handled, IsPublished, Channel
<1>5. TypeOK'
  BY <1>1, <1>2, <1>3 DEF IInv, TypeOK, source, streaming
<1>6. OnlyReports' /\ HoldsSaved'
  BY <1>1, <1>2, <1>3 DEF IInv, OnlyReports, HoldsSaved, source
<1>7. RecoveredSoFar'
  BY <1>1, <1>2, <1>3, <1>4, Fields DEF IInv, RecoveredSoFar, source
<1>8. PolledSoFar'
  <2>1. worker.feed \subseteq Time
    BY Fields DEF Worker
  <2> QED
    BY <1>1, <1>2, <1>3, <1>4, <2>1 DEF IInv, PolledSoFar, source, history
<1> QED
  BY <1>3, <1>5, <1>6, <1>7, <1>8 DEF IInv

LEMMA PublishFailsKeeps ==
  ASSUME IInv, NEW t \in Time, PublishFails(t)
  PROVE  IInv'
<1>1. /\ Publishing /\ t \in worker.todo /\ worker' \in {Stopped, Idle}
      /\ topic' \in {topic, Published("catalogue", t, CurrentMode)}
      /\ UNCHANGED <<source, saved, streaming, history>>
      /\ faults < MaxFaults /\ faults' = faults + 1
  BY DEF PublishFails, AfterError, Fault
<1>2. /\ topic' \in [Channel -> [Time -> Mode \cup {"none"}]]
      /\ \A d \in Channel, u \in Time : topic'[d][u] # "none" => u \in reports'
      /\ CoveredSoFar' /\ BaselineSaved' /\ provider' \in Providers
      /\ NothingHidden' /\ NotModifiedIsPublished' /\ BaselineOnlyOnce'
  BY <1>1, PublishKeeps
<1>3. TypeOK'
  <2>1. worker' \in Worker /\ faults' \in 0 .. MaxFaults
    BY <1>1, Workers DEF IInv, TypeOK
  <2>2. /\ worker'.target = 0 /\ worker'.start = 0 /\ worker'.end = 0
    BY <1>1 DEF Stopped, Idle
  <2> QED
    BY <1>1, <1>2, <2>1, <2>2, Fields DEF IInv, TypeOK, source, streaming
<1>4. OnlyReports' /\ HoldsSaved' /\ RecoveredSoFar' /\ PolledSoFar'
  BY <1>1, <1>2 DEF OnlyReports, HoldsSaved, RecoveredSoFar, PolledSoFar, Stopped, Idle
<1> QED
  BY <1>2, <1>3, <1>4 DEF IInv

\* When a window is saved, everything before its end is published.
LEMMA SaveWindowKeeps == ASSUME IInv, SaveWindow PROVE IInv'
<1> DEFINE state == Advanced(worker.state, worker.end)
           w == IF worker.end = worker.target THEN Idle ELSE NextWindow(state)
<1>1. /\ worker.phase = "window" /\ worker.todo = {} /\ saved' = state /\ worker' = w
      /\ covered' = Larger(covered, worker.end)
      /\ UNCHANGED <<source, streaming, topic, faults, baselineAt, skipped, overtaken>>
  BY DEF SaveWindow, AllPublished
<1>2. worker.state = saved
  BY <1>1 DEF IInv, HoldsSaved
<1>3. worker.end \in 0 .. MaxTime /\ worker.end \in Nat /\ worker.end <= now
  BY Fields
<1>4. /\ state \in State /\ state.checkpoint = worker.end
      /\ state.etag = saved.etag /\ state.baseline = saved.baseline
  BY <1>2, <1>3, Fields DEF Advanced, State
<1> HIDE DEF state
<1>5. \/ w = Idle
      \/ /\ w \in Worker /\ w.phase = "recover" /\ w.state = state /\ w.todo = {}
         /\ w.start = worker.end /\ w.end = worker.end /\ w.target = worker.target
         /\ w.feed = worker.feed
  BY <1>1, <1>3, <1>4, Fields DEF NextWindow, Worker
<1>6. /\ Idle \in Worker /\ Idle.phase = "idle" /\ Idle.todo = {} /\ Idle.feed = {}
      /\ Idle.start = 0 /\ Idle.end = 0 /\ Idle.target = 0
  BY Workers DEF Idle, Stopped
<1> HIDE DEF w
<1>7. \A t \in reports : t < worker.end => Handled(t)
  BY <1>1 DEF IInv, RecoveredSoFar
<1>8. TypeOK'
  <2>1. /\ worker' \in Worker /\ worker'.target <= now
        /\ worker'.start <= worker'.target /\ worker'.end <= worker'.target
    BY <1>1, <1>5, <1>6, Fields
  <2> QED
    BY <1>1, <1>3, <1>4, <2>1 DEF IInv, TypeOK, source, streaming
<1>9. OnlyReports' /\ HoldsSaved' /\ PolledSoFar'
  BY <1>1, <1>5, <1>6 DEF IInv, OnlyReports, HoldsSaved, PolledSoFar, source
<1>10. RecoveredSoFar'
  BY <1>1, <1>5, <1>6, <1>7 DEF RecoveredSoFar, Handled, IsPublished, source
<1>11. CoveredSoFar' /\ \A t \in reports : t < covered' => t < covered \/ t < worker.end
  BY <1>1, <1>3, Fields DEF IInv, CoveredSoFar, Larger, source
<1>12. NothingHidden'
  <2>1. \A t \in reports : t + Overlap < worker.end => t < worker.end
    BY Fields, <1>3
  <2>2. \A t \in reports : Passed(t)' => Passed(t) \/ t < worker.end
    BY <1>1, <1>4, <1>11, <2>1 DEF Passed
  <2> QED
    BY <1>1, <1>7, <2>2 DEF IInv, NothingHidden, Handled, IsPublished, source
<1>13. NotModifiedIsPublished' /\ BaselineOnlyOnce' /\ BaselineSaved' /\ provider' \in Providers
  BY <1>1, <1>4 DEF IInv, NotModifiedIsPublished, BaselineOnlyOnce, BaselineSaved, source
<1> QED
  BY <1>8, <1>9, <1>10, <1>11, <1>12, <1>13 DEF IInv

\* What came out before the poll began is in its feed, or before its window;
\* then it is skipped, unless it was covered before.  What came out later and
\* is not in reach of a recovery from the new checkpoint is overtaken.
LEMMA SavePollKeeps == ASSUME IInv, SavePoll PROVE IInv'
<1>1. /\ worker.phase = "poll" /\ worker.todo = {} /\ saved' = PolledState /\ worker' = Idle
      /\ baselineAt' = IF baselineAt = 0 THEN now ELSE baselineAt
      /\ covered' = worker.begun
      /\ skipped' = skipped \cup BeforeWindow /\ overtaken' = overtaken \cup Overtaken
      /\ UNCHANGED <<source, streaming, topic, faults>>
  BY DEF SavePoll, AllPublished
<1>2. /\ worker.state = saved /\ worker.begun \in Nat /\ worker.begun <= now
      /\ covered <= worker.begun
      /\ \A t \in worker.feed : InCatalogue(t)
      /\ \A t \in reports : t < worker.begun /\ worker.begun <= t + Lookback[provider] =>
            t \in worker.feed
  BY <1>1, Fields DEF IInv, HoldsSaved, PolledSoFar
<1>3. /\ Idle \in Worker /\ Idle.phase = "idle" /\ Idle.todo = {} /\ Idle.feed = {}
      /\ Idle.start = 0 /\ Idle.end = 0 /\ Idle.target = 0
  BY Workers DEF Idle, Stopped
<1>4. /\ PolledState \in State /\ PolledState.checkpoint = now /\ PolledState.baseline
      /\ PolledState.etag = IF Conditional THEN worker.feed ELSE saved.etag
  <2>1. worker.feed \subseteq Time /\ saved.etag \subseteq Time
    BY Fields DEF Worker, State
  <2> QED
    BY <1>2, <2>1, Fields DEF PolledState, State
<1>5. TypeOK'
  BY <1>1, <1>3, <1>4, Fields DEF IInv, TypeOK, source, streaming
<1>6. OnlyReports' /\ HoldsSaved' /\ RecoveredSoFar' /\ PolledSoFar'
  BY <1>1, <1>3 DEF IInv, OnlyReports, HoldsSaved, RecoveredSoFar, PolledSoFar, source
<1>7. NothingHidden'
  <2> SUFFICES ASSUME NEW t \in reports, t < worker.begun \/ t + Overlap < now
               PROVE  IsPublished(t) \/ t \in skipped' \cup overtaken'
    BY <1>1, <1>4 DEF NothingHidden, Passed, IsPublished, source
  <2>1. t \in Nat /\ Lookback[provider] \in Nat /\ covered \in Nat
    BY Fields DEF IInv, CoveredSoFar
  <2>2. CASE t < worker.begun /\ worker.begun <= t + Lookback[provider]
    BY <1>2, <2>2 DEF InCatalogue, IsPublished, Channel
  <2>3. CASE t < worker.begun /\ t + Lookback[provider] < worker.begun /\ covered <= t
    BY <1>1, <2>3 DEF BeforeWindow
  <2>4. CASE t < covered
    BY <1>1, <2>4 DEF IInv, NothingHidden, Passed
  <2>5. CASE worker.begun <= t
    BY <1>1, <1>2, <2>1, <2>5 DEF Overtaken
  <2> QED
    BY <1>2, <2>1, <2>2, <2>3, <2>4, <2>5
<1>8. NotModifiedIsPublished'
  BY <1>1, <1>2, <1>4 DEF IInv, NotModifiedIsPublished, InCatalogue
<1>9. CoveredSoFar' /\ BaselineSaved' /\ BaselineOnlyOnce' /\ provider' \in Providers
  BY <1>1, <1>2, <1>4, Fields DEF IInv, CoveredSoFar, BaselineSaved, BaselineOnlyOnce, source
<1> QED
  BY <1>5, <1>6, <1>7, <1>8, <1>9 DEF IInv

\* The WebSocket works beside the worker.
LEMMA StreamKeeps ==
  ASSUME IInv, connected' \in BOOLEAN, frames' \subseteq reports, faults' = faults,
         UNCHANGED <<source, saved, worker, topic, history>>
  PROVE  IInv'
<1>1. /\ TypeOK' /\ OnlyReports' /\ HoldsSaved' /\ CoveredSoFar' /\ BaselineSaved'
      /\ provider' \in Providers
  BY DEF IInv, TypeOK, OnlyReports, HoldsSaved, CoveredSoFar, BaselineSaved, source, history
<1>2. RecoveredSoFar' /\ PolledSoFar'
  BY DEF IInv, RecoveredSoFar, PolledSoFar, Handled, InCatalogue, IsPublished, source, history
<1>3. NothingHidden' /\ NotModifiedIsPublished' /\ BaselineOnlyOnce'
  BY DEF IInv, NothingHidden, Passed, NotModifiedIsPublished, BaselineOnlyOnce,
         IsPublished, source, history
<1> QED
  BY <1>1, <1>2, <1>3 DEF IInv

LEMMA PublishFrameKeeps ==
  ASSUME IInv, NEW t \in Time, PublishFrame(t)
  PROVE  IInv'
<1>1. /\ t \in frames /\ frames' = frames \ {t} /\ topic' = Published("stream", t, "realtime")
      /\ UNCHANGED <<source, saved, worker, connected, faults, history>>
  BY DEF PublishFrame
<1>2. t \in reports /\ "stream" \in Channel /\ "realtime" \in Mode
  BY <1>1 DEF IInv, TypeOK, Channel, Mode
<1>3. /\ topic' \in [Channel -> [Time -> Mode \cup {"none"}]]
      /\ \A d \in Channel, u \in Time : topic'[d][u] # "none" => u \in reports'
      /\ \A u \in Time : Handled(u) => Handled(u)'
      /\ \A u \in Time : InCatalogue(u) => InCatalogue(u)'
      /\ CoveredSoFar' /\ BaselineSaved' /\ provider' \in Providers
      /\ NothingHidden' /\ NotModifiedIsPublished' /\ BaselineOnlyOnce'
  BY <1>1, <1>2, TopicKeeps
<1>4. TypeOK' /\ OnlyReports' /\ HoldsSaved'
  BY <1>1, <1>3 DEF IInv, TypeOK, OnlyReports, HoldsSaved, source
<1>5. RecoveredSoFar'
  BY <1>1, <1>3, Fields DEF IInv, RecoveredSoFar, source
<1>6. PolledSoFar'
  <2>1. worker.feed \subseteq Time
    BY Fields DEF Worker
  <2> QED
    BY <1>1, <1>3, <2>1 DEF IInv, PolledSoFar, source, history
<1> QED
  BY <1>3, <1>4, <1>5, <1>6 DEF IInv

----------------------------------------------------------------------------
(* The theorems.                                                           *)

LEMMA InitIInv == ASSUME Init PROVE IInv
<1>1. TypeOK
  <2>1. /\ Stopped \in Worker /\ EmptyState \in State
        /\ Stopped.target = 0 /\ Stopped.start = 0 /\ Stopped.end = 0
        /\ EmptyState.checkpoint = 0
    BY Workers DEF Stopped, EmptyState
  <2>2. 1 \in Time /\ faults \in 0 .. MaxFaults /\ 0 <= now
    BY DEF Init, Time
  <2>3. topic \in [Channel -> [Time -> Mode \cup {"none"}]]
    BY DEF Init
  <2>4. now \in Time /\ reports \subseteq 1 .. now /\ connected \in BOOLEAN /\ frames \subseteq reports
    BY <2>2 DEF Init
  <2>5. /\ saved \in State /\ saved.checkpoint <= now
        /\ worker \in Worker /\ worker.target <= now
        /\ worker.start <= worker.target /\ worker.end <= worker.target
    BY <2>1, <2>2 DEF Init
  <2> QED
    BY <2>2, <2>3, <2>4, <2>5 DEF TypeOK
<1>2. /\ OnlyReports /\ HoldsSaved /\ RecoveredSoFar /\ PolledSoFar
      /\ CoveredSoFar /\ BaselineSaved
  BY DEF Init, OnlyReports, HoldsSaved, RecoveredSoFar, PolledSoFar, CoveredSoFar,
         BaselineSaved, Stopped
<1>3. NothingHidden /\ NotModifiedIsPublished /\ BaselineOnlyOnce /\ provider \in Providers
  BY DEF Init, NothingHidden, NotModifiedIsPublished, BaselineOnlyOnce, EmptyState
<1> QED
  BY <1>1, <1>2, <1>3 DEF IInv

LEMMA NextIInv == ASSUME IInv, [Next]_vars PROVE IInv'
<1>1. ASSUME Tick PROVE IInv'
  BY <1>1, TickKeeps
<1>2. ASSUME ReportComesOut PROVE IInv'
  BY <1>2, ReportKeeps
<1>3. ASSUME Start PROVE IInv'
  BY <1>3, StartKeeps
<1>4. ASSUME FetchWindow PROVE IInv'
  BY <1>4, FetchWindowKeeps
<1>5. ASSUME SaveWindow PROVE IInv'
  BY <1>5, SaveWindowKeeps
<1>6. ASSUME BeginPoll PROVE IInv'
  BY <1>6, BeginPollKeeps
<1>7. ASSUME SavePoll PROVE IInv'
  BY <1>7, SavePollKeeps
<1>8. ASSUME SaveFails PROVE IInv'
  <2>1. /\ worker' \in {Stopped, Idle} /\ UNCHANGED <<source, saved, streaming, topic, history>>
        /\ faults' \in 0 .. MaxFaults
    BY <1>8 DEF SaveFails, AfterError, Fault, IInv, TypeOK
  <2> QED
    BY <2>1, Quits DEF IInv, TypeOK, streaming
<1>9. ASSUME Crash PROVE IInv'
  <2>1. /\ worker' = Stopped /\ connected' = FALSE /\ frames' = {}
        /\ UNCHANGED <<source, saved, topic, history>> /\ faults' \in 0 .. MaxFaults
    BY <1>9 DEF Crash, Fault, IInv, TypeOK
  <2> QED
    BY <2>1, Quits
<1>10. ASSUME NEW t \in Time, PublishNext(t) PROVE IInv'
  BY <1>10, PublishNextKeeps
<1>11. ASSUME NEW t \in Time, PublishFails(t) PROVE IInv'
  BY <1>11, PublishFailsKeeps
<1>12. ASSUME NEW t \in Time, PublishFrame(t) PROVE IInv'
  BY <1>12, PublishFrameKeeps
<1>13. ASSUME Connect \/ Disconnect PROVE IInv'
  <2>1. /\ connected' \in BOOLEAN /\ frames' \subseteq reports /\ faults' = faults
        /\ UNCHANGED <<source, saved, worker, topic, history>>
    BY <1>13 DEF Connect, Disconnect, IInv, TypeOK
  <2> QED
    BY <2>1, StreamKeeps
<1>14. ASSUME UNCHANGED vars PROVE IInv'
  <2>1. /\ connected' \in BOOLEAN /\ frames' \subseteq reports /\ faults' = faults
        /\ UNCHANGED <<source, saved, worker, topic, history>>
    BY <1>14 DEF vars, streaming, IInv, TypeOK
  <2> QED
    BY <2>1, StreamKeeps
<1> QED
  BY <1>1, <1>2, <1>3, <1>4, <1>5, <1>6, <1>7, <1>8, <1>9, <1>10, <1>11, <1>12, <1>13, <1>14 DEF Next

\* What the worker saves never runs ahead of what it published: Recover and
\* Poll save their state last, whatever fails or crashes before.
THEOREM Invariance == Spec => []IInv
BY InitIInv, NextIInv, PTL DEF Spec

\* Every variable keeps its type, and no checkpoint, window or report of the
\* worker lies in the future.
THEOREM TypeCorrect == Spec => []TypeOK
<1>1. IInv => TypeOK
  BY DEF IInv
<1> QED
  BY <1>1, Invariance, PTL

\* The checkpoint in the state file and the windows that were saved hide no
\* report, in any order of polls, recoveries, failures and crashes and however
\* long a poll takes, but the two kinds of which nobody is told: those that no
\* poll's window reached, and those that a slow poll's checkpoint overtook.
THEOREM CheckpointHidesNothing == Spec => []NothingHidden
<1>1. IInv => NothingHidden
  BY DEF IInv
<1> QED
  BY <1>1, Invariance, PTL

\* An answer "not modified" to the saved ETag leaves nothing unpublished.
THEOREM EtagIsPublished == Spec => []NotModifiedIsPublished
<1>1. IInv => NotModifiedIsPublished
  BY DEF IInv
<1> QED
  BY <1>1, Invariance, PTL

\* After the first saved poll no report is published as part of the baseline,
\* whatever is tried again.
THEOREM OneBaseline == Spec => []BaselineOnlyOnce
<1>1. IInv => BaselineOnlyOnce
  BY DEF IInv
<1> QED
  BY <1>1, Invariance, PTL
=============================================================================
