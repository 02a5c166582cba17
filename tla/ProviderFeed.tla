---------------------------- MODULE ProviderFeed ----------------------------
(***************************************************************************)
(* A provider worker: how the reports of one catalogue get to the topic    *)
(* provider.observations.v1.                                               *)
(*                                                                         *)
(* When it starts, the worker recovers the time since its checkpoint,      *)
(* window by window, if that is long ago; then it polls for the recent     *)
(* reports, and next to that EMSC pushes reports over a WebSocket.  What   *)
(* it did is saved in a file only after it was published, so it may stop   *)
(* or fail in between and do it again.                                     *)
(*                                                                         *)
(* Abstractions.                                                           *)
(*  - A report is named by the time at which it comes out, at most one at  *)
(*    each time.  Revisions that come out after their earthquake left the  *)
(*    window of a poll or of a recovery are left out.                      *)
(*  - Pages of a response are fetched together, and a poll of EMSC, which  *)
(*    asks for one page only, gets all.  A poll whose fetch fails leaves   *)
(*    nothing behind and is no step; a recovery ends in a Crash.           *)
(*  - An ETag is the set of the reports it was given for.                  *)
(*  - Invalid reports and frames are skipped by the parsers.               *)
(***************************************************************************)
EXTENDS Naturals, FiniteSets

CONSTANTS
  Providers,     \* the catalogues to look at, of "usgs" and "emsc"
  Lookback,      \* Lookback[p]: how far back the polls of p reach
  RecoverAfter,  \* a checkpoint older than this is recovered from (24 hours)
  Overlap,       \* ingestion.recovery_overlap_duration
  Chunk,         \* ingestion.backfill_chunk_duration
  MaxTime,       \* bound: time stops here
  MaxReports,    \* bound: how many reports come out
  MaxFaults      \* bound: how many things go wrong

ASSUME ProviderAssumption ==
  /\ Lookback \in [Providers -> Nat]
  /\ RecoverAfter \in Nat /\ Overlap \in Nat /\ MaxTime \in Nat \ {0}
  /\ Chunk \in Nat \ {0} /\ MaxReports \in Nat /\ MaxFaults \in Nat

VARIABLES
  provider,   \* the worker's provider
  now,        \* the time
  reports,    \* the reports that came out
  saved,      \* the state file
  worker,     \* what the worker has in memory
  connected,  \* whether the WebSocket is connected
  frames,     \* reports it received that are not published
  topic,      \* topic[c][t]: the mode in which report t was first published
              \* on channel c; the core ignores later ones with the same id
  faults,     \* how many things went wrong so far
  baselineAt, \* history: when the first poll was saved, 0 before
  covered,    \* history: what came out before it was in the window of a poll or
              \* recovery that was saved, or of one before
  skipped,    \* history: reports that no poll had in its window, and no
              \* recovery was due
  overtaken   \* history: reports that came out during a poll and before the
              \* overlap of its checkpoint

source == <<provider, now, reports>>
streaming == <<connected, frames>>
history == <<baselineAt, covered, skipped, overtaken>>
vars == <<source, saved, worker, streaming, topic, faults, history>>

----------------------------------------------------------------------------
Time == 1 .. MaxTime

Channel == {"catalogue", "stream"}

Mode == {"baseline", "realtime", "recovery"}

\* The checkpoint is 0 if there is none.
State == [baseline: BOOLEAN, checkpoint: 0 .. MaxTime, etag: SUBSET Time]

EmptyState == [baseline |-> FALSE, checkpoint |-> 0, etag |-> {}]

\* begun is when the poll fetched, feed what it got; start and target are
\* what Recover has left to do, end the end of its current window.
Worker == [phase: {"stopped", "recover", "window", "idle", "poll"}, state: State,
           todo: SUBSET Time, feed: SUBSET Time, begun: 0 .. MaxTime,
           start: 0 .. MaxTime, end: 0 .. MaxTime, target: 0 .. MaxTime]

Stopped == [phase |-> "stopped", state |-> EmptyState, todo |-> {}, feed |-> {},
            begun |-> 0, start |-> 0, end |-> 0, target |-> 0]

Idle == [Stopped EXCEPT !.phase = "idle"]

Publishing == worker.phase \in {"window", "poll"}

\* Only EMSC has a WebSocket, and only USGS answers conditional requests.
Streams == provider = "emsc"
Conditional == provider = "usgs"

Smaller(m, n) == IF m < n THEN m ELSE n
Larger(m, n) == IF m > n THEN m ELSE n

\* m - n, and 0 where that would be less.
Minus(m, n) == IF m > n THEN m - n ELSE 0

Init ==
  /\ provider \in Providers
  /\ now = 1
  /\ reports = {}
  /\ saved = EmptyState
  /\ worker = Stopped
  /\ connected = FALSE
  /\ frames = {}
  /\ topic = [c \in Channel |-> [t \in Time |-> "none"]]
  /\ faults = 0
  /\ baselineAt = 0
  /\ covered = 0
  /\ skipped = {}
  /\ overtaken = {}

Fault == faults < MaxFaults /\ faults' = faults + 1

----------------------------------------------------------------------------
(* The provider.                                                           *)

(* Time passes, also while the worker waits for the provider, as long as a *)
(* Retry-After asks, or for Kafka: neither a poll nor a recovery has a     *)
(* deadline.                                                               *)
Tick ==
  /\ now < MaxTime
  /\ now' = now + 1
  /\ UNCHANGED <<provider, reports, saved, worker, streaming, topic, faults, history>>

ReportComesOut ==
  /\ now \notin reports
  /\ Cardinality(reports) < MaxReports
  /\ reports' = reports \cup {now}
  /\ frames' = IF connected THEN frames \cup {now} ELSE frames
  /\ UNCHANGED <<provider, now, saved, worker, connected, topic, faults, history>>

\* The topic after report t was published: the id of a message is derived
\* from the identity, the channel and the payload, not from the mode.
Published(c, t, mode) ==
  IF topic[c][t] = "none" THEN [topic EXCEPT ![c][t] = mode] ELSE topic

----------------------------------------------------------------------------
(* Starting and recovering.                                                *)

\* Faulty variant: the recovery starts at the checkpoint.
MutRecoverFrom(state) == state.checkpoint

RecoverFrom(state) == Minus(state.checkpoint, Overlap)

RecoveryDue(state) ==
  state.checkpoint # 0 /\ now > state.checkpoint + RecoverAfter

(* The process starts: Recover loads the state.                            *)
Start ==
  /\ worker.phase = "stopped"
  /\ worker' = IF RecoveryDue(saved)
                 THEN [Stopped EXCEPT !.phase = "recover", !.state = saved,
                                      !.start = RecoverFrom(saved), !.target = now]
                 ELSE Idle
  /\ UNCHANGED <<source, saved, streaming, topic, faults, history>>

WindowEnd == Smaller(worker.start + Chunk, worker.target)

(* FetchHistorical, every page of a window.                                *)
FetchWindow ==
  /\ worker.phase = "recover"
  /\ worker' = [worker EXCEPT !.phase = "window", !.end = WindowEnd,
                   !.todo = {t \in reports : worker.start <= t /\ t < WindowEnd}]
  /\ UNCHANGED <<source, saved, streaming, topic, faults, history>>

\* Faulty variant: the checkpoint is saved as a new state.
MutAdvanced(state, end) == [EmptyState EXCEPT !.checkpoint = end]

Advanced(state, end) == [state EXCEPT !.checkpoint = end]

\* Faulty variant: the state is saved before everything is published.
MutAllPublished == TRUE

AllPublished == worker.todo = {}

\* Faulty variant: the next window starts where the last one did.
MutNextWindow(state) == [worker EXCEPT !.phase = "recover", !.state = state]

NextWindow(state) ==
  [worker EXCEPT !.phase = "recover", !.state = state, !.start = worker.end]

(* A window is done.  Recover saves the checkpoint; after the last window  *)
(* the worker starts to poll.                                              *)
SaveWindow ==
  /\ worker.phase = "window"
  /\ AllPublished
  /\ LET state == Advanced(worker.state, worker.end) IN
       /\ saved' = state
       /\ worker' = IF worker.end = worker.target THEN Idle ELSE NextWindow(state)
  /\ covered' = Larger(covered, worker.end)
  /\ UNCHANGED <<source, streaming, topic, faults, baselineAt, skipped, overtaken>>

----------------------------------------------------------------------------
(* Polling.                                                                *)

Feed == {t \in reports : now <= t + Lookback[provider]}

NotModified(state) == Conditional /\ state.etag # {} /\ state.etag = Feed

(* Poll loads the state and fetches.                                       *)
BeginPoll ==
  /\ worker.phase = "idle"
  /\ worker' = [worker EXCEPT !.phase = "poll", !.state = saved, !.begun = now,
                  !.feed = Feed, !.todo = IF NotModified(saved) THEN {} ELSE Feed]
  /\ UNCHANGED <<source, saved, streaming, topic, faults, history>>

CurrentMode ==
  CASE worker.phase = "window" -> "recovery"
    [] worker.state.baseline -> "realtime"
    [] OTHER -> "baseline"

PublishNext(t) ==
  /\ Publishing
  /\ t \in worker.todo
  /\ topic' = Published("catalogue", t, CurrentMode)
  /\ worker' = [worker EXCEPT !.todo = @ \ {t}]
  /\ UNCHANGED <<source, saved, streaming, faults, history>>

\* The worker after an error: a failing recovery ends the process, a failing
\* poll is tried again with the next tick of Run.
AfterError == IF worker.phase = "window" THEN Stopped ELSE Idle

(* Kafka does not take a report, or takes it without an answer.            *)
PublishFails(t) ==
  /\ Publishing
  /\ t \in worker.todo
  /\ Fault
  /\ topic' \in {topic, Published("catalogue", t, CurrentMode)}
  /\ worker' = AfterError
  /\ UNCHANGED <<source, saved, streaming, history>>

PolledState ==
  [baseline |-> TRUE, checkpoint |-> now,
   etag |-> IF Conditional THEN worker.feed ELSE worker.state.etag]

\* What no poll or recovery had in its window, and this one has not either.
BeforeWindow ==
  {t \in reports : covered <= t /\ t + Lookback[provider] < worker.begun}

\* What came out during this poll and is out of reach of a recovery that
\* starts from its checkpoint: there is none in a poll that is shorter than
\* the overlap.
Overtaken == {t \in reports : worker.begun <= t /\ t + Overlap < now}

(* The poll is done and its state is saved.                                *)
SavePoll ==
  /\ worker.phase = "poll"
  /\ AllPublished
  /\ saved' = PolledState
  /\ worker' = Idle
  /\ baselineAt' = IF baselineAt = 0 THEN now ELSE baselineAt
  /\ covered' = worker.begun
  /\ skipped' = skipped \cup BeforeWindow
  /\ overtaken' = overtaken \cup Overtaken
  /\ UNCHANGED <<source, streaming, topic, faults>>

(* The file cannot be written; the old one is still there.                 *)
SaveFails ==
  /\ Publishing
  /\ AllPublished
  /\ Fault
  /\ worker' = AfterError
  /\ UNCHANGED <<source, saved, streaming, topic, history>>

(* The process stops.                                                      *)
Crash ==
  /\ worker.phase # "stopped"
  /\ Fault
  /\ worker' = Stopped
  /\ connected' = FALSE
  /\ frames' = {}
  /\ UNCHANGED <<source, saved, topic, history>>

----------------------------------------------------------------------------
(* The WebSocket, beside the polls.                                        *)

Connect ==
  /\ Streams
  /\ worker.phase \in {"idle", "poll"}
  /\ ~connected
  /\ connected' = TRUE
  /\ UNCHANGED <<source, saved, worker, frames, topic, faults, history>>

PublishFrame(t) ==
  /\ t \in frames
  /\ topic' = Published("stream", t, "realtime")
  /\ frames' = frames \ {t}
  /\ UNCHANGED <<source, saved, worker, connected, faults, history>>

(* The connection breaks, or a frame was handled three times in vain.  What *)
(* was not handled is lost: the stream does not repeat it.                 *)
Disconnect ==
  /\ connected
  /\ connected' = FALSE
  /\ frames' = {}
  /\ UNCHANGED <<source, saved, worker, topic, faults, history>>

Next ==
  \/ Tick \/ ReportComesOut
  \/ Start \/ FetchWindow \/ SaveWindow
  \/ BeginPoll \/ SavePoll \/ SaveFails \/ Crash
  \/ \E t \in Time : PublishNext(t) \/ PublishFails(t) \/ PublishFrame(t)
  \/ Connect \/ Disconnect

Spec == Init /\ [][Next]_vars

(* The process is started again, Run polls on a ticker, and requests and   *)
(* publications end.                                                       *)
Fairness ==
  /\ WF_vars(Start) /\ WF_vars(FetchWindow) /\ WF_vars(SaveWindow)
  /\ WF_vars(BeginPoll) /\ WF_vars(SavePoll)
  /\ WF_vars(\E t \in Time : PublishNext(t))

FairSpec == Spec /\ Fairness

----------------------------------------------------------------------------
(* Properties.                                                             *)

\* Every variable keeps its type; in particular no checkpoint, window or
\* report ever lies in the future.
TypeOK ==
  /\ now \in Time
  /\ reports \subseteq 1 .. now
  /\ saved \in State /\ saved.checkpoint <= now
  /\ worker \in Worker /\ worker.target <= now
  /\ worker.start <= worker.target /\ worker.end <= worker.target
  /\ connected \in BOOLEAN
  /\ frames \subseteq reports
  /\ topic \in [Channel -> [Time -> Mode \cup {"none"}]]
  /\ faults \in 0 .. MaxFaults

IsPublished(t) == \E c \in Channel : topic[c][t] # "none"

\* Nobody will look for these again: they were in the window of a poll or
\* recovery that was saved, or a recovery from the checkpoint starts later.
Passed(t) == t < covered \/ t + Overlap < saved.checkpoint

\* Neither the polls and recoveries that were saved nor the checkpoint hide a
\* report: what they passed is on the topic, whether the worker stopped,
\* failed to publish or failed to save in a poll or in any window of a
\* recovery.  Two kinds of reports are lost: those an outage kept out of the
\* windows of the polls while no recovery was due, and those that came out
\* during a poll and were overtaken by its checkpoint, which is the time at
\* its end, by more than the overlap.
NothingHidden ==
  \A t \in reports : Passed(t) => IsPublished(t) \/ t \in skipped \cup overtaken

\* The saved ETag stands for published reports only: a poll that is answered
\* with "not modified" has nothing to publish that an earlier, failed poll
\* left out.
NotModifiedIsPublished ==
  \A t \in saved.etag : topic["catalogue"][t] # "none"

\* What README.md says of the first poll: only until the first poll was
\* saved are reports published without being eligible for alerts as part of
\* the baseline.  No later crash, recovery or failed save brings it back.
BaselineOnlyOnce ==
  baselineAt # 0 => \A t \in reports : topic["catalogue"][t] = "baseline" => t <= baselineAt

\* Every report gets to the topic in the end, unless no poll reached back to
\* it or a checkpoint overtook it, though the worker fails and stops now and
\* then.
EveryReportPublished ==
  \A t \in Time : t \in reports ~> IsPublished(t) \/ t \in skipped \cup overtaken
=============================================================================
