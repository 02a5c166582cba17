---------------------------- MODULE TelegramBot ----------------------------
(***************************************************************************)
(* The Telegram bot and the subscription of one chat.                      *)
(*                                                                         *)
(* Every notification process runs a bot; the one that holds an advisory   *)
(* lock polls Telegram for updates, handles them one by one and saves the  *)
(* offset after each.  Operators change subscriptions through the HTTP     *)
(* API, which reads the row, checks it and writes it without a lock.       *)
(*                                                                         *)
(* Abstractions.                                                           *)
(*  - There is one chat with a subscription.  Updates of other chats, and  *)
(*    commands that change nothing, are the update "other".                *)
(*  - Of a subscription there is its status and which of its settings are  *)
(*    present.  The minimum magnitude is left out: the bot clears it with  *)
(*    the radius, and a subscription is valid with or without it.          *)
(*  - A request of an operator may give a status and a radius; the other   *)
(*    fields, a new place for the old one among them, change neither.      *)
(*  - Refused replies are faults and end: a chat that refuses every reply  *)
(*    stops the bot at its update, for all chats.                          *)
(***************************************************************************)
EXTENDS Naturals, Sequences, FiniteSets

CONSTANTS
  Bots,         \* the processes that run a bot
  None,         \* nobody
  MaxUpdates,   \* bound: how many updates the users send
  MaxRequests,  \* bound: how many requests operators make
  MaxFaults     \* bound: how many things go wrong

ASSUME BotAssumption ==
  /\ None \notin Bots
  /\ MaxUpdates \in Nat /\ MaxRequests \in Nat /\ MaxFaults \in Nat

VARIABLES
  updates,    \* what the users sent; the id of an update is its position
  confirmed,  \* Telegram forgot the updates before this one
  saved,      \* the offset in provider_state, 0 if there is none
  holder,     \* whose database session holds the advisory lock
  bot,        \* bot[b]: where bot b is in its loop
  sub,        \* the subscription
  request,    \* the operator's request under way
  requests,   \* how many requests operators made
  faults,     \* how many things went wrong so far
  handled,    \* history: the updates whose handler succeeded
  latest,     \* history: the newest update that took effect
  wanted,     \* history: wanted[u]: the settings after the updates up to u
  disturbed,  \* history: a session was lost, or an offset not loaded
  raced,      \* history: a request was written over a later change
  stopped     \* history: the user's /stop is the last thing asked for

telegram == <<updates, confirmed, wanted>>
operator == <<request, requests>>
history == <<handled, latest, disturbed, raced, stopped>>
vars == <<telegram, saved, holder, bot, sub, operator, faults, history>>

----------------------------------------------------------------------------
Update == 1 .. MaxUpdates

Command == {"location", "language", "intensity", "stop", "other"}

Sub == [status: {"none", "paused", "active", "disabled"}, location: BOOLEAN,
        language: BOOLEAN, intensity: BOOLEAN, radius: BOOLEAN]

NoSub == [status |-> "none", location |-> FALSE, language |-> FALSE,
          intensity |-> FALSE, radius |-> FALSE]

\* Legacy subscriptions have a radius, and no language yet.
LegacySub == [status |-> "active", location |-> TRUE, language |-> FALSE,
              intensity |-> FALSE, radius |-> TRUE]

\* next and last are the first and the last update of the batch that are not
\* handled, offset is what the next getUpdates asks for.
Bot == [phase: {"wait", "poll", "handle", "reply", "save"}, offset: Nat,
        next: Nat, last: Nat]

Waiting == [phase |-> "wait", offset |-> 0, next |-> 0, last |-> 0]

Larger(m, n) == IF m > n THEN m ELSE n

----------------------------------------------------------------------------
(* What the handler of an update does to the subscription.                 *)

\* UpsertTelegramLocation.
Located == [status |-> "paused", location |-> TRUE, language |-> FALSE,
            intensity |-> FALSE, radius |-> FALSE]

\* Faulty variant: the statement does not ask for a language.
MutActivated(s) ==
  IF s.location
    THEN [s EXCEPT !.status = "active", !.intensity = TRUE, !.radius = FALSE]
    ELSE s

\* ActivateTelegramIntensity.
Activated(s) ==
  IF s.location /\ s.language
    THEN [s EXCEPT !.status = "active", !.intensity = TRUE, !.radius = FALSE]
    ELSE s

Effect(command, s) ==
  CASE command = "location" -> Located
    [] command = "language" -> IF s.location THEN [s EXCEPT !.language = TRUE] ELSE s
    [] command = "intensity" -> Activated(s)
    [] command = "stop" /\ s.status # "none" -> [s EXCEPT !.status = "disabled"]
    [] OTHER -> s

----------------------------------------------------------------------------
Init ==
  /\ updates = <<>>
  /\ confirmed = 1
  /\ saved = 0
  /\ holder = None
  /\ bot = [b \in Bots |-> Waiting]
  /\ sub \in {NoSub, LegacySub}
  /\ request = None
  /\ requests = 0
  /\ faults = 0
  /\ handled = {}
  /\ latest = 0
  /\ wanted = <<>>
  /\ disturbed = FALSE
  /\ raced = FALSE
  /\ stopped = FALSE

Fault == faults < MaxFaults /\ faults' = faults + 1

\* What the user asked for with all updates so far.
WantedNow ==
  IF updates = <<>> THEN [NoSub EXCEPT !.location = sub.location] ELSE wanted[Len(updates)]

(* A user sends an update.                                                 *)
Send(command) ==
  /\ Len(updates) < MaxUpdates
  /\ updates' = Append(updates, command)
  /\ wanted' = Append(wanted, Effect(command, WantedNow))
  /\ UNCHANGED <<confirmed, saved, holder, bot, sub, operator, faults, history>>

----------------------------------------------------------------------------
(* The bots.                                                               *)

\* Faulty variant: the bot polls whether it got the lock or not.
MutLockFree == TRUE

LockFree == holder = None

Polls(b) == bot[b].phase # "wait"

(* Run gets the lock, and poll loads the offset.                           *)
Acquire(b) ==
  /\ ~Polls(b)
  /\ LockFree
  /\ holder' = b
  /\ bot' = [bot EXCEPT ![b] = [Waiting EXCEPT !.phase = "poll", !.offset = saved]]
  /\ UNCHANGED <<telegram, saved, sub, operator, faults, history>>

(* The offset cannot be loaded: the bot begins with what Telegram has.     *)
LoadFails(b) ==
  /\ ~Polls(b)
  /\ LockFree
  /\ Fault
  /\ holder' = b
  /\ bot' = [bot EXCEPT ![b] = [Waiting EXCEPT !.phase = "poll"]]
  /\ disturbed' = TRUE
  /\ UNCHANGED <<telegram, saved, sub, operator, handled, latest, raced, stopped>>

(* GetUpdates: Telegram forgets what is before the offset and returns the  *)
(* rest, so poll finds nothing older than its offset to pass over.         *)
Fetch(b) ==
  /\ bot[b].phase = "poll"
  /\ confirmed' = Larger(confirmed, bot[b].offset)
  /\ confirmed' <= Len(updates) \/ confirmed' # confirmed
  /\ bot' = [bot EXCEPT ![b] = [@ EXCEPT
       !.phase = IF confirmed' <= Len(updates) THEN "handle" ELSE "poll",
       !.next = confirmed', !.last = Len(updates)]]
  /\ UNCHANGED <<updates, wanted, saved, holder, sub, operator, faults, history>>

\* The bot after its next update: it goes on with the batch or polls again.
Advanced(b) ==
  [bot[b] EXCEPT !.phase = IF bot[b].next < bot[b].last THEN "handle" ELSE "poll",
                 !.next = @ + 1]

(* The first half of handle: the statement on the subscription.            *)
Handle(b) ==
  /\ bot[b].phase = "handle"
  /\ LET u == bot[b].next IN
       /\ sub' = Effect(updates[u], sub)
       /\ latest' = Larger(latest, u)
       /\ stopped' = IF u > latest THEN updates[u] = "stop" /\ sub.status # "none" ELSE stopped
  /\ bot' = [bot EXCEPT ![b].phase = "reply"]
  /\ UNCHANGED <<telegram, saved, holder, operator, faults, handled, disturbed, raced>>

\* Faulty variant: an error ends the loop of the bot, which keeps its lock.
MutFailedStops(b) == Waiting

\* Faulty variant: the offset follows the update before it is handled.
MutFailed(b) == [bot[b] EXCEPT !.phase = "poll", !.offset = bot[b].next + 1]

\* The bot after handle failed: it fetches the update again.
Failed(b) == [bot[b] EXCEPT !.phase = "poll"]

(* The statement fails.                                                    *)
HandleFails(b) ==
  /\ bot[b].phase = "handle"
  /\ Fault
  /\ bot' = [bot EXCEPT ![b] = Failed(b)]
  /\ UNCHANGED <<telegram, saved, holder, sub, operator, history>>

(* The second half of handle: the reply.                                   *)
Reply(b) ==
  /\ bot[b].phase = "reply"
  /\ handled' = handled \cup {bot[b].next}
  /\ bot' = [bot EXCEPT ![b] = [@ EXCEPT !.phase = "save", !.offset = bot[b].next + 1]]
  /\ UNCHANGED <<telegram, saved, holder, sub, operator, faults, latest, disturbed, raced, stopped>>

(* Telegram refuses the reply.                                             *)
ReplyFails(b) ==
  /\ bot[b].phase = "reply"
  /\ Fault
  /\ bot' = [bot EXCEPT ![b] = Failed(b)]
  /\ UNCHANGED <<telegram, saved, holder, sub, operator, history>>

SaveOffset(b) ==
  /\ bot[b].phase = "save"
  /\ saved' = bot[b].offset
  /\ bot' = [bot EXCEPT ![b] = Advanced(b)]
  /\ UNCHANGED <<telegram, holder, sub, operator, faults, history>>

(* The offset cannot be written: the bot polls again with its own.         *)
SaveFails(b) ==
  /\ bot[b].phase = "save"
  /\ Fault
  /\ bot' = [bot EXCEPT ![b].phase = "poll"]
  /\ UNCHANGED <<telegram, saved, holder, sub, operator, history>>

(* The process stops, and its database session with it.                    *)
Crash(b) ==
  /\ Polls(b)
  /\ Fault
  /\ bot' = [bot EXCEPT ![b] = Waiting]
  /\ holder' = IF holder = b THEN None ELSE holder
  /\ UNCHANGED <<telegram, saved, sub, operator, history>>

(* Only the session that holds the lock ends; the bot does not notice.     *)
LoseSession ==
  /\ holder # None
  /\ Fault
  /\ holder' = None
  /\ disturbed' = TRUE
  /\ UNCHANGED <<telegram, saved, bot, sub, operator, handled, latest, raced, stopped>>

----------------------------------------------------------------------------
(* The operators.                                                          *)

\* Subscription.Validate: with a place, it asks for a radius or an intensity.
Valid(s) ==
  /\ s.location \/ s.radius => s.location /\ (s.radius \/ s.intensity)
  /\ s.intensity => s.location

\* The subscription with the fields of a request; a status "keep" is none.
\* The other fields (name, magnitudes, triggers, another place) do not change
\* what is configured: a row that exists has a place.
Merged(s, status, radius) ==
  [s EXCEPT !.status = IF status = "keep" THEN @ ELSE status, !.radius = @ \/ radius]

(* A PATCH request reads the subscription, puts its fields into what it    *)
(* read and checks that.                                                   *)
BeginPatch(status, radius) ==
  /\ request = None
  /\ requests < MaxRequests
  /\ sub.status # "none"
  /\ LET row == Merged(sub, status, radius) IN
       /\ Valid(row)
       /\ request' = [row |-> row, read |-> sub, status |-> status]
  /\ requests' = requests + 1
  /\ UNCHANGED <<telegram, saved, holder, bot, sub, faults, history>>

\* UpdateSubscription writes every column it knows; it does not know the
\* language and the intensity.
Patched(s) ==
  [s EXCEPT !.status = request.row.status, !.location = request.row.location,
            !.radius = request.row.radius]

EndPatch ==
  /\ request # None
  /\ sub' = Patched(sub)
  /\ raced' = (raced \/ sub # request.read)
  /\ stopped' = (stopped /\ request.status = "keep")
  /\ request' = None
  /\ UNCHANGED <<telegram, saved, holder, bot, requests, faults, handled, latest, disturbed>>

(* A DELETE request.                                                       *)
Disable ==
  /\ requests < MaxRequests
  /\ sub.status # "none"
  /\ requests' = requests + 1
  /\ sub' = [sub EXCEPT !.status = "disabled"]
  /\ UNCHANGED <<telegram, saved, holder, bot, request, faults, history>>

Next ==
  \/ \E command \in Command : Send(command)
  \/ \E b \in Bots :
       \/ Acquire(b) \/ LoadFails(b) \/ Fetch(b)
       \/ Handle(b) \/ HandleFails(b) \/ Reply(b) \/ ReplyFails(b)
       \/ SaveOffset(b) \/ SaveFails(b) \/ Crash(b)
  \/ LoseSession
  \/ \E status \in {"keep", "active", "paused", "disabled"}, radius \in BOOLEAN :
       BeginPatch(status, radius)
  \/ EndPatch \/ Disable

Spec == Init /\ [][Next]_vars

Step(b) == Fetch(b) \/ Handle(b) \/ Reply(b) \/ SaveOffset(b)

(* Run asks for the lock every five seconds, poll loops for as long as the *)
(* process lives, and calls end.                                           *)
Fairness == \A b \in Bots : WF_vars(Acquire(b)) /\ WF_vars(Step(b))

FairSpec == Spec /\ Fairness

----------------------------------------------------------------------------
(* Properties.                                                             *)

\* Every variable keeps its type, and a bot at work is inside its batch.
TypeOK ==
  /\ updates \in Seq(Command) /\ Len(updates) <= MaxUpdates
  /\ confirmed \in 1 .. Len(updates) + 1 /\ saved \in 0 .. Len(updates) + 1
  /\ holder \in Bots \cup {None}
  /\ bot \in [Bots -> Bot]
  /\ \A b \in Bots : bot[b].phase \in {"handle", "reply", "save"} =>
       /\ bot[b].next \in 1 .. bot[b].last
       /\ bot[b].last <= Len(updates)
  /\ sub \in Sub
  /\ request = None \/ {request.row, request.read} \subseteq Sub
  /\ requests \in 0 .. MaxRequests /\ faults \in 0 .. MaxFaults
  /\ handled \subseteq 1 .. Len(updates) /\ latest \in 0 .. Len(updates)

\* No command of a user is lost: an update that Telegram was told to forget,
\* or that a restarted bot will not ask for, was handled and answered, with
\* whatever crashes, failed writes, lost sessions and second pollers.
NoUpdateSkipped ==
  \A u \in 1 .. Len(updates) : u < Larger(confirmed, saved) => u \in handled

\* The settings the bot manages are what the updates, each taken once and in
\* order, make of them: an update that is handled again after a crash, or by
\* the next holder of the lock, changes nothing, unless the lock was lost
\* without its holder, or the offset was not loaded.
SettingsFollowUpdates ==
  ~disturbed /\ latest > 0 =>
    /\ sub.language = wanted[latest].language
    /\ sub.intensity = wanted[latest].intensity

\* An active subscription is complete: it has a place, and either the radius
\* of a legacy subscription or of an operator's request, or the language and
\* the intensity the bot asks for.  One with a place alone would be active
\* and yet selected by no query for candidates; one with an intensity and no
\* language never chose what it is told in.  No order of commands, repeated
\* updates and requests makes such a one, unless a request was written over
\* a change that came after it was read.
ActiveIsConfigured ==
  ~raced /\ sub.status = "active" =>
    sub.location /\ (sub.radius \/ (sub.language /\ sub.intensity))

\* Every update is handled in the end, though bots stop and lose the lock.
EveryUpdateHandled == \A u \in Update : u <= Len(updates) ~> u \in handled

\* What docs/telegram.md says of /stop, that it disables alerts: a stopped
\* subscription stays disabled until the user, or an operator who asks for a
\* status, wants it otherwise.
StopHolds == stopped => sub.status = "disabled"
=============================================================================
