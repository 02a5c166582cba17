------------------------- MODULE TelegramBotProofs -------------------------
(***************************************************************************)
(* Proofs about the Telegram bot, for any number of bots, updates,         *)
(* requests and faults: no update is skipped, the settings follow the      *)
(* updates, and an active subscription is configured.                      *)
(*                                                                         *)
(*  - That no update is skipped holds with any number of bots at work: the *)
(*    offset of each, and its place in its batch, have only handled        *)
(*    updates before them.                                                 *)
(*  - While the lock is kept by its holder there is one bot at work, and   *)
(*    its place, Telegram's and the saved one are at the newest update     *)
(*    that took effect or just after it.  So an update is handled either   *)
(*    for the first time, in its order, or again before any other; and     *)
(*    what the handler does, done twice, is what it does once.             *)
(*  - A subscription has a language before it has an intensity, and an     *)
(*    operator's request is valid with what it was read from: if nothing   *)
(*    came in between, what is written is valid, too.                      *)
(***************************************************************************)
EXTENDS TelegramBot, SequenceTheorems, TLAPS

USE BotAssumption DEF BotAssumption

----------------------------------------------------------------------------
(* The invariant.                                                          *)

HandledBefore(n) == \A u \in 1 .. Len(updates) : u < n => u \in handled

\* What a bot has passed over was handled.
PassedHandled ==
  /\ HandledBefore(confirmed) /\ HandledBefore(saved)
  /\ \A b \in Bots :
       /\ bot[b].offset <= Len(updates) + 1
       /\ HandledBefore(bot[b].offset)
       /\ bot[b].phase \in {"handle", "reply"} => HandledBefore(bot[b].next)
       /\ bot[b].phase = "save" => bot[b].offset = bot[b].next + 1

\* The place of a bot, or of the next one: where it will go on.
Place(offset) == Larger(confirmed, offset)

AtNewest(n) == n = latest \/ n = latest + 1

\* The bot that holds the lock works alone, at the newest update.
InOrder ==
  /\ AtNewest(Place(saved))
  /\ \A b \in Bots : Polls(b) =>
       /\ holder = b
       /\ saved <= bot[b].offset
       /\ bot[b].phase = "poll" => AtNewest(Place(bot[b].offset))
       /\ bot[b].phase \in {"handle", "reply"} =>
            Place(bot[b].offset) = bot[b].next /\ Place(saved) = bot[b].next
       /\ bot[b].phase = "save" => Place(saved) = bot[b].next
       /\ bot[b].phase \in {"reply", "save"} => bot[b].next = latest

\* What the bot manages of two subscriptions is the same.
SameSettings(s, t) ==
  s.location = t.location /\ s.language = t.language /\ s.intensity = t.intensity

\* wanted is what the updates make of the first subscription, ...
WantedFollows ==
  /\ wanted \in Seq(Sub) /\ Len(wanted) = Len(updates)
  /\ \A u \in 1 .. Len(updates) : \E s \in Sub : wanted[u] = Effect(updates[u], s)
  /\ \A u \in 1 .. Len(updates) : u > 1 => wanted[u] = Effect(updates[u], wanted[u - 1])

\* ... and so far the subscription has what the newest update made of it.
SettingsSoFar ==
  /\ latest = 0 =>
       /\ ~sub.language /\ ~sub.intensity
       /\ updates # <<>> => wanted[1] = Effect(updates[1], [NoSub EXCEPT !.location = sub.location])
  /\ latest > 0 /\ ~disturbed => SameSettings(sub, wanted[latest])

\* A subscription has a location, and a language before an intensity.
Kept(s) == s.location = (s.status # "none") /\ (s.intensity => s.language)

Configured(s) == s.location /\ (s.radius \/ (s.language /\ s.intensity))

Asked == {"keep", "active", "paused", "disabled"}

\* A request is valid with the settings of the subscription it was read from.
RequestIsValid ==
  request # None =>
    /\ request.row \in Sub /\ request.read \in Sub
    /\ request.row.status # "none" /\ request.row.location /\ Valid(request.row)
    /\ SameSettings(request.row, request.read)
    /\ sub.status # "none"

IInv ==
  /\ TypeOK /\ PassedHandled /\ (~disturbed => InOrder)
  /\ WantedFollows /\ SettingsSoFar
  /\ Kept(sub) /\ RequestIsValid /\ ActiveIsConfigured

----------------------------------------------------------------------------
(* The handler of an update.                                               *)

LEMMA EffectTypes ==
  ASSUME NEW c \in Command, NEW s \in Sub
  PROVE  Effect(c, s) \in Sub
<1>1. Located \in Sub
  BY DEF Located, Sub
<1>2. [s EXCEPT !.language = TRUE] \in Sub /\ [s EXCEPT !.status = "disabled"] \in Sub
  BY DEF Sub
<1>3. Activated(s) \in Sub
  BY DEF Activated, Sub
<1> QED
  BY <1>1, <1>2, <1>3 DEF Effect

\* t has what command c makes of the settings of s, field by field.
After(c, s, t) ==
  /\ t.location <=> s.location \/ c = "location"
  /\ t.language <=> c # "location" /\ (s.language \/ (c = "language" /\ s.location))
  /\ t.intensity <=>
       c # "location" /\ (s.intensity \/ (c = "intensity" /\ s.location /\ s.language))

LEMMA EffectOnSettings ==
  ASSUME NEW c \in Command, NEW s \in Sub
  PROVE  After(c, s, Effect(c, s))
<1>1. CASE c = "location"
  BY <1>1 DEF Effect, Located, After
<1>2. CASE c = "language"
  BY <1>2 DEF Effect, Sub, After
<1>3. CASE c = "intensity"
  BY <1>3 DEF Effect, Activated, Sub, After
<1>4. CASE c = "stop"
  BY <1>4 DEF Effect, Sub, After
<1>5. CASE c = "other"
  BY <1>5 DEF Effect, After
<1> QED
  BY <1>1, <1>2, <1>3, <1>4, <1>5 DEF Command

LEMMA SettingsAreBoolean ==
  ASSUME NEW s \in Sub
  PROVE  s.location \in BOOLEAN /\ s.language \in BOOLEAN /\ s.intensity \in BOOLEAN
BY DEF Sub

\* It depends on nothing else of the subscription, ...
LEMMA EffectOnSame ==
  ASSUME NEW c \in Command, NEW s \in Sub, NEW t \in Sub, SameSettings(s, t)
  PROVE  SameSettings(Effect(c, s), Effect(c, t))
<1>1. Effect(c, s) \in Sub /\ Effect(c, t) \in Sub
  BY EffectTypes
<1>2. After(c, s, Effect(c, s)) /\ After(c, t, Effect(c, t))
  BY EffectOnSettings
<1> QED
  BY <1>1, <1>2, SettingsAreBoolean DEF SameSettings, After

\* ... and an update handled again changes none of it.
LEMMA EffectTwice ==
  ASSUME NEW c \in Command, NEW s \in Sub, NEW t \in Sub, SameSettings(s, Effect(c, t))
  PROVE  SameSettings(Effect(c, s), Effect(c, t))
<1>1. Effect(c, s) \in Sub /\ Effect(c, t) \in Sub
  BY EffectTypes
<1>2. After(c, s, Effect(c, s)) /\ After(c, t, Effect(c, t))
  BY EffectOnSettings
<1> QED
  BY <1>1, <1>2, SettingsAreBoolean DEF SameSettings, After

\* A subscription stays one, with what it has, ...
LEMMA EffectKeeps ==
  ASSUME NEW c \in Command, NEW s \in Sub, Kept(s)
  PROVE  /\ Kept(Effect(c, s))
         /\ s.status # "none" => Effect(c, s).status # "none"
<1>1. CASE c = "location"
  BY <1>1 DEF Effect, Located, Kept
<1>2. CASE c = "language"
  BY <1>2 DEF Effect, Sub, Kept
<1>3. CASE c = "intensity"
  BY <1>3 DEF Effect, Activated, Sub, Kept
<1>4. CASE c = "stop"
  BY <1>4 DEF Effect, Sub, Kept
<1>5. CASE c = "other"
  BY <1>5 DEF Effect
<1> QED
  BY <1>1, <1>2, <1>3, <1>4, <1>5 DEF Command

\* ... and no update makes one active that is not configured.
LEMMA EffectConfigures ==
  ASSUME NEW c \in Command, NEW s \in Sub, Kept(s), s.status = "active" => Configured(s)
  PROVE  Effect(c, s).status = "active" => Configured(Effect(c, s))
<1>1. CASE c = "location"
  BY <1>1 DEF Effect, Located
<1>2. CASE c = "language"
  BY <1>2 DEF Effect, Sub, Configured
<1>3. CASE c = "intensity"
  BY <1>3 DEF Effect, Activated, Sub, Configured
<1>4. CASE c = "stop"
  BY <1>4 DEF Effect, Sub, Configured
<1>5. CASE c = "other"
  BY <1>5 DEF Effect
<1> QED
  BY <1>1, <1>2, <1>3, <1>4, <1>5 DEF Command

----------------------------------------------------------------------------
(* Parts of a step.                                                        *)

LEMMA LargerOfTwo ==
  ASSUME NEW m \in Nat, NEW n \in Nat
  PROVE  /\ Larger(m, n) \in Nat /\ m <= Larger(m, n) /\ n <= Larger(m, n)
         /\ Larger(m, n) \in {m, n}
BY DEF Larger

\* The numbers of the state.
LEMMA Numbers ==
  ASSUME TypeOK
  PROVE  /\ Len(updates) \in Nat /\ confirmed \in Nat /\ saved \in Nat /\ latest \in Nat
         /\ 1 <= confirmed /\ confirmed <= Len(updates) + 1 /\ saved <= Len(updates) + 1
         /\ latest <= Len(updates)
         /\ \A b \in Bots :
              /\ bot[b] \in Bot /\ bot[b].offset \in Nat /\ bot[b].next \in Nat /\ bot[b].last \in Nat
              /\ bot[b].phase \in {"handle", "reply", "save"} =>
                   1 <= bot[b].next /\ bot[b].next <= bot[b].last /\ bot[b].last <= Len(updates)
<1>1. Len(updates) \in Nat
  BY DEF TypeOK
<1>2. \A b \in Bots :
        bot[b] \in Bot /\ bot[b].offset \in Nat /\ bot[b].next \in Nat /\ bot[b].last \in Nat
  BY DEF TypeOK, Bot
<1> QED
  BY <1>1, <1>2 DEF TypeOK

\* A bot that steps leaves the others where they are.
LEMMA OneBot ==
  ASSUME TypeOK, NEW b \in Bots, NEW x \in Bot, bot' = [bot EXCEPT ![b] = x]
  PROVE  /\ bot' \in [Bots -> Bot] /\ bot'[b] = x
         /\ \A c \in Bots \ {b} : bot'[c] = bot[c]
BY DEF TypeOK

\* Steps that do not touch the subscription.
LEMMA SubUntouched ==
  ASSUME IInv, UNCHANGED <<updates, wanted, sub, operator, latest, raced>>,
         disturbed => disturbed'
  PROVE  /\ WantedFollows' /\ SettingsSoFar' /\ Kept(sub)' /\ RequestIsValid'
         /\ ActiveIsConfigured'
<1>1. WantedFollows' /\ SettingsSoFar'
  BY DEF IInv, WantedFollows, SettingsSoFar
<1>2. Kept(sub)' /\ RequestIsValid' /\ ActiveIsConfigured'
  BY DEF IInv, RequestIsValid, ActiveIsConfigured, operator
<1> QED
  BY <1>1, <1>2

\* Steps that touch nothing else.
LEMMA BotsUntouched ==
  ASSUME IInv, UNCHANGED <<telegram, saved, holder, bot, handled, latest, disturbed>>
  PROVE  PassedHandled' /\ (~disturbed' => InOrder') /\ WantedFollows'
<1>1. PassedHandled'
  BY DEF IInv, PassedHandled, HandledBefore, telegram
<1>2. ~disturbed' => InOrder'
  BY DEF IInv, InOrder, Place, AtNewest, Polls, telegram
<1>3. WantedFollows'
  BY DEF IInv, WantedFollows, telegram
<1> QED
  BY <1>1, <1>2, <1>3

----------------------------------------------------------------------------
(* The users and the operators.                                            *)

\* An update that is sent is after all that was handled.
LEMMA SendKeeps ==
  ASSUME IInv, NEW command \in Command, Send(command)
  PROVE  IInv'
<1> DEFINE n == Len(updates)
           next == Effect(command, WantedNow)
<1>1. /\ n < MaxUpdates /\ updates' = Append(updates, command) /\ wanted' = Append(wanted, next)
      /\ UNCHANGED <<confirmed, saved, holder, bot, sub, operator, faults, history>>
  BY DEF Send
<1>2. /\ updates \in Seq(Command) /\ n \in Nat /\ wanted \in Seq(Sub) /\ Len(wanted) = n
      /\ sub \in Sub
  BY DEF IInv, TypeOK, WantedFollows
<1>3. /\ updates' \in Seq(Command) /\ Len(updates') = n + 1 /\ updates'[n + 1] = command
      /\ \A u \in 1 .. n : updates'[u] = updates[u]
  BY <1>1, <1>2
<1>4. next \in Sub /\ WantedNow \in Sub
  <2>1. WantedNow \in Sub
    <3>1. CASE updates = <<>>
      BY <1>2, <3>1 DEF WantedNow, NoSub, Sub
    <3>2. CASE updates # <<>>
      <4>1. n \in 1 .. n
        BY <1>2, <3>2
      <4> QED
        BY <1>2, <3>2, <4>1 DEF WantedNow
    <3> QED
      BY <3>1, <3>2
  <2> QED
    BY <2>1, EffectTypes
<1>5. /\ wanted' \in Seq(Sub) /\ Len(wanted') = n + 1 /\ wanted'[n + 1] = next
      /\ \A u \in 1 .. n : wanted'[u] = wanted[u]
  <2> HIDE DEF next
  <2> QED
    BY <1>1, <1>2, <1>4
<1>6. TypeOK'
  <2>1. TypeOK
    BY DEF IInv
  <2>2. /\ confirmed' \in 1 .. Len(updates') + 1 /\ saved' \in 0 .. Len(updates') + 1
        /\ latest' \in 0 .. Len(updates') /\ handled' \subseteq 1 .. Len(updates')
        /\ Len(updates') <= MaxUpdates
    BY <1>1, <1>2, <1>3, <2>1 DEF TypeOK, history
  <2>3. \A b \in Bots : bot'[b].phase \in {"handle", "reply", "save"} =>
          /\ bot'[b].next \in 1 .. bot'[b].last
          /\ bot'[b].last <= Len(updates')
    BY <1>1, <1>2, <1>3, <2>1, Numbers DEF TypeOK
  <2> QED
    BY <1>1, <1>3, <2>1, <2>2, <2>3 DEF TypeOK, operator, history
<1>7. PassedHandled'
  <2>1. \A m \in Nat : m <= n + 1 /\ HandledBefore(m) => HandledBefore(m)'
    BY <1>1, <1>2, <1>3 DEF HandledBefore, history
  <2>2. TypeOK
    BY DEF IInv
  <2>3. /\ HandledBefore(confirmed)' /\ HandledBefore(saved)'
    BY <1>1, <2>1, <2>2, Numbers DEF IInv, PassedHandled, HandledBefore
  <2>4. ASSUME NEW b \in Bots
        PROVE  /\ bot'[b].offset <= Len(updates') + 1
               /\ HandledBefore(bot[b].offset)'
               /\ bot'[b].phase \in {"handle", "reply"} => HandledBefore(bot[b].next)'
               /\ bot'[b].phase = "save" => bot'[b].offset = bot'[b].next + 1
    <3>1. /\ bot[b].offset \in Nat /\ bot[b].next \in Nat /\ bot' = bot
          /\ bot[b].phase \in {"handle", "reply"} => bot[b].next <= n
      BY <1>1, <1>2, <2>2, Numbers
    <3>2. /\ bot[b].offset <= n + 1 /\ HandledBefore(bot[b].offset)
          /\ bot[b].phase \in {"handle", "reply"} => HandledBefore(bot[b].next)
          /\ bot[b].phase = "save" => bot[b].offset = bot[b].next + 1
      BY DEF IInv, PassedHandled
    <3>3. HandledBefore(bot[b].offset)'
      BY <1>2, <2>1, <3>1, <3>2 DEF HandledBefore
    <3>4. bot[b].phase \in {"handle", "reply"} => HandledBefore(bot[b].next)'
      <4> SUFFICES ASSUME bot[b].phase \in {"handle", "reply"}
                   PROVE  HandledBefore(bot[b].next)'
        OBVIOUS
      <4>1. bot[b].next <= n + 1 /\ HandledBefore(bot[b].next)
        BY <1>2, <3>1, <3>2
      <4> QED
        BY <2>1, <3>1, <4>1 DEF HandledBefore
    <3> QED
      BY <1>2, <1>3, <3>1, <3>2, <3>3, <3>4
  <2> QED
    BY <2>3, <2>4 DEF PassedHandled
<1>8. ~disturbed' => InOrder'
  BY <1>1 DEF IInv, InOrder, Place, AtNewest, Polls, history
<1>9. WantedFollows'
  <2>3. ASSUME NEW u \in 1 .. n + 1
        PROVE  \E s \in Sub : wanted'[u] = Effect(updates'[u], s)
    <3>1. CASE u = n + 1
      BY <1>3, <1>4, <1>5, <3>1
    <3>2. CASE u \in 1 .. n
      BY <1>3, <1>5, <3>2 DEF IInv, WantedFollows
    <3> QED
      BY <1>2, <3>1, <3>2
  <2> SUFFICES ASSUME NEW u \in 1 .. n + 1, u > 1
               PROVE  wanted'[u] = Effect(updates'[u], wanted'[u - 1])
    BY <1>3, <1>5, <2>3 DEF WantedFollows
  <2>1. CASE u = n + 1
    <3>1. updates # <<>> /\ n \in 1 .. n
      BY <1>2, <2>1
    <3> QED
      BY <1>3, <1>5, <2>1, <3>1, <1>2 DEF WantedNow
  <2>2. CASE u \in 1 .. n
    <3>1. u - 1 \in 1 .. n
      BY <1>2
    <3> QED
      BY <1>3, <1>5, <2>2, <3>1 DEF IInv, WantedFollows
  <2> QED
    BY <1>2, <2>1, <2>2
<1>10. SettingsSoFar'
  <2>1. ASSUME latest = 0, updates # <<>>
        PROVE  wanted'[1] = Effect(updates'[1], [NoSub EXCEPT !.location = sub.location])
    <3>1. 1 \in 1 .. n
      BY <1>2, <2>1
    <3> QED
      BY <1>3, <1>5, <2>1, <3>1 DEF IInv, SettingsSoFar
  <2>2. ASSUME latest = 0, updates = <<>>
        PROVE  wanted'[1] = Effect(updates'[1], [NoSub EXCEPT !.location = sub.location])
    <3>1. n = 0
      BY <2>2
    <3> QED
      BY <1>3, <1>5, <2>2, <3>1 DEF WantedNow
  <2>3. ASSUME latest > 0, ~disturbed
        PROVE  SameSettings(sub, wanted'[latest])
    <3>1. latest \in 1 .. n
      BY <1>2, <2>3, Numbers DEF IInv
    <3> QED
      BY <1>5, <2>3, <3>1 DEF IInv, SettingsSoFar
  <2>4. sub' = sub /\ latest' = latest /\ disturbed' = disturbed
    BY <1>1 DEF history
  <2>5. latest = 0 => ~sub.language /\ ~sub.intensity
    BY DEF IInv, SettingsSoFar
  <2> HIDE DEF next
  <2> QED
    BY <2>1, <2>2, <2>3, <2>4, <2>5 DEF SettingsSoFar, SameSettings
<1>11. Kept(sub)' /\ RequestIsValid' /\ ActiveIsConfigured'
  BY <1>1 DEF IInv, RequestIsValid, ActiveIsConfigured, operator, history
<1> QED
  BY <1>6, <1>7, <1>8, <1>9, <1>10, <1>11 DEF IInv

\* A request keeps a valid subscription valid, unless there was a change
\* between its read and its write.
LEMMA OperatorKeeps ==
  ASSUME IInv, (\E status \in Asked, radius \in BOOLEAN : BeginPatch(status, radius)) \/ EndPatch \/ Disable
  PROVE  IInv'
<1>1. UNCHANGED <<telegram, saved, holder, bot, handled, latest, disturbed, faults>>
  BY DEF BeginPatch, EndPatch, Disable, history
<1>2. PassedHandled' /\ (~disturbed' => InOrder') /\ WantedFollows'
  BY <1>1, BotsUntouched
<1>3. sub \in Sub /\ Kept(sub) /\ requests \in 0 .. MaxRequests
  BY DEF IInv, TypeOK
<1>4. /\ sub' \in Sub /\ sub'.location = sub.location /\ sub'.language = sub.language
      /\ sub'.intensity = sub.intensity /\ Kept(sub') /\ requests' \in 0 .. MaxRequests
      /\ RequestIsValid' /\ ActiveIsConfigured'
  <2>1. CASE \E status \in Asked, radius \in BOOLEAN : BeginPatch(status, radius)
    <3>1. PICK status \in Asked, radius \in BOOLEAN : BeginPatch(status, radius)
      BY <2>1
    <3> DEFINE row == Merged(sub, status, radius)
    <3>2. /\ sub' = sub /\ raced' = raced /\ sub.status # "none" /\ Valid(row)
          /\ request' = [row |-> row, read |-> sub, status |-> status]
          /\ requests < MaxRequests /\ requests' = requests + 1
      BY <3>1 DEF BeginPatch, history
    <3>3. /\ row \in Sub /\ row.status # "none" /\ row.location = sub.location
          /\ row.language = sub.language /\ row.intensity = sub.intensity
      BY <1>3, <3>2 DEF Merged, Asked, Sub
    <3> HIDE DEF row
    <3>4. RequestIsValid'
      <4>1. sub.location = TRUE
        BY <1>3, <3>2 DEF Kept
      <4>2. /\ request'.row = row /\ request'.read = sub
            /\ SameSettings(row, sub)
        BY <3>2, <3>3 DEF SameSettings
      <4> QED
        BY <1>3, <3>2, <3>3, <4>1, <4>2 DEF RequestIsValid, Valid, SameSettings
    <3>5. ActiveIsConfigured'
      BY <3>2 DEF IInv, ActiveIsConfigured
    <3> QED
      BY <1>3, <3>2, <3>4, <3>5
  <2>2. CASE EndPatch
    <3>1. /\ request # None /\ sub' = Patched(sub) /\ raced' = (raced \/ sub # request.read)
          /\ request' = None /\ requests' = requests
      BY <2>2 DEF EndPatch
    <3>2. /\ request.row \in Sub /\ request.row.status # "none" /\ request.row.location
          /\ Valid(request.row) /\ SameSettings(request.row, request.read)
          /\ sub.status # "none"
      BY <3>1 DEF IInv, RequestIsValid
    <3>3. /\ sub' \in Sub /\ sub'.status = request.row.status
          /\ sub'.location = request.row.location /\ sub'.radius = request.row.radius
          /\ sub'.language = sub.language /\ sub'.intensity = sub.intensity
      BY <1>3, <3>1, <3>2 DEF Patched, Sub
    <3>4. request.row.location = TRUE /\ sub.location = TRUE
      BY <1>3, <3>2 DEF Kept, Sub
    <3>5. Kept(sub')
      BY <1>3, <3>2, <3>3, <3>4 DEF Kept
    <3>6. ActiveIsConfigured'
      <4> SUFFICES ASSUME ~raced', sub'.status = "active" PROVE Configured(sub')
        BY DEF ActiveIsConfigured, Configured
      <4>1. sub.intensity = request.row.intensity
        BY <3>1, <3>2 DEF SameSettings
      <4>2. sub.intensity \/ request.row.radius
        BY <3>2, <3>4, <4>1 DEF Valid
      <4>3. sub.intensity => sub.language
        BY <1>3 DEF Kept
      <4> QED
        BY <3>3, <3>4, <4>2, <4>3 DEF Configured
    <3>7. RequestIsValid'
      BY <3>1 DEF RequestIsValid
    <3> QED
      BY <1>3, <3>1, <3>3, <3>4, <3>5, <3>6, <3>7
  <2>3. CASE Disable
    <3>1. /\ sub' = [sub EXCEPT !.status = "disabled"] /\ sub.status # "none"
          /\ requests < MaxRequests /\ requests' = requests + 1 /\ request' = request /\ raced' = raced
      BY <2>3 DEF Disable, history
    <3>2. /\ sub' \in Sub /\ sub'.status = "disabled" /\ sub'.location = sub.location
          /\ sub'.language = sub.language /\ sub'.intensity = sub.intensity
      BY <1>3, <3>1 DEF Sub
    <3>3. Kept(sub') /\ ActiveIsConfigured'
      BY <1>3, <3>1, <3>2 DEF Kept, ActiveIsConfigured
    <3>4. RequestIsValid'
      BY <3>1 DEF IInv, RequestIsValid
    <3> QED
      BY <1>3, <3>1, <3>2, <3>3, <3>4
  <2> QED
    BY <2>1, <2>2, <2>3
<1>5. TypeOK'
  BY <1>1, <1>4 DEF IInv, TypeOK, RequestIsValid, telegram
<1>6. SettingsSoFar'
  BY <1>1, <1>4 DEF IInv, SettingsSoFar, SameSettings, telegram
<1> QED
  BY <1>2, <1>4, <1>5, <1>6 DEF IInv

----------------------------------------------------------------------------
(* The bots.                                                               *)

\* A place of a bot that is inside its batch.
InBatch(x) ==
  x.phase \in {"handle", "reply", "save"} =>
    x.next \in 1 .. x.last /\ x.last <= Len(updates)

\* A bot may step to x if that has passed over nothing but handled updates.
LEMMA BotPasses ==
  ASSUME IInv, NEW b \in Bots, NEW x \in Bot, bot' = [bot EXCEPT ![b] = x],
         updates' = updates, handled \subseteq handled', HandledBefore(confirmed)', HandledBefore(saved)',
         x.offset <= Len(updates) + 1,
         \A u \in 1 .. Len(updates) : u < x.offset => u \in handled',
         x.phase \in {"handle", "reply"} => \A u \in 1 .. Len(updates) : u < x.next => u \in handled',
         x.phase = "save" => x.offset = x.next + 1
  PROVE  PassedHandled'
<1>1. bot'[b] = x /\ \A c \in Bots \ {b} : bot'[c] = bot[c]
  BY OneBot DEF IInv
<1>2. \A n : HandledBefore(n) => \A u \in 1 .. Len(updates) : u < n => u \in handled'
  BY DEF HandledBefore
<1>3. ASSUME NEW c \in Bots
      PROVE  /\ bot'[c].offset <= Len(updates') + 1
             /\ HandledBefore(bot[c].offset)'
             /\ bot'[c].phase \in {"handle", "reply"} => HandledBefore(bot[c].next)'
             /\ bot'[c].phase = "save" => bot'[c].offset = bot'[c].next + 1
  <2>1. CASE c = b
    BY <1>1, <2>1 DEF HandledBefore
  <2>2. CASE c # b
    <3>1. bot'[c] = bot[c]
      BY <1>1, <2>2
    <3>2. /\ bot[c].offset <= Len(updates) + 1
          /\ HandledBefore(bot[c].offset)
          /\ bot[c].phase \in {"handle", "reply"} => HandledBefore(bot[c].next)
          /\ bot[c].phase = "save" => bot[c].offset = bot[c].next + 1
      BY DEF IInv, PassedHandled
    <3> QED
      BY <1>2, <3>1, <3>2 DEF HandledBefore
  <2> QED
    BY <2>1, <2>2
<1> QED
  BY <1>3 DEF PassedHandled

\* The only bot that polls may step to x if that is at the newest update.
LEMMA BotInOrder ==
  ASSUME IInv, ~disturbed, NEW b \in Bots, NEW x \in Bot, bot' = [bot EXCEPT ![b] = x],
         Polls(b) \/ holder = None,
         AtNewest(Place(saved))',
         x.phase # "wait" => holder' = b /\ saved' <= x.offset,
         x.phase = "poll" => Larger(confirmed', x.offset) \in {latest', latest' + 1},
         x.phase \in {"handle", "reply"} =>
           Larger(confirmed', x.offset) = x.next /\ Larger(confirmed', saved') = x.next,
         x.phase = "save" => Larger(confirmed', saved') = x.next,
         x.phase \in {"reply", "save"} => x.next = latest'
  PROVE  InOrder'
<1>1. bot'[b] = x /\ \A c \in Bots \ {b} : bot'[c] = bot[c]
  BY OneBot DEF IInv
<1>2. ASSUME NEW c \in Bots, bot'[c].phase # "wait"
      PROVE  c = b
  <2> SUFFICES ASSUME c # b PROVE FALSE
    OBVIOUS
  <2>1. Polls(c)
    BY <1>1, <1>2 DEF Polls
  <2>2. holder = c
    BY <2>1 DEF IInv, InOrder
  <2>3. Polls(b) => holder = b
    BY DEF IInv, InOrder
  <2> QED
    BY <2>2, <2>3
<1>3. ASSUME NEW c \in Bots, Polls(c)'
      PROVE  /\ holder' = c
             /\ saved' <= bot'[c].offset
             /\ bot'[c].phase = "poll" => AtNewest(Place(bot[c].offset))'
             /\ bot'[c].phase \in {"handle", "reply"} =>
                  Place(bot[c].offset)' = bot'[c].next /\ Place(saved)' = bot'[c].next
             /\ bot'[c].phase = "save" => Place(saved)' = bot'[c].next
             /\ bot'[c].phase \in {"reply", "save"} => bot'[c].next = latest'
  <2>1. c = b /\ bot'[c] = x /\ x.phase # "wait"
    BY <1>1, <1>2, <1>3 DEF Polls
  <2> QED
    BY <2>1 DEF Place, AtNewest
<1> QED
  BY <1>3 DEF InOrder

\* Both together, for a step that leaves the subscription alone.
LEMMA BotKeeps ==
  ASSUME IInv, NEW b \in Bots, NEW x \in Bot, bot' = [bot EXCEPT ![b] = x], InBatch(x),
         UNCHANGED <<updates, wanted, sub, operator, latest, raced>>, disturbed => disturbed',
         confirmed' \in 1 .. Len(updates) + 1, saved' \in 0 .. Len(updates) + 1,
         holder' \in Bots \cup {None}, faults' \in 0 .. MaxFaults, handled' \subseteq 1 .. Len(updates),
         PassedHandled', ~disturbed' => InOrder'
  PROVE  IInv'
<1>1. /\ WantedFollows' /\ SettingsSoFar' /\ Kept(sub)' /\ RequestIsValid' /\ ActiveIsConfigured'
  BY SubUntouched
<1>2. TypeOK
  BY DEF IInv
<1>3. /\ bot' \in [Bots -> Bot] /\ bot'[b] = x
      /\ \A c \in Bots \ {b} : bot'[c] = bot[c]
  BY <1>2, OneBot
<1>4. \A c \in Bots : bot'[c].phase \in {"handle", "reply", "save"} =>
        /\ bot'[c].next \in 1 .. bot'[c].last
        /\ bot'[c].last <= Len(updates')
  BY <1>2, <1>3 DEF TypeOK, InBatch
<1>5. TypeOK'
  BY <1>2, <1>3, <1>4 DEF TypeOK, operator
<1> QED
  BY <1>1, <1>5 DEF IInv

\* A bot that gets the lock begins at the saved offset, or with nothing.
LEMMA BeginKeeps ==
  ASSUME IInv, NEW b \in Bots, NEW x \in Bot, x.phase = "poll",
         (x.offset = saved /\ (disturbed' <=> disturbed)) \/ (x.offset = 0 /\ disturbed'),
         holder = None, holder' = b, bot' = [bot EXCEPT ![b] = x],
         UNCHANGED <<telegram, saved, sub, operator, handled, latest, raced>>,
         faults' \in 0 .. MaxFaults
  PROVE  IInv'
<1>1. UNCHANGED <<updates, wanted, confirmed>>
  BY DEF telegram
<1>2. TypeOK
  BY DEF IInv
<1>4. PassedHandled'
  <2>1. HandledBefore(confirmed) /\ HandledBefore(saved)
    BY DEF IInv, PassedHandled
  <2>2. HandledBefore(confirmed)' /\ HandledBefore(saved)'
    BY <1>1, <2>1 DEF HandledBefore
  <2>3. x.offset <= Len(updates) + 1
    BY <1>2, Numbers
  <2>4. \A u \in 1 .. Len(updates) : u < x.offset => u \in handled'
    BY <1>1, <2>1 DEF HandledBefore
  <2> QED
    BY <1>1, <2>2, <2>3, <2>4, BotPasses
<1>5. ~disturbed' => InOrder'
  <2> SUFFICES ASSUME ~disturbed' PROVE InOrder'
    OBVIOUS
  <2>1. ~disturbed /\ x.offset = saved
    OBVIOUS
  <2>2. AtNewest(Place(saved))
    BY <2>1 DEF IInv, InOrder
  <2>3. AtNewest(Place(saved))' /\ Larger(confirmed', x.offset) \in {latest', latest' + 1}
    BY <1>1, <2>1, <2>2 DEF AtNewest, Place
  <2>4. holder' = b /\ saved' <= x.offset
    BY <1>1, <1>2, <2>1, Numbers
  <2> QED
    BY <2>1, <2>3, <2>4, BotInOrder
<1>6. /\ confirmed' \in 1 .. Len(updates) + 1 /\ saved' \in 0 .. Len(updates) + 1
      /\ holder' \in Bots \cup {None} /\ handled' \subseteq 1 .. Len(updates)
      /\ disturbed => disturbed'
      /\ InBatch(x)
  BY <1>1, <1>2 DEF TypeOK, InBatch
<1>7. UNCHANGED <<updates, wanted, sub, operator, latest, raced>>
  BY <1>1
<1> QED
  BY <1>4, <1>5, <1>6, <1>7, BotKeeps

LEMMA AcquireKeeps == ASSUME IInv, NEW b \in Bots, Acquire(b) PROVE IInv'
<1> DEFINE x == [Waiting EXCEPT !.phase = "poll", !.offset = saved]
<1>1. /\ holder = None /\ holder' = b /\ bot' = [bot EXCEPT ![b] = x]
      /\ UNCHANGED <<telegram, saved, sub, operator, handled, latest, raced>>
      /\ (disturbed' <=> disturbed) /\ faults' \in 0 .. MaxFaults
  BY DEF Acquire, LockFree, IInv, TypeOK, history
<1>2. x \in Bot /\ x.phase = "poll" /\ x.offset = saved
  <2>1. saved \in Nat
    BY Numbers DEF IInv
  <2> QED
    BY <2>1 DEF Waiting, Bot
<1> HIDE DEF x
<1>3. (x.offset = saved /\ (disturbed' <=> disturbed)) \/ (x.offset = 0 /\ disturbed')
  BY <1>1, <1>2
<1> QED
  BY <1>1, <1>2, <1>3, BeginKeeps

LEMMA LoadFailsKeeps == ASSUME IInv, NEW b \in Bots, LoadFails(b) PROVE IInv'
<1> DEFINE x == [Waiting EXCEPT !.phase = "poll"]
<1>1. /\ holder = None /\ holder' = b /\ bot' = [bot EXCEPT ![b] = x]
      /\ UNCHANGED <<telegram, saved, sub, operator, handled, latest, raced>>
      /\ disturbed' /\ faults' \in 0 .. MaxFaults
  BY DEF LoadFails, LockFree, Fault, IInv, TypeOK
<1>2. x \in Bot /\ x.phase = "poll" /\ x.offset = 0
  BY DEF Waiting, Bot
<1> HIDE DEF x
<1> QED
  BY <1>1, <1>2, BeginKeeps

\* Telegram forgets what the bot has handled, and the batch begins there.
LEMMA FetchKeeps ==
  ASSUME IInv, NEW b \in Bots, Fetch(b)
  PROVE  IInv'
<1> DEFINE x == [bot[b] EXCEPT !.phase = IF confirmed' <= Len(updates) THEN "handle" ELSE "poll",
                               !.next = confirmed', !.last = Len(updates)]
<1>1. /\ bot[b].phase = "poll" /\ confirmed' = Larger(confirmed, bot[b].offset)
      /\ bot' = [bot EXCEPT ![b] = x]
      /\ UNCHANGED <<updates, wanted, saved, holder, sub, operator, faults, handled, latest,
                     disturbed, raced>>
  BY DEF Fetch, history, IInv, TypeOK
<1>2. TypeOK /\ bot[b] \in Bot /\ bot[b].offset \in Nat /\ bot[b].offset <= Len(updates) + 1
      /\ Len(updates) \in Nat /\ confirmed \in Nat /\ 1 <= confirmed /\ confirmed <= Len(updates) + 1
      /\ saved \in Nat
  BY Numbers DEF IInv, PassedHandled
<1>3. /\ confirmed' \in Nat /\ 1 <= confirmed' /\ confirmed' <= Len(updates) + 1
      /\ bot[b].offset <= confirmed' /\ confirmed' \in {confirmed, bot[b].offset}
  BY <1>1, <1>2, LargerOfTwo
<1>4. /\ x \in Bot /\ x.offset = bot[b].offset /\ x.next = confirmed' /\ x.last = Len(updates)
      /\ x.phase = IF confirmed' <= Len(updates) THEN "handle" ELSE "poll"
  BY <1>2, <1>3 DEF Bot
<1> HIDE DEF x
<1>5. PassedHandled'
  <2>1. HandledBefore(confirmed) /\ HandledBefore(saved) /\ HandledBefore(bot[b].offset)
    BY DEF IInv, PassedHandled
  <2>2. HandledBefore(confirmed)' /\ HandledBefore(saved)'
    BY <1>1, <1>3, <2>1 DEF HandledBefore
  <2>3. /\ \A u \in 1 .. Len(updates) : u < x.offset => u \in handled'
        /\ \A u \in 1 .. Len(updates) : u < x.next => u \in handled'
    BY <1>1, <1>3, <1>4, <2>1 DEF HandledBefore
  <2> QED
    BY <1>1, <1>2, <1>4, <2>2, <2>3, BotPasses
<1>6. ~disturbed' => InOrder'
  <2> SUFFICES ASSUME ~disturbed' PROVE InOrder'
    OBVIOUS
  <2>1. ~disturbed /\ Polls(b)
    BY <1>1 DEF Polls
  <2>2. /\ holder = b /\ saved <= bot[b].offset /\ AtNewest(confirmed')
    BY <1>1, <2>1 DEF IInv, InOrder, Place
  <2>3. Larger(confirmed', x.offset) = confirmed' /\ Larger(confirmed', saved') = confirmed'
    BY <1>1, <1>2, <1>3, <1>4, <2>2 DEF Larger
  <2>4. AtNewest(Place(saved))' /\ Larger(confirmed', x.offset) \in {latest', latest' + 1}
    BY <1>1, <2>2, <2>3 DEF AtNewest, Place
  <2> QED
    BY <1>1, <1>4, <2>1, <2>2, <2>3, <2>4, BotInOrder
<1>7. /\ confirmed' \in 1 .. Len(updates) + 1 /\ saved' \in 0 .. Len(updates) + 1
      /\ holder' \in Bots \cup {None} /\ handled' \subseteq 1 .. Len(updates)
      /\ faults' \in 0 .. MaxFaults /\ InBatch(x)
  BY <1>1, <1>2, <1>3, <1>4 DEF TypeOK, InBatch
<1>8. disturbed => disturbed'
  BY <1>1
<1> QED
  BY <1>1, <1>4, <1>5, <1>6, <1>7, <1>8, BotKeeps

\* A bot that failed polls again where it was.
LEMMA FailKeeps ==
  ASSUME IInv, NEW b \in Bots, HandleFails(b) \/ ReplyFails(b) \/ SaveFails(b)
  PROVE  IInv'
<1> DEFINE x == [bot[b] EXCEPT !.phase = "poll"]
<1>1. /\ bot[b].phase \in {"handle", "reply", "save"} /\ bot' = [bot EXCEPT ![b] = x]
      /\ UNCHANGED <<updates, wanted, confirmed, saved, holder, sub, operator, handled, latest,
                     disturbed, raced>>
      /\ faults' \in 0 .. MaxFaults
  BY DEF HandleFails, ReplyFails, SaveFails, Failed, Fault, history, telegram, IInv, TypeOK
<1>2. TypeOK /\ bot[b] \in Bot /\ bot[b].offset \in Nat /\ bot[b].offset <= Len(updates) + 1
      /\ bot[b].next \in Nat /\ confirmed \in Nat /\ saved \in Nat /\ latest \in Nat
  BY Numbers DEF IInv, PassedHandled
<1>3. x \in Bot /\ x.offset = bot[b].offset /\ x.phase = "poll"
  BY <1>2 DEF Bot
<1> HIDE DEF x
<1>4. PassedHandled'
  <2>1. HandledBefore(confirmed) /\ HandledBefore(saved) /\ HandledBefore(bot[b].offset)
    BY DEF IInv, PassedHandled
  <2>2. HandledBefore(confirmed)' /\ HandledBefore(saved)'
    BY <1>1, <2>1 DEF HandledBefore
  <2>3. \A u \in 1 .. Len(updates) : u < x.offset => u \in handled'
    BY <1>1, <1>3, <2>1 DEF HandledBefore
  <2> QED
    BY <1>1, <1>2, <1>3, <2>2, <2>3, BotPasses
<1>5. ~disturbed' => InOrder'
  <2> SUFFICES ASSUME ~disturbed' PROVE InOrder'
    OBVIOUS
  <2>1. ~disturbed /\ Polls(b)
    BY <1>1 DEF Polls
  <2>2. /\ holder = b /\ saved <= bot[b].offset /\ AtNewest(Place(saved))
        /\ bot[b].phase \in {"handle", "reply"} =>
             Place(bot[b].offset) = bot[b].next /\ Place(saved) = bot[b].next
        /\ bot[b].phase = "save" =>
             /\ Place(saved) = bot[b].next /\ bot[b].next = latest
             /\ bot[b].offset = bot[b].next + 1
    BY <2>1 DEF IInv, InOrder, PassedHandled
  <2>3. AtNewest(Larger(confirmed, bot[b].offset))
    <3>1. CASE bot[b].phase \in {"handle", "reply"}
      BY <2>2, <3>1 DEF Place
    <3>2. CASE bot[b].phase = "save"
      <4>1. confirmed <= Larger(confirmed, saved) /\ Larger(confirmed, saved) = latest
        BY <1>2, <2>2, <3>2, LargerOfTwo DEF Place
      <4> QED
        BY <1>2, <2>2, <3>2, <4>1 DEF Larger, AtNewest
    <3> QED
      BY <1>1, <3>1, <3>2
  <2>4. AtNewest(Place(saved))' /\ Larger(confirmed', x.offset) \in {latest', latest' + 1}
    BY <1>1, <1>3, <2>2, <2>3 DEF AtNewest, Place
  <2> QED
    BY <1>1, <1>3, <2>1, <2>2, <2>4, BotInOrder
<1>6. /\ confirmed' \in 1 .. Len(updates) + 1 /\ saved' \in 0 .. Len(updates) + 1
      /\ holder' \in Bots \cup {None} /\ handled' \subseteq 1 .. Len(updates) /\ InBatch(x)
  BY <1>1, <1>2, <1>3 DEF TypeOK, InBatch
<1> QED
  BY <1>1, <1>3, <1>4, <1>5, <1>6, BotKeeps

LEMMA ReplyKeeps == ASSUME IInv, NEW b \in Bots, Reply(b) PROVE IInv'
<1> DEFINE x == [bot[b] EXCEPT !.phase = "save", !.offset = bot[b].next + 1]
<1>1. /\ bot[b].phase = "reply" /\ bot' = [bot EXCEPT ![b] = x]
      /\ handled' = handled \cup {bot[b].next}
      /\ UNCHANGED <<updates, wanted, confirmed, saved, holder, sub, operator, faults, latest,
                     disturbed, raced>>
  BY DEF Reply, telegram, IInv, TypeOK
<1>2. TypeOK /\ bot[b] \in Bot /\ bot[b].next \in Nat /\ 1 <= bot[b].next
      /\ bot[b].next <= bot[b].last /\ bot[b].last \in Nat /\ bot[b].last <= Len(updates)
      /\ Len(updates) \in Nat /\ confirmed \in Nat /\ saved \in Nat /\ latest \in Nat
  BY <1>1, Numbers DEF IInv
<1>3. /\ x \in Bot /\ x.offset = bot[b].next + 1 /\ x.phase = "save"
      /\ x.next = bot[b].next /\ x.last = bot[b].last
  <2>1. bot[b] \in Bot /\ bot[b].next + 1 \in Nat
    BY <1>2
  <2> QED
    BY <2>1 DEF Bot
<1> HIDE DEF x
<1>4. PassedHandled'
  <2>1. HandledBefore(confirmed) /\ HandledBefore(saved) /\ HandledBefore(bot[b].next)
    BY <1>1 DEF IInv, PassedHandled
  <2>2. HandledBefore(confirmed)' /\ HandledBefore(saved)'
    BY <1>1, <2>1 DEF HandledBefore
  <2>3. \A u \in 1 .. Len(updates) : u < x.offset => u \in handled'
    BY <1>1, <1>2, <1>3, <2>1 DEF HandledBefore
  <2>4. x.offset <= Len(updates) + 1
    BY <1>2, <1>3
  <2> QED
    BY <1>1, <1>3, <2>2, <2>3, <2>4, BotPasses
<1>5. ~disturbed' => InOrder'
  <2> SUFFICES ASSUME ~disturbed' PROVE InOrder'
    OBVIOUS
  <2>1. ~disturbed /\ Polls(b)
    BY <1>1 DEF Polls
  <2>2. /\ holder = b /\ AtNewest(Place(saved)) /\ Larger(confirmed, saved) = bot[b].next
        /\ bot[b].next = latest
    BY <1>1, <2>1 DEF IInv, InOrder, Place
  <2>3. saved' <= x.offset
    <3>1. saved <= bot[b].next
      BY <1>2, <2>2, LargerOfTwo
    <3> QED
      BY <1>1, <1>2, <1>3, <3>1
  <2>4. AtNewest(Place(saved))'
    BY <1>1, <2>2 DEF AtNewest, Place
  <2> QED
    BY <1>1, <1>3, <2>1, <2>2, <2>3, <2>4, BotInOrder
<1>6. /\ confirmed' \in 1 .. Len(updates) + 1 /\ saved' \in 0 .. Len(updates) + 1
      /\ holder' \in Bots \cup {None} /\ handled' \subseteq 1 .. Len(updates)
      /\ faults' \in 0 .. MaxFaults /\ (disturbed => disturbed')
      /\ InBatch(x)
  <2>1. handled \subseteq 1 .. Len(updates) /\ bot[b].next \in 1 .. Len(updates)
    BY <1>2 DEF TypeOK
  <2>2. InBatch(x)
    BY <1>2, <1>3 DEF InBatch
  <2> QED
    BY <1>1, <1>2, <2>1, <2>2 DEF TypeOK
<1> QED
  BY <1>1, <1>3, <1>4, <1>5, <1>6, BotKeeps

LEMMA SaveOffsetKeeps == ASSUME IInv, NEW b \in Bots, SaveOffset(b) PROVE IInv'
<1> DEFINE x == Advanced(b)
<1>1. /\ bot[b].phase = "save" /\ bot' = [bot EXCEPT ![b] = x] /\ saved' = bot[b].offset
      /\ UNCHANGED <<updates, wanted, confirmed, holder, sub, operator, faults, handled, latest,
                     disturbed, raced>>
  BY DEF SaveOffset, telegram, history
<1>2. TypeOK /\ bot[b] \in Bot /\ bot[b].next \in Nat /\ 1 <= bot[b].next
      /\ bot[b].next <= bot[b].last /\ bot[b].last \in Nat /\ bot[b].last <= Len(updates)
      /\ Len(updates) \in Nat /\ confirmed \in Nat /\ saved \in Nat /\ latest \in Nat
      /\ bot[b].offset = bot[b].next + 1
  BY <1>1, Numbers DEF IInv, PassedHandled
<1>3. /\ x \in Bot /\ x.offset = bot[b].offset /\ x.next = bot[b].next + 1
      /\ x.last = bot[b].last
      /\ x.phase = IF bot[b].next < bot[b].last THEN "handle" ELSE "poll"
  BY <1>2 DEF Advanced, Bot
<1> HIDE DEF x
<1>4. PassedHandled'
  <2>1. HandledBefore(confirmed) /\ HandledBefore(bot[b].offset)
    BY DEF IInv, PassedHandled
  <2>2. HandledBefore(confirmed)' /\ HandledBefore(saved)'
    BY <1>1, <2>1 DEF HandledBefore
  <2>3. /\ \A u \in 1 .. Len(updates) : u < x.offset => u \in handled'
        /\ \A u \in 1 .. Len(updates) : u < x.next => u \in handled'
    BY <1>1, <1>2, <1>3, <2>1 DEF HandledBefore
  <2>4. x.offset <= Len(updates) + 1
    BY <1>2, <1>3
  <2> QED
    BY <1>1, <1>3, <2>2, <2>3, <2>4, BotPasses
<1>5. ~disturbed' => InOrder'
  <2> SUFFICES ASSUME ~disturbed' PROVE InOrder'
    OBVIOUS
  <2>1. ~disturbed /\ Polls(b)
    BY <1>1 DEF Polls
  <2>2. /\ holder = b /\ Larger(confirmed, saved) = bot[b].next /\ bot[b].next = latest
    BY <1>1, <2>1 DEF IInv, InOrder, Place
  <2>3. confirmed <= bot[b].next
    BY <1>2, <2>2, LargerOfTwo
  <2>4. Larger(confirmed', saved') = latest + 1 /\ Larger(confirmed', x.offset) = latest + 1
    BY <1>1, <1>2, <1>3, <2>2, <2>3 DEF Larger
  <2>5. AtNewest(Place(saved))' /\ Larger(confirmed', x.offset) \in {latest', latest' + 1}
    BY <1>1, <2>4 DEF AtNewest, Place
  <2>6. saved' <= x.offset
    BY <1>1, <1>2, <1>3
  <2> QED
    BY <1>1, <1>3, <2>1, <2>2, <2>4, <2>5, <2>6, BotInOrder
<1>6. /\ confirmed' \in 1 .. Len(updates) + 1 /\ saved' \in 0 .. Len(updates) + 1
      /\ holder' \in Bots \cup {None} /\ handled' \subseteq 1 .. Len(updates)
      /\ faults' \in 0 .. MaxFaults /\ (disturbed => disturbed')
      /\ InBatch(x)
  BY <1>1, <1>2, <1>3 DEF TypeOK, InBatch
<1> QED
  BY <1>1, <1>3, <1>4, <1>5, <1>6, BotKeeps

LEMMA CrashKeeps == ASSUME IInv, NEW b \in Bots, Crash(b) PROVE IInv'
<1>1. /\ Polls(b) /\ bot' = [bot EXCEPT ![b] = Waiting]
      /\ UNCHANGED <<updates, wanted, confirmed, saved, sub, operator, handled, latest,
                     disturbed, raced>>
      /\ faults' \in 0 .. MaxFaults /\ holder' \in Bots \cup {None}
  BY DEF Crash, Fault, telegram, history, IInv, TypeOK
<1>2. Waiting \in Bot /\ Waiting.phase = "wait" /\ Waiting.offset = 0
  BY DEF Waiting, Bot
<1>3. TypeOK /\ Len(updates) \in Nat
  BY Numbers DEF IInv
<1>4. PassedHandled'
  <2>1. HandledBefore(confirmed) /\ HandledBefore(saved)
    BY DEF IInv, PassedHandled
  <2>2. HandledBefore(confirmed)' /\ HandledBefore(saved)'
    BY <1>1, <2>1 DEF HandledBefore
  <2>3. /\ \A u \in 1 .. Len(updates) : ~(u < Waiting.offset)
        /\ Waiting.offset <= Len(updates) + 1
    BY <1>2, <1>3
  <2> QED
    BY <1>1, <1>2, <2>2, <2>3, BotPasses
<1>5. ~disturbed' => InOrder'
  <2> SUFFICES ASSUME ~disturbed' PROVE InOrder'
    OBVIOUS
  <2>1. ~disturbed
    BY <1>1
  <2>2. AtNewest(Place(saved))
    BY <2>1 DEF IInv, InOrder
  <2>3. AtNewest(Place(saved))'
    BY <1>1, <2>2 DEF AtNewest, Place
  <2> QED
    BY <1>1, <1>2, <2>1, <2>3, BotInOrder
<1>6. /\ confirmed' \in 1 .. Len(updates) + 1 /\ saved' \in 0 .. Len(updates) + 1
      /\ handled' \subseteq 1 .. Len(updates) /\ InBatch(Waiting)
  BY <1>1, <1>2, <1>3 DEF TypeOK, InBatch
<1> QED
  BY <1>1, <1>2, <1>4, <1>5, <1>6, BotKeeps

LEMMA LoseSessionKeeps == ASSUME IInv, LoseSession PROVE IInv'
<1>1. /\ holder' = None /\ disturbed' /\ faults' \in 0 .. MaxFaults
      /\ UNCHANGED <<updates, wanted, confirmed, saved, bot, sub, operator, handled, latest, raced>>
  BY DEF LoseSession, Fault, telegram, IInv, TypeOK
<1>2. WantedFollows' /\ SettingsSoFar' /\ Kept(sub)' /\ RequestIsValid' /\ ActiveIsConfigured'
  BY <1>1, SubUntouched
<1>3. TypeOK'
  BY <1>1 DEF IInv, TypeOK, operator
<1>4. PassedHandled'
  BY <1>1 DEF IInv, PassedHandled, HandledBefore
<1> QED
  BY <1>1, <1>2, <1>3, <1>4 DEF IInv

\* While the lock is kept an update is handled for the first time, after the
\* one before it, or once more.
LEMMA HandleSettings ==
  ASSUME IInv, ~disturbed, NEW u \in 1 .. Len(updates), AtNewest(u),
         sub' = Effect(updates[u], sub)
  PROVE  SameSettings(sub', wanted[u])
<1> DEFINE c == updates[u]
<1>1. /\ c \in Command /\ sub \in Sub /\ Len(updates) \in Nat /\ latest \in Nat
      /\ wanted \in Seq(Sub) /\ Len(wanted) = Len(updates)
  BY Numbers DEF IInv, TypeOK, WantedFollows
<1>2. CASE u = latest
  <2>1. PICK s \in Sub : wanted[u] = Effect(c, s)
    BY DEF IInv, WantedFollows
  <2>2. SameSettings(sub, wanted[u])
    BY <1>1, <1>2 DEF IInv, SettingsSoFar
  <2> HIDE DEF c
  <2>3. SameSettings(Effect(c, sub), Effect(c, s))
    BY <1>1, <2>1, <2>2, EffectTwice
  <2> QED
    BY <2>1, <2>3 DEF c
<1>3. CASE u = latest + 1 /\ latest > 0
  <2>1. latest \in 1 .. Len(updates) /\ u - 1 = latest /\ u > 1
    BY <1>1, <1>3
  <2>2. wanted[u] = Effect(c, wanted[latest]) /\ wanted[latest] \in Sub
    BY <1>1, <2>1 DEF IInv, WantedFollows
  <2>3. SameSettings(sub, wanted[latest])
    BY <1>3 DEF IInv, SettingsSoFar
  <2> HIDE DEF c
  <2> QED
    BY <1>1, <2>2, <2>3, EffectOnSame DEF c
<1>4. CASE u = 1 /\ latest = 0
  <2> DEFINE first == [NoSub EXCEPT !.location = sub.location]
  <2>1. updates # <<>>
    BY <1>1, <1>4
  <2>2. wanted[u] = Effect(c, first) /\ ~sub.language /\ ~sub.intensity
    BY <1>4, <2>1 DEF IInv, SettingsSoFar
  <2>3. first \in Sub /\ SameSettings(sub, first)
    BY <1>1, <2>2 DEF NoSub, Sub, SameSettings
  <2> HIDE DEF c, first
  <2> QED
    BY <1>1, <2>2, <2>3, EffectOnSame DEF c
<1> QED
  BY <1>1, <1>2, <1>3, <1>4 DEF AtNewest

LEMMA HandleKeeps == ASSUME IInv, NEW b \in Bots, Handle(b) PROVE IInv'
<1> DEFINE x == [bot[b] EXCEPT !.phase = "reply"]
           u == bot[b].next
<1>1. /\ bot[b].phase = "handle" /\ bot' = [bot EXCEPT ![b] = x]
      /\ sub' = Effect(updates[u], sub) /\ latest' = Larger(latest, u)
      /\ UNCHANGED <<updates, wanted, confirmed, saved, holder, operator, faults, handled,
                     disturbed, raced>>
  BY DEF Handle, telegram, IInv, TypeOK
<1>2. TypeOK /\ bot[b] \in Bot /\ u \in Nat /\ 1 <= u
      /\ u <= bot[b].last /\ bot[b].last \in Nat /\ bot[b].last <= Len(updates)
      /\ Len(updates) \in Nat /\ confirmed \in Nat /\ saved \in Nat /\ latest \in Nat
      /\ latest <= Len(updates)
  BY <1>1, Numbers DEF IInv
<1>3. /\ x \in Bot /\ x.offset = bot[b].offset /\ x.phase = "reply"
      /\ x.next = u /\ x.last = bot[b].last
  BY <1>2 DEF Bot
<1> HIDE DEF x, u
<1>4. /\ u \in 1 .. Len(updates) /\ updates[u] \in Command /\ sub \in Sub
      /\ latest' \in Nat /\ latest <= latest' /\ u <= latest' /\ latest' \in {latest, u}
  <2>1. u \in 1 .. Len(updates) /\ updates \in Seq(Command) /\ sub \in Sub
    BY <1>2 DEF TypeOK
  <2>2. /\ latest' \in Nat /\ latest <= latest' /\ u <= latest' /\ latest' \in {latest, u}
    BY <1>1, <1>2, LargerOfTwo
  <2> QED
    BY <2>1, <2>2
<1>5. PassedHandled'
  <2>1. /\ HandledBefore(confirmed) /\ HandledBefore(saved) /\ HandledBefore(bot[b].offset)
        /\ HandledBefore(u) /\ bot[b].offset <= Len(updates) + 1
    BY <1>1 DEF IInv, PassedHandled, u
  <2>2. HandledBefore(confirmed)' /\ HandledBefore(saved)'
    BY <1>1, <2>1 DEF HandledBefore
  <2>3. /\ \A v \in 1 .. Len(updates) : v < x.offset => v \in handled'
        /\ \A v \in 1 .. Len(updates) : v < x.next => v \in handled'
    BY <1>1, <1>3, <2>1 DEF HandledBefore
  <2> QED
    BY <1>1, <1>3, <2>1, <2>2, <2>3, BotPasses
<1>6. ASSUME ~disturbed
      PROVE  AtNewest(u) /\ InOrder'
  <2>1. Polls(b)
    BY <1>1 DEF Polls
  <2>2. /\ holder = b /\ saved <= bot[b].offset /\ AtNewest(Place(saved))
        /\ Place(bot[b].offset) = u /\ Place(saved) = u
    BY <1>1, <1>6, <2>1 DEF IInv, InOrder, u
  <2>3. AtNewest(u) /\ latest' = u
    BY <1>1, <1>2, <2>2 DEF AtNewest, Larger
  <2>4. /\ Larger(confirmed', x.offset) = u /\ Larger(confirmed', saved') = u
        /\ AtNewest(Place(saved))'
    BY <1>1, <1>3, <2>2, <2>3 DEF Place, AtNewest
  <2>5. saved' <= x.offset
    BY <1>1, <1>3, <2>2
  <2> QED
    BY <1>1, <1>3, <1>6, <2>1, <2>2, <2>3, <2>4, <2>5, BotInOrder
<1>7. /\ sub' \in Sub /\ Kept(sub)' /\ RequestIsValid' /\ ActiveIsConfigured'
  <2>1. sub' \in Sub
    BY <1>1, <1>4, EffectTypes
  <2>2. Kept(sub)' /\ (sub.status # "none" => sub'.status # "none")
    BY <1>1, <1>4, EffectKeeps DEF IInv
  <2>3. RequestIsValid'
    BY <1>1, <2>2 DEF IInv, RequestIsValid, operator
  <2>4. ActiveIsConfigured'
    <3> SUFFICES ASSUME ~raced', sub'.status = "active" PROVE Configured(sub')
      BY DEF ActiveIsConfigured, Configured
    <3>1. Kept(sub) /\ (sub.status = "active" => Configured(sub))
      BY <1>1 DEF IInv, ActiveIsConfigured, Configured
    <3> QED
      BY <1>1, <1>4, <3>1, EffectConfigures
  <2> QED
    BY <2>1, <2>2, <2>3, <2>4
<1>8. TypeOK'
  <2>1. /\ bot' \in [Bots -> Bot] /\ bot'[b] = x
        /\ \A c \in Bots \ {b} : bot'[c] = bot[c]
    BY <1>1, <1>2, <1>3, OneBot
  <2>2. \A c \in Bots : bot'[c].phase \in {"handle", "reply", "save"} =>
          /\ bot'[c].next \in 1 .. bot'[c].last
          /\ bot'[c].last <= Len(updates')
    BY <1>1, <1>2, <1>3, <2>1 DEF TypeOK
  <2>3. latest' \in 0 .. Len(updates')
    BY <1>1, <1>2, <1>4
  <2> QED
    BY <1>1, <1>2, <1>7, <2>1, <2>2, <2>3 DEF TypeOK, operator
<1>9. WantedFollows'
  BY <1>1 DEF IInv, WantedFollows
<1>10. SettingsSoFar'
  <2>1. latest' > 0
    BY <1>2, <1>4
  <2>2. ASSUME ~disturbed PROVE SameSettings(sub', wanted[u]) /\ latest' = u
    <3>1. AtNewest(u)
      BY <1>6, <2>2
    <3> QED
      BY <1>1, <1>2, <1>4, <2>2, <3>1, HandleSettings DEF AtNewest, Larger
  <2> QED
    BY <1>1, <2>1, <2>2, <1>4 DEF SettingsSoFar, SameSettings
<1> QED
  BY <1>1, <1>5, <1>6, <1>7, <1>8, <1>9, <1>10 DEF IInv

----------------------------------------------------------------------------
(* The theorems.                                                           *)

LEMMA InitIInv == ASSUME Init PROVE IInv
<1>1. Waiting \in Bot /\ Waiting.phase = "wait" /\ Waiting.offset = 0
  BY DEF Waiting, Bot
<1>2. NoSub \in Sub /\ LegacySub \in Sub
  BY DEF NoSub, LegacySub, Sub
<1>3. /\ bot \in [Bots -> Bot] /\ \A b \in Bots : bot[b].phase = "wait" /\ bot[b].offset = 0
      /\ updates \in Seq(Command) /\ Len(updates) = 0 /\ updates = <<>>
      /\ wanted \in Seq(Sub) /\ Len(wanted) = 0
      /\ sub \in Sub /\ sub \in {NoSub, LegacySub}
      /\ confirmed = 1 /\ saved = 0 /\ latest = 0 /\ request = None
  BY <1>1, <1>2 DEF Init
<1>4. TypeOK
  BY <1>3 DEF Init, TypeOK
<1>5. PassedHandled
  BY <1>3 DEF PassedHandled, HandledBefore
<1>6. InOrder
  BY <1>3 DEF InOrder, Polls, AtNewest, Place, Larger
<1>7. WantedFollows /\ SettingsSoFar
  BY <1>3 DEF WantedFollows, SettingsSoFar, NoSub, LegacySub
<1>8. Kept(sub) /\ RequestIsValid /\ ActiveIsConfigured
  <2>1. CASE sub = NoSub
    BY <1>3, <2>1 DEF Kept, RequestIsValid, ActiveIsConfigured, NoSub
  <2>2. CASE sub = LegacySub
    BY <1>3, <2>2 DEF Kept, RequestIsValid, ActiveIsConfigured, LegacySub
  <2> QED
    BY <1>3, <2>1, <2>2
<1> QED
  BY <1>4, <1>5, <1>6, <1>7, <1>8 DEF IInv

LEMMA NextIInv == ASSUME IInv, [Next]_vars PROVE IInv'
<1>1. ASSUME NEW command \in Command, Send(command) PROVE IInv'
  BY <1>1, SendKeeps
<1>2. ASSUME NEW b \in Bots, Acquire(b) \/ LoadFails(b) PROVE IInv'
  BY <1>2, AcquireKeeps, LoadFailsKeeps
<1>3. ASSUME NEW b \in Bots, Fetch(b) PROVE IInv'
  BY <1>3, FetchKeeps
<1>4. ASSUME NEW b \in Bots, Handle(b) PROVE IInv'
  BY <1>4, HandleKeeps
<1>5. ASSUME NEW b \in Bots, HandleFails(b) \/ ReplyFails(b) \/ SaveFails(b) PROVE IInv'
  BY <1>5, FailKeeps
<1>6. ASSUME NEW b \in Bots, Reply(b) PROVE IInv'
  BY <1>6, ReplyKeeps
<1>7. ASSUME NEW b \in Bots, SaveOffset(b) PROVE IInv'
  BY <1>7, SaveOffsetKeeps
<1>8. ASSUME NEW b \in Bots, Crash(b) PROVE IInv'
  BY <1>8, CrashKeeps
<1>9. ASSUME LoseSession PROVE IInv'
  BY <1>9, LoseSessionKeeps
<1>10. ASSUME (\E status \in Asked, radius \in BOOLEAN : BeginPatch(status, radius)) \/ EndPatch \/ Disable PROVE IInv'
  BY <1>10, OperatorKeeps
<1>11. ASSUME UNCHANGED vars PROVE IInv'
  <2>1. UNCHANGED <<telegram, saved, holder, bot, handled, latest, disturbed>>
    BY <1>11 DEF vars, history
  <2>2. PassedHandled' /\ (~disturbed' => InOrder') /\ WantedFollows'
    BY <2>1, BotsUntouched
  <2>3. TypeOK' /\ SettingsSoFar'
    BY <1>11 DEF IInv, TypeOK, SettingsSoFar, vars, telegram, operator, history
  <2>4. Kept(sub)' /\ RequestIsValid' /\ ActiveIsConfigured'
    BY <1>11 DEF IInv, RequestIsValid, ActiveIsConfigured, vars, operator, history
  <2> QED
    BY <2>2, <2>3, <2>4 DEF IInv
<1> QED
  BY <1>1, <1>2, <1>3, <1>4, <1>5, <1>6, <1>7, <1>8, <1>9, <1>10, <1>11 DEF Next, Asked

\* The bots keep their places behind what is handled, and the handler, the
\* API and the offsets keep a subscription in step with the updates.
THEOREM Invariance == Spec => []IInv
BY InitIInv, NextIInv, PTL DEF Spec

\* Every variable keeps its type, and a bot at work is inside its batch.
THEOREM TypeCorrect == Spec => []TypeOK
<1>1. IInv => TypeOK
  BY DEF IInv
<1> QED
  BY <1>1, Invariance, PTL

\* An update that GetUpdates confirms, or that the saved offset passes over,
\* was handled and answered, for any number of bots at once.
THEOREM NoneSkipped == Spec => []NoUpdateSkipped
<1>1. IInv => NoUpdateSkipped
  <2> SUFFICES ASSUME IInv PROVE NoUpdateSkipped
    OBVIOUS
  <2>1. HandledBefore(confirmed) /\ HandledBefore(saved)
    BY DEF IInv, PassedHandled
  <2>2. Larger(confirmed, saved) \in {confirmed, saved}
    BY LargerOfTwo, Numbers DEF IInv
  <2>3. HandledBefore(Larger(confirmed, saved))
    BY <2>1, <2>2
  <2> QED
    BY <2>3 DEF HandledBefore, NoUpdateSkipped
<1> QED
  BY <1>1, Invariance, PTL

\* An update that is handled again, after a crash or by the next holder of
\* the advisory lock, leaves the settings as the updates made them.
THEOREM SettingsAreFollowed == Spec => []SettingsFollowUpdates
<1>1. IInv => SettingsFollowUpdates
  BY DEF IInv, SettingsSoFar, SameSettings, SettingsFollowUpdates
<1> QED
  BY <1>1, Invariance, PTL

\* A subscription is active only with a place and a radius, or a place, a
\* language and an intensity, whatever updates the bot repeats and whatever
\* fields operators give, unless a request is written over a later change.
THEOREM ActiveOnlyConfigured == Spec => []ActiveIsConfigured
<1>1. IInv => ActiveIsConfigured
  BY DEF IInv
<1> QED
  BY <1>1, Invariance, PTL
=============================================================================
