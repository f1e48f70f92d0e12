------------------------------ MODULE AgeMemory ------------------------------
(***************************************************************************)
(* What server/observability.py makes of the lines its follower reads: how   *)
(* long ago an appliance was last seen, and the cycle-end events.  A line    *)
(* bears the time of day and no date, so that the date has to be guessed,    *)
(* once at the boot for the whole log and then poll by poll.                 *)
(*                                                                         *)
(* This composes the follower (RelayWatcher) over the log (RelayLog) with    *)
(* the memory of one appliance that KNOWN_DEVICES names.  The clock is       *)
(* coarse: a unit is some hours and less than a day, a poll takes no time,   *)
(* and there is one in every unit, as _loop polls every minute.              *)
(***************************************************************************)
EXTENDS RelayWatcher, FiniteSetsExt

CONSTANTS Day,      \* units in a day
          MaxAge,   \* MAX_MEMORY_AGE
          Zones,    \* what local time may be ahead of UTC where the relay runs
          MaxTime   \* bound: where the clock stops

ASSUME AgeAssumption == /\ Day \in Nat \ {0, 1} /\ Zones \subseteq 0 .. Day - 1
                        /\ MaxAge \in Nat /\ Day <= MaxAge + 1
                        /\ MaxTime \in Nat

VARIABLES now,      \* time.time()
          zone,     \* the offset of the relay's local time
          when,     \* history: when each line was written
          polled,   \* the loop has polled in this unit
          memory,   \* the sighting in memory, or None; Unseeded before the boot
          stored,   \* ts of the model's newest view in the store, or None
          lastSeen, \* now - last_frame_age, as published last, or None
          heard,    \* history: the last publish got through
          told,     \* history: the event line whose State was published last
          missed    \* history: event lines whose State was not

shownVars == <<lastSeen, heard, told, missed>>
ageVars   == <<now, zone, when, polled, memory, stored, shownVars>>
allVars == <<vars, ageVars>>

None     == -1
Unseeded == -2

AgeInit == /\ Init
           /\ now = Day /\ zone \in Zones
           /\ when = <<>> /\ polled = TRUE
           /\ memory = Unseeded /\ stored = None
           /\ lastSeen = None /\ heard = FALSE /\ told = 0 /\ missed = {}

Latest(S) == Max(S \cup {None})

\* Faulty variant: a time of day is always today's.
TodaysEpoch(stamp) == (now \div Day) * Day + stamp

\* _sighting_epoch: the last time it was that time of day.
SightingEpoch(stamp) ==
  LET cand == (now \div Day) * Day + stamp
  IN  IF cand > now THEN cand - Day ELSE cand

\* The newest sighting some lines amount to.  The relay stamps a line with its
\* local time.
Sighting(lines) ==
  Latest({SightingEpoch((when[l] + zone) % Day) : l \in lines})

\* seed_memory: the whole log is scanned before the first poll, if it can be read.
Seed == /\ memory = Unseeded
        /\ memory' \in {Sighting(Decoded(file)), None}
        /\ UNCHANGED <<vars, now, zone, when, polled, stored, shownVars>>

\* publish_ages: the memory is raised, and pruned when it is too old.
Remember(seen) ==
  memory' = LET m == Latest({memory, seen})
            IN  IF m # None /\ now - m > MaxAge THEN None ELSE m

Events(lines) == {l \in lines : kind[l] = "event"}

\* Faulty variant: the first event of a poll is the one that counts.
TellFirst(lines) ==
  /\ told' = IF Events(lines) = {} THEN told ELSE Min(Events(lines))
  /\ missed' = missed \ lines

\* The last event line of the poll brings its State along; events are sought in
\* file order.
Tell(lines) ==
  /\ told' = IF Events(lines) = {} THEN told ELSE Max(Events(lines))
  /\ missed' = missed \ lines

\* The age is that of the memory or of the store, and nothing is published for
\* a model that neither knows.  A sink that raises is passed over: the age is told
\* again in the next pass, the event is not.
Publish(lines) ==
  /\ Remember(Sighting(lines))
  /\ LET seen == Latest({memory', stored}) IN
       \/ seen = None /\ UNCHANGED shownVars
       \/ seen # None /\ lastSeen' = seen /\ heard' = TRUE /\ Tell(lines)
       \/ /\ seen # None /\ heard' = FALSE
          /\ missed' = missed \cup {l \in Events(lines) : l > told}
          /\ UNCHANGED <<lastSeen, told>>
  /\ polled' = TRUE
  /\ UNCHANGED <<now, zone, when, stored>>

\* A pass of _loop: the follower's poll, then publish_ages.
PassMeasure ==
  /\ memory # Unseeded
  /\ Measure
  /\ IF from' = Unseen THEN Publish({}) ELSE UNCHANGED ageVars

PassRead == Read /\ Publish(Decoded(Unread))

PassFails == ReadFails /\ Publish({})

Stamp == WriteLine /\ when' = Append(when, now)
         /\ UNCHANGED <<watchVars, now, zone, polled, memory, stored, shownVars>>

LogCap == (WriteRest \/ SizeCap) /\ UNCHANGED <<watchVars, ageVars>>

\* A cloud event or a report stores a view of the model.
Store == /\ stored' = now
         /\ UNCHANGED <<vars, now, zone, when, polled, memory, shownVars>>

Tick == /\ now < MaxTime /\ from = Unseen
        /\ memory = Unseeded \/ polled
        /\ now' = now + 1 /\ polled' = FALSE
        /\ UNCHANGED <<vars, zone, when, memory, stored, shownVars>>

Pass    == PassMeasure \/ PassRead \/ PassFails
AgeNext == Seed \/ Pass \/ Stamp \/ LogCap \/ Store \/ Tick

AgeSpec     == AgeInit /\ [][AgeNext]_allVars
FairAgeSpec == AgeSpec /\ WF_allVars(Seed) /\ WF_allVars(Pass)

-----------------------------------------------------------------------------
(* Properties. *)

Processed == {l \in DOMAIN kind : times[l] > 0}
Newest    == when[Max(Processed)]

\* Where the relay's clock is UTC and the cap has not cut the log: once a line
\* of this life was processed, and the last publish got through, the appliance is
\* shown as seen at the time of the newest one, or later if the store knows
\* better, until that is too old to be remembered.  Before that the memory may be
\* whole days younger than the line it comes from, and is never older.
AgesTrue ==
  zone = 0 /\ ~Truncated /\ from = Unseen =>
    IF Processed = {}
      THEN memory >= 0 => /\ memory <= now
                          /\ \E l \in DOMAIN when :
                               memory >= when[l] /\ memory % Day = when[l] % Day
      ELSE now - Newest <= MaxAge /\ heard =>
             Newest <= lastSeen /\ lastSeen <= Latest({Newest, stored})

\* On an uncut log the event told last is the newest of those that were processed
\* and whose publish got through: a cycle's END is neither skipped nor followed by
\* an older state.
EventsCurrent == ~Truncated => told = Max((Events(Processed) \ missed) \cup {0})
=============================================================================
