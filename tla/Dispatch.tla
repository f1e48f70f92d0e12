------------------------------ MODULE Dispatch ------------------------------
(***************************************************************************)
(* What server/app.py does with a request on port 46030: a thread of the    *)
(* HTTP server takes it through dispatch().  In bridge mode it is forwarded  *)
(* to LG, over several targets and, for a registration, several attempts;   *)
(* otherwise, or when LG fails a telemetry request, it is answered from the  *)
(* captured replies (server/replay.py, loaded on first use) or synthesised. *)
(* /debug/query asks the control channel for a snapshot and watches the      *)
(* store for it.                                                            *)
(*                                                                         *)
(* One device's entry of the store is modelled, as its timestamp.           *)
(***************************************************************************)
EXTENDS Naturals

CONSTANTS Requests,   \* the threads that serve requests
          Bridge,     \* LGM_MODE is bridge
          Targets,    \* LG's host and the pinned addresses after it (3)
          Retries,    \* further attempts at a registration (2)
          Rounds,     \* QUERY_WAIT_ROUNDS (30)
          Captured,   \* kinds of requests the replay file has a reply for: none
                      \* where there is no file or it cannot be read
          MaxTime     \* bound: timestamps handed out

Kinds == {"registration", "report", "other", "query"}

ASSUME DispatchAssumption ==
         /\ Bridge \in BOOLEAN /\ Targets \in Nat \ {0}
         /\ {Retries, Rounds, MaxTime} \subseteq Nat
         /\ Captured \subseteq Kinds \ {"query"}

VARIABLES
  at,       \* where each request is
  kind,     \* what it asks for
  attempt,  \* failed attempts so far
  target,   \* targets this attempt has failed at
  status,   \* upstream_status
  before,   \* the timestamp a query found, 0 for none
  round,    \* rounds it has waited
  reply,    \* how the last request of this thread was answered
  file,     \* the captured replies in the replay file
  loaded,   \* replay._loaded
  replies,  \* replay._store
  clock,    \* timestamps handed out
  latest,   \* timestamp of the device's entry in store.latest, 0 for none
  stamp,    \* timestamp of an ingest that is under way, 0 for none
  seen,     \* history: LG has processed the request
  failed,   \* history: what LG answered in the last attempt
  written   \* history: an entry was made in the store since the request arrived

reqVars    == <<at, kind, attempt, target, status, before, round, reply>>
replayVars == <<file, loaded, replies>>
storeVars  == <<clock, latest>>
histVars   == <<seen, failed, written>>
vars       == <<reqVars, replayVars, storeVars, stamp, histVars>>

\* What a captured reply is: a success, an error that LG once answered, or an entry
\* without a body or headers, at which the request ends in an exception, unanswered.
Captures == {"replayed", "replayed error", "exception"}

Ingests == Requests \cup {"pump"}   \* who puts snapshots into the store

TypeOK ==
  /\ at \in [Requests -> {"idle", "ingest", "forward", "sleep", "replay", "reset",
                          "load", "lookup", "push", "wait"}]
  /\ kind \in [Requests -> Kinds]
  /\ attempt \in [Requests -> 0 .. Retries]
  /\ target \in [Requests -> 0 .. Targets - 1]
  /\ status \in [Requests -> {"502", "lg5xx"}]
  /\ before \in [Requests -> 0 .. MaxTime]
  /\ round \in [Requests -> 0 .. Rounds]
  /\ reply \in [Requests -> {"none", "lg", "lg4xx", "lg5xx", "502", "synthetic", "fresh",
                             "stale", "refused"} \cup Captures]
  /\ file \in [Captured -> Captures] /\ loaded \in BOOLEAN /\ replies \subseteq Captured
  /\ clock \in 0 .. MaxTime /\ latest \in 0 .. clock
  /\ stamp \in [Ingests -> 0 .. clock]
  /\ seen \in [Requests -> BOOLEAN] /\ written \in [Requests -> BOOLEAN]
  /\ failed \in [Requests -> {"none", "502", "lg5xx"}]

Init ==
  /\ at = [r \in Requests |-> "idle"]
  /\ kind = [r \in Requests |-> "other"]
  /\ attempt = [r \in Requests |-> 0] /\ target = [r \in Requests |-> 0]
  /\ status = [r \in Requests |-> "502"]
  /\ before = [r \in Requests |-> 0] /\ round = [r \in Requests |-> 0]
  /\ reply = [r \in Requests |-> "none"]
  /\ file \in [Captured -> Captures] /\ loaded = FALSE /\ replies = {}
  /\ clock = 0 /\ latest = 0 /\ stamp = [i \in Ingests |-> 0]
  /\ seen = [r \in Requests |-> FALSE]
  /\ failed = [r \in Requests |-> "none"]
  /\ written = [r \in Requests |-> FALSE]

Goto(r, s) == at' = [at EXCEPT ![r] = s]

\* The request is answered; its locals are gone.
Answer(r, how) ==
  /\ Goto(r, "idle")
  /\ reply' = [reply EXCEPT ![r] = how]
  /\ attempt' = [attempt EXCEPT ![r] = 0] /\ target' = [target EXCEPT ![r] = 0]
  /\ status' = [status EXCEPT ![r] = "502"]
  /\ before' = [before EXCEPT ![r] = 0] /\ round' = [round EXCEPT ![r] = 0]

-----------------------------------------------------------------------------
(* A request arrives; a report is ingested. *)

Onward == IF Bridge THEN "forward" ELSE "replay"

\* A query without a device, or before the channel is wired, is refused.
Arrive(r, k) ==
  /\ at[r] = "idle"
  /\ kind' = [kind EXCEPT ![r] = k]
  /\ reply' = [reply EXCEPT ![r] = "none"]
  /\ seen' = [seen EXCEPT ![r] = FALSE] /\ failed' = [failed EXCEPT ![r] = "none"]
  /\ written' = [written EXCEPT ![r] = FALSE]
  /\ CASE k = "report" -> Goto(r, "ingest") /\ UNCHANGED before
       [] k = "query"  -> Goto(r, "push") /\ before' = [before EXCEPT ![r] = latest]
       [] OTHER        -> Goto(r, Onward) /\ UNCHANGED before
  /\ UNCHANGED <<attempt, target, status, round, replayVars, storeVars, stamp>>

Refuse(r) ==
  /\ at[r] = "push"
  /\ Answer(r, "refused")
  /\ UNCHANGED <<kind, replayVars, storeVars, stamp, histVars>>

\* A report, or a frame of the pump, is decoded and takes its timestamp.
Stamp(i) ==
  /\ stamp[i] = 0 /\ clock < MaxTime
  /\ i \in Requests => at[i] = "ingest"
  /\ clock' = clock + 1
  /\ stamp' = [stamp EXCEPT ![i] = clock']
  /\ UNCHANGED <<reqVars, replayVars, latest, histVars>>

\* Its entry replaces the one in the store, whatever that one's timestamp.
Commit(i) ==
  /\ stamp[i] > 0
  /\ latest' = stamp[i] /\ stamp' = [stamp EXCEPT ![i] = 0]
  /\ written' = [r \in Requests |-> TRUE]
  /\ IF i \in Requests THEN Goto(i, Onward) ELSE UNCHANGED at
  /\ UNCHANGED <<kind, attempt, target, status, before, round, reply, replayVars,
                 clock, seen, failed>>

\* A report that cannot be decoded does not stop its request.
Reject(r) ==
  /\ at[r] = "ingest" /\ stamp[r] = 0
  /\ Goto(r, Onward)
  /\ UNCHANGED <<kind, attempt, target, status, before, round, reply, replayVars,
                 storeVars, stamp, histVars>>

-----------------------------------------------------------------------------
(* Forwarding. *)

\* Faulty variants: a registration falls back to a standalone reply; telemetry is
\* answered with the error of LG.
GiveUpStandalone(r, st) ==
  /\ Goto(r, "replay")
  /\ target' = [target EXCEPT ![r] = 0] /\ status' = [status EXCEPT ![r] = st]
  /\ UNCHANGED <<reply, attempt, before, round>>

GiveUpLoud(r, st) == Answer(r, st)

\* A registration that is not delivered is answered with what LG said last.
GiveUp(r, st) ==
  IF kind[r] = "registration"
    THEN Answer(r, st)
    ELSE /\ Goto(r, "replay")
         /\ target' = [target EXCEPT ![r] = 0] /\ status' = [status EXCEPT ![r] = st]
         /\ UNCHANGED <<reply, attempt, before, round>>

\* upstream_status after an attempt, which starts with 502 anew.
StatusAfter(r, out) == IF out = "lg5xx" THEN "lg5xx" ELSE "502"

AttemptFailed(r, out) ==
  /\ failed' = [failed EXCEPT ![r] = IF out = "lg5xx" THEN "lg5xx" ELSE "502"]
  /\ IF kind[r] = "registration" /\ attempt[r] < Retries
       THEN /\ Goto(r, "sleep")
            /\ attempt' = [attempt EXCEPT ![r] = @ + 1]
            /\ target' = [target EXCEPT ![r] = 0]
            /\ status' = [status EXCEPT ![r] = StatusAfter(r, out)]
            /\ UNCHANGED <<reply, before, round>>
       ELSE GiveUp(r, StatusAfter(r, out))

\* forward() has another target to try.
MoreTargets(r) == target[r] < Targets - 1

\* One target: LG answers (a success, another status below 500, or one from 500 on),
\* cannot be reached, loses the connection after it has processed the request, or
\* answers what is not HTTP.  Only an OSError, that is the unreachable and the lost,
\* makes forward() try the next one; any status below 500 is passed on as it is.
Forward(r, out) ==
  /\ at[r] = "forward"
  /\ seen' = IF out \in {"lg", "lg4xx", "lost", "lg5xx"} THEN [seen EXCEPT ![r] = TRUE]
             ELSE seen
  /\ CASE out \in {"lg", "lg4xx"} -> Answer(r, out) /\ UNCHANGED failed
       [] out \in {"dead", "lost"} /\ MoreTargets(r) ->
            /\ target' = [target EXCEPT ![r] = @ + 1]
            /\ UNCHANGED <<at, attempt, status, before, round, reply, failed>>
       [] OTHER -> AttemptFailed(r, out)
  /\ UNCHANGED <<kind, replayVars, storeVars, stamp, written>>

Sleep(r) ==
  /\ at[r] = "sleep" /\ Goto(r, "forward")
  /\ UNCHANGED <<kind, attempt, target, status, before, round, reply, replayVars,
                 storeVars, stamp, histVars>>

-----------------------------------------------------------------------------
(* Standalone replies. *)

Step(r, from, to) ==
  /\ at[r] = from /\ Goto(r, to)
  /\ UNCHANGED <<kind, attempt, target, status, before, round, reply, storeVars,
                 stamp, histVars>>

\* replay._load, without a lock: the flag is looked at, set with an empty table,
\* and the file is read into the table.
CheckLoaded(r) == /\ Step(r, "replay", IF loaded THEN "lookup" ELSE "reset")
                  /\ UNCHANGED replayVars

Reset(r) == /\ Step(r, "reset", "load") /\ loaded' = TRUE /\ replies' = {}
            /\ UNCHANGED file

\* Faulty variant: the table that was read is not kept.
LoadNothing(r) == Step(r, "load", "lookup") /\ UNCHANGED replayVars

Load(r) == Step(r, "load", "lookup") /\ replies' = Captured /\ UNCHANGED <<file, loaded>>

\* A captured reply is sent with the status it was captured with.
Lookup(r) ==
  /\ at[r] = "lookup"
  /\ Answer(r, IF kind[r] \in replies THEN file[kind[r]] ELSE "synthetic")
  /\ UNCHANGED <<kind, replayVars, storeVars, stamp, histVars>>

-----------------------------------------------------------------------------
(* /debug/query *)

\* The control channel is asked; its answer, if any, comes through the pump.
Push(r) ==
  /\ at[r] = "push" /\ Goto(r, "wait")
  /\ UNCHANGED <<kind, attempt, target, status, before, round, reply, replayVars,
                 storeVars, stamp, histVars>>

\* Faulty variant: any entry will do.
MovedAny(r) == latest # 0

\* The timestamp is there and is not the one from before.
Moved(r) == latest # 0 /\ latest # before[r]

\* Faulty variant: the wait has no bound.
WaitUnbounded(r) ==
  /\ at[r] = "wait" /\ Moved(r)
  /\ Answer(r, "fresh")
  /\ UNCHANGED <<kind, replayVars, storeVars, stamp, histVars>>

Wait(r) ==
  /\ at[r] = "wait"
  /\ CASE round[r] = Rounds             -> Answer(r, "stale")
       [] round[r] < Rounds /\ Moved(r) -> Answer(r, "fresh")
       [] OTHER -> /\ round' = [round EXCEPT ![r] = @ + 1]
                   /\ UNCHANGED <<at, attempt, target, status, before, reply>>
  /\ UNCHANGED <<kind, replayVars, storeVars, stamp, histVars>>

-----------------------------------------------------------------------------
Outcomes == {"lg", "lg4xx", "lg5xx", "dead", "lost", "garbled"}

Serve(r) ==
  \/ Refuse(r) \/ Reject(r) \/ Sleep(r) \/ CheckLoaded(r) \/ Reset(r) \/ Load(r)
  \/ Lookup(r) \/ Push(r) \/ Wait(r)
  \/ \E out \in Outcomes : Forward(r, out)

Next ==
  \/ \E r \in Requests, k \in Kinds : Arrive(r, k)
  \/ \E i \in Ingests : Stamp(i) \/ Commit(i)
  \/ \E r \in Requests : Serve(r)

Spec == Init /\ [][Next]_vars

\* The threads run, and a connection attempt or a silent upstream ends by its
\* 15 s timeout.  Nothing makes requests or snapshots arrive.
FairSpec == /\ Spec
            /\ \A r \in Requests : WF_vars(Serve(r)) /\ WF_vars(Commit(r))

-----------------------------------------------------------------------------
(* Properties. *)

\* TASK-077: in bridge mode a registration is answered with LG's own reply or with
\* the error of the last attempt, not of an earlier one; a success LG knows nothing
\* of would leave its record stale.
NeverFaked ==
  Bridge => \A r \in Requests :
    kind[r] = "registration" /\ reply[r] # "none" =>
      /\ reply[r] \in {"lg", "lg4xx", failed[r]}
      /\ reply[r] \in {"lg", "lg4xx", "lg5xx"} => seen[r]

\* An outage of LG is hidden from telemetry, so the appliance does not storm with
\* retries: an error of 500 or more, or none at all, is never what a report gets.  It
\* gets LG's own answer, be it a refusal, or else what the server has for it, which is
\* a success unless the replay file holds something else.
OutageHidden ==
  \A r \in Requests :
    kind[r] = "report" =>
      \/ reply[r] \in {"none", "lg", "replayed", "synthetic"}
      \/ reply[r] = "lg4xx" /\ seen[r]
      \/ "report" \in Captured /\ reply[r] = file["report"]

\* A query that reports a fresh state saw one that was stored after it began.
FreshIsNew == \A r \in Requests : reply[r] = "fresh" => written[r]

\* A captured reply is used, but for the moment in which another thread is still
\* loading the captures.
CapturesServed ==
  [][\A r \in Requests :
       reply'[r] = "synthetic" /\ reply[r] # "synthetic" /\ kind[r] \in Captured =>
         \E t \in Requests \ {r} : at[t] = "load"]_vars

\* Every request is answered, or ended by an exception, however LG behaves.
Answered == \A r \in Requests : at[r] # "idle" ~> at[r] = "idle"
=============================================================================
