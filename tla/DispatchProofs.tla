-------------------------- MODULE DispatchProofs --------------------------
(* Proofs about Dispatch, for any number of request threads, targets, attempts *)
(* and rounds: types, what a registration and a report are answered with, and  *)
(* that a query that reports a fresh state saw one.                            *)
EXTENDS Dispatch, TLAPS

USE DispatchAssumption

Places  == {"idle", "ingest", "forward", "sleep", "replay", "reset", "load",
            "lookup", "push", "wait"}
Answers == {"lg", "lg4xx", "lg5xx", "502", "synthetic", "fresh", "stale", "refused"}
             \cup Captures

-----------------------------------------------------------------------------
(* Types. *)

\* A request that is answered has its locals reset, and they keep their types.
LEMMA AnswerType ==
  ASSUME TypeOK, NEW r \in Requests, NEW how \in Answers, Answer(r, how)
  PROVE  /\ at' \in [Requests -> Places] /\ reply' \in [Requests -> Answers \cup {"none"}]
         /\ attempt' \in [Requests -> 0 .. Retries]
         /\ target' \in [Requests -> 0 .. Targets - 1]
         /\ status' \in [Requests -> {"502", "lg5xx"}]
         /\ before' \in [Requests -> 0 .. MaxTime]
         /\ round' \in [Requests -> 0 .. Rounds]
<1>1. /\ 0 \in 0 .. Retries /\ 0 \in 0 .. Targets - 1 /\ 0 \in 0 .. MaxTime
      /\ 0 \in 0 .. Rounds
  BY DEF DispatchAssumption
<1> QED
  BY <1>1 DEF TypeOK, Answer, Goto, Places, Answers

\* So has one whose attempt failed, whatever it does next.
LEMMA FailedType ==
  ASSUME TypeOK, NEW r \in Requests, NEW out, at[r] = "forward", AttemptFailed(r, out)
  PROVE  /\ at' \in [Requests -> Places] /\ reply' \in [Requests -> Answers \cup {"none"}]
         /\ attempt' \in [Requests -> 0 .. Retries]
         /\ target' \in [Requests -> 0 .. Targets - 1]
         /\ status' \in [Requests -> {"502", "lg5xx"}]
         /\ before' \in [Requests -> 0 .. MaxTime]
         /\ round' \in [Requests -> 0 .. Rounds]
         /\ failed' \in [Requests -> {"none", "502", "lg5xx"}]
<1>1. /\ 0 \in 0 .. Targets - 1
      /\ StatusAfter(r, out) \in {"502", "lg5xx"} /\ StatusAfter(r, out) \in Answers
  BY DEF DispatchAssumption, StatusAfter, Answers
<1>2. failed' \in [Requests -> {"none", "502", "lg5xx"}]
  BY DEF TypeOK, AttemptFailed
<1>3. CASE kind[r] = "registration" /\ attempt[r] < Retries
  <2>1. attempt[r] \in 0 .. Retries /\ attempt[r] + 1 \in 0 .. Retries
    BY <1>3 DEF TypeOK, DispatchAssumption
  <2> QED
    BY <1>1, <1>2, <1>3, <2>1 DEF TypeOK, AttemptFailed, Goto, Places, Answers
<1>4. CASE ~(kind[r] = "registration" /\ attempt[r] < Retries)
  <2>1. GiveUp(r, StatusAfter(r, out))
    BY <1>4 DEF AttemptFailed
  <2>2. CASE kind[r] = "registration"
    <3>1. Answer(r, StatusAfter(r, out))
      BY <2>1, <2>2 DEF GiveUp
    <3> QED
      BY <1>1, <1>2, <3>1, AnswerType
  <2>3. CASE kind[r] # "registration"
    BY <1>1, <1>2, <2>1, <2>3 DEF TypeOK, GiveUp, Goto, Places, Answers
  <2> QED
    BY <2>2, <2>3
<1> QED
  BY <1>3, <1>4

\* Nothing is in the store and no request has arrived.
LEMMA TypeInit == Init => TypeOK
<1> SUFFICES ASSUME Init PROVE TypeOK
  OBVIOUS
<1>1. /\ 0 \in 0 .. Retries /\ 0 \in 0 .. Targets - 1 /\ 0 \in 0 .. MaxTime
      /\ 0 \in 0 .. Rounds /\ 0 \in 0 .. 0 /\ "other" \in Kinds
  BY DEF DispatchAssumption, Kinds
<1>2. /\ at \in [Requests -> Places] /\ kind \in [Requests -> Kinds]
      /\ attempt \in [Requests -> 0 .. Retries]
      /\ target \in [Requests -> 0 .. Targets - 1]
      /\ before \in [Requests -> 0 .. MaxTime] /\ round \in [Requests -> 0 .. Rounds]
  BY <1>1 DEF Init, Places
<1>3. clock \in 0 .. MaxTime /\ latest \in 0 .. clock /\ stamp \in [Ingests -> 0 .. clock]
  BY <1>1 DEF Init
<1> QED
  BY <1>2, <1>3 DEF Init, TypeOK, Places

\* Every action leaves every variable in its type.
LEMMA TypeStep == TypeOK /\ [Next]_vars => TypeOK'
<1> SUFFICES ASSUME TypeOK, [Next]_vars PROVE TypeOK'
  OBVIOUS
<1> USE DEF Places, Answers
<1>1. ASSUME NEW r \in Requests, NEW k \in Kinds, Arrive(r, k) PROVE TypeOK'
  <2>1. latest \in 0 .. MaxTime
    BY DEF TypeOK, DispatchAssumption
  <2>2. at' \in [Requests -> Places] /\ before' \in [Requests -> 0 .. MaxTime]
    BY <1>1, <2>1 DEF TypeOK, Arrive, Goto, Onward, Kinds
  <2> QED
    BY <1>1, <2>2 DEF TypeOK, Arrive, replayVars, storeVars
<1>2. ASSUME NEW i \in Ingests, Stamp(i) PROVE TypeOK'
  BY <1>2 DEF TypeOK, Stamp, reqVars, replayVars, histVars, DispatchAssumption
<1>3. ASSUME NEW i \in Ingests, Commit(i) PROVE TypeOK'
  <2>1. at' \in [Requests -> Places] /\ written' \in [Requests -> BOOLEAN]
    BY <1>3 DEF TypeOK, Commit, Goto, Onward
  <2>2. latest' \in 0 .. clock' /\ stamp' \in [Ingests -> 0 .. clock']
    BY <1>3 DEF TypeOK, Commit
  <2> QED
    BY <1>3, <2>1, <2>2 DEF TypeOK, Commit, replayVars
<1>4. ASSUME NEW r \in Requests, Serve(r) PROVE TypeOK'
  <2>1. CASE Refuse(r)
    <3>1. Answer(r, "refused")
      BY <2>1 DEF Refuse
    <3> QED
      BY <2>1, <3>1, AnswerType DEF TypeOK, Refuse, replayVars, storeVars, histVars
  <2>2. CASE Reject(r) \/ Sleep(r) \/ Push(r)
    <3>1. at' \in [Requests -> Places]
      BY <2>2 DEF TypeOK, Reject, Sleep, Push, Goto, Onward
    <3> QED
      BY <2>2, <3>1 DEF TypeOK, Reject, Sleep, Push, replayVars, storeVars, histVars
  <2>3. CASE CheckLoaded(r) \/ Reset(r) \/ Load(r)
    <3>1. /\ at' \in [Requests -> Places] /\ loaded' \in BOOLEAN
          /\ replies' \subseteq Captured /\ file' = file
      BY <2>3 DEF TypeOK, CheckLoaded, Reset, Load, Step, Goto, replayVars
    <3> QED
      BY <2>3, <3>1
         DEF TypeOK, CheckLoaded, Reset, Load, Step, replayVars, storeVars, histVars
  <2>4. CASE Lookup(r)
    <3>1. \E how \in Answers : Answer(r, how)
      <4>1. kind[r] \in replies => file[kind[r]] \in Captures
        BY DEF TypeOK
      <4> QED
        BY <2>4, <4>1 DEF Lookup
    <3> QED
      BY <2>4, <3>1, AnswerType DEF TypeOK, Lookup, replayVars, storeVars, histVars
  <2>5. CASE Wait(r)
    <3>1. CASE \E how \in Answers : Answer(r, how)
      BY <2>5, <3>1, AnswerType DEF TypeOK, Wait, replayVars, storeVars, histVars
    <3>2. CASE ~ \E how \in Answers : Answer(r, how)
      <4>1. /\ round[r] # Rounds /\ round' = [round EXCEPT ![r] = @ + 1]
            /\ UNCHANGED <<at, attempt, target, status, before, reply>>
        BY <2>5, <3>2 DEF Wait
      <4>2. round' \in [Requests -> 0 .. Rounds]
        BY <4>1 DEF TypeOK, DispatchAssumption
      <4> QED
        BY <2>5, <4>1, <4>2 DEF TypeOK, Wait, replayVars, storeVars, histVars
    <3> QED
      BY <3>1, <3>2
  <2>6. ASSUME NEW out \in Outcomes, Forward(r, out) PROVE TypeOK'
    <3>0. /\ at[r] = "forward" /\ seen' \in [Requests -> BOOLEAN]
          /\ UNCHANGED <<kind, replayVars, storeVars, stamp, written>>
      BY <2>6 DEF TypeOK, Forward
    <3>1. CASE out \in {"lg", "lg4xx"}
      <4>1. Answer(r, out) /\ UNCHANGED failed
        BY <2>6, <3>1 DEF Forward
      <4>2. out \in Answers
        BY <3>1
      <4> QED
        BY <3>0, <4>1, <4>2, AnswerType DEF TypeOK, replayVars, storeVars
    <3>2. CASE out \in {"dead", "lost"} /\ MoreTargets(r)
      <4>1. /\ target' = [target EXCEPT ![r] = @ + 1]
            /\ UNCHANGED <<at, attempt, status, before, round, reply, failed>>
        BY <2>6, <3>2 DEF Forward
      <4>2. target' \in [Requests -> 0 .. Targets - 1]
        BY <3>2, <4>1 DEF TypeOK, MoreTargets, DispatchAssumption
      <4> QED
        BY <3>0, <4>1, <4>2 DEF TypeOK, replayVars, storeVars
    <3>3. CASE out \notin {"lg", "lg4xx"} /\ ~(out \in {"dead", "lost"} /\ MoreTargets(r))
      <4>1. AttemptFailed(r, out)
        BY <2>6, <3>3 DEF Forward
      <4> QED
        BY <3>0, <4>1, FailedType DEF TypeOK, replayVars, storeVars
    <3> QED
      BY <3>1, <3>2, <3>3
  <2> QED
    BY <1>4, <2>1, <2>2, <2>3, <2>4, <2>5, <2>6 DEF Serve
<1>5. CASE UNCHANGED vars
  BY <1>5 DEF TypeOK, vars, reqVars, replayVars, storeVars, histVars
<1> QED
  BY <1>1, <1>2, <1>3, <1>4, <1>5 DEF Next

-----------------------------------------------------------------------------
(* Where a request can be and what it can be answered with. *)

\* A request that is under way has no reply yet; only a report is ingested; only a
\* query waits; in bridge mode a registration is forwarded and nothing else.
Place(r) ==
  /\ at[r] # "idle" => reply[r] = "none"
  /\ stamp[r] > 0 => at[r] = "ingest"
  /\ at[r] = "ingest" => kind[r] = "report"
  /\ kind[r] = "report" => at[r] \notin {"push", "wait"}
  /\ Bridge /\ kind[r] = "registration" => at[r] \in {"idle", "forward", "sleep"}

\* What the properties say of one request.
Honest(r) ==
  /\ Bridge /\ kind[r] = "registration" /\ reply[r] # "none" =>
       /\ reply[r] \in {"lg", "lg4xx", failed[r]}
       /\ reply[r] \in {"lg", "lg4xx", "lg5xx"} => seen[r]
  /\ kind[r] = "report" => \/ reply[r] \in {"none", "lg", "replayed", "synthetic"}
                           \/ reply[r] = "lg4xx" /\ seen[r]
                           \/ "report" \in Captured /\ reply[r] = file["report"]

\* Until an entry is made, a query that waits finds the one it found when it came.
Unmoved(r) ==
  /\ at[r] \in {"push", "wait"} /\ ~written[r] => latest = before[r]
  /\ reply[r] = "fresh" => written[r]

IInv == TypeOK /\ \A r \in Requests : Place(r) /\ Honest(r) /\ Unmoved(r)

\* A step that leaves a request and the store alone.
LEMMA OthersKeep ==
  ASSUME NEW q \in Requests, Place(q), Honest(q), Unmoved(q),
         at'[q] = at[q], kind'[q] = kind[q], reply'[q] = reply[q],
         before'[q] = before[q], seen'[q] = seen[q], failed'[q] = failed[q],
         written'[q] = written[q], stamp'[q] = stamp[q], latest' = latest, file' = file
  PROVE  Place(q)' /\ Honest(q)' /\ Unmoved(q)'
BY DEF Place, Honest, Unmoved

\* No request has arrived, so there is nothing to keep.
LEMMA InitHolds == Init => IInv
<1> SUFFICES ASSUME Init PROVE IInv
  OBVIOUS
<1>1. \A r \in Requests : r \in Ingests
  BY DEF Ingests
<1> QED
  BY TypeInit, <1>1 DEF Init, IInv, Place, Honest, Unmoved

\* The replay file stays as it is.
LEMMA FileStays == [Next]_vars => file' = file
BY DEF Next, Arrive, Stamp, Commit, Serve, Refuse, Reject, Sleep, CheckLoaded, Reset, Load,
   Lookup, Push, Wait, Forward, Step, replayVars, vars

\* Every step of any request keeps what holds of each request.
LEMMA StepHolds == IInv /\ [Next]_vars => IInv'
<1> SUFFICES ASSUME IInv, [Next]_vars,
                    NEW q \in Requests
             PROVE  Place(q)' /\ Honest(q)' /\ Unmoved(q)'
  BY TypeStep DEF IInv
<1>0. TypeOK /\ Place(q) /\ Honest(q) /\ Unmoved(q) /\ q \in Ingests /\ file' = file
  BY FileStays DEF IInv, Ingests
<1>1. ASSUME NEW r \in Requests, NEW k \in Kinds, Arrive(r, k)
      PROVE  Place(q)' /\ Honest(q)' /\ Unmoved(q)'
  <2>1. CASE q = r
    BY <1>0, <1>1, <2>1
       DEF Arrive, Place, Honest, Unmoved, TypeOK, Goto, Onward, storeVars
  <2>2. CASE q # r
    BY <1>0, <1>1, <2>2, OthersKeep DEF Arrive, TypeOK, Goto, storeVars
  <2> QED
    BY <2>1, <2>2
<1>2. ASSUME NEW i \in Ingests, Stamp(i)
      PROVE  Place(q)' /\ Honest(q)' /\ Unmoved(q)'
  BY <1>0, <1>2
     DEF Stamp, Place, Honest, Unmoved, TypeOK, reqVars, histVars
<1>3. ASSUME NEW i \in Ingests, Commit(i)
      PROVE  Place(q)' /\ Honest(q)' /\ Unmoved(q)'
  BY <1>0, <1>3 DEF Commit, Place, Honest, Unmoved, TypeOK, Goto, Onward
<1>4. ASSUME NEW r \in Requests, Serve(r)
      PROVE  Place(q)' /\ Honest(q)' /\ Unmoved(q)'
  <2>1. CASE Refuse(r)
    BY <1>0, <2>1 DEF Refuse, Answer, Place, Honest, Unmoved, TypeOK, Goto, storeVars,
       histVars
  <2>2. CASE Reject(r) \/ Sleep(r) \/ Push(r)
    BY <1>0, <2>2 DEF Reject, Sleep, Push, Place, Honest, Unmoved, TypeOK, Goto,
       Onward, storeVars, histVars
  <2>3. CASE CheckLoaded(r) \/ Reset(r) \/ Load(r)
    BY <1>0, <2>3 DEF CheckLoaded, Reset, Load, Step, Place, Honest, Unmoved, TypeOK,
       Goto, storeVars, histVars
  <2>4. CASE Lookup(r)
    <3>1. kind[r] \in replies =>
            kind[r] \in Captured /\ file[kind[r]] \notin {"none", "fresh"}
      BY <1>0 DEF TypeOK, Captures
    <3>2. CASE q = r
      <4>1. /\ at'[r] = "idle" /\ UNCHANGED <<kind, stamp, latest, seen, failed, written>>
            /\ reply'[r] = IF kind[r] \in replies THEN file[kind[r]] ELSE "synthetic"
        BY <1>0, <2>4 DEF Lookup, Answer, TypeOK, Goto, storeVars, histVars
      <4>2. at[r] = "lookup"
        BY <2>4 DEF Lookup
      <4> QED
        BY <1>0, <3>1, <3>2, <4>1, <4>2 DEF Place, Honest, Unmoved, TypeOK
    <3>3. CASE q # r
      BY <1>0, <2>4, <3>3, OthersKeep DEF Lookup, Answer, TypeOK, Goto, storeVars, histVars
    <3> QED
      BY <3>2, <3>3
  <2>5. CASE Wait(r)
    BY <1>0, <2>5 DEF Wait, Moved, Answer, Place, Honest, Unmoved, TypeOK, Goto,
       storeVars, histVars
  <2>6. ASSUME NEW out \in Outcomes, Forward(r, out)
        PROVE  Place(q)' /\ Honest(q)' /\ Unmoved(q)'
    <3>1. CASE q = r
      BY <1>0, <2>6, <3>1 DEF Forward, AttemptFailed, GiveUp, StatusAfter, Answer,
         Place, Honest, Unmoved, TypeOK, Goto, storeVars
    <3>2. CASE q # r
      <4>1. /\ kind' = kind /\ written' = written /\ stamp' = stamp /\ file' = file
            /\ latest' = latest /\ seen'[q] = seen[q]
        BY <1>0, <2>6, <3>2 DEF Forward, TypeOK, storeVars, replayVars
      <4>2. /\ at'[q] = at[q] /\ reply'[q] = reply[q] /\ before'[q] = before[q]
            /\ failed'[q] = failed[q]
        BY <1>0, <2>6, <3>2 DEF Forward, AttemptFailed, GiveUp, Answer, TypeOK, Goto
      <4> QED
        BY <1>0, <4>1, <4>2, OthersKeep
    <3> QED
      BY <3>1, <3>2
  <2> QED
    BY <1>4, <2>1, <2>2, <2>3, <2>4, <2>5, <2>6 DEF Serve
<1>5. CASE UNCHANGED vars
  BY <1>0, <1>5 DEF vars, reqVars, storeVars, histVars, Place, Honest, Unmoved
<1> QED
  BY <1>1, <1>2, <1>3, <1>4, <1>5 DEF Next

\* IInv holds throughout.
LEMMA Invariance == Spec => []IInv
BY InitHolds, StepHolds, PTL DEF Spec

-----------------------------------------------------------------------------
(* Theorems. *)

\* The variables of the dispatcher always have their types.
THEOREM TypeCorrect == Spec => []TypeOK
BY Invariance, PTL DEF IInv

\* TASK-077, for any number of targets and attempts: in bridge mode a registration
\* is answered with LG's own reply or with the error of the last attempt.
THEOREM RegistrationNeverFaked == Spec => []NeverFaked
<1>1. IInv => NeverFaked
  BY DEF IInv, Honest, NeverFaked
<1> QED
  BY Invariance, <1>1, PTL

\* However LG fails, in either mode, a report is answered with a success, with a refusal
\* of LG's own, or with what the replay file holds for it.
THEOREM OutageAlwaysHidden == Spec => []OutageHidden
<1>1. IInv => OutageHidden
  BY DEF IInv, Honest, OutageHidden
<1> QED
  BY Invariance, <1>1, PTL

\* A query that reports a fresh state saw an entry that was made after it began,
\* whatever else is ingested meanwhile and in whatever order it is stored.
THEOREM FreshAlwaysNew == Spec => []FreshIsNew
<1>1. IInv => FreshIsNew
  BY DEF IInv, Unmoved, FreshIsNew
<1> QED
  BY Invariance, <1>1, PTL

-----------------------------------------------------------------------------
(* The captured replies. *)

\* The table, once the flag is set, is whole or some thread is still loading it, and
\* whoever looks a reply up has seen the flag set.
Loading ==
  /\ loaded /\ replies # Captured => \E t \in Requests : at[t] = "load"
  /\ \A r \in Requests : at[r] \in {"load", "lookup"} => loaded

\* A reply is synthesised by a look-up, and every step keeps the table so.
LEMMA LoadingStep ==
  ASSUME IInv, Loading, [Next]_vars
  PROVE  /\ Loading'
         /\ \A q \in Requests :
              reply'[q] = "synthetic" /\ reply[q] # "synthetic" /\ kind[q] \in Captured =>
                \E t \in Requests \ {q} : at[t] = "load"
<1> DEFINE Served ==
      \A q \in Requests :
        reply'[q] = "synthetic" /\ reply[q] # "synthetic" /\ kind[q] \in Captured =>
          \E t \in Requests \ {q} : at[t] = "load"
<1>0. TypeOK /\ \A r \in Requests : stamp[r] > 0 => at[r] = "ingest"
  BY DEF IInv, Place
<1>1. ASSUME UNCHANGED replayVars, \A q \in Requests : at'[q] # at[q] =>
               at[q] # "load" /\ at'[q] \notin {"load", "lookup"}
      PROVE  Loading'
  BY <1>1 DEF Loading, replayVars
<1>2. ASSUME NEW r \in Requests, NEW k \in Kinds, Arrive(r, k)
      PROVE  Loading' /\ Served
  BY <1>0, <1>1, <1>2 DEF Arrive, Goto, Onward, TypeOK
<1>3. ASSUME NEW i \in Ingests, Stamp(i) \/ Commit(i)
      PROVE  Loading' /\ Served
  <2>1. CASE Stamp(i)
    BY <1>0, <1>1, <2>1 DEF Stamp, reqVars
  <2>2. CASE Commit(i)
    <3>1. i \in Requests => at[i] = "ingest" /\ at' = [at EXCEPT ![i] = Onward]
      BY <1>0, <2>2 DEF Commit, Goto
    <3> QED
      BY <1>0, <1>1, <2>2, <3>1 DEF Commit, Onward, TypeOK
  <2> QED
    BY <1>3, <2>1, <2>2
<1>4. ASSUME NEW r \in Requests, Serve(r)
      PROVE  Loading' /\ Served
  <2>1. CASE Refuse(r) \/ Wait(r)
    BY <1>0, <1>1, <2>1 DEF Refuse, Wait, Answer, Goto, TypeOK
  <2>2. CASE Reject(r) \/ Sleep(r) \/ Push(r)
    BY <1>0, <1>1, <2>2 DEF Reject, Sleep, Push, Goto, Onward, TypeOK
  <2>3. CASE CheckLoaded(r)
    BY <1>0, <2>3 DEF CheckLoaded, Step, Goto, TypeOK, Loading, replayVars
  <2>4. CASE Reset(r) \/ Load(r)
    BY <1>0, <2>4 DEF Reset, Load, Step, Goto, TypeOK, Loading
  <2>5. CASE Lookup(r)
    <3>1. Loading'
      BY <1>0, <2>5 DEF Lookup, Answer, Goto, TypeOK, Loading, replayVars
    <3>2. kind[r] \in Captured \ replies => \E t \in Requests \ {r} : at[t] = "load"
      BY <2>5 DEF Lookup, Loading
    <3> QED
      <4>1. kind[r] \in replies => file[kind[r]] # "synthetic"
        BY <1>0 DEF TypeOK, Captures
      <4> QED
        BY <1>0, <2>5, <3>1, <3>2, <4>1 DEF Lookup, Answer, TypeOK
  <2>6. ASSUME NEW out \in Outcomes, Forward(r, out) PROVE Loading' /\ Served
    <3>1. /\ UNCHANGED replayVars /\ at[r] = "forward"
          /\ \/ UNCHANGED at
             \/ \E p \in {"idle", "sleep", "replay"} : at' = [at EXCEPT ![r] = p]
      BY <2>6 DEF Forward, AttemptFailed, GiveUp, Answer, Goto
    <3>2. \/ UNCHANGED reply
          \/ \E a \in {"lg", "lg4xx", "lg5xx", "502"} : reply' = [reply EXCEPT ![r] = a]
      BY <2>6 DEF Forward, AttemptFailed, GiveUp, StatusAfter, Answer
    <3> QED
      BY <1>0, <1>1, <3>1, <3>2 DEF TypeOK
  <2> QED
    BY <1>4, <2>1, <2>2, <2>3, <2>4, <2>5, <2>6 DEF Serve
<1>5. CASE UNCHANGED vars
  BY <1>0, <1>1, <1>5 DEF vars, reqVars
<1> QED
  BY <1>2, <1>3, <1>4, <1>5 DEF Next

\* replay._load, which takes no lock, has at worst a captured reply missed while
\* another thread is between setting the flag and filling the table.
THEOREM CapturesAlwaysServed == Spec => CapturesServed
<1>1. Init => Loading
  BY DEF Init, Loading
<1>2. IInv /\ Loading /\ [Next]_vars => Loading'
  BY LoadingStep
<1>3. IInv /\ Loading /\ [Next]_vars =>
        [\A r \in Requests :
           reply'[r] = "synthetic" /\ reply[r] # "synthetic" /\ kind[r] \in Captured =>
             \E t \in Requests \ {r} : at[t] = "load"]_vars
  BY LoadingStep
<1> QED
  BY <1>1, <1>2, <1>3, Invariance, PTL DEF Spec, CapturesServed
=============================================================================
