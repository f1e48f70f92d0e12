---------------------------- MODULE StartupProofs ----------------------------
(* Proofs about Startup: its types, that the control channel is always tended, *)
(* and that the Supervisor never restarts the app for the control port alone.  *)
EXTENDS Startup, TLAPS

USE DEF Ports, Targets

-----------------------------------------------------------------------------
(* The channel is tended. *)

\* A port that is about to be served is bound.
Bound ==
  /\ stage \in {"health", "serve", "run"} => port["http"] = "ours"
  /\ rearm \in {"bound", "lowered"} => port["control"] = "ours"

\* The re-arm thread ends only with the channel served.
DoneServes == rearm = "done" => "control" \in serving

TInv == TypeOK /\ Bound /\ ChannelTended /\ DoneServes

\* Zero tries are within the bound.
LEMMA NoTries == 0 \in 0 .. Retries + HttpRetries
  BY StartupAssumption

\* So is one more, while attempts are left.
LEMMA OneMoreTry ==
  ASSUME tries \in 0 .. Retries + HttpRetries,
         tries + 1 < Retries \/ tries + 1 < HttpRetries
  PROVE  tries + 1 \in 0 .. Retries + HttpRetries
  BY StartupAssumption

\* The process has not been started.
LEMMA InitTInv == Init => TInv
<1> SUFFICES ASSUME Init PROVE TInv
  OBVIOUS
<1>1. port \in [Ports -> {"free", "held", "ours"}]
  BY DEF Init
<1>2. tries \in 0 .. Retries + HttpRetries
  BY NoTries DEF Init
<1>3. edge \in Edges
  BY StartupAssumption DEF Init
<1>4. Bound /\ ChannelTended /\ DoneServes
  BY DEF Init, Bound, ChannelTended, DoneServes
<1>5. QED
  BY <1>1, <1>2, <1>3, <1>4 DEF Init, TInv, TypeOK

\* What ends the process keeps TInv, whatever it was ended for.
LEMMA EndTInv ==
  ASSUME TInv, NEW why \in SUBSET Ports, End(why), edge' = edge
  PROVE  TInv'
<1>1. tries' \in 0 .. Retries + HttpRetries
  BY NoTries DEF End
<1>2. port' \in [Ports -> {"free", "held", "ours"}]
  BY DEF End, TInv, TypeOK
<1>3. Bound' /\ ChannelTended' /\ DoneServes'
  BY DEF End, Bound, ChannelTended, DoneServes
<1>4. QED
  BY <1>1, <1>2, <1>3 DEF End, TInv, TypeOK

\* A poll that fails leaves the process as it is or ends it.
LEMMA FailedTInv ==
  ASSUME TInv, NEW found \in SUBSET Ports, Failed(found), edge' = edge
  PROVE  TInv'
<1>1. CASE fails = 0
  BY <1>1 DEF TInv, TypeOK, Bound, ChannelTended, DoneServes, Failed,
              bindVars, rearmVars
<1>2. CASE fails # 0
  <2>1. blamed \cup found \in SUBSET Ports
    BY DEF TInv, TypeOK
  <2>2. End(blamed \cup found)
    BY <1>2 DEF Failed
  <2>3. QED
    BY <2>1, <2>2, EndTInv
<1>3. QED
  BY <1>1, <1>2

\* Every step of the process, of the watchdog and of the network keeps TInv.
LEMMA NextTInv == TInv /\ [Next]_vars => TInv'
<1> SUFFICES ASSUME TInv, [Next]_vars PROVE TInv'
  OBVIOUS
<1> USE NoTries
<1> USE DEF TInv, TypeOK, Bound, ChannelTended, DoneServes
<1>1. CASE Main
  <2>1. CASE BindControl
    BY <2>1 DEF BindControl, Bind, rearmVars, pollVars
  <2>2. CASE ControlBusy
    BY <2>2, OneMoreTry DEF ControlBusy, rearmVars, pollVars
  <2>3. CASE BindHttp
    BY <2>3 DEF BindHttp, Bind, rearmVars, pollVars
  <2>4. CASE HttpBusy
    <3>1. CASE tries + 1 < HttpRetries
      BY <2>4, <3>1, OneMoreTry DEF HttpBusy, rearmVars, pollVars
    <3>2. CASE ~(tries + 1 < HttpRetries)
      BY <2>4, <3>2, EndTInv DEF HttpBusy
    <3>3. QED
      BY <3>1, <3>2
  <2>5. CASE StartHealth
    BY <2>5 DEF StartHealth, Bind, rearmVars, pollVars
  <2>6. CASE Serve
    BY <2>6 DEF Serve, rearmVars, pollVars
  <2>7. QED
    BY <1>1, <2>1, <2>2, <2>3, <2>4, <2>5, <2>6 DEF Main
<1>2. CASE Rearm
  <2>1. CASE RearmBind
    BY <2>1 DEF RearmBind, Bind, bindVars, pollVars
  <2>2. CASE RearmLower
    BY <2>2 DEF RearmLower, bindVars, pollVars
  <2>3. CASE RearmServe
    BY <2>3 DEF RearmServe, bindVars, pollVars
  <2>4. QED
    BY <1>2, <2>1, <2>2, <2>3 DEF Rearm
<1>3. CASE HealthPoll
  <2>1. CASE Poll
    <3>1. CASE "health" \in serving
      BY <2>1, <3>1 DEF Poll, bindVars, rearmVars
    <3>2. CASE "health" \notin serving
      BY <2>1, <3>2, FailedTInv DEF Poll
    <3>3. QED
      BY <3>1, <3>2
  <2>2. CASE ProbeHttp
    BY <2>2 DEF ProbeHttp, bindVars, rearmVars
  <2>3. CASE ProbeControl
    BY <2>3 DEF ProbeControl, bindVars, rearmVars
  <2>4. CASE Excuse
    BY <2>4 DEF Excuse, bindVars, rearmVars
  <2>5. CASE Verdict
    <3>1. CASE dead = {}
      BY <2>5, <3>1 DEF Verdict, bindVars, rearmVars
    <3>2. CASE dead # {}
      BY <2>5, <3>2, FailedTInv DEF Verdict
    <3>3. QED
      BY <3>1, <3>2
  <2>6. QED
    BY <1>3, <2>1, <2>2, <2>3, <2>4, <2>5 DEF HealthPoll
<1>4. CASE Restart
  BY <1>4 DEF Restart, rearmVars
<1>5. CASE EdgeChanges
  BY <1>5 DEF EdgeChanges, bindVars, rearmVars, pollVars
<1>6. CASE \E p \in Ports : Release(p)
  BY <1>6 DEF Release, bindVars, rearmVars, pollVars
<1>7. CASE UNCHANGED vars
  BY <1>7 DEF vars, bindVars, rearmVars, pollVars
<1>8. QED
  BY <1>1, <1>2, <1>3, <1>4, <1>5, <1>6, <1>7 DEF Next

\* TInv holds throughout.
LEMMA AlwaysTInv == Spec => []TInv
  BY InitTInv, NextTInv, PTL DEF Spec

\* Every variable keeps to its type; in particular only a bound port is served
\* (server/control_channel.py, server/app.py).
THEOREM TypeCorrect == Spec => []TypeOK
<1>1. TInv => TypeOK
  BY DEF TInv
<1>2. QED
  BY <1>1, AlwaysTInv, PTL

\* Past main()'s bind of the control port, the port is served or the re-arm
\* thread is at it, whatever holds the ports and whatever the health probe finds.
THEOREM AlwaysTended == Spec => []ChannelTended
<1>1. TInv => ChannelTended
  BY DEF TInv
<1>2. QED
  BY <1>1, AlwaysTInv, PTL

-----------------------------------------------------------------------------
(* No churn.  The first failed poll that finds only the control port dead comes *)
(* when the re-arm thread has just lowered its flag; by the second poll that    *)
(* thread has finished and the port answers.                                   *)

\* The flag is up exactly while the port is being waited for or has just been
\* bound, and no re-arm thread outlives its process.
FlagFits ==
  /\ flag <=> rearm \in {"waiting", "bound"}
  /\ stage \in {"control", "exited"} => rearm = "none"

\* A health request is answered by a process that has the health listener.
ProbeFits ==
  /\ "health" \in serving => stage \in {"serve", "run"}
  /\ probe # "none" => stage \in {"serve", "run"}
  /\ probe = "none" => dead = {}
  /\ probe = "excuse" => rearm # "none"

\* The count of failed polls and what they found belong together.
CountFits ==
  /\ fails = 1 => blamed # {}
  /\ stage = "exited" => fails = 0

\* A control port is found dead only once the flag has been lowered.
FoundLate ==
  /\ "control" \in dead => rearm \in {"lowered", "done"}
  /\ fails = 1 /\ blamed = {"control"} => rearm \in {"lowered", "done"}

\* The poll after such a failure finds it alive.
SecondFine ==
  fails = 1 /\ blamed = {"control"} /\ probe # "none" =>
    rearm = "done" /\ probe # "excuse" /\ "control" \notin dead

CInv == /\ FlagFits /\ ProbeFits /\ CountFits /\ FoundLate /\ SecondFine
        /\ NoChurn

\* No poll has failed.
LEMMA InitCInv == Init => CInv
  BY DEF Init, CInv, FlagFits, ProbeFits, CountFits, FoundLate, SecondFine,
         NoChurn

\* A poll that fails for something, be it the first or the second in a row.
LEMMA FailedCInv ==
  ASSUME TInv, CInv, NEW found \in SUBSET Ports, found # {}, Failed(found), Up,
         "control" \in found => rearm \in {"lowered", "done"},
         fails = 1 /\ blamed = {"control"} => found # {"control"}
  PROVE  CInv'
<1> USE DEF CInv, FlagFits, ProbeFits, CountFits, FoundLate, SecondFine, NoChurn
<1>1. CASE fails = 0
  <2>1. /\ fails' = 1 /\ blamed' = found /\ probe' = "none" /\ dead' = {}
        /\ UNCHANGED <<stage, serving, rearm, flag>>
    BY <1>1 DEF Failed, bindVars, rearmVars
  <2>2. stage # "exited"
    BY DEF Up
  <2>3. QED
    BY <2>1, <2>2
<1>2. CASE fails = 1
  <2>1. End(blamed \cup found)
    BY <1>2 DEF Failed
  <2>2. blamed \cup found # {"control"}
    BY <1>2
  <2>3. QED
    BY <2>1, <2>2 DEF End
<1>3. QED
  BY <1>1, <1>2 DEF TInv, TypeOK

\* Every step keeps CInv.
LEMMA NextCInv ==
  ASSUME "silent" \notin Edges, TInv, CInv, [Next]_vars
  PROVE  CInv'
<1> USE DEF CInv, FlagFits, ProbeFits, CountFits, FoundLate, SecondFine, NoChurn
<1>1. CASE Main
  <2>1. CASE BindControl
    BY <2>1 DEF BindControl, rearmVars, pollVars
  <2>2. CASE ControlBusy
    BY <2>2 DEF ControlBusy, rearmVars, pollVars
  <2>3. CASE BindHttp
    BY <2>3 DEF BindHttp, rearmVars, pollVars
  <2>4. CASE HttpBusy
    BY <2>4 DEF HttpBusy, End, rearmVars, pollVars
  <2>5. CASE StartHealth
    BY <2>5 DEF StartHealth, rearmVars, pollVars
  <2>6. CASE Serve
    BY <2>6 DEF Serve, rearmVars, pollVars
  <2>7. QED
    BY <1>1, <2>1, <2>2, <2>3, <2>4, <2>5, <2>6 DEF Main
<1>2. CASE Rearm
  <2>1. CASE RearmBind
    BY <2>1 DEF RearmBind, bindVars, pollVars
  <2>2. CASE RearmLower
    BY <2>2 DEF RearmLower, bindVars, pollVars
  <2>3. CASE RearmServe
    BY <2>3 DEF RearmServe, bindVars, pollVars
  <2>4. QED
    BY <1>2, <2>1, <2>2, <2>3 DEF Rearm
<1>3. CASE HealthPoll
  <2>1. CASE Poll
    <3>1. CASE "health" \in serving
      BY <2>1, <3>1 DEF Poll, Spaced, bindVars, rearmVars, TInv, TypeOK
    <3>2. CASE "health" \notin serving
      <4>1. Failed({"health"}) /\ Up
        BY <2>1, <3>2 DEF Poll
      <4>2. {"health"} \in SUBSET Ports /\ "control" \notin {"health"}
        OBVIOUS
      <4>3. QED
        BY <4>1, <4>2, FailedCInv
    <3>3. QED
      BY <3>1, <3>2
  <2>2. CASE ProbeHttp
    BY <2>2 DEF ProbeHttp, bindVars, rearmVars
  <2>3. CASE ProbeControl
    <3>1. edge # "silent"
      BY DEF TInv, TypeOK
    <3>2. stage \in {"serve", "run"}
      BY <2>3 DEF ProbeControl
    <3>3. "control" \notin serving => rearm \in {"waiting", "bound", "lowered"}
      BY <3>2 DEF TInv, ChannelTended
    <3>4. rearm = "done" => "control" \in serving
      BY DEF TInv, DoneServes
    <3>5. QED
      BY <2>3, <3>1, <3>2, <3>3, <3>4
         DEF ProbeControl, Connectable, bindVars, rearmVars
  <2>4. CASE Excuse
    BY <2>4 DEF Excuse, bindVars, rearmVars, TInv, TypeOK
  <2>5. CASE Verdict
    <3>1. CASE dead = {}
      BY <2>5, <3>1 DEF Verdict, bindVars, rearmVars
    <3>2. CASE dead # {}
      <4>1. Failed(dead) /\ Up
        BY <2>5, <3>2 DEF Verdict, Up
      <4>2. dead \in SUBSET Ports
        BY DEF TInv, TypeOK
      <4>3. fails = 1 /\ blamed = {"control"} => dead # {"control"}
        BY <2>5 DEF Verdict
      <4>4. QED
        BY <3>2, <4>1, <4>2, <4>3, FailedCInv
    <3>3. QED
      BY <3>1, <3>2
  <2>6. QED
    BY <1>3, <2>1, <2>2, <2>3, <2>4, <2>5 DEF HealthPoll
<1>4. CASE Restart
  BY <1>4 DEF Restart, rearmVars
<1>5. CASE EdgeChanges
  BY <1>5 DEF EdgeChanges, bindVars, rearmVars, pollVars
<1>6. CASE \E p \in Ports : Release(p)
  BY <1>6 DEF Release, bindVars, rearmVars, pollVars
<1>7. CASE UNCHANGED vars
  BY <1>7 DEF vars, bindVars, rearmVars, pollVars
<1>8. QED
  BY <1>1, <1>2, <1>3, <1>4, <1>5, <1>6, <1>7 DEF Next

\* Unless LG's edge may be silent (passthrough mode), the Supervisor never
\* restarts the app for its control port alone, for any number of bind attempts.
THEOREM NeverChurns ==
  ASSUME "silent" \notin Edges
  PROVE  Spec => []NoChurn
<1>1. TInv /\ CInv /\ [Next]_vars => CInv'
  BY NextCInv
<1>2. CInv => NoChurn
  BY DEF CInv
<1>3. QED
  BY <1>1, <1>2, InitCInv, AlwaysTInv, PTL DEF Spec
=============================================================================
