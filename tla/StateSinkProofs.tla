-------------------------- MODULE StateSinkProofs --------------------------
(***************************************************************************)
(* Theorems about StateSink for any number of threads of every kind and any *)
(* history of device ids: one MQTT client is built while commands are not   *)
(* allowed, a countdown always fits the state it is shown with, and every   *)
(* field that is shown is announced.                                        *)
(***************************************************************************)
EXTENDS StateSink, TLAPS

USE DEF Ids, Absent, Stages, States, Refused

-----------------------------------------------------------------------------
(* Types. *)

\* The empty view is a view.
LEMMA EmptyView == Empty \in Views
BY DEF Empty, Views, Values

\* What is built from a payload is a view.
LEMMA ViewOfType ==
  ASSUME NEW s \in States \cup {Absent}, NEW o \in {"some", Absent},
         NEW b \in BOOLEAN
  PROVE  ViewOf(s, o, b) \in Views
BY DEF ViewOf, Views, Values, Fields

\* So is one view laid over another.
LEMMA OverlayType ==
  ASSUME NEW old \in Views, NEW new \in Views
  PROVE  Overlay(old, new) \in Views
BY DEF Overlay, Views, Values, Fields

\* The fields a view has are fields.
LEMMA HasType == ASSUME NEW v PROVE Has(v) \in SUBSET Fields
BY DEF Has

\* What an ingest thread brings along is well formed.
LEMMA LearnType ==
  ASSUME NEW d \in Devices, Learn(d), known \in Seq(Devices),
         \A i, j \in DOMAIN known : known[i] = known[j] => i = j
  PROVE  /\ known' \in Seq(Devices)
         /\ \A i, j \in DOMAIN known' : known'[i] = known'[j] => i = j
<1>1. CASE \E i \in DOMAIN known : known[i] = d
  BY <1>1 DEF Learn
<1>2. CASE ~ \E i \in DOMAIN known : known[i] = d
  <2>1. known' = Append(known, d)
    BY <1>2 DEF Learn
  <2> QED
    BY <1>2, <2>1
<1> QED
  BY <1>1, <1>2

\* A notification leaves the clients in their types.
LEMMA NotifyType ==
  ASSUME TypeOK, NEW t \in Threads, NEW d \in Ids, NEW v \in Views,
         Notify(t, d, v)
  PROVE  /\ at' \in [Threads -> Stages]
         /\ dev' \in [Threads -> Ids \cup {Absent}]
         /\ view' \in [Threads -> Views]
         /\ UNCHANGED <<lazyVars, sinkVars, hassVars, adding>>
BY DEF TypeOK, Notify

\* Nothing is connected, stored or published.
LEMMA TypeInit == Init => TypeOK
<1> SUFFICES ASSUME Init PROVE TypeOK
  OBVIOUS
<1>1. /\ known \in Seq(Devices)
      /\ \A i, j \in DOMAIN known : known[i] = known[j] => i = j
  BY DEF Init
<1>2. /\ allow \in BOOLEAN /\ connected \in BOOLEAN /\ connLock \in BOOLEAN
      /\ clients \in Nat
  BY SettingsAssumption DEF Init
<1>3. /\ at \in [Threads -> Stages]
      /\ dev \in [Threads -> Ids \cup {Absent}]
      /\ view \in [Threads -> Views]
      /\ adding \in [Threads -> SUBSET Fields]
  BY EmptyView DEF Init
<1> QED
  BY <1>1, <1>2, <1>3, EmptyView DEF Init, TypeOK

\* Every action leaves every variable in its type.
LEMMA TypeStep == TypeOK /\ [Next]_vars => TypeOK'
<1> SUFFICES ASSUME TypeOK, [Next]_vars PROVE TypeOK'
  OBVIOUS
<1> USE DEF lazyVars, sinkVars, hassVars, ownVars, Step, Done
<1>1. ASSUME NEW t \in Threads, NEW d \in Devices, Report(t, d) PROVE TypeOK'
  <2>1. PICK s \in States \cup {Absent}, o \in {"some", Absent} :
          Notify(t, d, ViewOf(s, o, TRUE))
    BY <1>1 DEF Report
  <2>2. /\ known' \in Seq(Devices)
        /\ \A i, j \in DOMAIN known' : known'[i] = known'[j] => i = j
    BY <1>1, LearnType DEF Report, TypeOK
  <2> QED
    BY <1>1, <2>1, <2>2, ViewOfType, NotifyType DEF Report, TypeOK
<1>2. ASSUME NEW t \in Threads, NEW d \in Devices, PumpFrame(t, d) PROVE TypeOK'
  <2>1. PICK s \in States : Notify(t, d, ViewOf(s, Absent, TRUE))
    BY <1>2 DEF PumpFrame
  <2> QED
    BY <1>2, <2>1, ViewOfType, NotifyType DEF PumpFrame, TypeOK
<1>3. ASSUME NEW t \in Threads, CloudEvent(t) PROVE TypeOK'
  <2> DEFINE d == IF known = <<>> THEN CloudId ELSE Head(known)
  <2>1. d \in Ids
    <3>1. known \in Seq(Devices)
      BY DEF TypeOK
    <3>2. known # <<>> => Head(known) \in Devices
      BY <3>1
    <3> QED
      BY <3>2
  <2>2. PICK s \in States \cup {Absent} : Notify(t, d, ViewOf(s, "some", TRUE))
    BY <1>3 DEF CloudEvent
  <2>3. UNCHANGED known
    BY <1>3 DEF CloudEvent
  <2> HIDE DEF d
  <2> QED
    BY <2>1, <2>2, <2>3, ViewOfType, NotifyType DEF TypeOK
<1>4. ASSUME NEW t \in Threads, AgeTick(t) PROVE TypeOK'
  <2>1. PICK s \in States \cup {Absent} :
          Notify(t, KnownDevice, ViewOf(s, "some", FALSE))
    BY <1>4 DEF AgeTick
  <2> QED
    BY <1>4, <2>1, ViewOfType, NotifyType, DevicesAssumption
    DEF AgeTick, TypeOK
<1>5. ASSUME NEW t \in Threads, Ensure(t) \/ EnsureLocked(t) PROVE TypeOK'
  BY <1>5 DEF Ensure, EnsureLocked, TypeOK
<1> DEFINE Own == /\ at \in [Threads -> Stages]
                  /\ dev \in [Threads -> Ids \cup {Absent}]
                  /\ view \in [Threads -> Views]
                  /\ adding \in [Threads -> SUBSET Fields]
<1>a. ASSUME NEW t \in Threads, Done(t) PROVE Own'
  BY <1>a, EmptyView DEF TypeOK
<1>b. ASSUME NEW t \in Threads, NEW s \in Stages, Step(t, s),
             UNCHANGED <<dev, view, adding>>
      PROVE  Own'
  BY <1>b DEF TypeOK
<1> HIDE DEF Own, Step, Done
<1>6. ASSUME NEW t \in Threads, Connect(t) PROVE TypeOK'
  <2>1. Own'
    BY <1>6, <1>a, <1>b DEF Connect
  <2>2. /\ allow' \in BOOLEAN /\ connected' \in BOOLEAN
        /\ connLock' \in BOOLEAN /\ clients' \in Nat
    <3>1. clients' = clients + 1 \/ clients' = clients
      BY <1>6 DEF Connect
    <3>2. connected' = TRUE \/ connected' = connected
      BY <1>6 DEF Connect
    <3>3. connLock' = FALSE /\ allow' = allow
      BY <1>6 DEF Connect
    <3>4. allow \in BOOLEAN /\ connected \in BOOLEAN /\ clients \in Nat
      BY DEF TypeOK
    <3>5. clients' \in Nat
      BY <3>1, <3>4
    <3>6. connected' \in BOOLEAN
      BY <3>2, <3>4
    <3> QED
      BY <3>3, <3>4, <3>5, <3>6
  <2> QED
    BY <1>6, <2>1, <2>2 DEF Connect, TypeOK, Own
<1>7. ASSUME NEW t \in Threads, Route(t) PROVE TypeOK'
  <2>1. Own'
    BY <1>7, <1>a, <1>b DEF Route
  <2>2. dev[t] \in Ids \cup {Absent}
    BY DEF TypeOK
  <2>3. /\ UNCHANGED <<known, lazyVars, merged, announced, lastPub, hassVars>>
        /\ devByHa' \in Ids \cup {Absent}
    BY <1>7, <2>2 DEF Route, TypeOK
  <2> QED
    BY <2>1, <2>3 DEF Route, TypeOK, Own
<1>8. ASSUME NEW t \in Threads, ReadMerged(t) PROVE TypeOK'
  BY <1>8, OverlayType DEF ReadMerged, TypeOK, Step
<1>9. ASSUME NEW t \in Threads, StoreMerged(t) \/ Remember(t) PROVE TypeOK'
  <2>1. Own'
    BY <1>9, <1>b DEF StoreMerged, Remember
  <2>2. view[t] \in Views
    BY DEF TypeOK
  <2>3. CASE StoreMerged(t)
    BY <2>1, <2>2, <2>3 DEF StoreMerged, TypeOK, Own
  <2>4. CASE Remember(t)
    BY <2>1, <2>2, <2>4 DEF Remember, TypeOK, Own
  <2> QED
    BY <1>9, <2>3, <2>4
<1>10. ASSUME NEW t \in Threads, ReadFields(t) PROVE TypeOK'
  <2>1. announced \cup Has(view[t]) \in SUBSET Fields
    BY HasType DEF TypeOK
  <2> QED
    BY <1>10, <2>1 DEF ReadFields, TypeOK, Step
<1>11. ASSUME NEW t \in Threads, StoreFields(t) \/ PublishDiscovery(t)
       PROVE  TypeOK'
  BY <1>11 DEF StoreFields, PublishDiscovery, TypeOK, Step
<1>12. ASSUME NEW t \in Threads, Dedupe(t) \/ PublishState(t) PROVE TypeOK'
  <2>1. Own'
    BY <1>12, <1>a, <1>b DEF Dedupe, PublishState
  <2>2. retained' \in Views
    BY <1>12 DEF Dedupe, PublishState, TypeOK
  <2> QED
    BY <1>12, <2>1, <2>2 DEF Dedupe, PublishState, TypeOK, Own
<1>13. CASE UNCHANGED vars
  BY <1>13 DEF vars, TypeOK
<1> QED
  BY <1>1, <1>2, <1>3, <1>4, <1>5, <1>6, <1>7, <1>8, <1>9, <1>10, <1>11, <1>12,
     <1>13
  DEF Next, Event, SinkCall

-----------------------------------------------------------------------------
(* One client. *)

\* The thread that connects has the lock, is alone, and nothing is there yet.
Connecting ==
  /\ ~allow => clients = IF connected THEN 1 ELSE 0
  /\ \A t \in Threads : at[t] = "connect" =>
       /\ connLock /\ ~connected
       /\ \A u \in Threads : at[u] = "connect" => u = t

\* A step that leaves the client alone and brings nobody to the connect.
LEMMA ConnectingFrame ==
  ASSUME Connecting, UNCHANGED lazyVars,
         \A t \in Threads : at'[t] = "connect" => at[t] = "connect"
  PROVE  Connecting'
BY DEF Connecting, lazyVars

LEMMA ConnectingStep == TypeOK /\ Connecting /\ [Next]_vars => Connecting'
<1> SUFFICES ASSUME TypeOK, Connecting, [Next]_vars PROVE Connecting'
  OBVIOUS
<1> DEFINE Moves(t) == \E s \in Stages \ {"connect"} : at' = [at EXCEPT ![t] = s]
<1>0. at \in [Threads -> Stages]
  BY DEF TypeOK
<1>1. ASSUME NEW t \in Threads, Moves(t), UNCHANGED lazyVars PROVE Connecting'
  <2>1. \A u \in Threads : at'[u] = "connect" => at[u] = "connect"
    BY <1>0, <1>1
  <2> QED
    BY <1>1, <2>1, ConnectingFrame
<1>2. ASSUME NEW t \in Threads, Event(t) PROVE Connecting'
  <2>1. Moves(t) /\ UNCHANGED lazyVars
    BY <1>2 DEF Event, Report, PumpFrame, CloudEvent, AgeTick, Notify
  <2> QED
    BY <1>1, <2>1
<1>3. ASSUME NEW t \in Threads, Ensure(t) PROVE Connecting'
  <2>1. Moves(t) /\ UNCHANGED lazyVars
    BY <1>3 DEF Ensure, Step
  <2> QED
    BY <1>1, <2>1
<1>4. ASSUME NEW t \in Threads, EnsureLocked(t) PROVE Connecting'
  <2>1. CASE connected
    <3>1. Moves(t) /\ UNCHANGED lazyVars
      BY <1>4, <2>1 DEF EnsureLocked, Step, lazyVars
    <3> QED
      BY <1>1, <3>1
  <2>2. CASE ~connected
    <3>1. /\ at' = [at EXCEPT ![t] = "connect"] /\ ~connLock
          /\ connLock' = TRUE /\ connected' = connected /\ clients' = clients
          /\ allow' = allow
      BY <1>4, <2>2 DEF EnsureLocked, Step
    <3>2. \A u \in Threads : at[u] # "connect"
      BY <3>1 DEF Connecting
    <3> QED
      BY <1>0, <2>2, <3>1, <3>2 DEF Connecting
  <2> QED
    BY <2>1, <2>2
<1>5. ASSUME NEW t \in Threads, Connect(t) PROVE Connecting'
  <2>1. /\ at[t] = "connect" /\ ~connected
        /\ \A u \in Threads : at[u] = "connect" => u = t
    BY <1>5 DEF Connect, Connecting
  <2>2. at' = [at EXCEPT ![t] = "route"] \/ at' = [at EXCEPT ![t] = "idle"]
    BY <1>5 DEF Connect, Step, Done
  <2>3. \A u \in Threads : at'[u] # "connect"
    BY <1>0, <2>1, <2>2
  <2>4. ~allow => clients = 0
    BY <2>1 DEF Connecting
  <2>5. /\ \/ connected' = TRUE /\ clients' = clients + 1
           \/ connected' = connected /\ clients' = clients
           \/ allow
        /\ allow' = allow
    BY <1>5 DEF Connect
  <2>6. ~allow' => clients' = IF connected' THEN 1 ELSE 0
    BY <2>1, <2>4, <2>5
  <2> QED
    BY <2>3, <2>6 DEF Connecting
<1>6. ASSUME NEW t \in Threads,
             Route(t) \/ ReadMerged(t) \/ StoreMerged(t) \/ ReadFields(t)
             \/ StoreFields(t) \/ PublishDiscovery(t) \/ Dedupe(t)
             \/ Remember(t) \/ PublishState(t)
      PROVE  Connecting'
  <2>1. Moves(t) /\ UNCHANGED lazyVars
    BY <1>6 DEF Route, ReadMerged, StoreMerged, ReadFields, StoreFields,
                PublishDiscovery, Dedupe, Remember, PublishState, Step, Done
  <2> QED
    BY <1>1, <2>1
<1>7. CASE UNCHANGED vars
  BY <1>7, ConnectingFrame DEF vars, ownVars
<1> QED
  BY <1>2, <1>3, <1>4, <1>5, <1>6, <1>7 DEF Next, SinkCall

\* However many threads call the sink first, at most one client is ever built
\* while commands are not allowed.
THEOREM OnlyOneClient == Spec => []OneClient
<1>1. Init => TypeOK /\ Connecting
  BY TypeInit DEF Init, Connecting
<1>2. Connecting => OneClient
  BY DEF Connecting, OneClient
<1> QED
  BY <1>1, <1>2, TypeStep, ConnectingStep, PTL DEF Spec

\* The sink's and the store's variables always have their types.
THEOREM TypeCorrect == Spec => []TypeOK
BY TypeInit, TypeStep, PTL DEF Spec

-----------------------------------------------------------------------------
(* The countdown. *)

\* What a merged view satisfies, and what a payload's own view does before it
\* is merged.
Fits(v) == /\ v["State"] = "RUN" => v["reserve_countdown"] = ""
           /\ v["reserve_countdown"] = "some" => v["State"] = "RESERVE"
           /\ v["State"] \in {Absent, "RUN", "RESERVE"}

Fresh(v) == /\ v["reserve_countdown"] # Absent => v["State"] = "RESERVE"
            /\ v["State"] \in {Absent, "RUN", "RESERVE"}

Merging == {"store", "announce", "fields", "discover", "dedupe", "remember",
            "publish"}

Countdowns ==
  /\ Fits(merged) /\ Fits(lastPub) /\ Fits(retained)
  /\ \A t \in Threads : IF at[t] \in Merging THEN Fits(view[t]) ELSE Fresh(view[t])

\* Laying a view over another keeps countdowns with their RESERVE.
LEMMA OverlayFits ==
  ASSUME NEW old, NEW new, Fits(old), Fresh(new)
  PROVE  Fits(Overlay(old, new))
BY DEF Fits, Fresh, Overlay, Fields

\* A view of a payload carries a countdown only with RESERVE.
LEMMA FreshViews ==
  /\ Fresh(Empty) /\ Fits(Empty)
  /\ \A s \in States \cup {Absent}, o \in {"some", Absent}, b \in BOOLEAN :
       Fresh(ViewOf(s, o, b))
BY DEF Fresh, Fits, Empty, ViewOf, Fields

\* Every step keeps the countdowns so.
LEMMA CountdownStep == TypeOK /\ Countdowns /\ [Next]_vars => Countdowns'
<1> SUFFICES ASSUME TypeOK, Countdowns, [Next]_vars PROVE Countdowns'
  OBVIOUS
<1> DEFINE Shown == Fits(merged) /\ Fits(lastPub) /\ Fits(retained)
           Carried(t) == IF at[t] \in Merging THEN Fits(view[t])
                                              ELSE Fresh(view[t])
<1>0. at \in [Threads -> Stages] /\ view \in [Threads -> Views]
  BY DEF TypeOK
<1>s. Shown /\ \A t \in Threads : Carried(t)
  BY DEF Countdowns
<1>1. ASSUME NEW t \in Threads, NEW s \in Stages,
             at' = [at EXCEPT ![t] = s], UNCHANGED view,
             at[t] \in Merging <=> s \in Merging
      PROVE  \A u \in Threads : Carried(u)'
  BY <1>0, <1>1, <1>s
<1>2. ASSUME NEW t \in Threads, NEW v, Fresh(v), NEW s \in Stages \ Merging,
             at' = [at EXCEPT ![t] = s], view' = [view EXCEPT ![t] = v]
      PROVE  \A u \in Threads : Carried(u)'
  BY <1>0, <1>2, <1>s
<1>3. ASSUME NEW t \in Threads, Event(t) PROVE Countdowns'
  <2> DEFINE Given(v) == /\ at' = [at EXCEPT ![t] = "ensure"]
                         /\ view' = [view EXCEPT ![t] = v]
                         /\ UNCHANGED <<merged, lastPub, retained>>
  <2>1. PICK s \in States \cup {Absent}, o \in {"some", Absent}, b \in BOOLEAN :
          Given(ViewOf(s, o, b))
    <3>1. ASSUME NEW d, NEW v, Notify(t, d, v) PROVE Given(v)
      BY <3>1 DEF Notify, sinkVars, hassVars
    <3> HIDE DEF Given
    <3>2. ASSUME NEW d \in Devices, Report(t, d)
          PROVE  \E s \in States \cup {Absent}, o \in {"some", Absent} :
                   Given(ViewOf(s, o, TRUE))
      BY <3>1, <3>2 DEF Report
    <3>3. ASSUME NEW d \in Devices, PumpFrame(t, d)
          PROVE  \E s \in States : Given(ViewOf(s, Absent, TRUE))
      BY <3>1, <3>3 DEF PumpFrame
    <3>4. ASSUME CloudEvent(t)
          PROVE  \E s \in States \cup {Absent} : Given(ViewOf(s, "some", TRUE))
      BY <3>1, <3>4 DEF CloudEvent
    <3>5. ASSUME AgeTick(t)
          PROVE  \E s \in States \cup {Absent} : Given(ViewOf(s, "some", FALSE))
      BY <3>1, <3>5 DEF AgeTick
    <3> QED
      BY <1>3, <3>2, <3>3, <3>4, <3>5 DEF Event
  <2>2. UNCHANGED <<merged, lastPub, retained>>
    BY <2>1
  <2>3. Fresh(ViewOf(s, o, b))
    BY FreshViews
  <2>4. \A u \in Threads : Carried(u)'
    BY <1>2, <2>1, <2>3 DEF Merging
  <2> QED
    BY <1>s, <2>2, <2>4 DEF Countdowns
<1>4. ASSUME NEW t \in Threads, Done(t), at[t] \in Stages,
             Shown'
      PROVE  Countdowns'
  <2>1. \A u \in Threads : Carried(u)'
    BY <1>2, <1>4, FreshViews DEF Done, Merging
  <2> QED
    BY <1>4, <2>1 DEF Countdowns
<1>5. ASSUME NEW t \in Threads, NEW s \in Stages, Step(t, s), UNCHANGED view,
             at[t] \in Merging <=> s \in Merging, Shown'
      PROVE  Countdowns'
  BY <1>1, <1>5 DEF Step, Countdowns
<1> HIDE DEF Shown, Carried
<1>6. Fits(merged) /\ Fits(lastPub) /\ Fits(retained)
  BY DEF Countdowns
<1>7. UNCHANGED <<merged, lastPub, retained>> => Shown'
  BY <1>6 DEF Shown
<1>8. ASSUME NEW t \in Threads,
             Ensure(t) \/ EnsureLocked(t) \/ Connect(t) \/ Route(t)
      PROVE  Countdowns'
  <2>1. Shown' /\ at[t] \in Stages \ Merging
    BY <1>7, <1>8 DEF Ensure, EnsureLocked, Connect, Route, sinkVars, hassVars,
                      Merging
  <2>2. Done(t) \/ \E s \in Stages \ Merging : Step(t, s) /\ UNCHANGED view
    BY <1>8 DEF Ensure, EnsureLocked, Connect, Route, Merging
  <2> QED
    BY <1>4, <1>5, <2>1, <2>2
<1>9. ASSUME NEW t \in Threads, ReadMerged(t) PROVE Countdowns'
  <2>1. Shown'
    BY <1>7, <1>9 DEF ReadMerged, sinkVars, hassVars
  <2>2. Fits(Overlay(merged, view[t]))
    BY <1>9, <1>6, OverlayFits DEF ReadMerged, Countdowns, Merging
  <2>3. \A u \in Threads : Carried(u)'
    BY <1>0, <1>9, <1>s, <2>2 DEF ReadMerged, Step, Carried, Merging
  <2> QED
    BY <2>1, <2>3 DEF Countdowns, Shown, Carried
<1>10. ASSUME NEW t \in Threads,
              StoreMerged(t) \/ ReadFields(t) \/ StoreFields(t)
              \/ PublishDiscovery(t) \/ Remember(t)
       PROVE  Countdowns'
  <2>1. at[t] \in Merging /\ Fits(view[t])
    BY <1>10, <1>s DEF StoreMerged, ReadFields, StoreFields, PublishDiscovery,
                       Remember, Merging, Carried
  <2>2. /\ merged' \in {merged, view[t]} /\ lastPub' \in {lastPub, view[t]}
        /\ retained' = retained
    BY <1>10 DEF StoreMerged, ReadFields, StoreFields, PublishDiscovery,
                 Remember, sinkVars, hassVars
  <2>3. Shown'
    BY <1>6, <2>1, <2>2 DEF Shown
  <2>4. \E s \in Merging : Step(t, s) /\ UNCHANGED view
    BY <1>10 DEF StoreMerged, ReadFields, StoreFields, PublishDiscovery,
                 Remember, Merging
  <2> QED
    BY <1>5, <2>1, <2>3, <2>4 DEF Merging
<1>11. ASSUME NEW t \in Threads, Dedupe(t) \/ PublishState(t) PROVE Countdowns'
  <2>1. at[t] \in Merging /\ Fits(view[t])
    BY <1>11, <1>s DEF Dedupe, PublishState, Merging, Carried
  <2>2. /\ merged' = merged /\ lastPub' = lastPub
        /\ retained' \in {retained, view[t]}
    BY <1>11 DEF Dedupe, PublishState, sinkVars, hassVars
  <2>3. Shown'
    BY <1>6, <2>1, <2>2 DEF Shown
  <2>4. Done(t) \/ (Step(t, "remember") /\ UNCHANGED view)
    BY <1>11 DEF Dedupe, PublishState
  <2> QED
    BY <1>4, <1>5, <2>1, <2>3, <2>4 DEF Merging
<1>12. CASE UNCHANGED vars
  BY <1>12 DEF vars, sinkVars, hassVars, ownVars, Countdowns
<1> QED
  BY <1>3, <1>8, <1>9, <1>10, <1>11, <1>12 DEF Next, SinkCall

\* A countdown is only shown with RESERVE, and one that was announced is retired
\* by a state that runs, whatever the interleaving.  RESERVE itself may be shown
\* without a countdown: an observability tick brings none.
THEOREM CountdownAlwaysFits == Spec => []CountdownFits
<1>1. Init => TypeOK /\ Countdowns
  BY TypeInit, FreshViews DEF Init, Countdowns, Merging
<1>2. Countdowns => CountdownFits
  BY DEF Countdowns, CountdownFits, Fits
<1> QED
  BY <1>1, <1>2, TypeStep, CountdownStep, PTL DEF Spec

-----------------------------------------------------------------------------
(* Discovery. *)

\* The fields the broker has, or is just being told of.  Nothing is ever taken
\* out of them.
Told == discovered \cup UNION {adding[t] : t \in {u \in Threads : at[u] = "discover"}}

\* What a thread has to announce is in what it announces, and a thread that is
\* past its announcement has nothing left to announce.
Announcing(t) ==
  /\ at[t] \in {"fields", "discover"} => Has(view[t]) \subseteq adding[t]
  /\ at[t] \in {"dedupe", "remember", "publish"} => Has(view[t]) \subseteq Told

Announcements == /\ announced \subseteq Told
                 /\ Has(retained) \subseteq Told
                 /\ \A t \in Threads : Announcing(t)

\* A thread that is not announcing, and does not begin to, leaves Told alone.
LEMMA ToldKept ==
  ASSUME TypeOK, NEW t \in Threads, at[t] # "discover", NEW s \in Stages,
         at' = [at EXCEPT ![t] = s], s # "discover", UNCHANGED discovered,
         \A u \in Threads \ {t} : adding'[u] = adding[u]
  PROVE  Told' = Told
<1>1. {u \in Threads : at'[u] = "discover"} = {u \in Threads : at[u] = "discover"}
  BY DEF TypeOK
<1>2. \A u \in Threads : at[u] = "discover" => adding'[u] = adding[u]
  OBVIOUS
<1> QED
  BY <1>1, <1>2 DEF Told

\* Every step keeps the announcements so.
LEMMA AnnouncementStep == TypeOK /\ Announcements /\ [Next]_vars => Announcements'
<1> SUFFICES ASSUME TypeOK, Announcements, [Next]_vars PROVE Announcements'
  OBVIOUS
<1>0. /\ at \in [Threads -> Stages] /\ view \in [Threads -> Views]
      /\ adding \in [Threads -> SUBSET Fields]
  BY DEF TypeOK
<1>1. ASSUME NEW t \in Threads, Told \subseteq Told',
             announced' \subseteq Told', Has(retained)' \subseteq Told',
             Announcing(t)',
             \A u \in Threads \ {t} : /\ at'[u] = at[u] /\ view'[u] = view[u]
                                      /\ adding'[u] = adding[u]
      PROVE  Announcements'
  <2>1. \A u \in Threads \ {t} : Announcing(u)'
    BY <1>1 DEF Announcements, Announcing, Has
  <2> QED
    BY <1>1, <2>1 DEF Announcements
<1>2. ASSUME NEW t \in Threads, NEW s \in Stages, NEW v, NEW g,
             at' = [at EXCEPT ![t] = s], at[t] # "discover", s # "discover",
             view' = [view EXCEPT ![t] = v], adding' = [adding EXCEPT ![t] = g],
             announced' \subseteq Told, Has(retained)' \subseteq Told,
             UNCHANGED discovered,
             s = "fields" => Has(v) \subseteq g,
             s \in {"dedupe", "remember", "publish"} => Has(v) \subseteq Told
      PROVE  Announcements'
  <2>1. Told' = Told
    BY <1>0, <1>2, ToldKept
  <2>2. at'[t] = s /\ view'[t] = v /\ adding'[t] = g
    BY <1>0, <1>2
  <2>3. Announcing(t)'
    BY <1>2, <2>1, <2>2 DEF Announcing, Has
  <2> QED
    BY <1>0, <1>1, <1>2, <2>1, <2>3
<1>3. ASSUME NEW t \in Threads, NEW s \in Stages, Step(t, s),
             at[t] # "discover", s \notin {"fields", "discover"},
             UNCHANGED <<view, adding, announced, retained, discovered>>,
             s \in {"dedupe", "remember", "publish"} => Has(view[t]) \subseteq Told
      PROVE  Announcements'
  <2>1. view' = [view EXCEPT ![t] = view[t]] /\ adding' = [adding EXCEPT ![t] = adding[t]]
    BY <1>0, <1>3
  <2> QED
    BY <1>2, <1>3, <2>1 DEF Step, Announcements, Has
<1>4. ASSUME NEW t \in Threads, Done(t), at[t] # "discover",
             UNCHANGED <<announced, discovered>>, Has(retained)' \subseteq Told
      PROVE  Announcements'
  BY <1>2, <1>4 DEF Done, Announcements
<1>5. ASSUME NEW t \in Threads, Event(t) PROVE Announcements'
  <2>1. PICK d, v : at[t] = "idle" /\ Notify(t, d, v)
    BY <1>5 DEF Event, Report, PumpFrame, CloudEvent, AgeTick
  <2>2. adding' = [adding EXCEPT ![t] = adding[t]]
    BY <1>0, <2>1 DEF Notify
  <2> QED
    BY <1>2, <2>1, <2>2 DEF Notify, sinkVars, hassVars, Announcements, Has
<1>6. ASSUME NEW t \in Threads,
             Ensure(t) \/ EnsureLocked(t) \/ Connect(t) \/ Route(t)
      PROVE  Announcements'
  <2>1. /\ at[t] \in {"ensure", "wait", "connect", "route"}
        /\ UNCHANGED <<announced, retained, discovered>>
    BY <1>6 DEF Ensure, EnsureLocked, Connect, Route, sinkVars, hassVars
  <2>2. \/ Done(t)
        \/ \E s \in {"wait", "connect", "route", "read"} :
             Step(t, s) /\ UNCHANGED <<view, adding>>
    BY <1>6 DEF Ensure, EnsureLocked, Connect, Route
  <2> HIDE DEF Done, Step
  <2>3. Has(retained)' \subseteq Told
    BY <2>1 DEF Announcements, Has
  <2>4. CASE Done(t)
    BY <1>4, <2>1, <2>3, <2>4
  <2>5. CASE \E s \in {"wait", "connect", "route", "read"} :
               Step(t, s) /\ UNCHANGED <<view, adding>>
    BY <1>3, <2>1, <2>5
  <2> QED
    BY <2>2, <2>4, <2>5
<1>7. ASSUME NEW t \in Threads, ReadMerged(t) PROVE Announcements'
  <2>1. adding' = [adding EXCEPT ![t] = adding[t]]
    BY <1>0, <1>7 DEF ReadMerged
  <2>2. /\ at[t] = "read" /\ at' = [at EXCEPT ![t] = "store"]
        /\ view' = [view EXCEPT ![t] = Overlay(merged, view[t])]
        /\ UNCHANGED <<announced, retained, discovered>>
    BY <1>7 DEF ReadMerged, Step, sinkVars, hassVars
  <2>3. announced' \subseteq Told /\ Has(retained)' \subseteq Told
    BY <2>2 DEF Announcements, Has
  <2> HIDE DEF Has
  <2> QED
    BY <1>2, <2>1, <2>2, <2>3
<1>8. ASSUME NEW t \in Threads, StoreMerged(t) PROVE Announcements'
  BY <1>3, <1>8 DEF StoreMerged, hassVars
<1>9. ASSUME NEW t \in Threads, ReadFields(t) PROVE Announcements'
  <2>1. CASE Has(view[t]) \subseteq announced
    <3>1. Step(t, "dedupe") /\ UNCHANGED adding
      BY <1>9, <2>1 DEF ReadFields
    <3> QED
      BY <1>3, <1>9, <2>1, <3>1 DEF ReadFields, sinkVars, hassVars, Announcements
  <2>2. CASE ~ (Has(view[t]) \subseteq announced)
    <3>1. /\ adding' = [adding EXCEPT ![t] = announced \cup Has(view[t])]
          /\ at' = [at EXCEPT ![t] = "fields"]
          /\ view' = [view EXCEPT ![t] = view[t]]
      BY <1>0, <1>9, <2>2 DEF ReadFields, Step
    <3> QED
      BY <1>2, <1>9, <3>1 DEF ReadFields, sinkVars, hassVars, Announcements, Has
  <2> QED
    BY <2>1, <2>2
<1>10. ASSUME NEW t \in Threads, StoreFields(t) PROVE Announcements'
  <2>1. /\ at[t] = "fields" /\ at' = [at EXCEPT ![t] = "discover"]
        /\ announced' = adding[t]
        /\ UNCHANGED <<view, adding, discovered, retained>>
    BY <1>10 DEF StoreFields, Step, hassVars
  <2>2. {u \in Threads : at'[u] = "discover"}
          = {u \in Threads : at[u] = "discover"} \cup {t}
    BY <1>0, <2>1
  <2>3. Told' = Told \cup adding[t]
    BY <2>1, <2>2 DEF Told
  <2>4. Announcing(t)'
    BY <1>0, <2>1 DEF Announcements, Announcing, Has
  <2>5. announced' \subseteq Told' /\ Has(retained)' \subseteq Told'
    BY <2>1, <2>3 DEF Announcements, Has
  <2> QED
    BY <1>0, <1>1, <2>1, <2>3, <2>4, <2>5
<1>11. ASSUME NEW t \in Threads, PublishDiscovery(t) PROVE Announcements'
  <2>1. /\ at[t] = "discover" /\ at' = [at EXCEPT ![t] = "dedupe"]
        /\ adding' = [adding EXCEPT ![t] = {}]
        /\ discovered' = discovered \cup adding[t]
        /\ UNCHANGED <<view, announced, retained>>
    BY <1>11 DEF PublishDiscovery, Step, sinkVars
  <2>2. Told' = Told
    <3>1. {u \in Threads : at'[u] = "discover"}
            = {u \in Threads : at[u] = "discover"} \ {t}
      BY <1>0, <2>1
    <3>2. \A u \in Threads \ {t} : adding'[u] = adding[u]
      BY <1>0, <2>1
    <3> QED
      BY <2>1, <3>1, <3>2 DEF Told
  <2>3. Has(view[t]) \subseteq Told
    BY <2>1 DEF Announcements, Announcing, Told
  <2>4. Announcing(t)'
    BY <1>0, <2>1, <2>2, <2>3 DEF Announcing, Has
  <2>5. announced' \subseteq Told' /\ Has(retained)' \subseteq Told'
    BY <2>1, <2>2 DEF Announcements, Has
  <2> QED
    BY <1>0, <1>1, <2>1, <2>2, <2>4, <2>5
<1>12. ASSUME NEW t \in Threads, Dedupe(t) \/ Remember(t) \/ PublishState(t)
       PROVE  Announcements'
  <2>1. /\ at[t] \in {"dedupe", "remember", "publish"}
        /\ UNCHANGED <<announced, discovered>>
        /\ retained' \in {retained, view[t]}
    BY <1>12 DEF Dedupe, Remember, PublishState, sinkVars, hassVars
  <2>2. Has(view[t]) \subseteq Told
    BY <2>1 DEF Announcements, Announcing
  <2>3. Has(retained)' \subseteq Told
    BY <2>1, <2>2 DEF Announcements, Has
  <2>4. CASE Done(t)
    BY <1>4, <2>1, <2>3, <2>4
  <2>5. CASE ~Done(t)
    <3>1. /\ UNCHANGED <<view, adding, retained>>
          /\ Step(t, "remember") \/ Step(t, "publish")
      BY <1>12, <2>5 DEF Dedupe, Remember, PublishState, hassVars
    <3> QED
      BY <1>3, <2>1, <2>2, <3>1
  <2> QED
    BY <2>4, <2>5
<1>13. CASE UNCHANGED vars
  BY <1>13 DEF vars, sinkVars, hassVars, ownVars, Announcements, Announcing,
               Told, Has
<1> QED
  BY <1>5, <1>6, <1>7, <1>8, <1>9, <1>10, <1>11, <1>12, <1>13
  DEF Next, SinkCall

\* Every field of the retained state has been announced to Home Assistant or is
\* about to be by a thread that is at its publication, although the announced set
\* itself may lose a field to a race.
THEOREM FieldsAlwaysDiscovered == Spec => []FieldsDiscovered
<1>1. Init => TypeOK /\ Announcements
  BY TypeInit DEF Init, Announcements, Announcing, Has, Empty
<1>2. Announcements => FieldsDiscovered
  BY DEF Announcements, FieldsDiscovered, Told
<1> QED
  BY <1>1, <1>2, TypeStep, AnnouncementStep, PTL DEF Spec
=============================================================================
