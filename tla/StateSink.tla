----------------------------- MODULE StateSink -----------------------------
(***************************************************************************)
(* From an ingested payload to what Home Assistant shows: the state store   *)
(* of server/state.py, the cloud events of server/app.py, the observability *)
(* ticks of server/observability.py, and the MQTT sink of                   *)
(* server/mqtt_bridge.py that all of them call from their own threads.      *)
(*                                                                         *)
(* The sink keeps everything per ha_id, the key of an appliance model, so   *)
(* this models one ha_id.  An appliance has had several device ids, one for *)
(* each registration at LG.  A state view is a function from field to       *)
(* value.  The sink has a lock for building its MQTT client and none for    *)
(* its dictionaries, so every read and every write of one is a step.        *)
(***************************************************************************)
EXTENDS Naturals, Sequences

CONSTANTS
  Devices,      \* the device ids the appliance has had, old and new
  KnownDevice,  \* its entry in KNOWN_DEVICES
  CloudId,      \* the hash the cloud API knows it by
  Http,         \* threads serving the :46030 reports
  Pump,         \* handler threads of the :47878 channel
  Cloud,        \* the thread of the cloud event subscription
  Observer,     \* the observability thread; the four may share threads, which
                \* then act now as one kind and now as another
  Allowed,      \* the settings of allow_control to look at
  MaxClients    \* bound: clients built in vain

ASSUME DevicesAssumption == KnownDevice \in Devices /\ CloudId \notin Devices
ASSUME SettingsAssumption == Allowed \subseteq BOOLEAN /\ MaxClients \in Nat

Threads == Http \cup Pump \cup Cloud \cup Observer
Ids     == Devices \cup {CloudId}

\* "other" stands for the fields that not every payload brings: the energy
\* summary, the alias in the cloud, last_frame_age.
Fields == {"State", "reserve_countdown", "other"}
Absent == "-"
Values == {Absent, "", "RUN", "RESERVE", "some"}
Views  == [Fields -> Values]
Empty  == [f \in Fields |-> Absent]
Has(v) == {f \in Fields : v[f] # Absent}

Stages == {"idle", "ensure", "wait", "connect", "route", "read", "store",
           "announce", "fields", "discover", "dedupe", "remember", "publish"}

VARIABLES
  known,      \* DeviceStateStore.model_by_devid, in insertion order
  allow,      \* the setting of allow_control, which does not change
  connected,  \* _LazySink._sink is there
  connLock,   \* _LazySink._lock is taken
  clients,    \* how many MQTT clients were built
  devByHa,    \* _Sink._dev_by_ha
  merged,     \* _Sink._merged
  announced,  \* _Sink._fields
  lastPub,    \* _Sink._last
  discovered, \* the fields the broker was told of; paho repeats these messages,
              \* which have QoS 1, over a connection that drops
  retained,   \* the state the broker retains
  at,         \* per thread: where it is inside the sink
  dev,        \* dev_id of its payload
  view,       \* its payload, and from StoreMerged on the merged view
  adding      \* the field set it is about to announce

lazyVars  == <<allow, connected, connLock, clients>>
sinkVars  == <<devByHa, merged, announced, lastPub>>
hassVars  == <<discovered, retained>>
ownVars   == <<at, dev, view, adding>>
vars      == <<known, lazyVars, sinkVars, hassVars, ownVars>>

TypeOK ==
  /\ known \in Seq(Devices)
  /\ \A i, j \in DOMAIN known : known[i] = known[j] => i = j
  /\ allow \in BOOLEAN
  /\ connected \in BOOLEAN /\ connLock \in BOOLEAN /\ clients \in Nat
  /\ devByHa \in Ids \cup {Absent}
  /\ merged \in Views /\ lastPub \in Views /\ retained \in Views
  /\ announced \subseteq Fields /\ discovered \subseteq Fields
  /\ at \in [Threads -> Stages]
  /\ dev \in [Threads -> Ids \cup {Absent}]
  /\ view \in [Threads -> Views]
  /\ adding \in [Threads -> SUBSET Fields]

Init ==
  /\ known = <<>>
  /\ allow \in Allowed
  /\ connected = FALSE /\ connLock = FALSE /\ clients = 0
  /\ devByHa = Absent
  /\ merged = Empty /\ lastPub = Empty /\ retained = Empty
  /\ announced = {} /\ discovered = {}
  /\ at = [t \in Threads |-> "idle"]
  /\ dev = [t \in Threads |-> Absent]
  /\ view = [t \in Threads |-> Empty]
  /\ adding = [t \in Threads |-> {}]

-----------------------------------------------------------------------------
(* Where payloads come from. *)

\* The view of a payload: a State in a decoded dictionary brings the countdown
\* along when it is RESERVE.  An observability tick has a bare State, which
\* nobody looks at for a countdown.
ViewOf(state, other, decoded) ==
  [f \in Fields |->
     CASE f = "State"             -> state
       [] f = "reserve_countdown" ->
            IF state = "RESERVE" /\ decoded THEN "some" ELSE Absent
       [] f = "other"             -> other]

States == {"RUN", "RESERVE"}

Notify(t, d, v) ==
  /\ at' = [at EXCEPT ![t] = "ensure"]
  /\ dev' = [dev EXCEPT ![t] = d]
  /\ view' = [view EXCEPT ![t] = v]
  /\ UNCHANGED <<lazyVars, sinkVars, hassVars, adding>>

\* model_by_devid is a dict: a device keeps the place it had first.
Learn(d) == known' = IF \E i \in DOMAIN known : known[i] = d
                       THEN known ELSE Append(known, d)

\* ingest_report: learns the device, keeps the payload (AgeMemory has what is
\* read of it), calls the sink.
Report(t, d) ==
  /\ t \in Http /\ at[t] = "idle"
  /\ Learn(d)
  /\ \E s \in States \cup {Absent}, o \in {"some", Absent} :
       Notify(t, d, ViewOf(s, o, TRUE))

\* ingest_mondata: a device no report has named yet is ignored.
PumpFrame(t, d) ==
  /\ t \in Pump /\ at[t] = "idle"
  /\ \E i \in DOMAIN known : known[i] = d
  /\ \E s \in States : Notify(t, d, ViewOf(s, Absent, TRUE))
  /\ UNCHANGED known

\* _on_cloud_event: the first local id of the model, else the cloud's own id.
\* Only what the report carries is translated, next to the appliance's alias.
CloudEvent(t) ==
  /\ t \in Cloud /\ at[t] = "idle"
  /\ LET d == IF known = <<>> THEN CloudId ELSE Head(known) IN
       \E s \in States \cup {Absent} : Notify(t, d, ViewOf(s, "some", TRUE))
  /\ UNCHANGED known

\* publish_ages: the first id of the model, which KNOWN_DEVICES supplies.  A
\* state event seen on :46030 comes along.
AgeTick(t) ==
  /\ t \in Observer /\ at[t] = "idle"
  /\ \E s \in States \cup {Absent} :
       Notify(t, KnownDevice, ViewOf(s, "some", FALSE))
  /\ UNCHANGED known

-----------------------------------------------------------------------------
(* _LazySink: build the MQTT client once. *)

Step(t, s) == at' = [at EXCEPT ![t] = s]

\* The payload is done with.
Done(t) == /\ at' = [at EXCEPT ![t] = "idle"]
           /\ dev' = [dev EXCEPT ![t] = Absent]
           /\ view' = [view EXCEPT ![t] = Empty]
           /\ adding' = [adding EXCEPT ![t] = {}]

Ensure(t) ==
  /\ at[t] = "ensure"
  /\ Step(t, IF connected THEN "route" ELSE "wait")
  /\ UNCHANGED <<known, lazyVars, sinkVars, hassVars, dev, view, adding>>

\* Faulty variant: the check is not repeated under the lock.
EnsureUnchecked(t) ==
  /\ at[t] = "wait" /\ ~connLock
  /\ connLock' = TRUE /\ Step(t, "connect")
  /\ UNCHANGED <<known, allow, connected, clients, sinkVars, hassVars, dev,
                 view, adding>>

\* Under the lock the check is repeated: another thread may have connected.
EnsureLocked(t) ==
  /\ at[t] = "wait" /\ ~connLock
  /\ IF connected THEN Step(t, "route") /\ UNCHANGED connLock
                  ELSE Step(t, "connect") /\ connLock' = TRUE
  /\ UNCHANGED <<known, allow, connected, clients, sinkVars, hassVars, dev,
                 view, adding>>

\* _Sink.__init__ subscribes the command topics when commands are allowed.  Its
\* filter "homeassistant/+/lgthinq_+/+/cmd" has a wildcard that is not alone in
\* its level, which paho refuses with an exception.
Refused == allow

\* Faulty variant: a connect that succeeded leaves the lock taken.
ConnectKeepsLock(t) ==
  /\ at[t] = "connect"
  /\ \/ /\ ~Refused /\ connected' = TRUE /\ clients' = clients + 1
        /\ Step(t, "route")
        /\ UNCHANGED <<connLock, dev, view, adding>>
     \/ /\ Refused /\ clients < MaxClients
        /\ clients' = clients + 1 /\ connLock' = FALSE
        /\ Done(t)
        /\ UNCHANGED connected
     \/ /\ Done(t) /\ connLock' = FALSE
        /\ UNCHANGED <<connected, clients>>
  /\ UNCHANGED <<known, allow, sinkVars, hassVars>>

\* The broker answers and the sink is built on the client, or it is down and the
\* payload is dropped.  When building the sink raises, no sink is stored, the
\* client and its thread stay, the lock is released, and the caller of the sink
\* ignores the exception.
Connect(t) ==
  /\ at[t] = "connect"
  /\ connLock' = FALSE
  /\ \/ /\ ~Refused /\ connected' = TRUE /\ clients' = clients + 1
        /\ Step(t, "route")
        /\ UNCHANGED <<dev, view, adding>>
     \/ /\ Refused /\ clients < MaxClients
        /\ clients' = clients + 1
        /\ Done(t)
        /\ UNCHANGED connected
     \/ /\ Done(t)
        /\ UNCHANGED <<connected, clients>>
  /\ UNCHANGED <<known, allow, sinkVars, hassVars>>

-----------------------------------------------------------------------------
(* _Sink.__call__ *)

\* Commands of this ha_id go to the payload's device from now on.  A payload
\* whose view is empty publishes nothing.
Route(t) ==
  /\ at[t] = "route"
  /\ devByHa' = dev[t]
  /\ IF view[t] = Empty THEN Done(t)
                        ELSE Step(t, "read") /\ UNCHANGED <<dev, view, adding>>
  /\ UNCHANGED <<known, lazyVars, merged, announced, lastPub, hassVars>>

\* Faulty variant: the countdown stays when the appliance has started.
OverlayOnly(old, new) ==
  [f \in Fields |-> IF new[f] = Absent THEN old[f] ELSE new[f]]

\* Last known value wins, field by field; a fresh state other than RESERVE
\* retires the countdown as an empty string.
Overlay(old, new) ==
  [f \in Fields |->
     IF f = "reserve_countdown" /\ new["State"] \notin {Absent, "RESERVE"} THEN ""
     ELSE IF new[f] = Absent THEN old[f] ELSE new[f]]

ReadMerged(t) ==
  /\ at[t] = "read"
  /\ view' = [view EXCEPT ![t] = Overlay(merged, @)]
  /\ Step(t, "store")
  /\ UNCHANGED <<known, lazyVars, sinkVars, hassVars, dev, adding>>

StoreMerged(t) ==
  /\ at[t] = "store"
  /\ merged' = view[t]
  /\ Step(t, "announce")
  /\ UNCHANGED <<known, lazyVars, devByHa, announced, lastPub,
                 hassVars, dev, view, adding>>

\* Faulty variant: fields are announced the first time only.
AnnounceOnce(t) ==
  /\ at[t] = "announce"
  /\ IF announced # {}
       THEN Step(t, "dedupe") /\ UNCHANGED adding
       ELSE /\ adding' = [adding EXCEPT ![t] = Has(view[t])]
            /\ Step(t, "fields")
  /\ UNCHANGED <<known, lazyVars, sinkVars, hassVars, dev, view>>

\* A field that was not announced yet makes all of them be announced again.
ReadFields(t) ==
  /\ at[t] = "announce"
  /\ IF Has(view[t]) \subseteq announced
       THEN Step(t, "dedupe") /\ UNCHANGED adding
       ELSE /\ adding' = [adding EXCEPT ![t] = announced \cup Has(view[t])]
            /\ Step(t, "fields")
  /\ UNCHANGED <<known, lazyVars, sinkVars, hassVars, dev, view>>

StoreFields(t) ==
  /\ at[t] = "fields"
  /\ announced' = adding[t]
  /\ Step(t, "discover")
  /\ UNCHANGED <<known, lazyVars, devByHa, merged, lastPub,
                 hassVars, dev, view, adding>>

\* Discovery is retained per field, so what was announced before stays.
PublishDiscovery(t) ==
  /\ at[t] = "discover"
  /\ discovered' = discovered \cup adding[t]
  /\ adding' = [adding EXCEPT ![t] = {}]
  /\ Step(t, "dedupe")
  /\ UNCHANGED <<known, lazyVars, sinkVars, retained, dev, view>>

\* An unchanged state is not published again.
Dedupe(t) ==
  /\ at[t] = "dedupe"
  /\ IF lastPub = view[t]
       THEN Done(t)
       ELSE Step(t, "remember") /\ UNCHANGED <<dev, view, adding>>
  /\ UNCHANGED <<known, lazyVars, sinkVars, hassVars>>

Remember(t) ==
  /\ at[t] = "remember"
  /\ lastPub' = view[t]
  /\ Step(t, "publish")
  /\ UNCHANGED <<known, lazyVars, devByHa, merged, announced,
                 hassVars, dev, view, adding>>

\* The state has QoS 0: it is lost while the broker's connection is down.
PublishState(t) ==
  /\ at[t] = "publish"
  /\ retained' \in {retained, view[t]}
  /\ Done(t)
  /\ UNCHANGED <<known, lazyVars, sinkVars, discovered>>

-----------------------------------------------------------------------------
Event(t) == \/ \E d \in Devices : Report(t, d) \/ PumpFrame(t, d)
            \/ CloudEvent(t) \/ AgeTick(t)

SinkCall(t) ==
  \/ Ensure(t) \/ Connect(t) \/ Route(t) \/ ReadMerged(t) \/ StoreMerged(t)
  \/ ReadFields(t) \/ StoreFields(t) \/ PublishDiscovery(t)
  \/ Dedupe(t) \/ Remember(t) \/ PublishState(t)

Next == \E t \in Threads : Event(t) \/ SinkCall(t) \/ EnsureLocked(t)

Spec == Init /\ [][Next]_vars

\* The threads run, a connect to the broker ends one way or the other, and the
\* lock is not denied for ever to a thread that waits for it.
FairSpec ==
  Spec /\ \A t \in Threads : WF_vars(SinkCall(t)) /\ SF_vars(EnsureLocked(t))

-----------------------------------------------------------------------------
(* Properties. *)

\* However many threads call the sink before the broker is up, one MQTT client
\* is built while commands are not allowed: each client keeps a thread and a
\* connection of its own for good.
OneClient == ~allow => clients <= 1

\* What _LazySink's docstring says, "Behaves as _Sink once connected": a client
\* that has reached the broker has its sink, which publishes, at the latest when
\* the lock is free again.
SinkOnceConnected == clients > 0 => connected \/ connLock

\* No view of the appliance, neither the sink's nor the broker's, ever shows a
\* countdown together with a state that is not RESERVE, in any interleaving of
\* the threads that merge and publish: a state that runs has retired it.
CountdownFits ==
  \A v \in {merged, lastPub, retained} :
    /\ v["State"] = "RUN" => v["reserve_countdown"] = ""
    /\ v["reserve_countdown"] = "some" => v["State"] = "RESERVE"

\* Every field of the retained state has been announced to Home Assistant, or
\* there is a thread that is just about to: a field that another thread has
\* noted in _fields is not announced again, and may be shown before that thread
\* gets to its publication.
FieldsDiscovered ==
  Has(retained) \subseteq
    discovered \cup UNION {adding[t] : t \in {u \in Threads : at[u] = "discover"}}

\* Every payload is done with eventually: a broker that is down, an exception
\* while the sink is built, or another thread that is connecting does not hold
\* its thread for ever.
PayloadsEnd == \A t \in Threads : at[t] # "idle" ~> at[t] = "idle"
=============================================================================
