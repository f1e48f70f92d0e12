----------------------------- MODULE CommandPath -----------------------------
(***************************************************************************)
(* A command's way from Home Assistant to the appliance: the vocabulary of   *)
(* server/models/control_vocab.py, the discovery and the command topics of   *)
(* server/ha_mqtt.py, the subscription and _on_message of                    *)
(* server/mqtt_bridge.py, and send_command of the :47878 channel.            *)
(*                                                                         *)
(* One appliance model, so one ha_id.  Payloads of the model come with any   *)
(* of its device ids (StateSink has their sources and their threads; one     *)
(* thread is enough here) and each re-points the commands.  Of the channel   *)
(* only the set of registered ids is needed, as in RoutingTable.             *)
(***************************************************************************)
EXTENDS Naturals, Sequences, FiniteSets

CONSTANTS
  Devices,     \* the device ids the appliance has had
  CloudId,     \* the hash the cloud API knows it by
  Models,      \* the modelJsons to look at
  Allowed,     \* the settings of allow_control to look at
  Libraries,   \* the MQTT clients to look at: paho, and that of the tests
  Topics,      \* the entities that command topics may name
  Payloads,    \* what may be published on a command topic
  MaxChoices   \* bound: commands published

Ids  == Devices \cup {CloudId}
NoId == "-"

NoModel == {}  \* no modelJson was found: there are no actions

\* A modelJson is the set of its ControlWifi actions.  An action has its cmd, its
\* cmdOpt and the placeholders of its value template: [field, wire, options],
\* where options maps the values on the wire to labels.
ASSUME CommandAssumption ==
  /\ \A m \in Models : \A a \in m :
       /\ a.cmd \in BOOLEAN /\ a.cmdOpt \in {"Set", "Operation", "Power"}
       /\ \A f, g \in UNION {b.fields : b \in m} : f.field = g.field => f = g
  /\ Allowed \subseteq BOOLEAN /\ MaxChoices \in Nat
ASSUME LibrariesAssumption == Libraries \subseteq {"paho", "tests"}

-----------------------------------------------------------------------------
(* control_vocab. *)

Button == "-"

\* expand_entities: an entity per placeholder, or a button when there is none.
Expand(a) ==
  IF a.fields = {} THEN {[slug |-> a.name, wire |-> Button, options |-> <<>>]}
  ELSE {[slug |-> f.field, wire |-> f.wire, options |-> f.options] : f \in a.fields}

\* all_entities: only Set commands are published, so no physical actuation is.
AllEntities(m) == UNION {Expand(a) : a \in {b \in m : b.cmd /\ b.cmdOpt = "Set"}}

Reject == "reject"

\* Faulty variant: what is a value on the wire already is passed on.
ToWireRaw(e, p) ==
  IF p \in DOMAIN e.options THEN p
  ELSE LET w == {v \in DOMAIN e.options : e.options[v] = p}
       IN  IF w = {} THEN Reject ELSE CHOOSE v \in w : TRUE

\* to_wire: the wire value of the label, and nothing that is not a label.  A
\* button is rejected, and a field without options is passed on unless empty.
ToWire(e, p) ==
  LET w == {v \in DOMAIN e.options : e.options[v] = p}
  IN  IF e.wire = Button \/ (DOMAIN e.options = {} /\ p = "") THEN Reject
      ELSE IF DOMAIN e.options = {} THEN p
      ELSE IF w = {} THEN Reject ELSE CHOOSE v \in w : TRUE

-----------------------------------------------------------------------------
VARIABLES
  model, allow,  \* the model's actions and the setting, which do not change,
  library,       \* nor does the MQTT client
  link,          \* the broker connection is up
  subscribed,    \* the broker knows the subscription of this session
  reach,         \* the ids the channel has a connection for
  sink,          \* _LazySink._sink is there
  route,         \* _Sink._dev_by_ha
  entities,      \* _Sink._cmd_entities
  at, dev,       \* the thread that brings payloads, and its payload's id
  inbox,         \* what paho has received and not handled yet
  job,           \* what on_message is sending, or Idle
  choices,       \* history: the commands published, by number
  sent           \* history: what was written to the appliance

modelVars  == <<model, allow, library>>
brokerVars == <<link, subscribed>>
sinkVars   == <<sink, route, entities>>
ownVars    == <<at, dev>>
pahoVars   == <<inbox, job>>
history    == <<choices, sent>>
vars == <<modelVars, brokerVars, reach, sinkVars, ownVars, pahoVars, history>>

Idle == [id |-> 0]

Fields == UNION {UNION {a.fields : a \in m} : m \in Models}
Wires  == {f.wire : f \in Fields}
Values == Payloads \cup UNION {DOMAIN f.options : f \in Fields}
Choices  == [slug : Topics, payload : Payloads]
Jobs     == [id : Nat \ {0}, dev : Ids, wire : Wires, value : Values,
             found : BOOLEAN]
Sendings == [id : Nat \ {0}, dev : Ids, wire : Wires, value : Values]

TypeOK ==
  /\ model \in Models \cup {NoModel} /\ allow \in BOOLEAN
  /\ library \in {"paho", "tests"}
  /\ link \in BOOLEAN /\ subscribed \in BOOLEAN
  /\ reach \subseteq Devices
  /\ sink \in BOOLEAN
  /\ route \in Ids \cup {NoId} /\ dev \in Ids \cup {NoId}
  /\ entities \subseteq AllEntities(model)
  /\ at \in {"idle", "ensure", "route", "announce"}
  /\ inbox \in Seq(Nat \ {0})
  /\ job \in Jobs \cup {Idle}
  /\ choices \in Seq(Choices)
  /\ sent \in Seq(Sendings)

Init ==
  /\ model \in Models \cup {NoModel} /\ allow \in Allowed
  /\ library \in Libraries
  /\ link = FALSE /\ subscribed = FALSE
  /\ reach = {}
  /\ sink = FALSE /\ route = NoId /\ entities = {}
  /\ at = "idle" /\ dev = NoId
  /\ inbox = <<>> /\ job = Idle
  /\ choices = <<>> /\ sent = <<>>

-----------------------------------------------------------------------------
(* Payloads. *)

Payload(d) ==
  /\ at = "idle"
  /\ at' = "ensure" /\ dev' = d
  /\ UNCHANGED <<modelVars, brokerVars, reach, sinkVars, pahoVars, history>>

\* The filter "homeassistant/+/lgthinq_+/+/cmd" has a wildcard that is not alone
\* in its level.  paho refuses it, the client of the tests takes anything.
Refused == allow /\ library = "paho"

\* _LazySink: the first payload that finds the broker builds the sink, which
\* subscribes the command topics when commands are allowed.  A refused filter
\* raises there, as a broker that is down does before: there is no sink.
Ensure ==
  /\ at = "ensure"
  /\ \/ /\ sink /\ at' = "route"
        /\ UNCHANGED <<dev, sink, brokerVars>>
     \/ /\ ~sink /\ ~Refused /\ sink' = TRUE
        /\ link' = TRUE /\ subscribed' = allow
        /\ at' = "route"
        /\ UNCHANGED dev
     \/ /\ ~sink /\ at' = "idle" /\ dev' = NoId
        /\ UNCHANGED <<sink, brokerVars>>
  /\ UNCHANGED <<modelVars, reach, route, entities, pahoVars, history>>

\* The commands follow the payload's id.  Discovery is due when the payload has
\* fields that are new.
Route ==
  /\ at = "route"
  /\ route' = dev /\ dev' = NoId
  /\ at' \in {"announce", "idle"}
  /\ UNCHANGED <<modelVars, brokerVars, reach, sink, entities, pahoVars, history>>

\* _publish_command_discovery: on_message knows the entities from now on.
Announce ==
  /\ at = "announce"
  /\ entities' = IF allow /\ AllEntities(model) # {} THEN AllEntities(model)
                                                    ELSE entities
  /\ at' = "idle"
  /\ UNCHANGED <<modelVars, brokerVars, reach, sink, route, dev, pahoVars, history>>

-----------------------------------------------------------------------------
(* The broker, Home Assistant, the appliance, and a restart of the add-on. *)

\* Somebody publishes on a command topic, Home Assistant a label it was offered,
\* another client anything.  The message is not retained and has QoS 0: when the
\* bridge is not there for it, it is gone.
Choose(s, p) ==
  /\ Len(choices) < MaxChoices
  /\ choices' = Append(choices, [slug |-> s, payload |-> p])
  /\ inbox' = IF link /\ subscribed THEN Append(inbox, Len(choices) + 1) ELSE inbox
  /\ UNCHANGED <<modelVars, brokerVars, reach, sinkVars, ownVars, job, sent>>

\* The session is a clean one: it ends with the connection.
Drop ==
  /\ link
  /\ link' = FALSE /\ subscribed' = FALSE
  /\ UNCHANGED <<modelVars, reach, sinkVars, ownVars, pahoVars, history>>

\* paho reconnects.  Nobody subscribes again.
Reconnect ==
  /\ sink /\ ~link
  /\ link' = TRUE
  /\ UNCHANGED <<modelVars, subscribed, reach, sinkVars, ownVars, pahoVars, history>>

Register(d) == /\ reach' = reach \cup {d}
               /\ UNCHANGED <<modelVars, brokerVars, sinkVars, ownVars, pahoVars,
                              history>>
Leave(d)    == /\ d \in reach /\ reach' = reach \ {d}
               /\ UNCHANGED <<modelVars, brokerVars, sinkVars, ownVars, pahoVars,
                              history>>

\* The process starts anew.  Home Assistant still has the entities, as their
\* configurations are retained.
Restart ==
  /\ link' = FALSE /\ subscribed' = FALSE /\ reach' = {}
  /\ sink' = FALSE /\ route' = NoId /\ entities' = {}
  /\ at' = "idle" /\ dev' = NoId
  /\ inbox' = <<>> /\ job' = Idle
  /\ UNCHANGED <<modelVars, choices, sent>>

-----------------------------------------------------------------------------
(* _on_message, on the network thread of paho. *)

\* The entity, the id it goes to and the wire value are looked up; a command for
\* which one of them is missing is ignored.
Handle ==
  /\ job = Idle /\ inbox # <<>>
  /\ inbox' = Tail(inbox)
  /\ LET c  == choices[Head(inbox)]
         es == {e \in entities :
                  /\ e.slug = c.slug /\ route # NoId
                  /\ ToWire(e, c.payload) # Reject}
     IN  \/ es = {} /\ UNCHANGED job
         \/ \E e \in es :
              job' = [id |-> Head(inbox), dev |-> route, wire |-> e.wire,
                      value |-> ToWire(e, c.payload), found |-> FALSE]
  /\ UNCHANGED <<modelVars, brokerVars, reach, sinkVars, ownVars, history>>

\* Faulty variant: a command waits for its appliance to connect.
PushWaits ==
  /\ job # Idle /\ ~job.found /\ job.dev \in reach
  /\ job' = [job EXCEPT !.found = TRUE]
  /\ UNCHANGED <<modelVars, brokerVars, reach, sinkVars, ownVars, inbox, history>>

\* send_command and _push: an appliance that is not connected is told nothing.
Push ==
  /\ job # Idle /\ ~job.found
  /\ job' = IF allow /\ job.dev \in reach THEN [job EXCEPT !.found = TRUE] ELSE Idle
  /\ UNCHANGED <<modelVars, brokerVars, reach, sinkVars, ownVars, inbox, history>>

\* Faulty variant: a command that could not be sent is tried again later.
SendRetries ==
  /\ job # Idle /\ job.found
  /\ job' = Idle
  /\ \/ /\ sent' = Append(sent, [id |-> job.id, dev |-> job.dev,
                                 wire |-> job.wire, value |-> job.value])
        /\ UNCHANGED <<reach, inbox>>
     \/ /\ inbox' = Append(inbox, job.id)
        /\ UNCHANGED <<reach, sent>>
  /\ UNCHANGED <<modelVars, brokerVars, sinkVars, ownVars, choices>>

\* The send ends.  One that fails drops the route, unless the appliance has
\* connected anew meanwhile, and is not repeated.
Send ==
  /\ job # Idle /\ job.found
  /\ job' = Idle
  /\ \/ /\ sent' = Append(sent, [id |-> job.id, dev |-> job.dev,
                                 wire |-> job.wire, value |-> job.value])
        /\ UNCHANGED reach
     \/ /\ reach' \in {reach, reach \ {job.dev}}
        /\ UNCHANGED sent
  /\ UNCHANGED <<modelVars, brokerVars, sinkVars, ownVars, inbox, choices>>

-----------------------------------------------------------------------------
Ingest    == (\E d \in Ids : Payload(d)) \/ Ensure \/ Route \/ Announce
OnMessage == Handle \/ Push \/ Send
World     == \/ \E s \in Topics, p \in Payloads : Choose(s, p)
             \/ \E d \in Devices : Register(d) \/ Leave(d)
             \/ Drop \/ Reconnect \/ Restart

Next == Ingest \/ OnMessage \/ World
Spec == Init /\ [][Next]_vars

\* The network thread of paho runs, and a send ends one way or the other: the
\* sockets of the channel have a timeout.
FairSpec == Spec /\ WF_vars(OnMessage) /\ WF_vars(Reconnect)

-----------------------------------------------------------------------------
(* Properties. *)

\* What is written says a value of a field of a Set action of the model: the
\* one whose label was published, or what was published where the field has no
\* labels.
Fits(s, m, c) ==
  \E a \in m : \E f \in a.fields :
    /\ a.cmd /\ a.cmdOpt = "Set"
    /\ f.field = c.slug /\ f.wire = s.wire
    /\ IF DOMAIN f.options = {} THEN s.value = c.payload /\ s.value # ""
       ELSE s.value \in DOMAIN f.options /\ f.options[s.value] = c.payload

\* Whatever is published on the command topics, and however the bridge restarts
\* and loses its broker: an appliance is sent only what a Set command of its
\* model may hold, and nothing at all while commands are not allowed.
CommandsFit ==
  \A i \in DOMAIN sent : allow /\ Fits(sent[i], model, choices[sent[i].id])

\* Commands reach the appliances in the order they were chosen in, each once at
\* most: the last choice is what an appliance ends with.
ChoicesInOrder ==
  \A i, j \in DOMAIN sent : i < j => sent[i].id < sent[j].id

\* A command that has reached the bridge is sent or given up eventually, also
\* while its appliance is away.
CommandsEnd ==
  \A n \in 1 .. MaxChoices :
    (job.id = n \/ \E i \in DOMAIN inbox : inbox[i] = n)
      ~> (job.id # n /\ \A i \in DOMAIN inbox : inbox[i] # n)
=============================================================================
